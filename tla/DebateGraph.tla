---------------------------- MODULE DebateGraph ----------------------------
(***************************************************************************)
(* The decision graph (graph/setup.py, graph/conditional_logic.py and the  *)
(* nodes under agents/): analysts in sequence, each in a loop with its     *)
(* tools, the debate of Bull and Bear, the Research Manager, the Trader,   *)
(* the debate of the three risk analysts and the Portfolio Manager.        *)
(*                                                                         *)
(* A node is a model call; what it says is a choice: a tool call or not,   *)
(* text or the empty string.  An argument of a debate is the speaker and   *)
(* the number of his turn.  The debate states are rebuilt field by field   *)
(* at each turn, as in the code.                                           *)
(***************************************************************************)
EXTENDS Integers, Sequences, Filters

CONSTANT Setups     \* what graphs are compiled with: the analysts in order,
                    \* the rounds of either debate, and the recursion limit

VARIABLES
  setup,            \* one of Setups
  node,             \* the node that runs next, "END" or "failed"
  steps,            \* supersteps taken
  messages,         \* the conversation: who wrote, and does he call tools?
  reports,          \* market_report and the others, by analyst
  invest,           \* investment_debate_state
  risk,             \* risk_debate_state
  plans             \* investment_plan, trader_investment_plan, final_trade_decision

graphVars == <<setup, node, steps, messages, reports, invest, risk, plans>>

-----------------------------------------------------------------------------
Texts == {"", "text"}

\* ANALYST_NODE_SPECS.
Spec4(a, c, t) == [agent_node |-> a, clear_node |-> c, tool_node |-> t]
Specs == [market |-> Spec4("Market Analyst", "Msg Clear Market", "tools_market"),
          social |-> Spec4("Sentiment Analyst", "Msg Clear Sentiment", "tools_social"),
          news |-> Spec4("News Analyst", "Msg Clear News", "tools_news"),
          fundamentals |-> Spec4("Fundamentals Analyst", "Msg Clear Fundamentals",
                                 "tools_fundamentals")]
Keys == {"market", "social", "news", "fundamentals"}

Debaters == {"Bull Researcher", "Bear Researcher"}
RiskAnalysts == {"Aggressive Analyst", "Conservative Analyst", "Neutral Analyst"}
FixedNodes == Debaters \cup RiskAnalysts \cup {"Research Manager", "Trader", "Portfolio Manager"}
AnalystNodes == {Specs[k].agent_node : k \in Keys}
ClearNodes == {Specs[k].clear_node : k \in Keys}
ToolNodes == {Specs[k].tool_node : k \in Keys}
Running == FixedNodes \cup AnalystNodes \cup ClearNodes \cup ToolNodes
Nodes == Running \cup {"END", "failed"}

\* What build_analyst_execution_plan accepts, no analyst twice (a graph takes a
\* node once), and counts of rounds.
IsSetup(s) ==
  /\ s.plan \in Seq(Keys) /\ s.plan # <<>>
  /\ \A i, j \in DOMAIN s.plan : s.plan[i] = s.plan[j] => i = j
  /\ s.debateRounds \in Nat \ {0} /\ s.riskRounds \in Nat \ {0} /\ s.limit \in Nat

ASSUME SetupsAssumption == \A s \in Setups : IsSetup(s)

NoOne == [by |-> "", turn |-> 0]
Message(by, calls) == [by |-> by, calls |-> calls]

\* create_initial_state.
CreateInitialState ==
  /\ messages = <<Message("user", FALSE)>>
  /\ reports = [k \in Keys |-> ""]
  /\ invest = [history |-> <<>>, bull |-> <<>>, bear |-> <<>>, current |-> NoOne,
               judge |-> "", count |-> 0]
  /\ risk = [history |-> <<>>, aggressive |-> <<>>, conservative |-> <<>>, neutral |-> <<>>,
             latest |-> "", currentAggressive |-> NoOne, currentConservative |-> NoOne,
             currentNeutral |-> NoOne, judge |-> "", count |-> 0]
  /\ plans = [investment |-> "", trader |-> "", final |-> ""]

-----------------------------------------------------------------------------
(* The routers and the edges. *)

\* should_continue_market and its three siblings.
ShouldContinueAnalyst(k, msgs) ==
  IF msgs[Len(msgs)].calls THEN Specs[k].tool_node ELSE Specs[k].clear_node

\* Mutant: a round is one turn.
ShouldContinueDebateByTurns(state) ==
  IF state.count >= setup.debateRounds THEN "Research Manager"
  ELSE IF state.current.by = "Bull" THEN "Bear Researcher" ELSE "Bull Researcher"

ShouldContinueDebate(state) ==
  IF state.count >= 2 * setup.debateRounds THEN "Research Manager"
  ELSE IF state.current.by = "Bull" THEN "Bear Researcher" ELSE "Bull Researcher"

ShouldContinueRiskAnalysis(state) ==
  IF state.count >= 3 * setup.riskRounds THEN "Portfolio Manager"
  ELSE IF state.latest = "Aggressive" THEN "Conservative Analyst"
  ELSE IF state.latest = "Conservative" THEN "Neutral Analyst"
  ELSE "Aggressive Analyst"

\* The edges out of a clear node: the next analyst of the plan, or the debate.
AfterClear(k) ==
  LET i == CHOOSE i \in DOMAIN setup.plan : setup.plan[i] = k
  IN  IF i < Len(setup.plan) THEN Specs[setup.plan[i + 1]].agent_node ELSE "Bull Researcher"

-----------------------------------------------------------------------------
(* The analysts. *)

Report(k, calls, text) ==
  /\ node = Specs[k].agent_node
  /\ messages' = Append(messages, Message(k, calls))
  /\ reports' = [reports EXCEPT ![k] = IF calls THEN "" ELSE text]
  /\ node' = ShouldContinueAnalyst(k, messages')
  /\ UNCHANGED <<invest, risk, plans>>

MarketAnalyst == \E calls \in BOOLEAN, text \in Texts : Report("market", calls, text)
NewsAnalyst == \E calls \in BOOLEAN, text \in Texts : Report("news", calls, text)
FundamentalsAnalyst == \E calls \in BOOLEAN, text \in Texts : Report("fundamentals", calls, text)

\* The sentiment analyst has its data fetched before the call: no tools.
SentimentAnalyst == \E text \in Texts : Report("social", FALSE, text)

\* A tool node answers the calls of the last message.
RunTools(k) ==
  /\ node = Specs[k].tool_node
  /\ messages' = Append(messages, Message("tools", FALSE))
  /\ node' = Specs[k].agent_node
  /\ UNCHANGED <<reports, invest, risk, plans>>

\* Mutant: the placeholder is added to the conversation.
ClearMessagesNot(k) ==
  /\ node = Specs[k].clear_node
  /\ messages' = Append(messages, Message("user", FALSE))
  /\ node' = AfterClear(k)
  /\ UNCHANGED <<reports, invest, risk, plans>>

\* create_msg_delete: everything goes, a placeholder stays.
ClearMessages(k) ==
  /\ node = Specs[k].clear_node
  /\ messages' = <<Message("user", FALSE)>>
  /\ node' = AfterClear(k)
  /\ UNCHANGED <<reports, invest, risk, plans>>

-----------------------------------------------------------------------------
(* The debates. *)

BullResearcher ==
  LET argument == [by |-> "Bull", turn |-> invest.count + 1]
  IN  /\ node = "Bull Researcher"
      /\ invest' = [history |-> Append(invest.history, argument),
                    bull |-> Append(invest.bull, argument), bear |-> invest.bear,
                    current |-> argument, judge |-> "", count |-> invest.count + 1]
      /\ node' = ShouldContinueDebate(invest')
      /\ UNCHANGED <<messages, reports, risk, plans>>

\* Mutant: the arguments of the other side are not carried over.
BearResearcherAlone ==
  LET argument == [by |-> "Bear", turn |-> invest.count + 1]
  IN  /\ node = "Bear Researcher"
      /\ invest' = [history |-> Append(invest.history, argument),
                    bull |-> <<>>, bear |-> Append(invest.bear, argument),
                    current |-> argument, judge |-> "", count |-> invest.count + 1]
      /\ node' = ShouldContinueDebate(invest')
      /\ UNCHANGED <<messages, reports, risk, plans>>

BearResearcher ==
  LET argument == [by |-> "Bear", turn |-> invest.count + 1]
  IN  /\ node = "Bear Researcher"
      /\ invest' = [history |-> Append(invest.history, argument),
                    bull |-> invest.bull, bear |-> Append(invest.bear, argument),
                    current |-> argument, judge |-> "", count |-> invest.count + 1]
      /\ node' = ShouldContinueDebate(invest')
      /\ UNCHANGED <<messages, reports, risk, plans>>

\* invoke_structured_or_freetext: a structured answer is rendered, which is
\* never empty; a plain one may be.
InvokeStructuredOrFreetext == Texts

ResearchManager(text) ==
  /\ node = "Research Manager"
  /\ invest' = [invest EXCEPT !.judge = text, !.current = [by |-> "Manager", turn |-> @.turn]]
  /\ plans' = [plans EXCEPT !.investment = text]
  /\ node' = "Trader"
  /\ UNCHANGED <<messages, reports, risk>>

Trader(text) ==
  /\ node = "Trader"
  /\ messages' = Append(messages, Message("Trader", FALSE))
  /\ plans' = [plans EXCEPT !.trader = text]
  /\ node' = "Aggressive Analyst"
  /\ UNCHANGED <<reports, invest, risk>>

AggressiveAnalyst ==
  LET argument == [by |-> "Aggressive", turn |-> risk.count + 1]
  IN  /\ node = "Aggressive Analyst"
      /\ risk' = [history |-> Append(risk.history, argument),
                  aggressive |-> Append(risk.aggressive, argument),
                  conservative |-> risk.conservative, neutral |-> risk.neutral,
                  latest |-> "Aggressive", currentAggressive |-> argument,
                  currentConservative |-> risk.currentConservative,
                  currentNeutral |-> risk.currentNeutral,
                  judge |-> "", count |-> risk.count + 1]
      /\ node' = ShouldContinueRiskAnalysis(risk')
      /\ UNCHANGED <<messages, reports, invest, plans>>

ConservativeAnalyst ==
  LET argument == [by |-> "Conservative", turn |-> risk.count + 1]
  IN  /\ node = "Conservative Analyst"
      /\ risk' = [history |-> Append(risk.history, argument),
                  aggressive |-> risk.aggressive,
                  conservative |-> Append(risk.conservative, argument),
                  neutral |-> risk.neutral,
                  latest |-> "Conservative", currentAggressive |-> risk.currentAggressive,
                  currentConservative |-> argument,
                  currentNeutral |-> risk.currentNeutral,
                  judge |-> "", count |-> risk.count + 1]
      /\ node' = ShouldContinueRiskAnalysis(risk')
      /\ UNCHANGED <<messages, reports, invest, plans>>

NeutralAnalyst ==
  LET argument == [by |-> "Neutral", turn |-> risk.count + 1]
  IN  /\ node = "Neutral Analyst"
      /\ risk' = [history |-> Append(risk.history, argument),
                  aggressive |-> risk.aggressive, conservative |-> risk.conservative,
                  neutral |-> Append(risk.neutral, argument),
                  latest |-> "Neutral", currentAggressive |-> risk.currentAggressive,
                  currentConservative |-> risk.currentConservative,
                  currentNeutral |-> argument,
                  judge |-> "", count |-> risk.count + 1]
      /\ node' = ShouldContinueRiskAnalysis(risk')
      /\ UNCHANGED <<messages, reports, invest, plans>>

PortfolioManager(text) ==
  /\ node = "Portfolio Manager"
  /\ risk' = [risk EXCEPT !.judge = text, !.latest = "Judge"]
  /\ plans' = [plans EXCEPT !.final = text]
  /\ node' = "END"
  /\ UNCHANGED <<messages, reports, invest>>

-----------------------------------------------------------------------------
NodeRuns ==
  \/ MarketAnalyst \/ SentimentAnalyst \/ NewsAnalyst \/ FundamentalsAnalyst
  \/ \E k \in Keys \ {"social"} : RunTools(k)
  \/ \E k \in Keys : ClearMessages(k)
  \/ BullResearcher \/ BearResearcher
  \/ \E text \in InvokeStructuredOrFreetext :
       ResearchManager(text) \/ Trader(text) \/ PortfolioManager(text)
  \/ AggressiveAnalyst \/ ConservativeAnalyst \/ NeutralAnalyst

\* get_graph_args: a run that has not ended after recursion_limit steps ends
\* with an error.
Superstep ==
  /\ steps < setup.limit
  /\ steps' = steps + 1
  /\ UNCHANGED setup
  /\ NodeRuns

\* A model call or a tool raises, or the steps are used up.
GraphFails ==
  /\ node \in Running \ ClearNodes \/ (node \in Running /\ steps = setup.limit)
  /\ node' = "failed"
  /\ UNCHANGED <<setup, steps, messages, reports, invest, risk, plans>>

GraphInit ==
  /\ setup \in Setups
  /\ node = Specs[setup.plan[1]].agent_node
  /\ steps = 0
  /\ CreateInitialState

GraphNext == Superstep \/ GraphFails

GraphSpec == GraphInit /\ [][GraphNext]_graphVars

-----------------------------------------------------------------------------
Arguments == [by : {"Bull", "Bear", "Aggressive", "Conservative", "Neutral"}, turn : Nat \ {0}]
Invests == [history : Seq(Arguments), bull : Seq(Arguments), bear : Seq(Arguments),
            current : [by : STRING, turn : Nat], judge : Texts, count : Nat]
Risks == [history : Seq(Arguments), aggressive : Seq(Arguments),
          conservative : Seq(Arguments), neutral : Seq(Arguments), latest : STRING,
          currentAggressive : Arguments \cup {NoOne},
          currentConservative : Arguments \cup {NoOne},
          currentNeutral : Arguments \cup {NoOne}, judge : Texts, count : Nat]

\* The state of the graph keeps its type, a conversation is never empty, and
\* the analyst at work is one of the plan.
GraphTypeOK ==
  /\ node \in Nodes
  /\ steps \in 0 .. setup.limit
  /\ messages \in Seq([by : STRING, calls : BOOLEAN]) /\ messages # <<>>
  /\ reports \in [Keys -> Texts]
  /\ invest \in Invests /\ risk \in Risks
  /\ plans \in [{"investment", "trader", "final"} -> Texts]
  /\ \A k \in Keys :
       node \in {Specs[k].agent_node, Specs[k].tool_node, Specs[k].clear_node} =>
         \E i \in DOMAIN setup.plan : setup.plan[i] = k

\* max_debate_rounds and max_risk_discuss_rounds count turns of everybody: when
\* a manager judges, each side has spoken in each round.
BothSidesAreHeard ==
  /\ node = "Research Manager" =>
       Len(invest.bull) = setup.debateRounds /\ Len(invest.bear) = setup.debateRounds
  /\ node = "Portfolio Manager" =>
       \A said \in {risk.aggressive, risk.conservative, risk.neutral} :
         Len(said) = setup.riskRounds

\* The last argument of a speaker, as the prompts of the others quote it.
Latest(said) == IF said = <<>> THEN NoOne ELSE said[Len(said)]

\* The arguments of one speaker in a history.
SaidBy(who, history) == KeepOnly(history, [by : {who}, turn : Nat])

\* Each node rebuilds the state of its debate by hand: no argument is lost, or
\* moved to another speaker, on the way through the others' copies, and what
\* a speaker is said to have said last is what he said last.
NothingIsForgotten ==
  /\ \A b \in {[who |-> "Bull", said |-> invest.bull], [who |-> "Bear", said |-> invest.bear]} :
       b.said = SaidBy(b.who, invest.history)
  /\ \A b \in {[who |-> "Aggressive", said |-> risk.aggressive, last |-> risk.currentAggressive],
               [who |-> "Conservative", said |-> risk.conservative,
                last |-> risk.currentConservative],
               [who |-> "Neutral", said |-> risk.neutral, last |-> risk.currentNeutral]} :
       /\ b.said = SaidBy(b.who, risk.history)
       /\ b.last = Latest(b.said)
  /\ \A i \in DOMAIN invest.history : invest.history[i].turn = i
  /\ \A i \in DOMAIN risk.history : risk.history[i].turn = i

\* Msg Clear gives each analyst a conversation of his own: nothing an analyst
\* before him, or his tools, said is in it.
ConversationsAreOwn ==
  \A k \in Keys :
    /\ node \in {Specs[k].agent_node, Specs[k].tool_node, Specs[k].clear_node} =>
         \A i \in DOMAIN messages : messages[i].by \in {"user", "tools", k}
    /\ node = Specs[k].agent_node /\ Len(messages) > 1 =>
         \E i \in DOMAIN messages : messages[i] = Message(k, TRUE)
=============================================================================
