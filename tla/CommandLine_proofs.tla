------------------------- MODULE CommandLine_proofs -------------------------
(***************************************************************************)
(* For every choice of analysts and every number of rounds: when a manager *)
(* judges, each side has spoken in each round, no analyst sees the         *)
(* conversation of another, and no argument is lost; and what the command  *)
(* line shows of a run is true of it.                                      *)
(*                                                                         *)
(* The argument for the rounds: the turns alternate, so that the node that *)
(* runs next says how many turns each side has had.  For conversations:    *)
(* the nodes of an analyst are left for another's by Msg Clear alone.  For *)
(* the display: texts are never taken back, as no node runs again once its *)
(* text is there.                                                          *)
(***************************************************************************)
EXTENDS CommandLine, Filters_proofs, SequenceTheorems

Working == AnalystNodes \cup ToolNodes \cup ClearNodes
NodesOf(k) == {Specs[k].agent_node, Specs[k].tool_node, Specs[k].clear_node}

PlanInv ==
  /\ IsSetup(setup)
  /\ node \in Nodes
  /\ \A k \in Keys : node \in NodesOf(k) => \E i \in DOMAIN setup.plan : setup.plan[i] = k

\* Turns of Bull and Bear, and of the three risk analysts.
InvestInv ==
  /\ invest.bull \in Seq(Arguments) /\ invest.bear \in Seq(Arguments)
  /\ invest.count = Len(invest.bull) + Len(invest.bear)
  /\ node \in Working => Len(invest.bull) = 0 /\ Len(invest.bear) = 0
  /\ node \in Debaters => invest.count < 2 * setup.debateRounds
  /\ node = "Bull Researcher" => Len(invest.bull) = Len(invest.bear)
  /\ node = "Bear Researcher" => Len(invest.bull) = Len(invest.bear) + 1
  /\ node = "Research Manager" =>
       Len(invest.bull) = setup.debateRounds /\ Len(invest.bear) = setup.debateRounds

RiskInv ==
  /\ risk.aggressive \in Seq(Arguments) /\ risk.conservative \in Seq(Arguments)
  /\ risk.neutral \in Seq(Arguments)
  /\ risk.count = Len(risk.aggressive) + Len(risk.conservative) + Len(risk.neutral)
  /\ node \in Working \cup Debaters \cup {"Research Manager", "Trader"} => risk.count = 0
  /\ node \in RiskAnalysts => risk.count < 3 * setup.riskRounds
  /\ node = "Aggressive Analyst" =>
       Len(risk.aggressive) = Len(risk.neutral) /\ Len(risk.conservative) = Len(risk.neutral)
  /\ node = "Conservative Analyst" =>
       Len(risk.aggressive) = Len(risk.neutral) + 1 /\ Len(risk.conservative) = Len(risk.neutral)
  /\ node = "Neutral Analyst" =>
       /\ Len(risk.aggressive) = Len(risk.neutral) + 1
       /\ Len(risk.conservative) = Len(risk.neutral) + 1
  /\ node = "Portfolio Manager" =>
       /\ Len(risk.aggressive) = setup.riskRounds /\ Len(risk.conservative) = setup.riskRounds
       /\ Len(risk.neutral) = setup.riskRounds

Messages == [by : Keys \cup {"user", "tools", "Trader"}, calls : BOOLEAN]

\* The tools of an analyst are run for a call of his.
ConversationInv ==
  /\ messages \in Seq(Messages) /\ messages # <<>>
  /\ \A k \in Keys : node = Specs[k].tool_node => messages[Len(messages)] = Message(k, TRUE)
  /\ ConversationsAreOwn

GraphInv == PlanInv /\ InvestInv /\ RiskInv /\ ConversationInv

-----------------------------------------------------------------------------
\* The nodes of the analysts by name.
LEMMA NodeNames ==
  /\ NodesOf("market") = {"Market Analyst", "tools_market", "Msg Clear Market"}
  /\ NodesOf("social") = {"Sentiment Analyst", "tools_social", "Msg Clear Sentiment"}
  /\ NodesOf("news") = {"News Analyst", "tools_news", "Msg Clear News"}
  /\ NodesOf("fundamentals") =
       {"Fundamentals Analyst", "tools_fundamentals", "Msg Clear Fundamentals"}
BY DEF NodesOf, Specs, Spec4

\* No node belongs to two analysts or has two roles, and none of them is one
\* of the debates'.
LEMMA NodesApart ==
  /\ \A k, l \in Keys : k # l => NodesOf(k) \cap NodesOf(l) = {}
  /\ \A k \in Keys : /\ Specs[k].agent_node # Specs[k].tool_node
                     /\ Specs[k].agent_node # Specs[k].clear_node
                     /\ Specs[k].tool_node # Specs[k].clear_node
                     /\ NodesOf(k) \subseteq Working
                     /\ NodesOf(k) \cap (FixedNodes \cup {"END", "failed"}) = {}
  /\ Working \subseteq UNION {NodesOf(k) : k \in Keys}
  /\ Working \subseteq Nodes /\ FixedNodes \subseteq Nodes
<1>1. \A k, l \in Keys : k # l => NodesOf(k) \cap NodesOf(l) = {}
  <2> SUFFICES ASSUME NEW k \in Keys, NEW l \in Keys, NEW x \in NodesOf(k), x \in NodesOf(l)
              PROVE  k = l
    OBVIOUS
  <2>1. CASE k = "market" BY <2>1, NodeNames DEF Keys
  <2>2. CASE k = "social" BY <2>2, NodeNames DEF Keys
  <2>3. CASE k = "news" BY <2>3, NodeNames DEF Keys
  <2>4. CASE k = "fundamentals" BY <2>4, NodeNames DEF Keys
  <2> QED BY <2>1, <2>2, <2>3, <2>4 DEF Keys
<1>2. \A k \in Keys : /\ Specs[k].agent_node # Specs[k].tool_node
                      /\ Specs[k].agent_node # Specs[k].clear_node
                      /\ Specs[k].tool_node # Specs[k].clear_node
  <2> DEFINE Apart(k) == /\ Specs[k].agent_node # Specs[k].tool_node
                         /\ Specs[k].agent_node # Specs[k].clear_node
                         /\ Specs[k].tool_node # Specs[k].clear_node
  <2>1. Apart("market") BY DEF Specs, Spec4
  <2>2. Apart("social") BY DEF Specs, Spec4
  <2>3. Apart("news") BY DEF Specs, Spec4
  <2>4. Apart("fundamentals") BY DEF Specs, Spec4
  <2> HIDE DEF Apart
  <2>5. \A k \in Keys : Apart(k) BY <2>1, <2>2, <2>3, <2>4 DEF Keys
  <2> QED BY <2>5 DEF Apart
<1>3. \A k \in Keys : NodesOf(k) \subseteq Working
  BY DEF NodesOf, Working, AnalystNodes, ToolNodes, ClearNodes
<1>4. \A k \in Keys : NodesOf(k) \cap (FixedNodes \cup {"END", "failed"}) = {}
  BY NodeNames DEF Keys, FixedNodes, Debaters, RiskAnalysts
<1>5. Working \subseteq UNION {NodesOf(k) : k \in Keys}
  BY DEF NodesOf, Working, AnalystNodes, ToolNodes, ClearNodes
<1>6. Working \subseteq Nodes /\ FixedNodes \subseteq Nodes
  BY DEF Working, Nodes, Running
<1> QED BY <1>1, <1>2, <1>3, <1>4, <1>5, <1>6

\* After an analyst comes another one of the plan, or the debate.
LEMMA AfterClearFacts ==
  ASSUME NEW k \in Keys, IsSetup(setup), NEW i \in DOMAIN setup.plan, setup.plan[i] = k
  PROVE  \/ AfterClear(k) = "Bull Researcher"
         \/ \E j \in DOMAIN setup.plan :
              setup.plan[j] \in Keys /\ AfterClear(k) = Specs[setup.plan[j]].agent_node
<1> DEFINE c == CHOOSE c \in DOMAIN setup.plan : setup.plan[c] = k
<1>1. c \in DOMAIN setup.plan OBVIOUS
<1>2. setup.plan \in Seq(Keys) BY DEF IsSetup
<1>3. AfterClear(k) = IF c < Len(setup.plan) THEN Specs[setup.plan[c + 1]].agent_node
                      ELSE "Bull Researcher"
  BY DEF AfterClear
<1> HIDE DEF c
<1>4. CASE c < Len(setup.plan)
  <2>1. c + 1 \in DOMAIN setup.plan /\ setup.plan[c + 1] \in Keys BY <1>1, <1>2, <1>4
  <2> QED BY <1>3, <1>4, <2>1
<1> QED BY <1>3, <1>4

-----------------------------------------------------------------------------
(* The analysts. *)

\* Where nothing is said in a debate, the turns stay what they were.
LEMMA AtWork ==
  ASSUME GraphInv, NEW k \in Keys, node \in NodesOf(k), setup' = setup, invest' = invest,
         risk' = risk, NEW l \in Keys, node' \in NodesOf(l),
         \E i \in DOMAIN setup.plan : setup.plan[i] = l
  PROVE  PlanInv' /\ InvestInv' /\ RiskInv'
<1>1. /\ node \in Working /\ node' \in Working /\ node' \in Nodes
      /\ node' \notin FixedNodes /\ node' \notin {"END", "failed"}
  BY NodesApart
<1>2. PlanInv'
  <2>1. ASSUME NEW m \in Keys, node' \in NodesOf(m) PROVE m = l BY <2>1, NodesApart
  <2> QED BY <1>1, <2>1 DEF GraphInv, PlanInv
<1>3. InvestInv'
  BY <1>1 DEF GraphInv, InvestInv, FixedNodes, Debaters
<1>4. RiskInv'
  BY <1>1 DEF GraphInv, RiskInv, FixedNodes, RiskAnalysts, Debaters
<1> QED BY <1>2, <1>3, <1>4

\* Outside the nodes of the analysts any conversation will do.
LEMMA Elsewhere ==
  ASSUME node' \in FixedNodes \cup {"END", "failed"},
         messages' \in Seq(Messages), messages' # <<>>
  PROVE  ConversationInv'
<1>1. \A k \in Keys : node' \notin NodesOf(k) BY NodesApart
<1> QED BY <1>1 DEF ConversationInv, ConversationsAreOwn, NodesOf

\* An analyst reports or calls his tools.
LEMMA ReportStep ==
  ASSUME GraphInv, NEW k \in Keys, NEW calls \in BOOLEAN, NEW text \in Texts,
         setup' = setup, Report(k, calls, text)
  PROVE  GraphInv'
<1> DEFINE said == Message(k, calls)
<1>1. /\ node = Specs[k].agent_node /\ messages' = Append(messages, said)
      /\ node' = ShouldContinueAnalyst(k, messages') /\ invest' = invest /\ risk' = risk
  BY DEF Report
<1>2. messages \in Seq(Messages) /\ messages # <<>> BY DEF GraphInv, ConversationInv
<1>3. said \in Messages /\ said.by = k /\ said.calls = calls BY DEF Message, Messages, Keys
<1> HIDE DEF said
<1>4. /\ messages' \in Seq(Messages) /\ messages' # <<>> /\ Len(messages') = Len(messages) + 1
      /\ messages'[Len(messages')] = said
      /\ \A i \in 1 .. Len(messages) : messages'[i] = messages[i]
  BY <1>1, <1>2, <1>3
<1>5. node' = IF calls THEN Specs[k].tool_node ELSE Specs[k].clear_node
  BY <1>1, <1>3, <1>4 DEF ShouldContinueAnalyst
<1>6. node \in NodesOf(k) /\ node' \in NodesOf(k) BY <1>1, <1>5 DEF NodesOf
<1>7. \E i \in DOMAIN setup.plan : setup.plan[i] = k BY <1>6 DEF GraphInv, PlanInv
<1>8. PlanInv' /\ InvestInv' /\ RiskInv' BY <1>1, <1>6, <1>7, AtWork
<1>9. ConversationInv'
  <2>1. ASSUME NEW l \in Keys, node' = Specs[l].tool_node
        PROVE  messages'[Len(messages')] = Message(l, TRUE)
    <3>1. l = k BY <1>6, <2>1, NodesApart DEF NodesOf
    <3>2. calls = TRUE BY <1>5, <2>1, <3>1, NodesApart
    <3> QED BY <1>4, <3>1, <3>2 DEF said
  <2>2. ASSUME NEW l \in Keys, node' \in NodesOf(l), NEW i \in DOMAIN messages'
        PROVE  messages'[i].by \in {"user", "tools", l}
    <3>1. l = k BY <1>6, <2>2, NodesApart
    <3>2. i \in 1 .. Len(messages) \/ i = Len(messages') BY <1>2, <1>4
    <3>3. \A j \in 1 .. Len(messages) : messages[j].by \in {"user", "tools", k}
      <4>1. \A j \in DOMAIN messages : messages[j].by \in {"user", "tools", k}
        BY <1>6 DEF GraphInv, ConversationInv, ConversationsAreOwn, NodesOf
      <4> QED BY <1>2, <4>1
    <3> QED BY <1>3, <1>4, <3>1, <3>2, <3>3
  <2>3. \A l \in Keys : node' # Specs[l].agent_node
    BY <1>5, <1>6, NodesApart DEF NodesOf
  <2> QED BY <1>4, <2>1, <2>2, <2>3 DEF ConversationInv, ConversationsAreOwn, NodesOf
<1> QED BY <1>8, <1>9 DEF GraphInv

\* The tools answer, and the analyst goes on.
LEMMA ToolsStep ==
  ASSUME GraphInv, NEW k \in Keys, setup' = setup, RunTools(k)
  PROVE  GraphInv'
<1> DEFINE said == Message("tools", FALSE)
<1>1. /\ node = Specs[k].tool_node /\ messages' = Append(messages, said)
      /\ node' = Specs[k].agent_node /\ invest' = invest /\ risk' = risk
  BY DEF RunTools
<1>2. messages \in Seq(Messages) /\ messages # <<>> BY DEF GraphInv, ConversationInv
<1>3. said \in Messages /\ said.by = "tools" BY DEF Message, Messages
<1> HIDE DEF said
<1>4. /\ messages' \in Seq(Messages) /\ messages' # <<>> /\ Len(messages') = Len(messages) + 1
      /\ messages'[Len(messages')] = said
      /\ \A i \in 1 .. Len(messages) : messages'[i] = messages[i]
  BY <1>1, <1>2, <1>3
<1>5. node \in NodesOf(k) /\ node' \in NodesOf(k) BY <1>1 DEF NodesOf
<1>6. \E i \in DOMAIN setup.plan : setup.plan[i] = k BY <1>5 DEF GraphInv, PlanInv
<1>7. PlanInv' /\ InvestInv' /\ RiskInv' BY <1>1, <1>5, <1>6, AtWork
<1>8. ConversationInv'
  <2>1. \A l \in Keys : node' # Specs[l].tool_node BY <1>1, <1>5, NodesApart DEF NodesOf
  <2>2. ASSUME NEW l \in Keys, node' \in NodesOf(l), NEW i \in DOMAIN messages'
        PROVE  messages'[i].by \in {"user", "tools", l}
    <3>1. l = k BY <1>5, <2>2, NodesApart
    <3>2. i \in 1 .. Len(messages) \/ i = Len(messages') BY <1>2, <1>4
    <3>3. \A j \in 1 .. Len(messages) : messages[j].by \in {"user", "tools", k}
      <4>1. \A j \in DOMAIN messages : messages[j].by \in {"user", "tools", k}
        BY <1>5 DEF GraphInv, ConversationInv, ConversationsAreOwn, NodesOf
      <4> QED BY <1>2, <4>1
    <3> QED BY <1>3, <1>4, <3>1, <3>2, <3>3
  <2>3. ASSUME NEW l \in Keys, node' = Specs[l].agent_node
        PROVE  \E i \in DOMAIN messages' : messages'[i] = Message(l, TRUE)
    <3>1. l = k BY <1>5, <2>3, NodesApart DEF NodesOf
    <3>2. messages[Len(messages)] = Message(k, TRUE)
      BY <1>1 DEF GraphInv, ConversationInv
    <3>3. Len(messages) \in 1 .. Len(messages) /\ Len(messages) \in DOMAIN messages'
      BY <1>2, <1>4
    <3> QED BY <1>4, <3>1, <3>2, <3>3
  <2> QED BY <1>4, <2>1, <2>2, <2>3 DEF ConversationInv, ConversationsAreOwn, NodesOf
<1> QED BY <1>7, <1>8 DEF GraphInv

\* Msg Clear hands over to the next analyst, or to the debate.
LEMMA ClearStep ==
  ASSUME GraphInv, NEW k \in Keys, setup' = setup, ClearMessages(k)
  PROVE  GraphInv'
<1>1. /\ node = Specs[k].clear_node /\ messages' = <<Message("user", FALSE)>>
      /\ node' = AfterClear(k) /\ invest' = invest /\ risk' = risk
  BY DEF ClearMessages
<1>2. node \in NodesOf(k) /\ node \in Working BY <1>1, NodesApart DEF NodesOf
<1>3. PICK i \in DOMAIN setup.plan : setup.plan[i] = k BY <1>2 DEF GraphInv, PlanInv
<1>4. IsSetup(setup) /\ setup.debateRounds \in Nat \ {0}
  BY DEF GraphInv, PlanInv, IsSetup
<1>5. /\ messages' \in Seq(Messages) /\ messages' # <<>>
      /\ Len(messages') = 1 /\ \A j \in DOMAIN messages' : messages'[j].by = "user"
  <2> DEFINE said == Message("user", FALSE)
  <2>1. said \in Messages /\ said.by = "user" BY DEF Message, Messages
  <2>2. messages' = <<said>> BY <1>1
  <2> HIDE DEF said
  <2>3. messages' \in Seq(Messages) /\ Len(messages') = 1 /\ messages'[1] = said
    BY <2>1, <2>2
  <2> QED BY <2>1, <2>3
<1>6. CASE AfterClear(k) = "Bull Researcher"
  <2>1. node' \in FixedNodes /\ node' \in Nodes /\ node' \notin Working
    BY <1>1, <1>6, NodesApart DEF FixedNodes, Debaters
  <2>2. ConversationInv' BY <1>5, <2>1, Elsewhere
  <2>3. PlanInv' BY <1>4, <2>1, NodesApart DEF PlanInv
  <2>4. InvestInv'
    <3>0. InvestInv BY DEF GraphInv
    <3>1. Len(invest.bull) = 0 /\ Len(invest.bear) = 0 /\ invest.count = 0
      <4>1. Len(invest.bull) = 0 /\ Len(invest.bear) = 0 BY <1>2, <3>0 DEF InvestInv
      <4>2. invest.count = Len(invest.bull) + Len(invest.bear) BY <3>0 DEF InvestInv
      <4> QED BY <4>1, <4>2
    <3>2. 0 < 2 * setup.debateRounds BY <1>4
    <3> QED BY <1>1, <1>6, <2>1, <3>1, <3>2 DEF GraphInv, InvestInv
  <2>5. RiskInv'
    BY <1>1, <1>2, <1>6, <2>1 DEF GraphInv, RiskInv, RiskAnalysts
  <2> QED BY <2>2, <2>3, <2>4, <2>5 DEF GraphInv
<1>7. CASE \E j \in DOMAIN setup.plan :
             setup.plan[j] \in Keys /\ AfterClear(k) = Specs[setup.plan[j]].agent_node
  <2>1. PICK j \in DOMAIN setup.plan :
          setup.plan[j] \in Keys /\ AfterClear(k) = Specs[setup.plan[j]].agent_node
    BY <1>7
  <2> DEFINE l == setup.plan[j]
  <2>2. l \in Keys /\ node' = Specs[l].agent_node BY <1>1, <2>1
  <2>3. \E n \in DOMAIN setup.plan : setup.plan[n] = l BY <2>1
  <2> HIDE DEF l
  <2>4. node' \in NodesOf(l) BY <2>2 DEF NodesOf
  <2>5. PlanInv' /\ InvestInv' /\ RiskInv' BY <1>1, <1>2, <2>2, <2>3, <2>4, AtWork
  <2>6. \A m \in Keys : node' # Specs[m].tool_node BY <2>2, <2>4, NodesApart DEF NodesOf
  <2>7. ConversationInv'
    <3>1. \A m \in Keys, x \in DOMAIN messages' : messages'[x].by \in {"user", "tools", m}
      BY <1>5
    <3>2. ~(Len(messages') > 1) BY <1>5
    <3> QED BY <1>5, <2>6, <3>1, <3>2 DEF ConversationInv, ConversationsAreOwn
  <2> QED BY <2>5, <2>7 DEF GraphInv
<1> QED BY <1>3, <1>4, <1>6, <1>7, AfterClearFacts

-----------------------------------------------------------------------------
(* The debates. *)

\* A graph is compiled with at least one round of each debate.
LEMMA Rounds ==
  GraphInv => setup.debateRounds \in Nat \ {0} /\ setup.riskRounds \in Nat \ {0}
BY DEF GraphInv, PlanInv, IsSetup

\* A turn makes a list of arguments one longer.
LEMMA OneMore ==
  ASSUME NEW said \in Seq(Arguments), NEW x \in Arguments
  PROVE  Append(said, x) \in Seq(Arguments) /\ Len(Append(said, x)) = Len(said) + 1
OBVIOUS

\* Outside the analysts the plan is behind, and the conversation kept.
LEMMA Beyond ==
  ASSUME GraphInv, setup' = setup, messages' = messages,
         node' \in FixedNodes \cup {"END", "failed"}
  PROVE  PlanInv' /\ ConversationInv' /\ node' \notin Working
<1>1. \A k \in Keys : node' \notin NodesOf(k) BY NodesApart
<1>2. node' \notin Working BY <1>1, NodesApart
<1>3. node' \in Nodes BY NodesApart DEF Nodes
<1>4. PlanInv' BY <1>1, <1>3 DEF GraphInv, PlanInv
<1>5. messages \in Seq(Messages) /\ messages # <<>> BY DEF GraphInv, ConversationInv
<1>6. ConversationInv' BY <1>5, Elsewhere
<1> QED BY <1>2, <1>4, <1>6

\* While the debate of Bull and Bear goes on, that of the risk analysts has not
\* begun.
LEMMA RiskNotBegun ==
  ASSUME GraphInv, node \in Debaters \cup {"Research Manager"}, risk' = risk, setup' = setup,
         node' \in Debaters \cup {"Research Manager", "Trader"}
  PROVE  RiskInv'
BY DEF GraphInv, RiskInv, Debaters, RiskAnalysts

\* A turn of Bull.
LEMMA BullStep == ASSUME GraphInv, setup' = setup, BullResearcher PROVE GraphInv'
<1> DEFINE argument == [by |-> "Bull", turn |-> invest.count + 1]
           b == Len(invest.bull)
           c == Len(invest.bear)
           n == invest.count
           r == setup.debateRounds
<1>1. /\ node = "Bull Researcher" /\ messages' = messages /\ risk' = risk
      /\ invest'.bull = Append(invest.bull, argument) /\ invest'.bear = invest.bear
      /\ invest'.count = n + 1 /\ invest'.current = argument
      /\ node' = ShouldContinueDebate(invest')
  BY DEF BullResearcher
<1>2. /\ invest.bull \in Seq(Arguments) /\ invest.bear \in Seq(Arguments)
      /\ n = b + c /\ b = c /\ n < 2 * r
  BY <1>1 DEF GraphInv, InvestInv, Debaters
<1>3. b \in Nat /\ c \in Nat /\ r \in Nat BY <1>2, Rounds
<1> HIDE DEF argument, b, c, n, r
<1>4. n \in Nat /\ n + 1 < 2 * r /\ n + 1 = (b + 1) + c /\ n + 1 \in Nat \ {0}
  BY <1>2, <1>3
<1>5. argument \in Arguments /\ argument.by = "Bull" BY <1>4 DEF Arguments, argument, n
<1>6. invest'.bull \in Seq(Arguments) /\ Len(invest'.bull) = b + 1
      /\ invest'.bear \in Seq(Arguments) /\ Len(invest'.bear) = c
  BY <1>1, <1>2, <1>5, OneMore DEF b, c
<1>7. node' = "Bear Researcher"
  <2>1. ~(n + 1 >= 2 * r) BY <1>3, <1>4
  <2> QED BY <1>1, <1>5, <2>1 DEF ShouldContinueDebate, r
<1>8. PlanInv' /\ ConversationInv' /\ node' \notin Working
  BY <1>1, <1>7, Beyond DEF FixedNodes, Debaters
<1>9. RiskInv' BY <1>1, <1>7, RiskNotBegun DEF Debaters
<1>10. InvestInv'
  <2>1. /\ invest'.count < 2 * setup'.debateRounds
        /\ invest'.count = Len(invest'.bull) + Len(invest'.bear)
        /\ Len(invest'.bull) = Len(invest'.bear) + 1
    BY <1>1, <1>2, <1>4, <1>6 DEF r
  <2> QED BY <1>6, <1>7, <1>8, <2>1 DEF InvestInv
<1> QED BY <1>8, <1>9, <1>10 DEF GraphInv

\* A turn of Bear, which ends a round.
LEMMA BearStep == ASSUME GraphInv, setup' = setup, BearResearcher PROVE GraphInv'
<1> DEFINE argument == [by |-> "Bear", turn |-> invest.count + 1]
           b == Len(invest.bull)
           c == Len(invest.bear)
           n == invest.count
           r == setup.debateRounds
<1>1. /\ node = "Bear Researcher" /\ messages' = messages /\ risk' = risk
      /\ invest'.bull = invest.bull /\ invest'.bear = Append(invest.bear, argument)
      /\ invest'.count = n + 1 /\ invest'.current = argument
      /\ node' = ShouldContinueDebate(invest')
  BY DEF BearResearcher
<1>2. /\ invest.bull \in Seq(Arguments) /\ invest.bear \in Seq(Arguments)
      /\ n = b + c /\ b = c + 1 /\ n < 2 * r
  BY <1>1 DEF GraphInv, InvestInv, Debaters
<1>3. b \in Nat /\ c \in Nat /\ r \in Nat BY <1>2, Rounds
<1> HIDE DEF argument, b, c, n, r
<1>4. n \in Nat /\ n + 1 <= 2 * r /\ n + 1 = b + (c + 1) /\ n + 1 \in Nat \ {0}
  BY <1>2, <1>3
<1>5. argument \in Arguments /\ argument.by = "Bear" BY <1>4 DEF Arguments, argument, n
<1>6. invest'.bear \in Seq(Arguments) /\ Len(invest'.bear) = c + 1
      /\ invest'.bull \in Seq(Arguments) /\ Len(invest'.bull) = b
  BY <1>1, <1>2, <1>5, OneMore DEF b, c
<1>7. \/ node' = "Bull Researcher" /\ n + 1 < 2 * r
      \/ node' = "Research Manager" /\ b = r
  <2>1. CASE n + 1 >= 2 * r
    <3>1. b = r BY <1>2, <1>3, <1>4, <2>1
    <3> QED BY <1>1, <2>1, <3>1 DEF ShouldContinueDebate, r
  <2>2. CASE ~(n + 1 >= 2 * r)
    <3>1. n + 1 < 2 * r BY <1>3, <1>4, <2>2
    <3> QED BY <1>1, <1>5, <2>2, <3>1 DEF ShouldContinueDebate, r
  <2> QED BY <2>1, <2>2
<1>8. PlanInv' /\ ConversationInv' /\ node' \notin Working
  BY <1>1, <1>7, Beyond DEF FixedNodes, Debaters
<1>9. RiskInv' BY <1>1, <1>7, RiskNotBegun DEF Debaters
<1>10. InvestInv'
  <2>1. /\ invest'.count = Len(invest'.bull) + Len(invest'.bear)
        /\ Len(invest'.bull) = Len(invest'.bear)
    BY <1>1, <1>2, <1>4, <1>6
  <2>2. CASE node' = "Bull Researcher"
    <3>1. invest'.count < 2 * setup'.debateRounds BY <1>1, <1>7, <2>2 DEF r
    <3> QED BY <1>6, <1>8, <2>1, <2>2, <3>1 DEF InvestInv
  <2>3. CASE node' = "Research Manager"
    <3>1. Len(invest'.bull) = setup'.debateRounds BY <1>6, <1>7, <2>3 DEF r
    <3> QED BY <1>6, <1>8, <2>1, <2>3, <3>1 DEF InvestInv, Debaters
  <2> QED BY <1>7, <2>2, <2>3
<1> QED BY <1>8, <1>9, <1>10 DEF GraphInv

\* The Research Manager judges and the Trader plans; the turns stay.
LEMMA ManagerStep ==
  ASSUME GraphInv, setup' = setup, NEW text \in Texts, ResearchManager(text)
  PROVE  GraphInv'
<1>1. /\ node = "Research Manager" /\ messages' = messages /\ risk' = risk /\ node' = "Trader"
      /\ invest' = [invest EXCEPT !.judge = text, !.current = [by |-> "Manager", turn |-> @.turn]]
  BY DEF ResearchManager
<1>2. invest'.bull = invest.bull /\ invest'.bear = invest.bear /\ invest'.count = invest.count
  <2> DEFINE current == [by |-> "Manager", turn |-> invest.current.turn]
  <2>1. invest' = [[invest EXCEPT !.judge = text] EXCEPT !.current = current] BY <1>1
  <2> HIDE DEF current
  <2> QED BY <2>1
<1>3. PlanInv' /\ ConversationInv' /\ node' \notin Working
  BY <1>1, Beyond DEF FixedNodes
<1>4. RiskInv' BY <1>1, RiskNotBegun
<1>5. InvestInv' BY <1>1, <1>2, <1>3 DEF GraphInv, InvestInv, Debaters
<1> QED BY <1>3, <1>4, <1>5 DEF GraphInv

\* Once the debate of Bull and Bear is judged, nothing is added to it.
LEMMA InvestOver ==
  ASSUME GraphInv, invest' = invest, node' \notin Working, node' \notin Debaters,
         node' # "Research Manager"
  PROVE  InvestInv'
BY DEF GraphInv, InvestInv, Debaters

\* The Trader plans.
LEMMA TraderStep ==
  ASSUME GraphInv, setup' = setup, NEW text \in Texts, Trader(text)
  PROVE  GraphInv'
<1>1. /\ node = "Trader" /\ messages' = Append(messages, Message("Trader", FALSE))
      /\ risk' = risk /\ invest' = invest /\ node' = "Aggressive Analyst"
  BY DEF Trader
<1>2. node' \in FixedNodes BY <1>1 DEF FixedNodes, RiskAnalysts
<1>3. node' \notin Working /\ node' \in Nodes BY <1>2, NodesApart
<1>4. PlanInv' BY <1>2, <1>3, NodesApart DEF GraphInv, PlanInv
<1>5. ConversationInv'
  <2>1. Message("Trader", FALSE) \in Messages BY DEF Message, Messages
  <2>2. messages \in Seq(Messages) BY DEF GraphInv, ConversationInv
  <2> DEFINE said == Message("Trader", FALSE)
  <2>3. messages' = Append(messages, said) /\ said \in Messages BY <1>1, <2>1
  <2> HIDE DEF said
  <2>4. messages' \in Seq(Messages) BY <2>2, <2>3
  <2>5. messages' # <<>> BY <2>2, <2>3
  <2> QED BY <1>2, <2>4, <2>5, Elsewhere
<1>6. InvestInv' BY <1>1, <1>3, InvestOver DEF Debaters
<1>7. RiskInv'
  <2>1. /\ risk.aggressive \in Seq(Arguments) /\ risk.conservative \in Seq(Arguments)
        /\ risk.neutral \in Seq(Arguments) /\ risk.count = 0
        /\ risk.count = Len(risk.aggressive) + Len(risk.conservative) + Len(risk.neutral)
    BY <1>1 DEF GraphInv, RiskInv
  <2>2. Len(risk.aggressive) = 0 /\ Len(risk.conservative) = 0 /\ Len(risk.neutral) = 0
    <3> DEFINE a == Len(risk.aggressive)
               c == Len(risk.conservative)
               n == Len(risk.neutral)
    <3>1. a \in Nat /\ c \in Nat /\ n \in Nat BY <2>1
    <3>2. 0 = a + c + n BY ONLY <2>1
    <3> HIDE DEF a, c, n
    <3>3. a = 0 /\ c = 0 /\ n = 0 BY <3>1, <3>2
    <3> QED BY <3>3 DEF a, c, n
  <2>3. 0 < 3 * setup.riskRounds BY Rounds
  <2> QED BY <1>1, <1>3, <2>1, <2>2, <2>3 DEF RiskInv, RiskAnalysts, Debaters
<1> QED BY <1>4, <1>5, <1>6, <1>7 DEF GraphInv

\* Where a risk analyst has spoken, all but the turns of the three is settled.
LEMMA RiskTurn ==
  ASSUME GraphInv, node \in RiskAnalysts, setup' = setup, messages' = messages, invest' = invest,
         node' \in RiskAnalysts \cup {"Portfolio Manager"}
  PROVE  /\ PlanInv' /\ ConversationInv' /\ InvestInv' /\ node' \notin Working
         /\ node' \notin Working \cup Debaters \cup {"Research Manager", "Trader"}
<1>1. node' \in FixedNodes BY DEF FixedNodes
<1>2. PlanInv' /\ ConversationInv' /\ node' \notin Working BY <1>1, Beyond
<1>3. node' \notin Debaters /\ node' \notin {"Research Manager", "Trader"}
  BY DEF RiskAnalysts, Debaters
<1>4. InvestInv' BY <1>2, <1>3, InvestOver
<1> QED BY <1>2, <1>3, <1>4

\* A turn of the aggressive analyst, which begins a round.
LEMMA AggressiveStep == ASSUME GraphInv, setup' = setup, AggressiveAnalyst PROVE GraphInv'
<1> DEFINE argument == [by |-> "Aggressive", turn |-> risk.count + 1]
           a == Len(risk.aggressive)
           c == Len(risk.conservative)
           u == Len(risk.neutral)
           n == risk.count
           r == setup.riskRounds
<1>1. /\ node = "Aggressive Analyst" /\ messages' = messages /\ invest' = invest
      /\ risk'.aggressive = Append(risk.aggressive, argument)
      /\ risk'.conservative = risk.conservative
      /\ risk'.neutral = risk.neutral
      /\ risk'.count = n + 1 /\ risk'.latest = "Aggressive"
      /\ node' = ShouldContinueRiskAnalysis(risk')
  BY DEF AggressiveAnalyst
<1>2. /\ risk.aggressive \in Seq(Arguments) /\ risk.conservative \in Seq(Arguments)
      /\ risk.neutral \in Seq(Arguments)
      /\ n = a + c + u /\ a = u /\ c = u /\ n < 3 * r
  BY <1>1 DEF GraphInv, RiskInv, RiskAnalysts
<1>3. a \in Nat /\ c \in Nat /\ u \in Nat /\ r \in Nat BY <1>2, Rounds
<1> HIDE DEF argument, a, c, u, n, r
<1>4. /\ n \in Nat /\ n + 1 < 3 * r /\ n + 1 \in Nat \ {0}
      /\ n + 1 = (a + 1) + (c) + u
  BY <1>2, <1>3
<1>5. argument \in Arguments BY <1>4 DEF Arguments, argument, n
<1>6. /\ risk'.aggressive \in Seq(Arguments) /\ Len(risk'.aggressive) = a + 1
      /\ risk'.conservative \in Seq(Arguments) /\ Len(risk'.conservative) = c
      /\ risk'.neutral \in Seq(Arguments) /\ Len(risk'.neutral) = u
  BY <1>1, <1>2, <1>5, OneMore DEF a, c, u
<1>7. node' = "Conservative Analyst"
  <2>1. ~(n + 1 >= 3 * r) BY <1>3, <1>4
  <2> QED BY <1>1, <2>1 DEF ShouldContinueRiskAnalysis, r
<1>8. /\ PlanInv' /\ ConversationInv' /\ InvestInv' /\ node' \notin Working
      /\ node' \notin Working \cup Debaters \cup {"Research Manager", "Trader"}
  BY <1>1, <1>7, RiskTurn DEF RiskAnalysts
<1>9. RiskInv'
  <2>1. /\ risk'.count < 3 * setup'.riskRounds
        /\ risk'.count = Len(risk'.aggressive) + Len(risk'.conservative) + Len(risk'.neutral)
        /\ Len(risk'.aggressive) = Len(risk'.neutral) + 1
        /\ Len(risk'.conservative) = Len(risk'.neutral)
    BY <1>1, <1>2, <1>4, <1>6 DEF r
  <2> QED BY <1>6, <1>7, <1>8, <2>1 DEF RiskInv
<1> QED BY <1>8, <1>9 DEF GraphInv

\* A turn of the conservative analyst.
LEMMA ConservativeStep == ASSUME GraphInv, setup' = setup, ConservativeAnalyst PROVE GraphInv'
<1> DEFINE argument == [by |-> "Conservative", turn |-> risk.count + 1]
           a == Len(risk.aggressive)
           c == Len(risk.conservative)
           u == Len(risk.neutral)
           n == risk.count
           r == setup.riskRounds
<1>1. /\ node = "Conservative Analyst" /\ messages' = messages /\ invest' = invest
      /\ risk'.aggressive = risk.aggressive
      /\ risk'.conservative = Append(risk.conservative, argument)
      /\ risk'.neutral = risk.neutral
      /\ risk'.count = n + 1 /\ risk'.latest = "Conservative"
      /\ node' = ShouldContinueRiskAnalysis(risk')
  BY DEF ConservativeAnalyst
<1>2. /\ risk.aggressive \in Seq(Arguments) /\ risk.conservative \in Seq(Arguments)
      /\ risk.neutral \in Seq(Arguments)
      /\ n = a + c + u /\ a = u + 1 /\ c = u /\ n < 3 * r
  BY <1>1 DEF GraphInv, RiskInv, RiskAnalysts
<1>3. a \in Nat /\ c \in Nat /\ u \in Nat /\ r \in Nat BY <1>2, Rounds
<1> HIDE DEF argument, a, c, u, n, r
<1>4. /\ n \in Nat /\ n + 1 < 3 * r /\ n + 1 \in Nat \ {0}
      /\ n + 1 = (a) + (c + 1) + u
  BY <1>2, <1>3
<1>5. argument \in Arguments BY <1>4 DEF Arguments, argument, n
<1>6. /\ risk'.aggressive \in Seq(Arguments) /\ Len(risk'.aggressive) = a
      /\ risk'.conservative \in Seq(Arguments) /\ Len(risk'.conservative) = c + 1
      /\ risk'.neutral \in Seq(Arguments) /\ Len(risk'.neutral) = u
  BY <1>1, <1>2, <1>5, OneMore DEF a, c, u
<1>7. node' = "Neutral Analyst"
  <2>1. ~(n + 1 >= 3 * r) BY <1>3, <1>4
  <2> QED BY <1>1, <2>1 DEF ShouldContinueRiskAnalysis, r
<1>8. /\ PlanInv' /\ ConversationInv' /\ InvestInv' /\ node' \notin Working
      /\ node' \notin Working \cup Debaters \cup {"Research Manager", "Trader"}
  BY <1>1, <1>7, RiskTurn DEF RiskAnalysts
<1>9. RiskInv'
  <2>1. /\ risk'.count < 3 * setup'.riskRounds
        /\ risk'.count = Len(risk'.aggressive) + Len(risk'.conservative) + Len(risk'.neutral)
        /\ Len(risk'.aggressive) = Len(risk'.neutral) + 1
        /\ Len(risk'.conservative) = Len(risk'.neutral) + 1
    BY <1>1, <1>2, <1>4, <1>6 DEF r
  <2> QED BY <1>6, <1>7, <1>8, <2>1 DEF RiskInv
<1> QED BY <1>8, <1>9 DEF GraphInv

\* A turn of the neutral analyst, which ends a round.
LEMMA NeutralStep == ASSUME GraphInv, setup' = setup, NeutralAnalyst PROVE GraphInv'
<1> DEFINE argument == [by |-> "Neutral", turn |-> risk.count + 1]
           a == Len(risk.aggressive)
           c == Len(risk.conservative)
           u == Len(risk.neutral)
           n == risk.count
           r == setup.riskRounds
<1>1. /\ node = "Neutral Analyst" /\ messages' = messages /\ invest' = invest
      /\ risk'.aggressive = risk.aggressive
      /\ risk'.conservative = risk.conservative
      /\ risk'.neutral = Append(risk.neutral, argument)
      /\ risk'.count = n + 1 /\ risk'.latest = "Neutral"
      /\ node' = ShouldContinueRiskAnalysis(risk')
  BY DEF NeutralAnalyst
<1>2. /\ risk.aggressive \in Seq(Arguments) /\ risk.conservative \in Seq(Arguments)
      /\ risk.neutral \in Seq(Arguments)
      /\ n = a + c + u /\ a = u + 1 /\ c = u + 1 /\ n < 3 * r
  BY <1>1 DEF GraphInv, RiskInv, RiskAnalysts
<1>3. a \in Nat /\ c \in Nat /\ u \in Nat /\ r \in Nat BY <1>2, Rounds
<1> HIDE DEF argument, a, c, u, n, r
<1>4. n \in Nat /\ n + 1 <= 3 * r /\ n + 1 \in Nat \ {0} /\ n + 1 = a + c + (u + 1)
  BY <1>2, <1>3
<1>5. argument \in Arguments BY <1>4 DEF Arguments, argument, n
<1>6. /\ risk'.aggressive \in Seq(Arguments) /\ Len(risk'.aggressive) = a
      /\ risk'.conservative \in Seq(Arguments) /\ Len(risk'.conservative) = c
      /\ risk'.neutral \in Seq(Arguments) /\ Len(risk'.neutral) = u + 1
  BY <1>1, <1>2, <1>5, OneMore DEF a, c, u
<1>7. \/ node' = "Aggressive Analyst" /\ n + 1 < 3 * r
      \/ node' = "Portfolio Manager" /\ u + 1 = r
  <2>1. CASE n + 1 >= 3 * r
    <3>1. u + 1 = r BY <1>2, <1>3, <1>4, <2>1
    <3> QED BY <1>1, <2>1, <3>1 DEF ShouldContinueRiskAnalysis, r
  <2>2. CASE ~(n + 1 >= 3 * r)
    <3>1. n + 1 < 3 * r BY <1>3, <1>4, <2>2
    <3> QED BY <1>1, <2>2, <3>1 DEF ShouldContinueRiskAnalysis, r
  <2> QED BY <2>1, <2>2
<1>8. /\ PlanInv' /\ ConversationInv' /\ InvestInv' /\ node' \notin Working
      /\ node' \notin Working \cup Debaters \cup {"Research Manager", "Trader"}
  BY <1>1, <1>7, RiskTurn DEF RiskAnalysts
<1>9. RiskInv'
  <2>1. /\ risk'.count = Len(risk'.aggressive) + Len(risk'.conservative) + Len(risk'.neutral)
        /\ Len(risk'.aggressive) = Len(risk'.neutral)
        /\ Len(risk'.conservative) = Len(risk'.neutral)
    BY <1>1, <1>2, <1>4, <1>6
  <2>2. CASE node' = "Aggressive Analyst"
    <3>1. risk'.count < 3 * setup'.riskRounds BY <1>1, <1>7, <2>2 DEF r
    <3> QED BY <1>6, <1>8, <2>1, <2>2, <3>1 DEF RiskInv
  <2>3. CASE node' = "Portfolio Manager"
    <3>1. Len(risk'.neutral) = setup'.riskRounds BY <1>6, <1>7, <2>3 DEF r
    <3> QED BY <1>6, <1>8, <2>1, <2>3, <3>1 DEF RiskInv, RiskAnalysts
  <2> QED BY <1>7, <2>2, <2>3
<1> QED BY <1>8, <1>9 DEF GraphInv

-----------------------------------------------------------------------------
(* The end. *)

\* Where the run is over nothing is claimed of the debates but their counts.
LEMMA Over ==
  ASSUME GraphInv, setup' = setup, invest' = invest, messages' = messages,
         node' \in {"END", "failed"},
         risk'.aggressive = risk.aggressive, risk'.conservative = risk.conservative,
         risk'.neutral = risk.neutral, risk'.count = risk.count
  PROVE  GraphInv'
<1>1. PlanInv' /\ ConversationInv' /\ node' \notin Working BY Beyond
<1>2. node' \notin FixedNodes BY DEF FixedNodes, Debaters, RiskAnalysts
<1>3. InvestInv' BY <1>1, <1>2, InvestOver DEF FixedNodes
<1>4. RiskInv' BY <1>1, <1>2 DEF GraphInv, RiskInv, FixedNodes
<1> QED BY <1>1, <1>3, <1>4 DEF GraphInv

\* The Portfolio Manager decides.
LEMMA PortfolioStep ==
  ASSUME GraphInv, setup' = setup, NEW text \in Texts, PortfolioManager(text)
  PROVE  GraphInv'
<1>1. risk' = [[risk EXCEPT !.judge = text] EXCEPT !.latest = "Judge"]
  BY DEF PortfolioManager
<1>2. /\ risk'.aggressive = risk.aggressive /\ risk'.conservative = risk.conservative
      /\ risk'.neutral = risk.neutral /\ risk'.count = risk.count
  BY <1>1
<1> QED BY <1>2, Over DEF PortfolioManager

\* Every node keeps the invariant, and so does a failure.
LEMMA GraphStep == GraphInv /\ [GraphNext]_graphVars => GraphInv'
<1> SUFFICES ASSUME GraphInv, [GraphNext]_graphVars PROVE GraphInv' OBVIOUS
<1>1. CASE Superstep
  <2>1. setup' = setup /\ NodeRuns BY <1>1 DEF Superstep
  <2>2. CASE MarketAnalyst
    <3>1. PICK calls \in BOOLEAN, text \in Texts : Report("market", calls, text)
      BY <2>2 DEF MarketAnalyst
    <3> QED BY <2>1, <3>1, ReportStep DEF Keys
  <2>3. CASE SentimentAnalyst
    <3>1. PICK text \in Texts : Report("social", FALSE, text) BY <2>3 DEF SentimentAnalyst
    <3> QED BY <2>1, <3>1, ReportStep DEF Keys
  <2>4. CASE NewsAnalyst
    <3>1. PICK calls \in BOOLEAN, text \in Texts : Report("news", calls, text)
      BY <2>4 DEF NewsAnalyst
    <3> QED BY <2>1, <3>1, ReportStep DEF Keys
  <2>5. CASE FundamentalsAnalyst
    <3>1. PICK calls \in BOOLEAN, text \in Texts : Report("fundamentals", calls, text)
      BY <2>5 DEF FundamentalsAnalyst
    <3> QED BY <2>1, <3>1, ReportStep DEF Keys
  <2>6. ASSUME NEW k \in Keys, RunTools(k) \/ ClearMessages(k) PROVE GraphInv'
    BY <2>1, <2>6, ToolsStep, ClearStep
  <2>7. ASSUME NEW text \in Texts, ResearchManager(text) \/ Trader(text) \/ PortfolioManager(text)
        PROVE  GraphInv'
    BY <2>1, <2>7, ManagerStep, TraderStep, PortfolioStep
  <2>8. CASE BullResearcher \/ BearResearcher BY <2>1, <2>8, BullStep, BearStep
  <2>9. CASE AggressiveAnalyst \/ ConservativeAnalyst \/ NeutralAnalyst
    BY <2>1, <2>9, AggressiveStep, ConservativeStep, NeutralStep
  <2> QED BY <2>1, <2>2, <2>3, <2>4, <2>5, <2>6, <2>7, <2>8, <2>9
          DEF NodeRuns, InvokeStructuredOrFreetext
<1>2. CASE GraphFails BY <1>2, Over DEF GraphFails
<1>3. CASE UNCHANGED graphVars
  BY ZenonT(60), <1>3 DEF graphVars, GraphInv, PlanInv, InvestInv, RiskInv, ConversationInv,
     ConversationsAreOwn
<1> QED BY <1>1, <1>2, <1>3 DEF GraphNext

\* A run begins with the first analyst of its plan.
Starts == IsSetup(setup) /\ node = Specs[setup.plan[1]].agent_node /\ CreateInitialState

LEMMA GraphStart == Starts => GraphInv
<1> SUFFICES ASSUME Starts PROVE GraphInv OBVIOUS
<1> DEFINE k == setup.plan[1]
<1>1. IsSetup(setup) /\ node = Specs[k].agent_node /\ CreateInitialState
  BY DEF Starts
<1>2. setup.plan \in Seq(Keys) /\ setup.plan # <<>> BY <1>1 DEF IsSetup
<1>3. 1 \in DOMAIN setup.plan /\ k \in Keys BY <1>2
<1> HIDE DEF k
<1>4. node \in NodesOf(k) BY <1>1 DEF NodesOf
<1>5. node \in Working /\ node \in Nodes /\ node \notin FixedNodes BY <1>3, <1>4, NodesApart
<1>6. PlanInv
  <2>1. \A l \in Keys : node \in NodesOf(l) => l = k BY <1>3, <1>4, NodesApart
  <2>2. setup.plan[1] = k BY DEF k
  <2> QED BY <1>1, <1>3, <1>5, <2>1, <2>2 DEF PlanInv
<1>7. InvestInv
  <2>1. invest.bull = <<>> /\ invest.bear = <<>> /\ invest.count = 0
    BY <1>1 DEF CreateInitialState
  <2>2. <<>> \in Seq(Arguments) /\ Len(<<>>) = 0 OBVIOUS
  <2>3. /\ invest.bull \in Seq(Arguments) /\ invest.bear \in Seq(Arguments)
        /\ Len(invest.bull) = 0 /\ Len(invest.bear) = 0
    BY ONLY <2>1, <2>2
  <2>4. invest.count = Len(invest.bull) + Len(invest.bear) BY ONLY <2>1, <2>3
  <2> QED BY <1>5, <2>3, <2>4 DEF InvestInv, FixedNodes, Debaters
<1>8. RiskInv
  <2>1. /\ risk.aggressive = <<>> /\ risk.conservative = <<>> /\ risk.neutral = <<>>
        /\ risk.count = 0
    BY <1>1 DEF CreateInitialState
  <2>2. <<>> \in Seq(Arguments) /\ Len(<<>>) = 0 OBVIOUS
  <2>3. /\ risk.aggressive \in Seq(Arguments) /\ risk.conservative \in Seq(Arguments)
        /\ risk.neutral \in Seq(Arguments)
        /\ Len(risk.aggressive) = 0 /\ Len(risk.conservative) = 0 /\ Len(risk.neutral) = 0
    BY ONLY <2>1, <2>2
  <2>4. risk.count = Len(risk.aggressive) + Len(risk.conservative) + Len(risk.neutral)
    BY ONLY <2>1, <2>3
  <2> QED BY <1>5, <2>1, <2>3, <2>4 DEF RiskInv, FixedNodes, RiskAnalysts
<1>9. ConversationInv
  <2> DEFINE said == Message("user", FALSE)
  <2>1. said \in Messages /\ said.by = "user" BY DEF Message, Messages
  <2>2. messages = <<said>> BY <1>1 DEF CreateInitialState
  <2> HIDE DEF said
  <2>3. messages \in Seq(Messages) /\ Len(messages) = 1 /\ messages[1] = said
    BY <2>1, <2>2
  <2>4. \A l \in Keys : node # Specs[l].tool_node
    BY <1>1, <1>3, <1>4, NodesApart DEF NodesOf
  <2>5. messages # <<>> /\ ~(Len(messages) > 1) BY <2>3
  <2>6. \A l \in Keys, i \in DOMAIN messages : messages[i].by \in {"user", "tools", l}
    BY <2>1, <2>3
  <2> QED BY <2>3, <2>4, <2>5, <2>6 DEF ConversationInv, ConversationsAreOwn
<1> QED BY <1>6, <1>7, <1>8, <1>9 DEF GraphInv

-----------------------------------------------------------------------------
\* The invariant holds in every reachable state of every graph.
THEOREM GraphInductive == GraphSpec => []GraphInv
<1>1. GraphInv /\ [GraphNext]_graphVars => GraphInv' BY GraphStep
<1>2. GraphInit => Starts BY SetupsAssumption DEF GraphInit, Starts
<1> QED BY <1>1, <1>2, GraphStart, PTL DEF GraphSpec

\* For any number of rounds and any analysts, a manager judges when each side
\* has spoken in each round.
THEOREM EverySideIsHeard == GraphSpec => []BothSidesAreHeard
<1>1. GraphInv => BothSidesAreHeard
  BY DEF GraphInv, InvestInv, RiskInv, BothSidesAreHeard
<1> QED BY <1>1, GraphInductive, PTL

\* No analyst sees what an analyst before him, or his tools, said.
THEOREM OwnConversations == GraphSpec => []ConversationsAreOwn
<1>1. GraphInv => ConversationsAreOwn BY DEF GraphInv, ConversationInv
<1> QED BY <1>1, GraphInductive, PTL

-----------------------------------------------------------------------------
(* What was said. *)

\* The arguments of a debate are numbered by their turns.
History(history, count) ==
  /\ history \in Seq(Arguments) /\ count = Len(history)
  /\ \A i \in DOMAIN history : history[i].turn = i

InvestSaid(i) ==
  /\ History(i.history, i.count)
  /\ i.bull = SaidBy("Bull", i.history) /\ i.bear = SaidBy("Bear", i.history)

RiskSaid(r) ==
  /\ History(r.history, r.count)
  /\ r.aggressive = SaidBy("Aggressive", r.history)
  /\ r.conservative = SaidBy("Conservative", r.history)
  /\ r.neutral = SaidBy("Neutral", r.history)
  /\ r.currentAggressive = Latest(r.aggressive)
  /\ r.currentConservative = Latest(r.conservative)
  /\ r.currentNeutral = Latest(r.neutral)

SaidInv == InvestSaid(invest) /\ RiskSaid(risk)

Speakers == {"Bull", "Bear", "Aggressive", "Conservative", "Neutral"}

\* One more argument is one more of its speaker's, and of nobody else's.
LEMMA OneMoreSaid ==
  ASSUME NEW history, NEW count, History(history, count), NEW me \in Speakers,
         NEW x, x = [by |-> me, turn |-> count + 1]
  PROVE  /\ History(Append(history, x), count + 1)
         /\ SaidBy(me, Append(history, x)) = Append(SaidBy(me, history), x)
         /\ \A who \in Speakers \ {me} : SaidBy(who, Append(history, x)) = SaidBy(who, history)
         /\ Latest(Append(SaidBy(me, history), x)) = x
<1>1. history \in Seq(Arguments) /\ count = Len(history) /\ count \in Nat BY DEF History
<1>2. x \in Arguments BY <1>1 DEF Arguments, Speakers
<1>3. x.turn = count + 1 /\ \A who : x \in [by : {who}, turn : Nat] <=> who = me BY <1>1
<1>4. History(Append(history, x), count + 1) BY <1>1, <1>2, <1>3 DEF History
<1>5. ASSUME NEW who
      PROVE  SaidBy(who, Append(history, x)) =
               IF who = me THEN Append(SaidBy(who, history), x) ELSE SaidBy(who, history)
  <2> DEFINE T == [by : {who}, turn : Nat]
  <2>1. x \in T <=> who = me BY <1>3
  <2> HIDE DEF T
  <2>2. KeepOnly(Append(history, x), T) =
          IF x \in T THEN Append(KeepOnly(history, T), x) ELSE KeepOnly(history, T)
    BY <1>1, <1>2, KeepOnlyAppend
  <2> QED BY <2>1, <2>2 DEF SaidBy, T
<1>6. SaidBy(me, history) \in Seq(Arguments)
  <2>1. SaidBy(me, history) \in Seq(Arguments \cap [by : {me}, turn : Nat])
    BY <1>1, KeepOnlyType DEF SaidBy
  <2> QED BY <2>1
<1>7. Latest(Append(SaidBy(me, history), x)) = x BY <1>2, <1>6 DEF Latest
<1> QED BY <1>4, <1>5, <1>7

LEMMA SaidStart == CreateInitialState => SaidInv
<1> SUFFICES ASSUME CreateInitialState PROVE SaidInv OBVIOUS
<1>1. History(<<>>, 0) BY DEF History
<1>2. \A who : SaidBy(who, <<>>) = <<>> BY KeepOnlyEmpty DEF SaidBy
<1>3. Latest(<<>>) = NoOne BY DEF Latest
<1> QED BY <1>1, <1>2, <1>3 DEF CreateInitialState, SaidInv, InvestSaid, RiskSaid

\* Every speaker hands on what the others said.
LEMMA InvestTurn ==
  ASSUME SaidInv, BullResearcher \/ BearResearcher
  PROVE  InvestSaid(invest')
<1> DEFINE bull == [by |-> "Bull", turn |-> invest.count + 1]
           bear == [by |-> "Bear", turn |-> invest.count + 1]
<1>1. InvestSaid(invest) /\ History(invest.history, invest.count) BY DEF SaidInv, InvestSaid
<1>2. CASE BullResearcher
  <2>1. /\ invest'.history = Append(invest.history, bull) /\ invest'.count = invest.count + 1
        /\ invest'.bull = Append(invest.bull, bull) /\ invest'.bear = invest.bear
    BY <1>2 DEF BullResearcher
  <2>2. /\ History(Append(invest.history, bull), invest.count + 1)
        /\ SaidBy("Bull", Append(invest.history, bull)) = Append(SaidBy("Bull", invest.history), bull)
        /\ SaidBy("Bear", Append(invest.history, bull)) = SaidBy("Bear", invest.history)
    BY <1>1, OneMoreSaid DEF Speakers
  <2> HIDE DEF bull
  <2> QED BY <1>1, <2>1, <2>2 DEF InvestSaid
<1>3. CASE BearResearcher
  <2>1. /\ invest'.history = Append(invest.history, bear) /\ invest'.count = invest.count + 1
        /\ invest'.bear = Append(invest.bear, bear) /\ invest'.bull = invest.bull
    BY <1>3 DEF BearResearcher
  <2>2. /\ History(Append(invest.history, bear), invest.count + 1)
        /\ SaidBy("Bear", Append(invest.history, bear)) = Append(SaidBy("Bear", invest.history), bear)
        /\ SaidBy("Bull", Append(invest.history, bear)) = SaidBy("Bull", invest.history)
    BY <1>1, OneMoreSaid DEF Speakers
  <2> HIDE DEF bear
  <2> QED BY <1>1, <2>1, <2>2 DEF InvestSaid
<1> QED BY <1>2, <1>3

LEMMA RiskTurnSaid ==
  ASSUME SaidInv, AggressiveAnalyst \/ ConservativeAnalyst \/ NeutralAnalyst
  PROVE  RiskSaid(risk')
<1> DEFINE said(me) == [by |-> me, turn |-> risk.count + 1]
           Of(who) == SaidBy(who, risk.history)
           Then(who, me) == SaidBy(who, Append(risk.history, said(me)))
<1>1. RiskSaid(risk) /\ History(risk.history, risk.count) BY DEF SaidInv, RiskSaid
<1>2. ASSUME NEW me \in Speakers
      PROVE  /\ History(Append(risk.history, said(me)), risk.count + 1)
             /\ Then(me, me) = Append(Of(me), said(me))
             /\ \A who \in Speakers \ {me} : Then(who, me) = Of(who)
             /\ Latest(Append(Of(me), said(me))) = said(me)
  BY <1>1, OneMoreSaid
<1>3. CASE AggressiveAnalyst
  <2> DEFINE x == said("Aggressive")
  <2>1. /\ risk'.history = Append(risk.history, x) /\ risk'.count = risk.count + 1
        /\ risk'.aggressive = Append(risk.aggressive, x) /\ risk'.currentAggressive = x
        /\ risk'.conservative = risk.conservative /\ risk'.neutral = risk.neutral
        /\ risk'.currentConservative = risk.currentConservative
        /\ risk'.currentNeutral = risk.currentNeutral
    BY <1>3 DEF AggressiveAnalyst
  <2>2. /\ History(Append(risk.history, x), risk.count + 1)
        /\ SaidBy("Aggressive", Append(risk.history, x)) = Append(Of("Aggressive"), x)
        /\ SaidBy("Conservative", Append(risk.history, x)) = Of("Conservative")
        /\ SaidBy("Neutral", Append(risk.history, x)) = Of("Neutral")
        /\ Latest(Append(Of("Aggressive"), x)) = x
    BY <1>2 DEF Speakers
  <2> HIDE DEF x
  <2> QED BY <1>1, <2>1, <2>2 DEF RiskSaid
<1>4. CASE ConservativeAnalyst
  <2> DEFINE x == said("Conservative")
  <2>1. /\ risk'.history = Append(risk.history, x) /\ risk'.count = risk.count + 1
        /\ risk'.conservative = Append(risk.conservative, x) /\ risk'.currentConservative = x
        /\ risk'.aggressive = risk.aggressive /\ risk'.neutral = risk.neutral
        /\ risk'.currentAggressive = risk.currentAggressive
        /\ risk'.currentNeutral = risk.currentNeutral
    BY <1>4 DEF ConservativeAnalyst
  <2>2. /\ History(Append(risk.history, x), risk.count + 1)
        /\ SaidBy("Conservative", Append(risk.history, x)) = Append(Of("Conservative"), x)
        /\ SaidBy("Aggressive", Append(risk.history, x)) = Of("Aggressive")
        /\ SaidBy("Neutral", Append(risk.history, x)) = Of("Neutral")
        /\ Latest(Append(Of("Conservative"), x)) = x
    BY <1>2 DEF Speakers
  <2> HIDE DEF x
  <2> QED BY <1>1, <2>1, <2>2 DEF RiskSaid
<1>5. CASE NeutralAnalyst
  <2> DEFINE x == said("Neutral")
  <2>1. /\ risk'.history = Append(risk.history, x) /\ risk'.count = risk.count + 1
        /\ risk'.neutral = Append(risk.neutral, x) /\ risk'.currentNeutral = x
        /\ risk'.aggressive = risk.aggressive /\ risk'.conservative = risk.conservative
        /\ risk'.currentAggressive = risk.currentAggressive
        /\ risk'.currentConservative = risk.currentConservative
    BY <1>5 DEF NeutralAnalyst
  <2>2. /\ History(Append(risk.history, x), risk.count + 1)
        /\ SaidBy("Neutral", Append(risk.history, x)) = Append(Of("Neutral"), x)
        /\ SaidBy("Aggressive", Append(risk.history, x)) = Of("Aggressive")
        /\ SaidBy("Conservative", Append(risk.history, x)) = Of("Conservative")
        /\ Latest(Append(Of("Neutral"), x)) = x
    BY <1>2 DEF Speakers
  <2> HIDE DEF x
  <2> QED BY <1>1, <2>1, <2>2 DEF RiskSaid
<1> QED BY <1>3, <1>4, <1>5

\* The judges change nothing of what was said.
LEMMA JudgesListen ==
  ASSUME SaidInv, NEW text, ResearchManager(text) \/ PortfolioManager(text)
  PROVE  SaidInv'
<1>1. CASE ResearchManager(text)
  <2> DEFINE current == [by |-> "Manager", turn |-> invest.current.turn]
  <2>1. invest' = [[invest EXCEPT !.judge = text] EXCEPT !.current = current] /\ risk' = risk
    BY <1>1 DEF ResearchManager
  <2> HIDE DEF current
  <2>2. /\ invest'.history = invest.history /\ invest'.count = invest.count
        /\ invest'.bull = invest.bull /\ invest'.bear = invest.bear
    BY <2>1
  <2> QED BY <2>1, <2>2 DEF SaidInv, InvestSaid
<1>2. CASE PortfolioManager(text)
  <2>1. risk' = [[risk EXCEPT !.judge = text] EXCEPT !.latest = "Judge"] /\ invest' = invest
    BY <1>2 DEF PortfolioManager
  <2>2. /\ risk'.history = risk.history /\ risk'.count = risk.count
        /\ risk'.aggressive = risk.aggressive /\ risk'.conservative = risk.conservative
        /\ risk'.neutral = risk.neutral /\ risk'.currentAggressive = risk.currentAggressive
        /\ risk'.currentConservative = risk.currentConservative
        /\ risk'.currentNeutral = risk.currentNeutral
    BY <2>1
  <2> QED BY <2>1, <2>2 DEF SaidInv, RiskSaid
<1> QED BY <1>1, <1>2

LEMMA SaidStep == SaidInv /\ [GraphNext]_graphVars => SaidInv'
<1> SUFFICES ASSUME SaidInv, [GraphNext]_graphVars PROVE SaidInv' OBVIOUS
<1>1. CASE UNCHANGED <<invest, risk>> BY <1>1 DEF SaidInv
<1>2. CASE BullResearcher \/ BearResearcher
  BY <1>2, InvestTurn DEF SaidInv, BullResearcher, BearResearcher
<1>3. CASE AggressiveAnalyst \/ ConservativeAnalyst \/ NeutralAnalyst
  BY <1>3, RiskTurnSaid DEF SaidInv, AggressiveAnalyst, ConservativeAnalyst, NeutralAnalyst
<1>4. ASSUME NEW text, ResearchManager(text) \/ PortfolioManager(text) PROVE SaidInv'
  BY <1>4, JudgesListen
<1>5. ASSUME NEW text, Trader(text) PROVE UNCHANGED <<invest, risk>> BY <1>5 DEF Trader
<1>6. ASSUME NEW k, NEW calls, NEW text, Report(k, calls, text) PROVE UNCHANGED <<invest, risk>>
  BY <1>6 DEF Report
<1>7. ASSUME NEW k, RunTools(k) \/ ClearMessages(k) PROVE UNCHANGED <<invest, risk>>
  BY <1>7 DEF RunTools, ClearMessages
<1>8. GraphFails \/ UNCHANGED graphVars => UNCHANGED <<invest, risk>>
  BY DEF GraphFails, graphVars
<1>9. MarketAnalyst \/ SentimentAnalyst \/ NewsAnalyst \/ FundamentalsAnalyst =>
        UNCHANGED <<invest, risk>>
  BY <1>6 DEF MarketAnalyst, SentimentAnalyst, NewsAnalyst, FundamentalsAnalyst
<1> QED BY <1>1, <1>2, <1>3, <1>4, <1>5, <1>7, <1>8, <1>9 DEF GraphNext, Superstep, NodeRuns

\* The nodes copy the state of a debate by hand; through any number of rounds
\* no argument is lost, moved or said twice, and the last one quoted is the last.
THEOREM AllIsRemembered == GraphSpec => []NothingIsForgotten
<1>1. SaidInv => NothingIsForgotten
  BY DEF SaidInv, InvestSaid, RiskSaid, History, NothingIsForgotten
<1>2. GraphInit => SaidInv BY SaidStart DEF GraphInit
<1> QED BY <1>1, <1>2, SaidStep, PTL DEF GraphSpec

-----------------------------------------------------------------------------
(* The command line. *)

Early == Working \cup Debaters \cup {"Research Manager"}

\* Texts appear in the order of the nodes: what is still to come is empty.
TextInv ==
  /\ reports \in [Keys -> Texts]
  /\ "judge" \in DOMAIN invest /\ "judge" \in DOMAIN risk
  /\ invest.judge \in Texts /\ risk.judge \in Texts
  /\ plans \in [investment : Texts, trader : Texts, final : Texts]
  /\ plans.investment = invest.judge /\ plans.final = risk.judge
  /\ \A i, j \in DOMAIN Plan :
       /\ node \in NodesOf(Plan[i]) /\ j > i => reports[Plan[j]] = ""
       /\ node \in {Specs[Plan[i]].agent_node, Specs[Plan[i]].tool_node} => reports[Plan[i]] = ""
  /\ node \in Early => invest.judge = ""
  /\ node \in Early \cup {"Trader"} => plans.trader = ""
  /\ node \in Running => risk.judge = ""

\* What is shown.
Shown == Agents \cup {NoText, ""}
DisplayInv ==
  /\ status \in [Agents -> Statuses]
  /\ sections \in [Sections -> Shown]
  /\ \A a \in Agents : status[a] = "completed" <=> TextBy(a) # ""
  /\ \A k \in Selected : sections[k] = IF reports[k] = "" THEN NoText ELSE AgentOf(k)
  /\ invest.judge # "" => sections["investment"] = "Research Manager"
  /\ sections["trader"] \in {NoText, "Trader"}
  /\ risk.judge # "" => sections["final"] = "Portfolio Manager"

Done == {i \in DOMAIN Plan : reports[Plan[i]] # ""}
Open == {i \in DOMAIN Plan : reports[Plan[i]] = ""}
IsFirstOpen(i) == i \in Open /\ \A j \in Open : i <= j

\* The times of the analysts in order.
TimeInv ==
  /\ steps \in Nat
  /\ \A k \in DOMAIN startedAt : startedAt[k] \in Nat /\ startedAt[k] <= steps
  /\ DOMAIN wallTimes = {Plan[i] : i \in Done}
  /\ DOMAIN startedAt = {Plan[i] : i \in {i \in DOMAIN Plan : i \in Done \/ IsFirstOpen(i)}}
  /\ \A i \in Done : wallTimes[Plan[i]] \in Nat
  /\ (\A i \in Done, j \in Open : i < j) =>
       /\ \A i \in Done : wallTimes[Plan[i]] > 0
       /\ \A i \in DOMAIN Plan :
            i > 1 /\ (i \in Done \/ IsFirstOpen(i)) =>
              startedAt[Plan[i]] = startedAt[Plan[i - 1]] + wallTimes[Plan[i - 1]]

RunInv == EnvironmentWins /\ KeyFitsEndpointButGlm

CliInv ==
  /\ stage \in {"asking", "streaming", "done", "crashed"}
  /\ stage = "asking" => CreateInitialState /\ steps = 0 /\ node = ""
  /\ RunInv
  /\ stage \in {"streaming", "done"} => GraphInv /\ SaidInv
  /\ stage = "crashed" => SaidInv /\ node = "failed"
  /\ stage = "streaming" => TextInv /\ DisplayInv /\ TimeInv
  /\ stage = "done" => CountedReportsAreFinal

-----------------------------------------------------------------------------
(* Texts. *)

\* No text is taken back.
Grows ==
  /\ \A k \in Keys : reports[k] # "" => reports'[k] # ""
  /\ invest.judge # "" => invest'.judge # ""
  /\ plans.trader # "" => plans'.trader # ""
  /\ risk.judge # "" => risk'.judge # ""

\* What a plan is.
LEMMA PlanFacts ==
  ASSUME GraphInv
  PROVE  /\ Plan \in Seq(Keys) /\ Plan # <<>>
         /\ \A i \in DOMAIN Plan : i \in Nat /\ i <= Len(Plan) /\ Plan[i] \in Keys
         /\ \A i, j \in DOMAIN Plan : Plan[i] = Plan[j] => i = j
<1>1. IsSetup(setup) BY DEF GraphInv, PlanInv
<1>2. /\ Plan \in Seq(Keys) /\ Plan # <<>>
      /\ \A i, j \in DOMAIN Plan : Plan[i] = Plan[j] => i = j
  BY <1>1 DEF IsSetup, Plan
<1> QED BY <1>2

\* A plan has each analyst in one place.
LEMMA PlaceInPlan ==
  ASSUME GraphInv, NEW i \in DOMAIN Plan, NEW j \in DOMAIN Plan, NEW n, n \in NodesOf(Plan[i]),
         n \in NodesOf(Plan[j])
  PROVE  i = j
<1>1. Plan[i] \in Keys /\ Plan[j] \in Keys BY PlanFacts
<1>2. Plan[i] = Plan[j] BY <1>1, NodesApart
<1> QED BY <1>2, PlanFacts

\* What TextInv says of the reports and the place of the node in the plan.
ReportInv ==
  /\ reports \in [Keys -> Texts]
  /\ \A i, j \in DOMAIN Plan :
       /\ node \in NodesOf(Plan[i]) /\ j > i => reports[Plan[j]] = ""
       /\ node \in {Specs[Plan[i]].agent_node, Specs[Plan[i]].tool_node} => reports[Plan[i]] = ""

\* What it says of the rest.
PlansInv ==
  /\ "judge" \in DOMAIN invest /\ "judge" \in DOMAIN risk
  /\ invest.judge \in Texts /\ risk.judge \in Texts
  /\ plans \in [investment : Texts, trader : Texts, final : Texts]
  /\ plans.investment = invest.judge /\ plans.final = risk.judge
  /\ node \in Early => invest.judge = ""
  /\ node \in Early \cup {"Trader"} => plans.trader = ""
  /\ node \in Running => risk.judge = ""

LEMMA TextParts == TextInv <=> ReportInv /\ PlansInv
BY DEF TextInv, ReportInv, PlansInv

\* An analyst, his tools and Msg Clear leave the rest.
LEMMA AnalystText ==
  ASSUME GraphInv, TextInv, NEW i \in DOMAIN Plan, node \in NodesOf(Plan[i]), setup' = setup,
         UNCHANGED <<invest, risk, plans>>, node' \in Working \cup {"Bull Researcher"},
         ReportInv'
  PROVE  TextInv'
<1>1. Plan[i] \in Keys BY PlanFacts
<1>2. node \in Working BY <1>1, NodesApart
<1>3. node \in Early /\ node \in Running BY <1>2 DEF Early, Running, Working
<1>4. node' \in Early BY DEF Early, Debaters
<1>5. PlansInv' BY <1>3, <1>4 DEF TextInv, PlansInv
<1> QED BY <1>5 DEF TextInv, ReportInv, PlansInv

LEMMA ReportText ==
  ASSUME GraphInv, TextInv, NEW k \in Keys, NEW calls \in BOOLEAN, NEW text \in Texts,
         setup' = setup, Report(k, calls, text)
  PROVE  TextInv' /\ Grows
<1>1. /\ node = Specs[k].agent_node /\ UNCHANGED <<invest, risk, plans>>
      /\ messages' = Append(messages, Message(k, calls))
      /\ reports' = [reports EXCEPT ![k] = IF calls THEN "" ELSE text]
      /\ node' = ShouldContinueAnalyst(k, messages')
  BY DEF Report
<1>2. node' = IF calls THEN Specs[k].tool_node ELSE Specs[k].clear_node
  <2>1. messages \in Seq(Messages) /\ Message(k, calls) \in Messages
    BY DEF GraphInv, ConversationInv, Message, Messages
  <2>2. Message(k, calls).calls = calls BY DEF Message
  <2> DEFINE said == Message(k, calls)
  <2> HIDE DEF said
  <2>3. messages \in Seq(Messages) /\ said \in Messages /\ messages' = Append(messages, said)
    BY <1>1, <2>1 DEF said
  <2>4. messages'[Len(messages')] = said BY <2>3
  <2> QED BY <1>1, <2>2, <2>4 DEF ShouldContinueAnalyst, said
<1>3. node \in NodesOf(k) /\ node' \in NodesOf(k) /\ node' \in Working
  <2>1. node \in NodesOf(k) /\ node' \in NodesOf(k) BY <1>1, <1>2 DEF NodesOf
  <2> QED BY <2>1, NodesApart
<1>4. PICK i \in DOMAIN Plan : Plan[i] = k BY <1>3 DEF GraphInv, PlanInv, Plan
<1>5. /\ reports \in [Keys -> Texts] /\ reports[k] = ""
      /\ \A j \in DOMAIN Plan : j > i => reports[Plan[j]] = ""
  BY <1>1, <1>3, <1>4 DEF TextInv
<1>6. /\ reports' \in [Keys -> Texts]
      /\ \A l \in Keys : l # k => reports'[l] = reports[l]
      /\ calls => reports'[k] = ""
  BY <1>1, <1>5 DEF Texts
<1>7. Plan' = Plan /\ \A j \in DOMAIN Plan : Plan[j] \in Keys BY PlanFacts DEF Plan
<1>8. \A j \in DOMAIN Plan : node' \in NodesOf(Plan[j]) => j = i
  BY <1>3, <1>4, PlaceInPlan
<1>9. \A j \in DOMAIN Plan : j > i => Plan[j] # k BY <1>4, PlanFacts
<1>10. ASSUME NEW j \in DOMAIN Plan, NEW l \in DOMAIN Plan
       PROVE  /\ node' \in NodesOf(Plan[j]) /\ l > j => reports'[Plan[l]] = ""
              /\ node' \in {Specs[Plan[j]].agent_node, Specs[Plan[j]].tool_node} =>
                   reports'[Plan[j]] = ""
  <2>1. ASSUME node' \in NodesOf(Plan[j]), l > j PROVE reports'[Plan[l]] = ""
    BY <2>1, <1>5, <1>6, <1>7, <1>8, <1>9
  <2>2. ASSUME node' \in {Specs[Plan[j]].agent_node, Specs[Plan[j]].tool_node}
        PROVE  reports'[Plan[j]] = ""
    <3>1. j = i BY <1>8, <2>2 DEF NodesOf
    <3>2. calls BY <1>2, <1>4, <2>2, <3>1, NodesApart
    <3> QED BY <1>4, <1>6, <3>1, <3>2
  <2> QED BY <2>1, <2>2
<1>11. ReportInv' BY <1>6, <1>7, <1>10 DEF ReportInv
<1>12. TextInv' BY <1>1, <1>3, <1>4, <1>11, AnalystText
<1>13. Grows BY <1>1, <1>5, <1>6 DEF Grows
<1> QED BY <1>12, <1>13

LEMMA ToolsText ==
  ASSUME GraphInv, TextInv, NEW k \in Keys, setup' = setup, RunTools(k)
  PROVE  TextInv' /\ Grows
<1>1. /\ node = Specs[k].tool_node /\ UNCHANGED <<invest, risk, plans, reports>>
      /\ node' = Specs[k].agent_node
  BY DEF RunTools
<1>2. node \in NodesOf(k) /\ node' \in NodesOf(k) /\ node' \in Working
  <2>1. node \in NodesOf(k) /\ node' \in NodesOf(k) BY <1>1 DEF NodesOf
  <2> QED BY <2>1, NodesApart
<1>3. PICK i \in DOMAIN Plan : Plan[i] = k BY <1>2 DEF GraphInv, PlanInv, Plan
<1>4. \A j \in DOMAIN Plan : node' \in NodesOf(Plan[j]) => j = i BY <1>2, <1>3, PlaceInPlan
<1>5. Plan' = Plan BY DEF Plan
<1>6. /\ reports' \in [Keys -> Texts] /\ reports'[k] = ""
      /\ \A j \in DOMAIN Plan : j > i => reports'[Plan[j]] = ""
  BY <1>1, <1>2, <1>3 DEF TextInv
<1>7. ReportInv' BY ZenonT(60), <1>3, <1>4, <1>5, <1>6 DEF ReportInv, NodesOf
<1> QED BY <1>1, <1>2, <1>3, <1>7, AnalystText DEF Grows

LEMMA ClearText ==
  ASSUME GraphInv, TextInv, NEW k \in Keys, setup' = setup, ClearMessages(k)
  PROVE  TextInv' /\ Grows
<1>1. /\ node = Specs[k].clear_node /\ UNCHANGED <<invest, risk, plans, reports>>
      /\ node' = AfterClear(k)
  BY DEF ClearMessages
<1>2. node \in NodesOf(k) BY <1>1 DEF NodesOf
<1>3. PICK i \in DOMAIN Plan : Plan[i] = k BY <1>2 DEF GraphInv, PlanInv, Plan
<1>4. /\ Plan \in Seq(Keys) /\ Plan' = Plan /\ i \in Nat
      /\ \A j \in DOMAIN Plan : Plan[j] = k => j = i
  <2>1. Plan' = Plan BY DEF Plan
  <2> QED BY <1>3, <2>1, PlanFacts
<1>5. /\ reports' \in [Keys -> Texts]
      /\ \A j \in DOMAIN Plan : j > i => reports'[Plan[j]] = ""
  BY <1>1, <1>2, <1>3 DEF TextInv
<1>6. AfterClear(k) = IF i < Len(Plan) THEN Specs[Plan[i + 1]].agent_node ELSE "Bull Researcher"
  <2> DEFINE c == CHOOSE c \in DOMAIN Plan : Plan[c] = k
  <2>1. c = i BY <1>3, <1>4
  <2>2. AfterClear(k) = IF c < Len(Plan) THEN Specs[Plan[c + 1]].agent_node ELSE "Bull Researcher"
    BY DEF AfterClear, Plan
  <2> QED BY <2>1, <2>2
<1>7. CASE i < Len(Plan)
  <2>1. i + 1 \in DOMAIN Plan /\ i + 1 > i BY <1>3, <1>4, <1>7
  <2>7. Plan[i + 1] \in Keys BY <2>1, PlanFacts
  <2>2. node' \in NodesOf(Plan[i + 1]) BY <1>1, <1>6, <1>7 DEF NodesOf
  <2>3. node' \in Working BY <2>2, <2>7, NodesApart
  <2>4. \A j \in DOMAIN Plan : node' \in NodesOf(Plan[j]) => j = i + 1
    BY <2>1, <2>2, PlaceInPlan
  <2>5. reports'[Plan[i + 1]] = "" BY <1>5, <2>1
  <2>8. ASSUME NEW j \in DOMAIN Plan, NEW l \in DOMAIN Plan
        PROVE  /\ node' \in NodesOf(Plan[j]) /\ l > j => reports'[Plan[l]] = ""
               /\ node' \in {Specs[Plan[j]].agent_node, Specs[Plan[j]].tool_node} =>
                    reports'[Plan[j]] = ""
    <3>1. node' \in NodesOf(Plan[j]) => j = i + 1 BY <2>4
    <3>2. l > i + 1 => l > i BY <1>4, PlanFacts
    <3> QED BY <1>5, <2>5, <3>1, <3>2 DEF NodesOf
  <2>6. ReportInv' BY <1>4, <1>5, <2>8 DEF ReportInv
  <2> QED BY <1>1, <1>2, <1>3, <2>3, <2>6, AnalystText DEF Grows
<1>8. CASE ~(i < Len(Plan))
  <2>1. node' = "Bull Researcher" BY <1>1, <1>6, <1>8
  <2>2. \A j \in DOMAIN Plan : node' \notin NodesOf(Plan[j])
    <3>1. \A l \in Keys : "Bull Researcher" \notin NodesOf(l)
      BY NodesApart DEF FixedNodes, Debaters
    <3> QED BY <2>1, <3>1, PlanFacts
  <2>3. ReportInv' BY <1>4, <1>5, <2>2 DEF ReportInv, NodesOf
  <2> QED BY <1>1, <1>2, <1>3, <2>1, <2>3, AnalystText DEF Grows
<1> QED BY <1>7, <1>8

\* Beyond the analysts the reports stay what they are.
LEMMA ReportsStay ==
  ASSUME GraphInv, ReportInv, setup' = setup, reports' = reports,
         node' \in FixedNodes \cup {"END", "failed"}
  PROVE  ReportInv'
<1>1. \A k \in Keys : node' \notin NodesOf(k) BY NodesApart
<1>2. Plan' = Plan /\ \A i \in DOMAIN Plan : Plan[i] \in Keys BY PlanFacts DEF Plan
<1>3. \A i \in DOMAIN Plan : node' \notin NodesOf(Plan[i]) BY <1>1, <1>2
<1> QED BY <1>2, <1>3 DEF ReportInv, NodesOf

\* The names of the nodes of the debates.
LEMMA DebateNodes ==
  /\ Debaters \subseteq Early /\ "Research Manager" \in Early
  /\ FixedNodes \subseteq Running
  /\ \A n \in RiskAnalysts \cup {"Trader", "Portfolio Manager", "END", "failed"} : n \notin Early
  /\ \A n \in {"END", "failed"} : n \notin Running
<1>1. \A n \in FixedNodes \cup {"END", "failed"} : n \notin Working
  <2> SUFFICES ASSUME NEW n \in FixedNodes \cup {"END", "failed"}, n \in Working PROVE FALSE
    OBVIOUS
  <2>1. PICK k \in Keys : n \in NodesOf(k) BY NodesApart
  <2> QED BY <2>1, NodesApart
<1>2. \A n \in {"END", "failed"} : n \notin FixedNodes BY DEF FixedNodes, Debaters, RiskAnalysts
<1>3. Running = FixedNodes \cup Working BY DEF Running, Working
<1> QED BY <1>1, <1>2, <1>3 DEF Early, FixedNodes, Debaters, RiskAnalysts

LEMMA InvestText ==
  ASSUME GraphInv, TextInv, setup' = setup, BullResearcher \/ BearResearcher
  PROVE  TextInv' /\ Grows
<1>1. /\ node \in Debaters /\ UNCHANGED <<reports, risk, plans>> /\ invest'.judge = ""
      /\ "judge" \in DOMAIN invest' /\ node' = ShouldContinueDebate(invest')
  <2>1. CASE BullResearcher BY <2>1 DEF BullResearcher, Debaters
  <2>2. CASE BearResearcher BY <2>2 DEF BearResearcher, Debaters
  <2> QED BY <2>1, <2>2
<1>2. node' \in Debaters \cup {"Research Manager"} BY <1>1 DEF ShouldContinueDebate, Debaters
<1>3. ReportInv' BY <1>1, <1>2, ReportsStay, TextParts DEF FixedNodes
<1>4. invest.judge = "" /\ plans.trader = "" /\ risk.judge = "" /\ plans.investment = ""
  BY <1>1, DebateNodes DEF TextInv, FixedNodes
<1>5. PlansInv' BY <1>1, <1>4 DEF TextInv, PlansInv
<1> QED BY <1>1, <1>3, <1>4, <1>5 DEF TextInv, ReportInv, PlansInv, Grows

LEMMA ManagerText ==
  ASSUME GraphInv, TextInv, setup' = setup, NEW text \in Texts,
         ResearchManager(text) \/ Trader(text) \/ PortfolioManager(text)
  PROVE  TextInv' /\ Grows
<1>1. CASE ResearchManager(text)
  <2> DEFINE current == [by |-> "Manager", turn |-> invest.current.turn]
  <2>1. /\ node = "Research Manager" /\ UNCHANGED <<reports, risk>> /\ node' = "Trader"
        /\ invest' = [[invest EXCEPT !.judge = text] EXCEPT !.current = current]
        /\ plans' = [plans EXCEPT !.investment = text]
    BY <1>1 DEF ResearchManager
  <2> HIDE DEF current
  <2>2. plans \in [investment : Texts, trader : Texts, final : Texts] BY DEF TextInv
  <2>3. /\ plans'.investment = text /\ plans'.trader = plans.trader /\ plans'.final = plans.final
        /\ plans' \in [investment : Texts, trader : Texts, final : Texts]
    BY <2>1, <2>2
  <2>4. node \in Early /\ node \in Running BY <2>1, DebateNodes DEF FixedNodes
  <2>5. invest.judge = "" /\ plans.trader = "" /\ risk.judge = "" BY <2>4 DEF TextInv
  <2>6. invest'.judge = text /\ "judge" \in DOMAIN invest'
    <3>1. "judge" \in DOMAIN invest BY DEF TextInv
    <3> QED BY <2>1, <3>1
  <2>7. ReportInv' BY <2>1, ReportsStay, TextParts DEF FixedNodes
  <2>8. node' \notin Early BY <2>1, DebateNodes
  <2>9. PlansInv' BY <2>1, <2>2, <2>3, <2>5, <2>6, <2>8 DEF TextInv, PlansInv
  <2> QED BY <2>1, <2>3, <2>5, <2>7, <2>9 DEF TextInv, ReportInv, PlansInv, Grows
<1>2. CASE Trader(text)
  <2>1. /\ node = "Trader" /\ UNCHANGED <<reports, invest, risk>> /\ node' = "Aggressive Analyst"
        /\ plans' = [plans EXCEPT !.trader = text]
    BY <1>2 DEF Trader
  <2>2. plans \in [investment : Texts, trader : Texts, final : Texts] BY DEF TextInv
  <2>3. /\ plans'.investment = plans.investment /\ plans'.final = plans.final
        /\ plans' \in [investment : Texts, trader : Texts, final : Texts]
    BY <2>1, <2>2
  <2>4. node \in Running BY <2>1, DebateNodes DEF FixedNodes
  <2>5. plans.trader = "" /\ risk.judge = "" BY <2>1, <2>4 DEF TextInv
  <2>6. ReportInv' BY <2>1, ReportsStay, TextParts DEF FixedNodes, RiskAnalysts
  <2>7. node' \notin Early /\ node' # "Trader" BY <2>1, DebateNodes DEF RiskAnalysts
  <2>8. PlansInv' BY <2>1, <2>3, <2>5, <2>7 DEF TextInv, PlansInv
  <2> QED BY <2>1, <2>5, <2>6, <2>8 DEF TextInv, ReportInv, PlansInv, Grows
<1>3. CASE PortfolioManager(text)
  <2>1. /\ node = "Portfolio Manager" /\ UNCHANGED <<reports, invest>> /\ node' = "END"
        /\ risk' = [[risk EXCEPT !.judge = text] EXCEPT !.latest = "Judge"]
        /\ plans' = [plans EXCEPT !.final = text]
    BY <1>3 DEF PortfolioManager
  <2>2. plans \in [investment : Texts, trader : Texts, final : Texts] BY DEF TextInv
  <2>3. /\ plans'.investment = plans.investment /\ plans'.trader = plans.trader
        /\ plans'.final = text
        /\ plans' \in [investment : Texts, trader : Texts, final : Texts]
    BY <2>1, <2>2
  <2>4. node \in Running BY <2>1, DebateNodes DEF FixedNodes
  <2>5. risk.judge = "" BY <2>4 DEF TextInv
  <2>6. risk'.judge = text /\ "judge" \in DOMAIN risk'
    <3>1. "judge" \in DOMAIN risk BY DEF TextInv
    <3> QED BY <2>1, <3>1
  <2>7. ReportInv' BY <2>1, ReportsStay, TextParts
  <2>8. node' \notin Early /\ node' # "Trader" /\ node' \notin Running BY <2>1, DebateNodes
  <2>9. PlansInv' BY <2>1, <2>3, <2>6, <2>8 DEF TextInv, PlansInv
  <2> QED BY <2>1, <2>3, <2>5, <2>7, <2>9 DEF TextInv, ReportInv, PlansInv, Grows
<1> QED BY <1>1, <1>2, <1>3

\* The turns of the risk analysts.
LEMMA RiskText ==
  ASSUME GraphInv, TextInv, setup' = setup,
         AggressiveAnalyst \/ ConservativeAnalyst \/ NeutralAnalyst
  PROVE  TextInv' /\ Grows
<1>1. /\ node \in RiskAnalysts /\ UNCHANGED <<reports, invest, plans>> /\ risk'.judge = ""
      /\ "judge" \in DOMAIN risk' /\ node' = ShouldContinueRiskAnalysis(risk')
  <2>1. CASE AggressiveAnalyst BY <2>1 DEF AggressiveAnalyst, RiskAnalysts
  <2>2. CASE ConservativeAnalyst BY <2>2 DEF ConservativeAnalyst, RiskAnalysts
  <2>3. CASE NeutralAnalyst BY <2>3 DEF NeutralAnalyst, RiskAnalysts
  <2> QED BY <2>1, <2>2, <2>3
<1>2. node' \in RiskAnalysts \cup {"Portfolio Manager"}
  BY <1>1 DEF ShouldContinueRiskAnalysis, RiskAnalysts
<1>3. ReportInv' BY <1>1, <1>2, ReportsStay, TextParts DEF FixedNodes
<1>4. risk.judge = "" BY <1>1, DebateNodes DEF TextInv, FixedNodes
<1>5. node' \notin Early /\ node' # "Trader" BY <1>2, DebateNodes DEF RiskAnalysts
<1>6. PlansInv' BY <1>1, <1>4, <1>5 DEF TextInv, PlansInv
<1> QED BY <1>1, <1>3, <1>4, <1>6 DEF TextInv, ReportInv, PlansInv, Grows

\* A superstep keeps the order of the texts, and takes none back.
LEMMA TextStep ==
  ASSUME GraphInv, TextInv, Superstep
  PROVE  TextInv' /\ Grows /\ node \in Running
<1>1. setup' = setup /\ NodeRuns BY DEF Superstep
<1>2. ASSUME NEW k \in Keys, NEW calls \in BOOLEAN, NEW text \in Texts, Report(k, calls, text)
      PROVE  TextInv' /\ Grows
  BY <1>1, <1>2, ReportText
<1>3. ASSUME MarketAnalyst \/ SentimentAnalyst \/ NewsAnalyst \/ FundamentalsAnalyst
      PROVE  TextInv' /\ Grows
  BY <1>2, <1>3 DEF MarketAnalyst, SentimentAnalyst, NewsAnalyst, FundamentalsAnalyst, Keys
<1>4. ASSUME NEW k \in Keys, RunTools(k) \/ ClearMessages(k) PROVE TextInv' /\ Grows
  BY <1>1, <1>4, ToolsText, ClearText
<1>5. ASSUME NEW text \in Texts, ResearchManager(text) \/ Trader(text) \/ PortfolioManager(text)
      PROVE  TextInv' /\ Grows
  BY <1>1, <1>5, ManagerText
<1>6. ASSUME BullResearcher \/ BearResearcher PROVE TextInv' /\ Grows
  BY <1>1, <1>6, InvestText
<1>7. ASSUME AggressiveAnalyst \/ ConservativeAnalyst \/ NeutralAnalyst PROVE TextInv' /\ Grows
  BY <1>1, <1>7, RiskText
<1>8. TextInv' /\ Grows
  BY <1>1, <1>3, <1>4, <1>5, <1>6, <1>7 DEF NodeRuns, InvokeStructuredOrFreetext
<1>9. node \in Running
  <2>1. ASSUME NEW k \in Keys, NEW calls, NEW text, Report(k, calls, text) PROVE node \in Running
    BY <2>1 DEF Report, Running, AnalystNodes
  <2>2. MarketAnalyst \/ SentimentAnalyst \/ NewsAnalyst \/ FundamentalsAnalyst => node \in Running
    BY <2>1 DEF MarketAnalyst, SentimentAnalyst, NewsAnalyst, FundamentalsAnalyst, Keys
  <2>3. ASSUME NEW k \in Keys, RunTools(k) \/ ClearMessages(k) PROVE node \in Running
    BY <2>3 DEF RunTools, ClearMessages, Running, ToolNodes, ClearNodes
  <2>4. ASSUME NEW text, ResearchManager(text) \/ Trader(text) \/ PortfolioManager(text)
        PROVE  node \in Running
    BY <2>4, DebateNodes DEF ResearchManager, Trader, PortfolioManager, FixedNodes
  <2>5. BullResearcher \/ BearResearcher => node \in Running
    BY DebateNodes DEF BullResearcher, BearResearcher, FixedNodes, Debaters
  <2>6. AggressiveAnalyst \/ ConservativeAnalyst \/ NeutralAnalyst => node \in Running
    BY DebateNodes
       DEF AggressiveAnalyst, ConservativeAnalyst, NeutralAnalyst, FixedNodes, RiskAnalysts
  <2> QED BY <1>1, <2>2, <2>3, <2>4, <2>5, <2>6 DEF NodeRuns
<1> QED BY <1>8, <1>9

-----------------------------------------------------------------------------
(* The display. *)

Buffers == [status : [Agents -> Statuses], sections : [Sections -> Shown]]

\* Which agents a buffer shows as through.
Through(b) == {a \in Agents : b.status[a] = "completed"}

\* Everybody of the debates is an agent, and their reports are sections.
LEMMA Shows ==
  /\ FixedNodes \subseteq Agents /\ ResearchTeam \subseteq Agents /\ RiskAnalysts \subseteq Agents
  /\ \A a \in FixedNodes : a \in Shown
  /\ "investment" \in Sections /\ "trader" \in Sections /\ "final" \in Sections
  /\ "in_progress" \in Statuses /\ "completed" \in Statuses
BY DEF Agents, FixedNodes, ResearchTeam, Debaters, Shown, Sections, Statuses

\* The part of the research team: through with the judgement.
AfterResearch(n, b, inv) ==
  /\ n \in Buffers
  /\ \A a \in Agents \ (ResearchTeam \cup {"Trader"}) : a \in Through(n) <=> a \in Through(b)
  /\ \A a \in ResearchTeam : a \in Through(n) <=> inv.judge # ""
  /\ "Trader" \in Through(n) => "Trader" \in Through(b)
  /\ \A s \in Sections \ {"investment"} : n.sections[s] = b.sections[s]
  /\ inv.judge # "" => n.sections["investment"] = "Research Manager"

LEMMA ResearchFacts ==
  ASSUME NEW b \in Buffers, NEW inv, inv.judge = "" => Through(b) \cap ResearchTeam = {}
  PROVE  AfterResearch(UpdateResearch(b, inv), b, inv)
<1> DEFINE spoken == inv.bull # <<>> \/ inv.bear # <<>>
           b1 == IF spoken THEN SetStatus(b, ResearchTeam, "in_progress") ELSE b
           b2 == IF inv.bear # <<>> THEN SetSection(b1, "investment", "Bear Researcher")
                 ELSE IF inv.bull # <<>> THEN SetSection(b1, "investment", "Bull Researcher") ELSE b1
           b3 == SetSection(b2, "investment", "Research Manager")
           b4 == SetStatus(b3, ResearchTeam, "completed")
           b5 == SetStatus(b4, {"Trader"}, "in_progress")
           n == UpdateResearch(b, inv)
<1> SUFFICES /\ n \in Buffers
             /\ \A a \in Agents \ (ResearchTeam \cup {"Trader"}) : n.status[a] = b.status[a]
             /\ \A a \in ResearchTeam : n.status[a] = "completed" <=> inv.judge # ""
             /\ n.status["Trader"] \in {b.status["Trader"], "in_progress"}
             /\ \A s \in Sections \ {"investment"} : n.sections[s] = b.sections[s]
             /\ inv.judge # "" => n.sections["investment"] = "Research Manager"
  <2> HIDE DEF n
  <2>1. /\ \A a \in Agents : a \in Through(n) <=> n.status[a] = "completed"
        /\ \A a \in Agents : a \in Through(b) <=> b.status[a] = "completed"
        /\ \A a \in ResearchTeam \cup {"Trader"} : a \in Agents
    BY Shows DEF Through, FixedNodes
  <2>2. (n.status["Trader"] \in {b.status["Trader"], "in_progress"}) =>
          ("Trader" \in Through(n) => "Trader" \in Through(b))
    BY <2>1
  <2>3. AfterResearch(n, b, inv) BY <2>1, <2>2 DEF AfterResearch
  <2> QED BY <2>3 DEF n
<1>1. n = IF inv.judge = "" THEN b2 ELSE b5 BY DEF UpdateResearch
<1>2. /\ "Bear Researcher" \in Shown /\ "Bull Researcher" \in Shown /\ "Research Manager" \in Shown
      /\ "Trader" \in Agents
  BY Shows DEF FixedNodes, Debaters
<1>11. "in_progress" \in Statuses /\ "completed" \in Statuses /\ "investment" \in Sections
  BY Shows
<1>3. /\ b1 \in Buffers /\ b1.sections = b.sections
      /\ \A a \in Agents : b1.status[a] = IF spoken /\ a \in ResearchTeam THEN "in_progress"
                                          ELSE b.status[a]
  <2>1. CASE spoken BY <1>11, <2>1 DEF SetStatus, Buffers
  <2>2. CASE ~spoken BY <2>2
  <2> QED BY <2>1, <2>2
<1> HIDE DEF b1, spoken, n
<1>4. /\ b2 \in Buffers /\ b2.status = b1.status
      /\ \A s \in Sections \ {"investment"} : b2.sections[s] = b1.sections[s]
  <2>1. CASE inv.bear # <<>> BY <1>2, <1>3, <1>11, <2>1 DEF SetSection, Buffers
  <2>2. CASE inv.bear = <<>> /\ inv.bull # <<>> BY <1>2, <1>3, <1>11, <2>2 DEF SetSection, Buffers
  <2>3. CASE inv.bear = <<>> /\ inv.bull = <<>> BY <1>3, <2>3
  <2> QED BY <2>1, <2>2, <2>3
<1> HIDE DEF b2
<1>5. /\ b3 \in Buffers /\ b3.status = b2.status /\ b3.sections["investment"] = "Research Manager"
      /\ \A s \in Sections \ {"investment"} : b3.sections[s] = b2.sections[s]
  BY <1>2, <1>4, <1>11 DEF SetSection, Buffers
<1> HIDE DEF b3
<1>6. /\ b4 \in Buffers /\ b4.sections = b3.sections
      /\ \A a \in Agents : b4.status[a] = IF a \in ResearchTeam THEN "completed" ELSE b3.status[a]
  BY <1>5, <1>11 DEF SetStatus, Buffers
<1> HIDE DEF b4
<1>7. /\ b5 \in Buffers /\ b5.sections = b4.sections
      /\ \A a \in Agents : b5.status[a] = IF a \in {"Trader"} THEN "in_progress" ELSE b4.status[a]
  BY <1>6, <1>11 DEF SetStatus, Buffers
<1> HIDE DEF b5
<1>8. "Trader" \notin ResearchTeam /\ ResearchTeam \subseteq Agents BY Shows DEF ResearchTeam
<1>9. CASE inv.judge = ""
  <2>1. n = b2 BY <1>1, <1>9
  <2>2. \A a \in ResearchTeam : b.status[a] # "completed" BY <1>8, <1>9 DEF Through
  <2>3. \A a \in ResearchTeam : n.status[a] # "completed" BY <1>3, <1>4, <1>8, <2>1, <2>2
  <2> QED BY <1>2, <1>3, <1>4, <1>8, <1>9, <2>1, <2>3 DEF n
<1>10. CASE inv.judge # ""
  <2>1. n = b5 BY <1>1, <1>10
  <2>2. ASSUME NEW a \in Agents, a \notin ResearchTeam, a # "Trader"
        PROVE  n.status[a] = b.status[a]
    <3>1. n.status[a] = b3.status[a] BY <1>6, <1>7, <2>1, <2>2
    <3>2. b3.status[a] = b.status[a] BY <1>3, <1>4, <1>5, <2>2
    <3> QED BY <3>1, <3>2
  <2>3. \A a \in ResearchTeam : n.status[a] = "completed" BY <1>6, <1>7, <1>8, <2>1
  <2>4. n.status["Trader"] = "in_progress" BY <1>2, <1>7, <2>1
  <2>5. /\ \A s \in Sections \ {"investment"} : n.sections[s] = b.sections[s]
        /\ n.sections["investment"] = "Research Manager"
    <3>1. n.sections = b3.sections BY <1>6, <1>7, <2>1
    <3> QED BY <1>3, <1>4, <1>5, <3>1
  <2> QED BY <1>7, <1>10, <2>1, <2>2, <2>3, <2>4, <2>5 DEF n
<1> QED BY <1>9, <1>10

\* The trader's part: through with his plan.
AfterTrading(n, b, plan) ==
  /\ n \in Buffers
  /\ \A a \in Agents \ {"Trader", "Aggressive Analyst"} : a \in Through(n) <=> a \in Through(b)
  /\ "Trader" \in Through(n) <=> plan # ""
  /\ "Aggressive Analyst" \in Through(n) => "Aggressive Analyst" \in Through(b)
  /\ \A s \in Sections \ {"trader"} : n.sections[s] = b.sections[s]
  /\ n.sections["trader"] \in {b.sections["trader"], "Trader"}

LEMMA TradingFacts ==
  ASSUME NEW b \in Buffers, NEW plan, plan = "" => b.status["Trader"] # "completed"
  PROVE  AfterTrading(UpdateTrading(b, plan), b, plan)
<1> DEFINE b1 == SetSection(b, "trader", "Trader")
           b2 == SetStatus(b1, {"Trader"}, "completed")
           b3 == SetStatus(b2, {"Aggressive Analyst"}, "in_progress")
           n == UpdateTrading(b, plan)
<1> SUFFICES /\ n \in Buffers
             /\ \A a \in Agents \ {"Trader", "Aggressive Analyst"} : n.status[a] = b.status[a]
             /\ n.status["Trader"] = "completed" <=> plan # ""
             /\ n.status["Aggressive Analyst"] \in {b.status["Aggressive Analyst"], "in_progress"}
             /\ \A s \in Sections \ {"trader"} : n.sections[s] = b.sections[s]
             /\ n.sections["trader"] \in {b.sections["trader"], "Trader"}
  <2> HIDE DEF n
  <2>1. /\ \A a \in Agents : a \in Through(n) <=> n.status[a] = "completed"
        /\ \A a \in Agents : a \in Through(b) <=> b.status[a] = "completed"
        /\ "Trader" \in Agents /\ "Aggressive Analyst" \in Agents
    BY Shows DEF Through, FixedNodes, RiskAnalysts
  <2>2. (n.status["Aggressive Analyst"] \in {b.status["Aggressive Analyst"], "in_progress"}) =>
          ("Aggressive Analyst" \in Through(n) => "Aggressive Analyst" \in Through(b))
    BY <2>1
  <2>3. AfterTrading(n, b, plan) BY <2>1, <2>2 DEF AfterTrading
  <2> QED BY <2>3 DEF n
<1>1. n = IF plan = "" THEN b ELSE IF b.status["Trader"] = "completed" THEN b1 ELSE b3
  BY DEF UpdateTrading
<1>2. /\ "Trader" \in Shown /\ "Trader" \in Agents /\ "Aggressive Analyst" \in Agents
      /\ "in_progress" \in Statuses /\ "completed" \in Statuses /\ "trader" \in Sections
  BY Shows DEF FixedNodes, RiskAnalysts
<1> HIDE DEF n
<1>3. /\ b1 \in Buffers /\ b1.status = b.status /\ b1.sections["trader"] = "Trader"
      /\ \A s \in Sections \ {"trader"} : b1.sections[s] = b.sections[s]
  BY <1>2 DEF SetSection, Buffers
<1> HIDE DEF b1
<1>4. /\ b2 \in Buffers /\ b2.sections = b1.sections
      /\ \A a \in Agents : b2.status[a] = IF a \in {"Trader"} THEN "completed" ELSE b1.status[a]
  BY <1>2, <1>3 DEF SetStatus, Buffers
<1> HIDE DEF b2
<1>5. /\ b3 \in Buffers /\ b3.sections = b2.sections
      /\ \A a \in Agents : b3.status[a] =
           IF a \in {"Aggressive Analyst"} THEN "in_progress" ELSE b2.status[a]
  BY <1>2, <1>4 DEF SetStatus, Buffers
<1> HIDE DEF b3
<1>6. CASE plan = "" BY <1>1, <1>6 DEF n
<1>7. CASE plan # "" /\ b.status["Trader"] = "completed" BY <1>1, <1>2, <1>3, <1>7 DEF n
<1>8. CASE plan # "" /\ b.status["Trader"] # "completed"
  <2>1. n = b3 BY <1>1, <1>8
  <2>2. ASSUME NEW a \in Agents, a # "Trader", a # "Aggressive Analyst"
        PROVE  n.status[a] = b.status[a]
    BY <1>3, <1>4, <1>5, <2>1, <2>2
  <2>3. n.status["Trader"] = "completed" /\ n.status["Aggressive Analyst"] = "in_progress"
    BY <1>2, <1>4, <1>5, <2>1
  <2>4. n.sections = b1.sections BY <1>4, <1>5, <2>1
  <2> QED BY <1>3, <1>5, <1>8, <2>1, <2>2, <2>3, <2>4 DEF n
<1> QED BY <1>6, <1>7, <1>8

\* The risk analysts argue: nobody of the team is through yet.
Argued(c, b) ==
  /\ c \in Buffers
  /\ Through(c) \cap (RiskAnalysts \cup {"Portfolio Manager"}) = {}
  /\ \A a \in Agents : a \notin RiskAnalysts => c.status[a] = b.status[a]
  /\ \A s \in Sections : s # "final" => c.sections[s] = b.sections[s]

\* A risk analyst who has spoken is at work.
LEMMA SpokenFacts ==
  ASSUME NEW b, NEW c, Argued(c, b), NEW agent \in RiskAnalysts, NEW history
  PROVE  Argued(Spoken(c, agent, history), b)
<1> DEFINE b1 == SetStatus(c, {agent}, "in_progress")
           b2 == SetSection(b1, "final", agent)
           out == Spoken(c, agent, history)
<1>1. out = IF history = <<>> THEN c ELSE b2
  BY Shows DEF Spoken, Through, Argued
<1>2. /\ agent \in Shown /\ agent \in Agents /\ "in_progress" \in Statuses
      /\ "final" \in Sections
  BY Shows DEF FixedNodes
<1> HIDE DEF out
<1>3. /\ b1 \in Buffers /\ b1.sections = c.sections
      /\ \A a \in Agents : b1.status[a] = IF a \in {agent} THEN "in_progress" ELSE c.status[a]
  BY <1>2 DEF SetStatus, Buffers, Argued
<1> HIDE DEF b1
<1>4. /\ b2 \in Buffers /\ b2.status = b1.status
      /\ \A s \in Sections : s # "final" => b2.sections[s] = b1.sections[s]
  BY <1>2, <1>3 DEF SetSection, Buffers
<1> HIDE DEF b2
<1>5. CASE history = <<>> BY <1>1, <1>5 DEF out
<1>6. CASE history # <<>>
  <2>1. out = b2 BY <1>1, <1>6
  <2>2. ASSUME NEW a \in Agents
        PROVE  /\ out.status[a] = "completed" => c.status[a] = "completed"
               /\ a \notin RiskAnalysts => out.status[a] = b.status[a]
    BY <1>3, <1>4, <2>1, <2>2 DEF Argued
  <2>3. Through(out) \subseteq Through(c) BY <2>2 DEF Through
  <2>4. out.sections = b2.sections /\ b1.sections = c.sections /\ out \in Buffers
    BY <1>3, <1>4, <2>1
  <2>5. \A s \in Sections : s # "final" => out.sections[s] = c.sections[s] BY <1>4, <2>4
  <2>6. Argued(out, b) BY <2>2, <2>3, <2>4, <2>5 DEF Argued
  <2> QED BY <2>6 DEF out
<1> QED BY <1>5, <1>6

\* The risk team's part: through with the decision, which comes once.
AfterRisk(n, b, r) ==
  /\ n \in Buffers
  /\ \A a \in Agents \ (RiskAnalysts \cup {"Portfolio Manager"}) :
       a \in Through(n) <=> a \in Through(b)
  /\ \A a \in RiskAnalysts \cup {"Portfolio Manager"} : a \in Through(n) <=> r.judge # ""
  /\ \A s \in Sections \ {"final"} : n.sections[s] = b.sections[s]
  /\ r.judge # "" => n.sections["final"] = "Portfolio Manager"

LEMMA RiskFacts ==
  ASSUME NEW b \in Buffers, NEW r,
         Through(b) \cap (RiskAnalysts \cup {"Portfolio Manager"}) = {}
  PROVE  AfterRisk(UpdateRisk(b, r), b, r)
<1> DEFINE team == RiskAnalysts \cup {"Portfolio Manager"}
           b1 == Spoken(b, "Aggressive Analyst", r.aggressive)
           b2 == Spoken(b1, "Conservative Analyst", r.conservative)
           b3 == Spoken(b2, "Neutral Analyst", r.neutral)
           b4 == SetSection(b3, "final", "Portfolio Manager")
           b5 == SetStatus(b4, team, "completed")
           n == UpdateRisk(b, r)
<1> SUFFICES /\ n \in Buffers
             /\ \A a \in Agents \ team : n.status[a] = b.status[a]
             /\ \A a \in team : n.status[a] = "completed" <=> r.judge # ""
             /\ \A s \in Sections : s # "final" => n.sections[s] = b.sections[s]
             /\ r.judge # "" => n.sections["final"] = "Portfolio Manager"
  <2> HIDE DEF n
  <2>1. /\ \A a \in Agents : a \in Through(n) <=> n.status[a] = "completed"
        /\ \A a \in Agents : a \in Through(b) <=> b.status[a] = "completed"
        /\ \A a \in team : a \in Agents
    BY Shows DEF Through, FixedNodes
  <2>2. ASSUME NEW a \in Agents \ team PROVE a \in Through(n) <=> a \in Through(b) BY ZenonT(60), <2>1
  <2>3. ASSUME NEW a \in team PROVE a \in Through(n) <=> r.judge # "" BY <2>1
  <2>4. \A s \in Sections \ {"final"} : n.sections[s] = b.sections[s] OBVIOUS
  <2>5. AfterRisk(n, b, r) BY <2>2, <2>3, <2>4 DEF AfterRisk
  <2> QED BY <2>5 DEF n
<1>1. n = IF r.judge # "" /\ b3.status["Portfolio Manager"] # "completed" THEN b5 ELSE b3
  BY DEF UpdateRisk
<1> HIDE DEF n
<1>2. /\ team \subseteq Agents /\ "Portfolio Manager" \in Shown /\ "Portfolio Manager" \in Agents
      /\ "completed" \in Statuses /\ "final" \in Sections /\ RiskAnalysts \subseteq team
      /\ "Portfolio Manager" \notin RiskAnalysts
      /\ "Aggressive Analyst" \in RiskAnalysts /\ "Conservative Analyst" \in RiskAnalysts
      /\ "Neutral Analyst" \in RiskAnalysts
  BY Shows DEF FixedNodes, RiskAnalysts
<1>3. Argued(b, b) BY DEF Argued
<1>4. Argued(b1, b) BY <1>2, <1>3, SpokenFacts
<1> HIDE DEF b1
<1>5. Argued(b2, b) BY <1>2, <1>4, SpokenFacts
<1> HIDE DEF b2
<1>6. Argued(b3, b) BY <1>2, <1>5, SpokenFacts
<1> HIDE DEF b3
<1>7. /\ b3 \in Buffers /\ Through(b3) \cap team = {}
      /\ \A a \in Agents : a \notin RiskAnalysts => b3.status[a] = b.status[a]
      /\ \A s \in Sections : s # "final" => b3.sections[s] = b.sections[s]
  BY <1>6 DEF Argued
<1> HIDE DEF team
<1>8. /\ b4 \in Buffers /\ b4.status = b3.status /\ b4.sections["final"] = "Portfolio Manager"
      /\ \A s \in Sections : s # "final" => b4.sections[s] = b3.sections[s]
  BY <1>2, <1>7 DEF SetSection, Buffers
<1> HIDE DEF b4
<1>9. /\ b5 \in Buffers /\ b5.sections = b4.sections
      /\ \A a \in Agents : b5.status[a] = IF a \in team THEN "completed" ELSE b4.status[a]
  BY <1>2, <1>8 DEF SetStatus, Buffers
<1> HIDE DEF b5
<1>12. \A a \in team : b3.status[a] # "completed" BY <1>2, <1>7 DEF Through
<1>10. CASE r.judge = "" BY <1>1, <1>2, <1>7, <1>10, <1>12 DEF n, team
<1>11. CASE r.judge # ""
  <2>1. n = b5 BY <1>1, <1>2, <1>11, <1>12 DEF team
  <2>2. ASSUME NEW a \in Agents, a \notin team PROVE n.status[a] = b.status[a]
    <3>1. n.status[a] = b4.status[a] BY <1>9, <2>1, <2>2
    <3>2. a \in Agents /\ a \notin RiskAnalysts BY <1>2, <2>2
    <3>3. b3.status[a] = b.status[a] BY <1>7, <3>2
    <3> QED BY <1>8, <3>1, <3>3
  <2>3. \A a \in team : n.status[a] = "completed" BY <1>2, <1>9, <2>1
  <2>4. /\ n.sections["final"] = "Portfolio Manager"
        /\ \A s \in Sections : s # "final" => n.sections[s] = b.sections[s]
    BY <1>7, <1>8, <1>9, <2>1
  <2> QED BY <1>9, <1>11, <2>1, <2>2, <2>3, <2>4 DEF n, team
<1> QED BY <1>10, <1>11

\* The analysts: through with the report; Bull may be set to work.
AfterAnalysts(n, b, reps) ==
  /\ n \in Buffers
  /\ \A a \in FixedNodes : a \in Through(n) <=> a \in Through(b)
  /\ \A k \in Selected : AgentOf(k) \in Through(n) <=> reps[k] # ""
  /\ \A k \in Selected : n.sections[k] = IF reps[k] = "" THEN NoText ELSE AgentOf(k)
  /\ \A s \in Sections \ Selected : n.sections[s] = b.sections[s]

\* The agents of the plan, and what is no agent's name.
LEMMA Agencies ==
  ASSUME GraphInv
  PROVE  /\ Selected \subseteq Keys /\ Selected \subseteq Sections
         /\ \A k \in Selected : /\ AgentOf(k) \in Agents /\ AgentOf(k) \in AnalystNodes
                                /\ AgentOf(k) # NoText /\ AgentOf(k) # ""
         /\ \A a \in FixedNodes : a \notin AnalystNodes /\ a \in Agents
         /\ \A a \in Agents : a \in FixedNodes \/ \E k \in Selected : a = AgentOf(k)
         /\ \A k, l \in Selected : AgentOf(k) = AgentOf(l) => k = l
<1>1. Selected \subseteq Keys BY PlanFacts DEF Selected
<1>2. \A k \in Keys : AgentOf(k) \in NodesOf(k) /\ AgentOf(k) \in AnalystNodes
  BY DEF AgentOf, NodesOf, AnalystNodes
<1>3. \A k \in Keys : AgentOf(k) # NoText /\ AgentOf(k) # ""
  <2>1. \A k \in Keys : NodesOf(k) \cap {"None", ""} = {}
    BY NodeNames DEF Keys
  <2> QED BY <1>2, <2>1 DEF NoText
<1>4. \A a \in FixedNodes : a \notin AnalystNodes
  <2> SUFFICES ASSUME NEW a \in FixedNodes, a \in AnalystNodes PROVE FALSE OBVIOUS
  <2>1. PICK k \in Keys : a = AgentOf(k) BY DEF AnalystNodes, AgentOf
  <2> QED BY <1>2, <2>1, NodesApart
<1>5. \A k, l \in Selected : AgentOf(k) = AgentOf(l) => k = l BY <1>1, <1>2, NodesApart
<1> QED BY <1>1, <1>2, <1>3, <1>4, <1>5 DEF Agents, Sections

LEMMA AnalystFacts ==
  ASSUME GraphInv, NEW b \in Buffers, NEW reps,
         \A k \in Selected : reps[k] = "" => b.sections[k] = NoText
  PROVE  AfterAnalysts(UpdateAnalystStatuses(b, reps), b, reps)
<1> DEFINE secs == [s \in DOMAIN b.sections |->
                      IF s \in Selected /\ reps[s] # "" THEN AgentOf(s) ELSE b.sections[s]]
           open == WithoutReport(secs)
           of(i) == IF i \notin open THEN "completed"
                    ELSE IF i = FirstOf(open) THEN "in_progress" ELSE "pending"
           place(a) == CHOOSE i \in DOMAIN Plan : AgentOf(Plan[i]) = a
           stat == [a \in DOMAIN b.status |->
                     IF a \in AnalystNodes THEN of(place(a))
                     ELSE IF a = "Bull Researcher" /\ open = {} /\ b.status[a] = "pending"
                          THEN "in_progress" ELSE b.status[a]]
           n == UpdateAnalystStatuses(b, reps)
<1>1. n.sections = secs /\ n.status = stat /\ n = [sections |-> secs, status |-> stat]
  BY DEF UpdateAnalystStatuses
<1>2. /\ b.status \in [Agents -> Statuses] /\ b.sections \in [Sections -> Shown] BY DEF Buffers
<1>3. /\ secs \in [Sections -> Shown]
      /\ \A k \in Selected : secs[k] = IF reps[k] = "" THEN NoText ELSE AgentOf(k)
      /\ \A s \in Sections \ Selected : secs[s] = b.sections[s]
  BY <1>2, Agencies DEF Shown
<1>4. \A i \in DOMAIN Plan : Plan[i] \in Selected BY DEF Selected
<1>5. \A i \in DOMAIN Plan : i \in open <=> reps[Plan[i]] = ""
  <2> HIDE DEF secs
  <2> QED BY ZenonT(60), <1>3, <1>4, Agencies DEF WithoutReport
<1> HIDE DEF open, secs
<1>6. \A i \in DOMAIN Plan : place(AgentOf(Plan[i])) = i BY <1>4, Agencies, PlanFacts
<1> HIDE DEF place
<1>7. \A i : of(i) \in Statuses /\ (of(i) = "completed" <=> i \notin open) BY DEF Statuses
<1> HIDE DEF of
<1>8. ASSUME NEW a \in FixedNodes
      PROVE  stat[a] \in Statuses /\ (stat[a] = "completed" <=> b.status[a] = "completed")
  <2>1. a \in Agents /\ a \notin AnalystNodes /\ b.status[a] \in Statuses BY <1>2, Agencies
  <2>2. stat[a] = IF a = "Bull Researcher" /\ open = {} /\ b.status[a] = "pending"
                  THEN "in_progress" ELSE b.status[a]
    BY <1>2, <2>1
  <2>3. CASE a = "Bull Researcher" /\ open = {} /\ b.status[a] = "pending"
    <3>1. stat[a] = "in_progress" BY <2>2, <2>3
    <3> QED BY <2>3, <3>1 DEF Statuses
  <2>4. CASE ~(a = "Bull Researcher" /\ open = {} /\ b.status[a] = "pending")
    <3>1. stat[a] = b.status[a] BY <2>2, <2>4
    <3> QED BY <2>1, <3>1
  <2> QED BY <2>3, <2>4
<1>9. ASSUME NEW k \in Selected
      PROVE  stat[AgentOf(k)] \in Statuses /\ (stat[AgentOf(k)] = "completed" <=> reps[k] # "")
  <2>1. PICK i \in DOMAIN Plan : Plan[i] = k BY DEF Selected
  <2>2. stat[AgentOf(k)] = of(place(AgentOf(k))) BY <1>2, Agencies
  <2>3. place(AgentOf(k)) = i BY <1>6, <2>1
  <2> QED BY <1>5, <1>7, <2>1, <2>2, <2>3
<1>10. stat \in [Agents -> Statuses]
  <2>1. DOMAIN stat = Agents /\ stat = [a \in Agents |-> stat[a]] BY <1>2
  <2>2. \A a \in Agents : stat[a] \in Statuses BY <1>8, <1>9, Agencies
  <2> HIDE DEF stat
  <2> QED BY <2>1, <2>2
<1> HIDE DEF stat, n
<1>11. n \in Buffers BY <1>1, <1>3, <1>10 DEF Buffers
<1>12. \A a \in FixedNodes : a \in Through(n) <=> a \in Through(b)
  BY <1>1, <1>8, Agencies DEF Through
<1>13. \A k \in Selected : AgentOf(k) \in Through(n) <=> reps[k] # ""
  BY <1>1, <1>9, Agencies DEF Through
<1>14. AfterAnalysts(n, b, reps) BY <1>1, <1>3, <1>11, <1>12, <1>13 DEF AfterAnalysts
<1> QED BY <1>14 DEF n

\* Whose text is whose.
TextsOwned ==
  /\ \A k \in Selected : TextBy(AgentOf(k)) = reports[k]
  /\ \A a \in ResearchTeam : TextBy(a) = invest.judge
  /\ TextBy("Trader") = plans.trader
  /\ \A a \in RiskAnalysts \cup {"Portfolio Manager"} : TextBy(a) = risk.judge

LEMMA Owners == GraphInv => TextsOwned
<1> SUFFICES ASSUME GraphInv PROVE TextsOwned OBVIOUS
<1>1. /\ ResearchTeam \subseteq FixedNodes /\ "Trader" \in FixedNodes
      /\ RiskAnalysts \cup {"Portfolio Manager"} \subseteq FixedNodes
      /\ "Trader" \notin ResearchTeam /\ "Trader" \notin RiskAnalysts \cup {"Portfolio Manager"}
      /\ ResearchTeam \cap (RiskAnalysts \cup {"Portfolio Manager"}) = {}
  BY DEF ResearchTeam, FixedNodes, Debaters, RiskAnalysts
<1>2. ASSUME NEW k \in Selected PROVE TextBy(AgentOf(k)) = reports[k]
  <2>1. AgentOf(k) \notin FixedNodes BY Agencies
  <2>2. TextBy(AgentOf(k)) = reports[CHOOSE l \in Selected : AgentOf(l) = AgentOf(k)]
    BY <1>1, <2>1 DEF TextBy
  <2>3. (CHOOSE l \in Selected : AgentOf(l) = AgentOf(k)) = k BY Agencies
  <2> QED BY <2>2, <2>3
<1>3. \A a \in ResearchTeam : TextBy(a) = invest.judge BY DEF TextBy
<1>4. TextBy("Trader") = plans.trader BY <1>1 DEF TextBy
<1>5. \A a \in RiskAnalysts \cup {"Portfolio Manager"} : TextBy(a) = risk.judge
  BY <1>1 DEF TextBy
<1> QED BY <1>2, <1>3, <1>4, <1>5 DEF TextsOwned

\* The four parts of the loop's body in order: each finds nobody through too
\* early, and none undoes what another has shown.
LEMMA DisplayStep ==
  ASSUME GraphInv, GraphInv', TextInv, DisplayInv, Superstep, HandleChunk
  PROVE  DisplayInv'
<1> DEFINE team == RiskAnalysts \cup {"Portfolio Manager"}
           b0 == [status |-> status, sections |-> sections]
           b1 == UpdateAnalystStatuses(b0, reports')
           b2 == UpdateResearch(b1, invest')
           b3 == UpdateTrading(b2, plans'.trader)
           b4 == UpdateRisk(b3, risk')
<1>1. /\ Plan' = Plan /\ Selected' = Selected /\ Agents' = Agents /\ Sections' = Sections
      /\ Shown' = Shown
  BY DEF Superstep, Plan, Selected, Agents, Sections, Shown
<1>2. Grows /\ risk.judge = "" BY TextStep DEF TextInv
<1>3. TextsOwned /\ TextsOwned'
  <2>1. TextsOwned BY Owners
  <2>2. TextsOwned' BY Owners, PTL
  <2> QED BY <2>1, <2>2
<1>4. status' = b4.status /\ sections' = b4.sections BY DEF HandleChunk
<1>5. /\ b0.status = status /\ b0.sections = sections /\ b0 \in Buffers
      /\ \A a \in Agents : a \in Through(b0) <=> TextBy(a) # ""
  BY DEF DisplayInv, Buffers, Through
<1> HIDE DEF b0
<1>6. AfterAnalysts(b1, b0, reports')
  <2>1. \A k \in Selected : reports'[k] = "" => b0.sections[k] = NoText
    BY <1>2, <1>5, Agencies DEF DisplayInv, Grows
  <2> QED BY <1>5, <2>1, AnalystFacts
<1> HIDE DEF b1
<1>7. /\ ResearchTeam \subseteq FixedNodes /\ "Trader" \in FixedNodes /\ team \subseteq FixedNodes
      /\ "Trader" \notin ResearchTeam /\ "Trader" \notin team /\ ResearchTeam \cap team = {}
      /\ "Aggressive Analyst" \in team
  BY DEF ResearchTeam, FixedNodes, Debaters, RiskAnalysts
<1>8. /\ b1 \in Buffers
      /\ \A a \in ResearchTeam : a \in Through(b1) <=> invest.judge # ""
      /\ "Trader" \in Through(b1) <=> plans.trader # ""
      /\ Through(b1) \cap team = {}
  BY ZenonT(60), <1>2, <1>3, <1>5, <1>6, <1>7, Agencies DEF AfterAnalysts, TextsOwned
<1>9. AfterResearch(b2, b1, invest')
  <2>1. invest'.judge = "" => Through(b1) \cap ResearchTeam = {} BY <1>2, <1>8 DEF Grows
  <2> QED BY <1>8, <2>1, ResearchFacts
<1> HIDE DEF b2
<1>10. /\ b2 \in Buffers
       /\ "Trader" \in Through(b2) => plans.trader # ""
       /\ \A a \in team : a \notin Through(b2)
  BY <1>7, <1>8, <1>9, Agencies DEF AfterResearch
<1>11. AfterTrading(b3, b2, plans'.trader)
  <2>1. plans'.trader = "" => b2.status["Trader"] # "completed"
    BY <1>2, <1>7, <1>10, Agencies DEF Grows, Through
  <2> QED BY <1>10, <2>1, TradingFacts
<1> HIDE DEF b3
<1>12. b3 \in Buffers /\ Through(b3) \cap team = {}
  <2>1. b3 \in Buffers BY <1>11 DEF AfterTrading
  <2>2. ASSUME NEW a \in team PROVE a \notin Through(b3)
    <3>1. a \in Agents /\ a # "Trader" /\ a \notin Through(b2) BY <1>7, <1>10, Agencies
    <3>2. CASE a = "Aggressive Analyst" BY <1>11, <3>1, <3>2 DEF AfterTrading
    <3>3. CASE a # "Aggressive Analyst" BY <1>11, <3>1, <3>3 DEF AfterTrading
    <3> QED BY <3>2, <3>3
  <2> QED BY <2>1, <2>2
<1>13. AfterRisk(b4, b3, risk') BY <1>12, RiskFacts
<1> HIDE DEF b4
<1>14. ASSUME NEW a \in Agents PROVE a \in Through(b4) <=> TextBy(a)' # ""
  <2>1. CASE \E k \in Selected : a = AgentOf(k)
    <3>1. PICK k \in Selected : a = AgentOf(k) BY <2>1
    <3>2. a \notin FixedNodes /\ a \notin ResearchTeam /\ a # "Trader" /\ a \notin team
      BY <1>7, <3>1, Agencies
    <3>3. a \in Through(b4) <=> reports'[k] # ""
      BY <1>6, <1>7, <1>9, <1>11, <1>13, <3>1, <3>2
         DEF AfterAnalysts, AfterResearch, AfterTrading, AfterRisk
    <3> QED BY <1>1, <1>3, <3>1, <3>3 DEF TextsOwned
  <2>2. CASE a \in ResearchTeam
    <3>1. a \in Through(b4) <=> invest'.judge # ""
      BY <1>7, <1>9, <1>11, <1>13, <2>2 DEF AfterResearch, AfterTrading, AfterRisk
    <3> QED BY <1>3, <2>2, <3>1 DEF TextsOwned
  <2>3. CASE a = "Trader"
    <3>1. a \in Through(b4) <=> plans'.trader # ""
      BY <1>7, <1>11, <1>13, <2>3 DEF AfterTrading, AfterRisk
    <3> QED BY <1>3, <2>3, <3>1 DEF TextsOwned
  <2>4. CASE a \in team BY <1>3, <1>13, <2>4 DEF AfterRisk, TextsOwned
  <2>5. a \in FixedNodes => a \in ResearchTeam \/ a = "Trader" \/ a \in team
    BY DEF ResearchTeam, FixedNodes, Debaters
  <2> QED BY <2>1, <2>2, <2>3, <2>4, <2>5, Agencies
<1>15. /\ "investment" \in Sections \ Selected /\ "trader" \in Sections \ Selected
       /\ "final" \in Sections \ Selected
  BY Agencies, Shows DEF Keys
<1>16. /\ \A k \in Selected : b4.sections[k] = IF reports'[k] = "" THEN NoText ELSE AgentOf(k)
       /\ invest'.judge # "" => b4.sections["investment"] = "Research Manager"
       /\ b4.sections["trader"] \in {NoText, "Trader"}
       /\ risk'.judge # "" => b4.sections["final"] = "Portfolio Manager"
  <2>1. ASSUME NEW k \in Selected PROVE b4.sections[k] = b1.sections[k]
    <3>1. k \in Sections \ {"investment", "trader", "final"} BY <1>15, Agencies
    <3> QED BY <1>9, <1>11, <1>13, <3>1 DEF AfterResearch, AfterTrading, AfterRisk
  <2>2. b4.sections["investment"] = b2.sections["investment"]
    BY <1>11, <1>13, <1>15 DEF AfterTrading, AfterRisk
  <2>3. b4.sections["trader"] = b3.sections["trader"] BY <1>13, <1>15 DEF AfterRisk
  <2>4. b2.sections["trader"] = sections["trader"]
    BY <1>5, <1>6, <1>9, <1>15 DEF AfterAnalysts, AfterResearch
  <2>5. b3.sections["trader"] \in {b2.sections["trader"], "Trader"} BY <1>11 DEF AfterTrading
  <2>6. sections["trader"] \in {NoText, "Trader"} BY DEF DisplayInv
  <2> QED BY <1>6, <1>9, <1>13, <2>1, <2>2, <2>3, <2>4, <2>5, <2>6
          DEF AfterAnalysts, AfterResearch, AfterRisk
<1>17. /\ b4.status \in [Agents -> Statuses] /\ b4.sections \in [Sections -> Shown]
       /\ \A a \in Agents : a \in Through(b4) <=> b4.status[a] = "completed"
  BY <1>13 DEF AfterRisk, Buffers, Through
<1> QED BY <1>1, <1>4, <1>14, <1>16, <1>17 DEF DisplayInv, AgentOf

-----------------------------------------------------------------------------
(* The times. *)

\* In a superstep at most one analyst comes out with a report, the last so far.
LEMMA OneReport ==
  ASSUME GraphInv, TextInv, Superstep
  PROVE  \/ reports' = reports
         \/ \E c \in DOMAIN Plan :
              /\ reports[Plan[c]] = "" /\ \A j \in DOMAIN Plan : j > c => reports[Plan[j]] = ""
              /\ \A j \in DOMAIN Plan : j # c => reports'[Plan[j]] = reports[Plan[j]]
<1>1. ASSUME NEW k \in Keys, NEW calls \in BOOLEAN, NEW text \in Texts, Report(k, calls, text)
      PROVE  \E c \in DOMAIN Plan :
               /\ reports[Plan[c]] = "" /\ \A j \in DOMAIN Plan : j > c => reports[Plan[j]] = ""
               /\ \A j \in DOMAIN Plan : j # c => reports'[Plan[j]] = reports[Plan[j]]
  <2>1. /\ node = Specs[k].agent_node
        /\ reports' = [reports EXCEPT ![k] = IF calls THEN "" ELSE text]
    BY <1>1 DEF Report
  <2>2. node \in NodesOf(k) BY <2>1 DEF NodesOf
  <2>3. PICK c \in DOMAIN Plan : Plan[c] = k BY <2>2 DEF GraphInv, PlanInv, Plan
  <2>4. /\ reports \in [Keys -> Texts] /\ reports[k] = ""
        /\ \A j \in DOMAIN Plan : j > c => reports[Plan[j]] = ""
    BY <2>1, <2>2, <2>3 DEF TextInv
  <2>5. \A j \in DOMAIN Plan : j # c => Plan[j] # k /\ Plan[j] \in Keys BY <2>3, PlanFacts
  <2>6. \A j \in DOMAIN Plan : j # c => reports'[Plan[j]] = reports[Plan[j]]
    BY <2>1, <2>4, <2>5
  <2> QED BY <2>3, <2>4, <2>6
<1>2. NodeRuns BY DEF Superstep
<1>3. ASSUME NEW k, RunTools(k) \/ ClearMessages(k) PROVE reports' = reports
  BY <1>3 DEF RunTools, ClearMessages
<1>4. ASSUME NEW text, ResearchManager(text) \/ Trader(text) \/ PortfolioManager(text)
      PROVE  reports' = reports
  BY <1>4 DEF ResearchManager, Trader, PortfolioManager
<1>5. BullResearcher \/ BearResearcher => reports' = reports
  BY DEF BullResearcher, BearResearcher
<1>6. AggressiveAnalyst \/ ConservativeAnalyst \/ NeutralAnalyst => reports' = reports
  BY DEF AggressiveAnalyst, ConservativeAnalyst, NeutralAnalyst
<1>7. MarketAnalyst \/ SentimentAnalyst \/ NewsAnalyst \/ FundamentalsAnalyst =>
        \E k \in Keys, calls \in BOOLEAN, text \in Texts : Report(k, calls, text)
  BY DEF MarketAnalyst, SentimentAnalyst, NewsAnalyst, FundamentalsAnalyst, Keys
<1> QED BY <1>1, <1>2, <1>3, <1>4, <1>5, <1>6, <1>7 DEF NodeRuns

\* Analysts by their places.
LEMMA Places ==
  ASSUME GraphInv, NEW S \in SUBSET DOMAIN Plan
  PROVE  /\ {Plan[i] : i \in S} \subseteq Selected
         /\ \A i \in DOMAIN Plan : Plan[i] \in {Plan[j] : j \in S} <=> i \in S
BY PlanFacts DEF Selected

\* A set of places has a first one.
LEMMA FirstPlace ==
  ASSUME GraphInv, NEW S \in SUBSET DOMAIN Plan, S # {}
  PROVE  FirstOf(S) \in S /\ \A j \in S : FirstOf(S) <= j
<1>1. S \in SUBSET Nat BY PlanFacts
<1>2. \E i \in S : \A j \in S : i <= j BY <1>1, LeastElement
<1> QED BY <1>2 DEF FirstOf

\* The tracker after a chunk: by place, who has been started and who is through.
LEMMA TrackerFacts ==
  ASSUME GraphInv, TextInv, TimeInv, Superstep, HandleChunk
  PROVE  /\ Done \subseteq Done' /\ Open' \subseteq Open
         /\ DOMAIN startedAt' = {Plan[i] : i \in {i \in DOMAIN Plan : i \in Done' \/ IsFirstOpen(i)'}}
         /\ DOMAIN wallTimes' = {Plan[i] : i \in Done'}
         /\ \A k \in DOMAIN startedAt' :
              startedAt'[k] = IF k \in DOMAIN startedAt THEN startedAt[k] ELSE steps'
         /\ \A k \in DOMAIN wallTimes' :
              wallTimes'[k] = IF k \in DOMAIN wallTimes THEN wallTimes[k]
                              ELSE steps' - startedAt'[k]
<1> DEFINE open == {i \in DOMAIN Plan : reports'[Plan[i]] = ""}
           seen == Selected \ {Plan[i] : i \in open \ (IF open = {} THEN {} ELSE {FirstOf(open)})}
           at == {i \in DOMAIN Plan : i \in Done' \/ IsFirstOpen(i)'}
<1>1. Plan' = Plan /\ open = Open' /\ Done' = {i \in DOMAIN Plan : reports'[Plan[i]] # ""}
  BY DEF Superstep, Plan, Open, Done
<1>2. Done \subseteq Done' /\ Open' \subseteq Open
  BY <1>1, TextStep, PlanFacts DEF Grows, Done, Open
<1>3. seen = {Plan[i] : i \in at}
  <2>1. \A i \in DOMAIN Plan : i \in Done' <=> i \notin open BY <1>1
  <2>2. \A i \in open : IsFirstOpen(i)' <=> i = FirstOf(open)
    <3> SUFFICES ASSUME NEW i \in open PROVE IsFirstOpen(i)' <=> i = FirstOf(open) OBVIOUS
    <3>1. FirstOf(open) \in open /\ \A j \in open : FirstOf(open) <= j BY FirstPlace
    <3>2. i \in Nat /\ FirstOf(open) \in Nat BY <3>1, PlanFacts
    <3>3. IsFirstOpen(i)' <=> \A j \in open : i <= j BY <1>1 DEF IsFirstOpen
    <3> DEFINE first == FirstOf(open)
    <3> HIDE DEF first, open
    <3>4. ASSUME \A j \in open : i <= j PROVE i = first
      <4>1. i <= first /\ first <= i BY <3>1, <3>4 DEF first
      <4> QED BY <3>2, <4>1 DEF first
    <3>5. i = first => \A j \in open : i <= j BY <3>1 DEF first
    <3> QED BY <3>3, <3>4, <3>5 DEF first
  <2>3. \A i : i \notin open => ~IsFirstOpen(i)' BY <1>1 DEF IsFirstOpen
  <2> DEFINE rest == open \ (IF open = {} THEN {} ELSE {FirstOf(open)})
  <2>4. \A i \in DOMAIN Plan : i \in at <=> i \notin rest BY <2>1, <2>2, <2>3
  <2>5. rest \subseteq DOMAIN Plan /\ at \subseteq DOMAIN Plan OBVIOUS
  <2> HIDE DEF rest, at, open
  <2>6. \A i \in DOMAIN Plan : Plan[i] \in {Plan[j] : j \in rest} <=> i \in rest BY <2>5, Places
  <2>7. \A i \in DOMAIN Plan : Plan[i] \in {Plan[j] : j \in at} <=> i \in at BY <2>5, Places
  <2>8. Selected = {Plan[i] : i \in DOMAIN Plan} BY DEF Selected
  <2>9. seen = {Plan[i] : i \in at}
    <3>1. seen = Selected \ {Plan[i] : i \in rest} BY DEF seen, rest
    <3> QED BY <2>4, <2>5, <2>6, <2>7, <2>8, <3>1
  <2> QED BY <2>9
<1>4. DOMAIN startedAt \subseteq seen
  <2>1. ASSUME NEW i \in DOMAIN Plan, i \in Done \/ IsFirstOpen(i) PROVE i \in at
    <3>1. CASE i \in Done BY <1>2, <3>1
    <3>2. CASE IsFirstOpen(i) /\ i \notin Done'
      <4>1. i \in Open' BY <1>1, <3>2
      <4>2. \A j \in Open' : i <= j BY <1>2, <3>2 DEF IsFirstOpen
      <4> QED BY <4>1, <4>2 DEF IsFirstOpen
    <3> QED BY <2>1, <3>1, <3>2
  <2> HIDE DEF at, seen
  <2>2. DOMAIN startedAt = {Plan[i] : i \in {i \in DOMAIN Plan : i \in Done \/ IsFirstOpen(i)}}
    BY DEF TimeInv
  <2> QED BY <1>3, <2>1, <2>2
<1>5. SyncAnalystTracker(reports', steps') BY DEF HandleChunk
<1>6. /\ startedAt' = [k \in seen \cup DOMAIN startedAt |->
                         IF k \in DOMAIN startedAt THEN startedAt[k] ELSE steps']
      /\ wallTimes' = [k \in DOMAIN wallTimes \cup {k \in Selected : reports'[k] # ""} |->
                         IF k \in DOMAIN wallTimes THEN wallTimes[k] ELSE steps' - startedAt'[k]]
  <2> DEFINE starts == [k \in seen \cup DOMAIN startedAt |->
                          IF k \in DOMAIN startedAt THEN startedAt[k] ELSE steps']
  <2>1. /\ startedAt' = starts
        /\ wallTimes' = [k \in DOMAIN wallTimes \cup {k \in Selected : reports'[k] # ""} |->
                           IF k \in DOMAIN wallTimes THEN wallTimes[k] ELSE steps' - starts[k]]
    BY <1>5 DEF SyncAnalystTracker
  <2> QED BY <2>1
<1> HIDE DEF at, seen, open
<1>7. DOMAIN startedAt' = {Plan[i] : i \in at} BY <1>3, <1>4, <1>6
<1>8. {k \in Selected : reports'[k] # ""} = {Plan[i] : i \in Done'}
  BY <1>1 DEF Selected
<1>9. DOMAIN wallTimes \subseteq {Plan[i] : i \in Done'} BY <1>2 DEF TimeInv
<1>10. DOMAIN wallTimes' = {Plan[i] : i \in Done'} BY <1>6, <1>8, <1>9
<1> QED BY <1>2, <1>6, <1>7, <1>10 DEF at

\* The clock of an analyst starts with the report of the one before him.
LEMMA TimeStep ==
  ASSUME GraphInv, TextInv, TimeInv, Superstep, HandleChunk
  PROVE  TimeInv'
<1> DEFINE InOrder == \A i \in Done, j \in Open : i < j
           Begun(i) == i \in Done \/ IsFirstOpen(i)
           starts == startedAt'
           times == wallTimes'
           done == Done'
           open == Open'
           now == steps'
<1>14. now = steps + 1 /\ steps \in Nat /\ now \in Nat
  <2>1. steps' = steps + 1 /\ steps \in Nat BY DEF Superstep, TimeInv
  <2> QED BY <2>1
<1>1. /\ Plan' = Plan
      /\ open = {i \in DOMAIN Plan : reports'[Plan[i]] = ""}
      /\ done = {i \in DOMAIN Plan : reports'[Plan[i]] # ""}
  <2>1. setup' = setup BY DEF Superstep
  <2>3. Plan' = Plan BY <2>1 DEF Plan
  <2>4. /\ Open' = {i \in DOMAIN Plan : reports'[Plan[i]] = ""}
        /\ Done' = {i \in DOMAIN Plan : reports'[Plan[i]] # ""}
    BY <2>3 DEF Open, Done
  <2> QED BY <2>3, <2>4
<1>2. /\ Done \subseteq done /\ open \subseteq Open
      /\ DOMAIN starts = {Plan[i] : i \in {i \in DOMAIN Plan : i \in done \/ IsFirstOpen(i)'}}
      /\ DOMAIN times = {Plan[i] : i \in done}
      /\ \A k \in DOMAIN starts :
           starts[k] = IF k \in DOMAIN startedAt THEN startedAt[k] ELSE now
      /\ \A k \in DOMAIN times :
           times[k] = IF k \in DOMAIN wallTimes THEN wallTimes[k] ELSE now - starts[k]
  BY TrackerFacts
<1>3. /\ \A k \in DOMAIN startedAt : startedAt[k] \in Nat /\ startedAt[k] <= steps
      /\ DOMAIN wallTimes = {Plan[i] : i \in Done}
      /\ DOMAIN startedAt = {Plan[i] : i \in {i \in DOMAIN Plan : Begun(i)}}
      /\ \A i \in Done : wallTimes[Plan[i]] \in Nat
      /\ InOrder =>
           /\ \A i \in Done : wallTimes[Plan[i]] > 0
           /\ \A i \in DOMAIN Plan :
                i > 1 /\ Begun(i) => startedAt[Plan[i]] = startedAt[Plan[i - 1]] + wallTimes[Plan[i - 1]]
  BY DEF TimeInv
<1>4. /\ \A i \in DOMAIN Plan : i \in done <=> i \notin open
      /\ \A i \in DOMAIN Plan : i \in Done <=> i \notin Open
      /\ Done \subseteq DOMAIN Plan /\ Open \subseteq DOMAIN Plan
  BY <1>1 DEF Done, Open
<1>5. \A i \in open : IsFirstOpen(i)' <=> \A j \in open : i <= j
  BY <1>1 DEF IsFirstOpen
<1>6. \A i \in DOMAIN Plan : i \in Nat /\ (i > 1 => i - 1 \in DOMAIN Plan)
  <2>1. Plan \in Seq(Keys) BY PlanFacts
  <2> QED BY <2>1
<1> HIDE DEF starts, times, done, open, now
<1>7. ASSUME NEW i \in DOMAIN Plan
      PROVE  /\ Plan[i] \in DOMAIN startedAt <=> Begun(i)
             /\ Plan[i] \in DOMAIN wallTimes <=> i \in Done
             /\ Plan[i] \in DOMAIN starts <=> i \in done \/ IsFirstOpen(i)'
             /\ Plan[i] \in DOMAIN times <=> i \in done
  <2> DEFINE S == {j \in DOMAIN Plan : Begun(j)}
             T == {j \in DOMAIN Plan : j \in done \/ IsFirstOpen(j)'}
  <2>1. S \subseteq DOMAIN Plan /\ T \subseteq DOMAIN Plan /\ done \subseteq DOMAIN Plan
    BY <1>1
  <2>2. i \in S <=> Begun(i) OBVIOUS
  <2>3. i \in T <=> i \in done \/ IsFirstOpen(i)' OBVIOUS
  <2>4. /\ DOMAIN startedAt = {Plan[j] : j \in S} /\ DOMAIN starts = {Plan[j] : j \in T}
        /\ DOMAIN wallTimes = {Plan[j] : j \in Done} /\ DOMAIN times = {Plan[j] : j \in done}
    BY <1>2, <1>3
  <2> HIDE DEF S, T, Begun
  <2>5. Plan[i] \in {Plan[j] : j \in S} <=> i \in S BY <2>1, Places
  <2>6. Plan[i] \in {Plan[j] : j \in T} <=> i \in T BY <2>1, Places
  <2>7. Plan[i] \in {Plan[j] : j \in Done} <=> i \in Done BY <1>4, Places
  <2>8. Plan[i] \in {Plan[j] : j \in done} <=> i \in done BY <2>1, Places
  <2> QED BY <2>2, <2>3, <2>4, <2>5, <2>6, <2>7, <2>8
<1>8. ASSUME NEW k \in DOMAIN starts PROVE starts[k] \in Nat /\ starts[k] <= now
  <2>1. CASE k \in DOMAIN startedAt
    <3>1. starts[k] = startedAt[k] /\ startedAt[k] \in Nat /\ startedAt[k] <= steps
      BY <1>2, <1>3, <2>1
    <3> QED BY <1>14, <3>1
  <2>2. CASE k \notin DOMAIN startedAt
    <3>1. starts[k] = now BY <1>2, <2>2
    <3> QED BY <1>14, <3>1
  <2> QED BY <2>1, <2>2
<1>9. \A i \in done : times[Plan[i]] \in Nat
  <2> SUFFICES ASSUME NEW i \in done PROVE times[Plan[i]] \in Nat OBVIOUS
  <2>1. i \in DOMAIN Plan BY <1>1
  <2>2. CASE i \in Done BY <1>2, <1>3, <1>7, <2>1, <2>2
  <2>3. CASE i \notin Done
    <3>1. times[Plan[i]] = now - starts[Plan[i]] BY <1>2, <1>7, <2>1, <2>3
    <3>2. starts[Plan[i]] \in Nat /\ starts[Plan[i]] <= now BY <1>7, <1>8, <2>1
    <3> DEFINE begun == starts[Plan[i]]
    <3> HIDE DEF begun
    <3>3. now - begun \in Nat BY <1>14, <3>2 DEF begun
    <3> QED BY <3>1, <3>3 DEF begun
  <2> QED BY <2>2, <2>3
<1>10. \/ done = Done
       \/ \E c \in Open : done = Done \cup {c} /\ \A i \in Done : i < c
  <2>1. CASE reports' = reports BY <1>1, <2>1 DEF Done
  <2>2. ASSUME NEW c \in DOMAIN Plan,
               reports[Plan[c]] = "", \A j \in DOMAIN Plan : j > c => reports[Plan[j]] = "",
               \A j \in DOMAIN Plan : j # c => reports'[Plan[j]] = reports[Plan[j]]
        PROVE  \/ done = Done
               \/ \E d \in Open : done = Done \cup {d} /\ \A i \in Done : i < d
    <3>1. c \in Open BY <2>2 DEF Open
    <3>2. \A i \in Done : i \in DOMAIN Plan /\ i # c /\ ~(i > c) BY <2>2 DEF Done
    <3>3. \A i \in Done : i < c BY <1>6, <3>2
    <3>4. \A i \in DOMAIN Plan : i # c => (i \in done <=> i \in Done) BY <1>1, <2>2 DEF Done
    <3>5. done = Done \/ done = Done \cup {c}
      <4>1. done \subseteq DOMAIN Plan BY <1>1
      <4>2. CASE c \in done BY <1>2, <1>4, <3>4, <4>1, <4>2
      <4>3. CASE c \notin done BY <1>2, <1>4, <3>4, <4>1, <4>3
      <4> QED BY <4>2, <4>3
    <3> QED BY <3>1, <3>3, <3>5
  <2> QED BY <2>1, <2>2, OneReport
\* Those who had begun keep their times.
<1>11. ASSUME InOrder, NEW i \in DOMAIN Plan, i > 1, Begun(i)
       PROVE  starts[Plan[i]] = starts[Plan[i - 1]] + times[Plan[i - 1]]
  <2>1. i - 1 \in DOMAIN Plan /\ i \in Nat BY <1>6, <1>11
  <2>2. i - 1 \in Done
    <3>1. CASE i \in Done
      <4>1. i - 1 \notin Open BY <1>11, <2>1, <3>1
      <4> QED BY <1>4, <2>1, <4>1
    <3>2. CASE IsFirstOpen(i)
      <4>1. i - 1 \notin Open BY <2>1, <3>2 DEF IsFirstOpen
      <4> QED BY <1>4, <2>1, <4>1
    <3> QED BY <1>11, <3>1, <3>2
  <2>3. startedAt[Plan[i]] = startedAt[Plan[i - 1]] + wallTimes[Plan[i - 1]] BY <1>3, <1>11
  <2>4. Begun(i - 1) /\ i - 1 \in done BY <1>2, <2>2
  <2> HIDE DEF Begun, InOrder
  <2>5. Plan[i] \in DOMAIN startedAt /\ Plan[i - 1] \in DOMAIN startedAt
        /\ Plan[i - 1] \in DOMAIN wallTimes
    BY <1>7, <1>11, <2>1, <2>2, <2>4
  <2>6. DOMAIN startedAt \subseteq DOMAIN starts
    <3>1. \A j \in DOMAIN Plan : Begun(j) => j \in done \/ IsFirstOpen(j)'
      <4> SUFFICES ASSUME NEW j \in DOMAIN Plan, Begun(j), j \notin done PROVE IsFirstOpen(j)'
        OBVIOUS
      <4>1. j \in open /\ IsFirstOpen(j) BY <1>2, <1>4 DEF Begun
      <4> QED BY <1>2, <1>5, <4>1 DEF IsFirstOpen
    <3> QED BY <1>2, <1>3, <3>1
  <2>7. starts[Plan[i]] = startedAt[Plan[i]] /\ starts[Plan[i - 1]] = startedAt[Plan[i - 1]]
    BY <1>2, <2>5, <2>6
  <2>8. times[Plan[i - 1]] = wallTimes[Plan[i - 1]] BY <1>2, <1>7, <2>1, <2>4, <2>5
  <2> QED BY <2>3, <2>7, <2>8
<1>12. ASSUME \A i \in done, j \in open : i < j
       PROVE  /\ \A i \in done : times[Plan[i]] > 0
              /\ \A i \in DOMAIN Plan :
                   i > 1 /\ (i \in done \/ IsFirstOpen(i)') =>
                     starts[Plan[i]] = starts[Plan[i - 1]] + times[Plan[i - 1]]
  <2>1. CASE done = Done
    <3>1. open = Open BY <1>1, <1>4, <2>1
    <3>2. InOrder BY <1>12, <2>1, <3>1
    <3>3. \A i \in done : times[Plan[i]] > 0 BY <1>2, <1>3, <1>4, <1>7, <2>1, <3>2
    <3>4. \A i \in DOMAIN Plan : i \in done \/ IsFirstOpen(i)' => Begun(i)
      BY <1>1, <1>4, <1>5, <2>1, <3>1 DEF IsFirstOpen, Open
    <3> HIDE DEF InOrder, Begun
    <3> QED BY <1>11, <3>2, <3>3, <3>4
  <2>2. ASSUME NEW c \in Open, done = Done \cup {c}, c \notin Done, \A i \in Done : i < c
        PROVE  /\ \A i \in done : times[Plan[i]] > 0
               /\ \A i \in DOMAIN Plan :
                    i > 1 /\ (i \in done \/ IsFirstOpen(i)') =>
                      starts[Plan[i]] = starts[Plan[i - 1]] + times[Plan[i - 1]]
    <3>1. c \in DOMAIN Plan /\ c \in Nat BY <1>4, <1>6
    <3>2. \A j \in Open : j = c \/ j \in open BY <1>4, <2>2
    <3>3. InOrder BY <1>12, <2>2, <3>2
    <3>4. \A j \in open : c < j /\ j \in Nat BY <1>1, <1>6, <1>12, <2>2
    <3>5. IsFirstOpen(c) BY <3>1, <3>2, <3>4 DEF IsFirstOpen
    <3>6. Plan[c] \in DOMAIN startedAt /\ Plan[c] \notin DOMAIN wallTimes
          /\ Plan[c] \in DOMAIN starts /\ Plan[c] \in DOMAIN times
      BY <1>7, <2>2, <3>1, <3>5
    <3>7. starts[Plan[c]] = startedAt[Plan[c]] /\ times[Plan[c]] = now - starts[Plan[c]]
      BY <1>2, <3>6
    <3>8. times[Plan[c]] > 0 /\ starts[Plan[c]] \in Nat
          /\ starts[Plan[c]] + times[Plan[c]] = now
      <4> DEFINE begun == starts[Plan[c]]
      <4>1. begun \in Nat /\ begun <= steps BY <1>3, <3>6, <3>7
      <4> HIDE DEF begun
      <4>2. now - begun > 0 /\ begun + (now - begun) = now BY <1>14, <4>1
      <4> QED BY <3>7, <4>1, <4>2 DEF begun
    <3>9. \A i \in Done : times[Plan[i]] > 0 BY <1>2, <1>3, <1>4, <1>7, <3>3
    <3>10. ASSUME NEW i \in DOMAIN Plan, i > 1, i \in done \/ IsFirstOpen(i)', ~Begun(i)
           PROVE  starts[Plan[i]] = starts[Plan[i - 1]] + times[Plan[i - 1]]
      <4>1. i # c /\ i \notin done /\ i \in open /\ i \in Nat /\ i - 1 \in DOMAIN Plan
        BY <1>4, <1>6, <2>2, <3>5, <3>10
      <4>2. i - 1 \notin open BY <1>5, <3>10, <4>1
      <4>3. i - 1 = c
        <5>1. i - 1 \in Done \/ i - 1 = c BY <1>4, <2>2, <4>1, <4>2
        <5>2. c < i BY <3>4, <4>1
        <5>3. i - 1 \in Done => i - 1 < c BY <2>2
        <5> QED BY <3>1, <4>1, <5>1, <5>2, <5>3
      <4>4. Plan[i] \in DOMAIN starts /\ Plan[i] \notin DOMAIN startedAt
        <5> HIDE DEF Begun
        <5> QED BY <1>7, <3>10
      <4>5. starts[Plan[i]] = now BY <1>2, <4>4
      <4> QED BY <3>8, <4>3, <4>5
    <3> HIDE DEF InOrder, Begun
    <3> QED BY <1>11, <2>2, <3>3, <3>8, <3>9, <3>10
  <2>3. \A c \in Open : c \notin Done BY <1>4
  <2> QED BY <1>10, <2>1, <2>2, <2>3
<1>13. TimeInv' <=>
         /\ now \in Nat
         /\ \A k \in DOMAIN starts : starts[k] \in Nat /\ starts[k] <= now
         /\ DOMAIN times = {Plan[i] : i \in done}
         /\ DOMAIN starts = {Plan[i] : i \in {i \in DOMAIN Plan : i \in done \/ IsFirstOpen(i)'}}
         /\ \A i \in done : times[Plan[i]] \in Nat
         /\ (\A i \in done, j \in open : i < j) =>
              /\ \A i \in done : times[Plan[i]] > 0
              /\ \A i \in DOMAIN Plan :
                   i > 1 /\ (i \in done \/ IsFirstOpen(i)') =>
                     starts[Plan[i]] = starts[Plan[i - 1]] + times[Plan[i - 1]]
  BY <1>1, ZenonT(60) DEF TimeInv, starts, times, done, open, now
<1> QED BY <1>2, <1>8, <1>9, <1>12, <1>13, <1>14

-----------------------------------------------------------------------------
(* The start of a run. *)

LEMMA TextStart == Starts => TextInv
<1> SUFFICES ASSUME Starts PROVE TextInv OBVIOUS
<1>1. GraphInv BY GraphStart
<1>2. "" \in Texts BY DEF Texts
<1>3. /\ reports = [k \in Keys |-> ""] /\ "judge" \in DOMAIN invest /\ "judge" \in DOMAIN risk
      /\ invest.judge = "" /\ risk.judge = ""
      /\ plans = [investment |-> "", trader |-> "", final |-> ""]
  BY DEF Starts, CreateInitialState
<1>4. \A i \in DOMAIN Plan : reports[Plan[i]] = "" BY <1>1, <1>3, PlanFacts
<1> QED BY <1>2, <1>3, <1>4 DEF TextInv

\* init_for_analysis has run.
Cleared ==
  /\ status = [a \in Agents |-> IF a = AgentOf(Plan[1]) THEN "in_progress" ELSE "pending"]
  /\ sections = [s \in Sections |-> NoText]
  /\ startedAt = [k \in {Plan[1]} |-> 0]
  /\ wallTimes = << >>
  /\ steps = 0

LEMMA DisplayStart == Starts /\ Cleared => DisplayInv
<1> SUFFICES ASSUME Starts, Cleared PROVE DisplayInv OBVIOUS
<1>1. GraphInv BY GraphStart
<1>2. TextsOwned BY <1>1, Owners
<1>3. /\ \A k \in Keys : reports[k] = "" /\ invest.judge = "" /\ risk.judge = ""
      /\ plans.trader = ""
  BY DEF Starts, CreateInitialState
<1>15. invest.judge = "" BY DEF Starts, CreateInitialState
<1>16. risk.judge = "" BY DEF Starts, CreateInitialState
<1>4. \A a \in FixedNodes : a \in ResearchTeam \/ a = "Trader" \/ a \in RiskAnalysts
                            \/ a = "Portfolio Manager"
  BY DEF FixedNodes, ResearchTeam, Debaters
<1>5. ASSUME NEW a \in Agents PROVE TextBy(a) = ""
  <2>1. CASE a \in FixedNodes
    <3>1. CASE a \in ResearchTeam
      <4>1. TextBy(a) = invest.judge BY <1>2, <3>1 DEF TextsOwned
      <4> QED BY <1>15, <4>1
    <3>2. CASE a = "Trader" BY <1>2, <1>3, <3>2 DEF TextsOwned
    <3>3. CASE a \in RiskAnalysts \cup {"Portfolio Manager"}
      <4>1. TextBy(a) = risk.judge BY <1>2, <3>3 DEF TextsOwned
      <4> QED BY <1>16, <4>1
    <3> QED BY <1>4, <2>1, <3>1, <3>2, <3>3
  <2>2. CASE a \notin FixedNodes
    <3>1. PICK k \in Selected : a = AgentOf(k) BY <1>1, <2>2, Agencies
    <3>2. k \in Keys BY <1>1, Agencies
    <3> QED BY <1>2, <1>3, <3>1, <3>2 DEF TextsOwned
  <2> QED BY <2>1, <2>2
<1>6. \A a \in Agents : status[a] \in Statuses /\ status[a] # "completed"
  BY DEF Cleared, Statuses
<1>7. status \in [Agents -> Statuses] BY <1>6 DEF Cleared
<1>8. sections \in [Sections -> Shown] /\ \A s \in Sections : sections[s] = NoText
  BY DEF Cleared, Shown
<1>9. \A k \in Selected : sections[k] = NoText /\ reports[k] = ""
  BY <1>1, <1>3, <1>8, Agencies
<1>10. sections["trader"] = NoText BY <1>8 DEF Sections
<1>11. \A a \in Agents : status[a] = "completed" <=> TextBy(a) # "" BY <1>5, <1>6
<1>12. \A k \in Selected : sections[k] = IF reports[k] = "" THEN NoText ELSE AgentOf(k)
  BY <1>9
<1>13. invest.judge # "" => sections["investment"] = "Research Manager" BY <1>15
<1>14. risk.judge # "" => sections["final"] = "Portfolio Manager" BY <1>16
<1> QED BY <1>7, <1>8, <1>10, <1>11, <1>12, <1>13, <1>14 DEF DisplayInv

LEMMA TimeStart == Starts /\ Cleared => TimeInv
<1> SUFFICES ASSUME Starts, Cleared PROVE TimeInv OBVIOUS
<1>1. GraphInv BY GraphStart
<1>2. \A i \in DOMAIN Plan : reports[Plan[i]] = "" /\ i \in Nat /\ i >= 1
  <2>1. \A i \in DOMAIN Plan : reports[Plan[i]] = ""
    BY <1>1, PlanFacts DEF Starts, CreateInitialState
  <2>2. Plan \in Seq(Keys) BY <1>1, PlanFacts
  <2>3. DOMAIN Plan = 1 .. Len(Plan) BY <2>2
  <2>4. \A i \in 1 .. Len(Plan) : i \in Nat /\ i >= 1 BY <2>2
  <2> QED BY <2>1, <2>3, <2>4
<1>3. Done = {} /\ Open = DOMAIN Plan BY <1>2 DEF Done, Open
<1>4. 1 \in DOMAIN Plan
  <2>1. Plan \in Seq(Keys) /\ Plan # <<>> BY <1>1, PlanFacts
  <2> QED BY <2>1
<1>5. ASSUME NEW i \in DOMAIN Plan PROVE IsFirstOpen(i) <=> i = 1
  <2>1. IsFirstOpen(i) <=> \A j \in DOMAIN Plan : i <= j BY <1>3 DEF IsFirstOpen
  <2>2. i \in Nat /\ i >= 1 BY <1>2
  <2>3. (\A j \in DOMAIN Plan : i <= j) => i = 1
    <3>1. i <= 1 => i = 1 BY <2>2
    <3> QED BY <1>4, <3>1
  <2>4. \A j \in DOMAIN Plan : 1 <= j BY <1>2
  <2> QED BY <2>1, <2>3, <2>4
<1>6. {i \in DOMAIN Plan : i \in Done \/ IsFirstOpen(i)} = {1} BY <1>3, <1>4, <1>5
<1>7. DOMAIN startedAt = {Plan[i] : i \in {i \in DOMAIN Plan : i \in Done \/ IsFirstOpen(i)}}
  BY <1>6 DEF Cleared
<1>8. DOMAIN wallTimes = {Plan[i] : i \in Done} BY <1>3 DEF Cleared
<1>9. \A k \in DOMAIN startedAt : startedAt[k] = 0 BY DEF Cleared
<1>10. steps = 0 BY DEF Cleared
<1> QED BY <1>3, <1>5, <1>7, <1>8, <1>9, <1>10 DEF TimeInv

\* The plan: the chosen analysts, each once.
Distinct(s) == \A i, j \in DOMAIN s : s[i] = s[j] => i = j

LEMMA OneMoreKey ==
  ASSUME NEW S, NEW s \in Seq(S), NEW T, NEW x, x \notin S, Distinct(KeepOnly(s, T))
  PROVE  Append(s, x) \in Seq(S \cup {x}) /\ Distinct(KeepOnly(Append(s, x), T))
<1>1. s \in Seq(S \cup {x}) /\ x \in S \cup {x} OBVIOUS
<1>2. KeepOnly(Append(s, x), T) =
        IF x \in T THEN Append(KeepOnly(s, T), x) ELSE KeepOnly(s, T)
  BY <1>1, KeepOnlyAppend
<1>3. KeepOnly(s, T) \in Seq(S \cap T) BY KeepOnlyType
<1> DEFINE k == KeepOnly(s, T)
           n == Len(k)
<1> HIDE DEF k
<1>4. k \in Seq(S) /\ n \in Nat /\ DOMAIN k = 1 .. n
  <2>1. k \in Seq(S \cap T) BY <1>3 DEF k
  <2> QED BY <2>1
<1>5. /\ DOMAIN Append(k, x) = 1 .. n + 1 /\ Append(k, x)[n + 1] = x
      /\ \A i \in 1 .. n : Append(k, x)[i] = k[i] /\ k[i] \in S
  <2>1. k \in Seq(S \cup {x}) BY <1>4
  <2> QED BY <1>4, <2>1
<1>6. Distinct(Append(k, x))
  <2> DEFINE u == Append(k, x)
  <2> HIDE DEF u, n
  <2>1. \A i \in 1 .. n : u[i] # x BY <1>5 DEF u
  <2>2. \A i \in 1 .. n + 1 : i \in 1 .. n \/ i = n + 1 BY <1>4 DEF n
  <2>3. \A i, j \in 1 .. n : k[i] = k[j] => i = j BY <1>4 DEF Distinct, k, n
  <2> QED BY <1>5, <2>1, <2>2, <2>3 DEF Distinct, u
<1> QED BY <1>1, <1>2, <1>6 DEF k

\* A sequence whose last element is appended to the others.
LEMMA LastOne ==
  ASSUME NEW S, NEW s \in Seq(S), NEW t \in Seq(S), NEW x \in S, Len(t) = Len(s) + 1,
         \A i \in 1 .. Len(s) : t[i] = s[i], t[Len(s) + 1] = x
  PROVE  Append(s, x) = t
<1> DEFINE u == Append(s, x)
<1>1. /\ u \in Seq(S) /\ Len(u) = Len(s) + 1 /\ u[Len(s) + 1] = x
      /\ \A i \in 1 .. Len(s) : u[i] = s[i]
  BY AppendProperties
<1>2. ASSUME NEW i \in 1 .. Len(u) PROVE u[i] = t[i]
  <2>1. i \in 1 .. Len(s) \/ i = Len(s) + 1
    <3> HIDE DEF u
    <3> QED BY <1>1
  <2> HIDE DEF u
  <2> QED BY <1>1, <2>1
<1> HIDE DEF u
<1>3. u = t BY <1>1, <1>2, SeqEqual
<1> QED BY <1>3 DEF u

LEMMA OneMoreKeyOf ==
  ASSUME NEW S, NEW s, NEW T, NEW x, NEW R, NEW t, s \in Seq(S) /\ Distinct(KeepOnly(s, T)),
         x \notin S, Append(s, x) = t, S \cup {x} = R
  PROVE  t \in Seq(R) /\ Distinct(KeepOnly(t, T))
<1>1. s \in Seq(S) /\ Distinct(KeepOnly(s, T)) OBVIOUS
<1>2. Append(s, x) \in Seq(S \cup {x}) /\ Distinct(KeepOnly(Append(s, x), T))
  BY <1>1, OneMoreKey
<1> QED BY <1>2

\* Four different keys in a sequence.
LEMMA FourInARow ==
  ASSUME NEW w, NEW x, NEW y, NEW z, w # x, y # w, y # x, z # w, z # x, z # y, NEW A
  PROVE  <<w, x, y, z>> \in Seq({w, x, y, z}) /\ Distinct(KeepOnly(<<w, x, y, z>>, A))
<1> DEFINE all == {w, x, y, z}
<1>1. <<>> \in Seq({}) /\ Distinct(KeepOnly(<<>>, A)) BY KeepOnlyEmpty DEF Distinct
<1>2. <<w>> \in Seq({w}) /\ Distinct(KeepOnly(<<w>>, A))
  <2>1. Append(<<>>, w) = <<w>> OBVIOUS
  <2>2. {} \cup {w} = {w} /\ w \notin {} OBVIOUS
  <2> HIDE DEF all
  <2> QED BY <1>1, <2>1, <2>2, OneMoreKeyOf
<1>3. <<w, x>> \in Seq({w, x}) /\ Distinct(KeepOnly(<<w, x>>, A))
  <2>1. Append(<<w>>, x) = <<w, x>>
    <3>1. <<w>> \in Seq(all) /\ <<w, x>> \in Seq(all) /\ x \in all
          /\ Len(<<w, x>>) = Len(<<w>>) + 1 OBVIOUS
    <3>2. (\A i \in 1 .. Len(<<w>>) : <<w, x>>[i] = <<w>>[i]) /\ <<w, x>>[Len(<<w>>) + 1] = x
      OBVIOUS
    <3> QED BY ZenonT(60), <3>1, <3>2, LastOne
  <2>2. {w} \cup {x} = {w, x} /\ x \notin {w} OBVIOUS
  <2> QED BY <1>2, <2>1, <2>2, OneMoreKeyOf
<1>4. <<w, x, y>> \in Seq({w, x, y}) /\ Distinct(KeepOnly(<<w, x, y>>, A))
  <2>1. Append(<<w, x>>, y) = <<w, x, y>>
    <3>1. <<w, x>> \in Seq(all) /\ <<w, x, y>> \in Seq(all) /\ y \in all
          /\ Len(<<w, x, y>>) = Len(<<w, x>>) + 1 OBVIOUS
    <3>2. (\A i \in 1 .. Len(<<w, x>>) : <<w, x, y>>[i] = <<w, x>>[i])
          /\ <<w, x, y>>[Len(<<w, x>>) + 1] = y
      OBVIOUS
    <3> QED BY ZenonT(60), <3>1, <3>2, LastOne
  <2>2. y \notin {w, x} OBVIOUS
  <2>3. {w, x} \cup {y} = {w, x, y} OBVIOUS
  <2> QED BY <1>3, <2>1, <2>2, <2>3, OneMoreKeyOf
<1>5. Append(<<w, x, y>>, z) = <<w, x, y, z>>
  <2>1. <<w, x, y>> \in Seq(all) /\ <<w, x, y, z>> \in Seq(all) /\ z \in all
        /\ Len(<<w, x, y, z>>) = Len(<<w, x, y>>) + 1 OBVIOUS
  <2>2. (\A i \in 1 .. Len(<<w, x, y>>) : <<w, x, y, z>>[i] = <<w, x, y>>[i])
        /\ <<w, x, y, z>>[Len(<<w, x, y>>) + 1] = z
    OBVIOUS
  <2> QED BY ZenonT(60), <2>1, <2>2, LastOne
<1>6. z \notin {w, x, y} OBVIOUS
<1>7. {w, x, y} \cup {z} = {w, x, y, z} OBVIOUS
<1> QED BY <1>4, <1>5, <1>6, <1>7, OneMoreKeyOf

LEMMA OrderedPlan ==
  ASSUME NEW A \in SUBSET Keys
  PROVE  InAnalystOrder(A) \in Seq(Keys) /\ Distinct(InAnalystOrder(A))
<1> DEFINE all == <<"market", "social", "news", "fundamentals">>
<1>1. all \in Seq(Keys) /\ Distinct(KeepOnly(all, A)) BY FourInARow DEF Keys
<1> HIDE DEF all
<1>2. KeepOnly(all, A) \in Seq(Keys \cap A) BY <1>1, KeepOnlyType
<1>3. Keys \cap A \subseteq Keys OBVIOUS
<1>4. InAnalystOrder(A) = KeepOnly(all, A) BY DEF InAnalystOrder, all
<1> QED BY <1>1, <1>2, <1>3, <1>4

-----------------------------------------------------------------------------
(* What a run is made of. *)

LEMMA FirstOfThree ==
  ASSUME NEW x, NEW y, NEW z
  PROVE  First(<<x, y, z>>) = IF x # None THEN x ELSE IF y # None THEN y ELSE z
<1> DEFINE urls == <<x, y, z>>
           set == {i \in DOMAIN urls : urls[i] # None}
           least == CHOOSE i \in set : \A j \in set : i <= j
<1>1. DOMAIN urls = 1 .. 3 /\ urls[1] = x /\ urls[2] = y /\ urls[3] = z OBVIOUS
<1>2. First(urls) = IF set = {} THEN None ELSE urls[least] BY DEF First
<1> HIDE DEF urls
<1>3. \A i : i \in set <=> (i = 1 /\ x # None) \/ (i = 2 /\ y # None) \/ (i = 3 /\ z # None)
  <2>1. \A i : i \in 1 .. 3 <=> i = 1 \/ i = 2 \/ i = 3 OBVIOUS
  <2> QED BY <1>1, <2>1
<1> HIDE DEF set
<1>4. ASSUME NEW i \in set, i \in Nat, \A j \in set : j \in Nat /\ i <= j PROVE least = i
  <2>1. least \in set /\ \A j \in set : least <= j BY <1>4
  <2>2. least <= i /\ i <= least /\ least \in Nat BY <1>4, <2>1
  <2> HIDE DEF least
  <2> QED BY <1>4, <2>2
<1> HIDE DEF least
<1>5. CASE x # None
  <2>1. 1 \in set /\ \A j \in set : j \in Nat /\ 1 <= j BY <1>3, <1>5
  <2>2. least = 1 BY <1>4, <2>1
  <2> QED BY <1>1, <1>2, <1>5, <2>1, <2>2 DEF urls
<1>6. CASE x = None /\ y # None
  <2>1. 2 \in set /\ \A j \in set : j \in Nat /\ 2 <= j BY <1>3, <1>6
  <2>2. least = 2 BY <1>4, <2>1
  <2> QED BY <1>1, <1>2, <1>6, <2>1, <2>2 DEF urls
<1>7. CASE x = None /\ y = None /\ z # None
  <2>1. 3 \in set /\ \A j \in set : j \in Nat /\ 3 <= j BY <1>3, <1>7
  <2>2. least = 3 BY <1>4, <2>1
  <2> QED BY <1>1, <1>2, <1>7, <2>1, <2>2 DEF urls
<1>8. CASE x = None /\ y = None /\ z = None
  <2>1. set = {} BY <1>3, <1>8
  <2> QED BY <1>2, <1>8, <2>1 DEF urls
<1> QED BY <1>5, <1>6, <1>7, <1>8

\* The same of two, which is three without the last.
LEMMA FirstOfTwo ==
  ASSUME NEW x, NEW y
  PROVE  First(<<x, y>>) = IF x # None THEN x ELSE y
<1> DEFINE urls == <<x, y>>
           set == {i \in DOMAIN urls : urls[i] # None}
           least == CHOOSE i \in set : \A j \in set : i <= j
<1>1. DOMAIN urls = 1 .. 2 /\ urls[1] = x /\ urls[2] = y OBVIOUS
<1>2. First(urls) = IF set = {} THEN None ELSE urls[least] BY DEF First
<1> HIDE DEF urls
<1>3. \A i : i \in set <=> (i = 1 /\ x # None) \/ (i = 2 /\ y # None)
  <2>1. \A i : i \in 1 .. 2 <=> i = 1 \/ i = 2 OBVIOUS
  <2> QED BY <1>1, <2>1
<1> HIDE DEF set
<1>4. ASSUME NEW i \in set, i \in Nat, \A j \in set : j \in Nat /\ i <= j PROVE least = i
  <2>1. least \in set /\ \A j \in set : least <= j BY <1>4
  <2>2. least <= i /\ i <= least /\ least \in Nat BY <1>4, <2>1
  <2> HIDE DEF least
  <2> QED BY <1>4, <2>2
<1> HIDE DEF least
<1>5. CASE x # None
  <2>1. 1 \in set /\ \A j \in set : j \in Nat /\ 1 <= j BY <1>3, <1>5
  <2>2. least = 1 BY <1>4, <2>1
  <2> QED BY <1>1, <1>2, <1>5, <2>1, <2>2 DEF urls
<1>6. CASE x = None /\ y # None
  <2>1. 2 \in set /\ \A j \in set : j \in Nat /\ 2 <= j BY <1>3, <1>6
  <2>2. least = 2 BY <1>4, <2>1
  <2> QED BY <1>1, <1>2, <1>6, <2>1, <2>2 DEF urls
<1>7. CASE x = None /\ y = None
  <2>1. set = {} BY <1>3, <1>7
  <2> QED BY <1>2, <1>7, <2>1 DEF urls
<1> QED BY <1>5, <1>6, <1>7

\* The endpoint of a provider's own account.
Fits(url, p) == url \in {None, "custom", p}

LEMMA DefaultFits == \A p : p # "glm" => Fits(ProviderDefaultUrl(p), p) /\ Fits(MenuUrl(p), p)
BY DEF Fits, ProviderDefaultUrl, MenuUrl

LEMMA UrlFits ==
  ASSUME NEW env, NEW a, DOMAIN env \subseteq Knobs,
         "url" \in DOMAIN env => env.url = "custom",
         a.provider \in OnMenu, a.region \in Regions(a.provider), a.url = "custom",
         ~("provider" \in DOMAIN env /\ env.provider = "glm")
  PROVE  Fits(SelectedUrl(env, a), SelectedProvider(env, a))
<1> DEFINE envUrl == ApplyEnvOverrides(env).url
           menuUrl == IF Regions(a.provider) = {a.provider} THEN MenuUrl(a.provider) ELSE a.region
           url == ResolveBackendUrl(a.region, menuUrl, envUrl)
<1>1. envUrl = None \/ envUrl = "custom"
  BY DEF ApplyEnvOverrides, Knobs, Defaults
<1>2. SelectedUrl(env, a) =
        IF "provider" \in DOMAIN env THEN ResolveBackendUrl(env.provider, None, envUrl)
        ELSE IF a.region \in RequireBaseUrl /\ url = None THEN a.url ELSE url
  BY DEF SelectedUrl
<1> HIDE DEF envUrl
<1>3. \A p, m : ResolveBackendUrl(p, m, envUrl) =
        IF envUrl # None THEN envUrl ELSE IF m # None THEN m ELSE ProviderDefaultUrl(p)
  BY FirstOfThree DEF ResolveBackendUrl
<1>4. CASE "provider" \in DOMAIN env
  <2>1. SelectedProvider(env, a) = env.provider BY <1>4 DEF SelectedProvider
  <2>2. Fits(ProviderDefaultUrl(env.provider), env.provider) BY <1>4, DefaultFits
  <2>3. SelectedUrl(env, a) \in {envUrl, ProviderDefaultUrl(env.provider)}
    BY <1>2, <1>3, <1>4
  <2> QED BY <1>1, <2>1, <2>2, <2>3 DEF Fits
<1>5. CASE "provider" \notin DOMAIN env
  <2>1. SelectedProvider(env, a) = a.region BY <1>5 DEF SelectedProvider
  <2>2. SelectedUrl(env, a) \in {"custom", url} BY <1>2, <1>5
  <2>3. CASE Regions(a.provider) = {a.provider}
    <3>1. a.region = a.provider BY <2>3
    <3>2. a.provider # "glm" BY <2>3 DEF Regions
    <3>3. url \in {envUrl, MenuUrl(a.provider), ProviderDefaultUrl(a.provider)}
      BY <1>3, <2>3, <3>1
    <3> QED BY <1>1, <2>1, <2>2, <3>1, <3>2, <3>3, DefaultFits DEF Fits
  <2>4. CASE Regions(a.provider) # {a.provider}
    <3>1. a.region # None BY <2>4 DEF Regions, None
    <3>2. url \in {envUrl, a.region} BY <1>3, <2>4, <3>1
    <3> QED BY <1>1, <2>1, <2>2, <3>2 DEF Fits
  <2> QED BY <2>3, <2>4
<1> QED BY <1>4, <1>5

\* A client that is made for an endpoint that fits sends a key where it belongs.
KeyFits(c) == c.key = None \/ Fits(c.url, c.key)

LEMMA ClientFits ==
  ASSUME NEW p, NEW model, NEW url, NEW keys, NEW effort, Fits(url, p),
         CreateLlm(p, model, url, keys, effort).ok
  PROVE  KeyFits(CreateLlm(p, model, url, keys, effort))
<1> DEFINE c == CreateLlm(p, model, url, keys, effort)
<1>0. ~Failed.ok BY DEF Failed
<1>1. CASE p \in Native
  <2>1. c = GetNativeLlm(p, model, url, keys, effort) BY <1>1 DEF CreateLlm
  <2>2. c # Failed BY <1>0
  <2>3. c.key = GetApiKeyEnv(p) /\ c.url \in {None, url} BY <2>1, <2>2 DEF GetNativeLlm
  <2>4. GetApiKeyEnv(p) \in {None, p} BY DEF GetApiKeyEnv
  <2> HIDE DEF c
  <2>5. KeyFits(c) BY <2>3, <2>4 DEF KeyFits, Fits
  <2> QED BY <2>5 DEF c
<1>2. CASE p \notin Native /\ p \in Compatible
  <2>1. c = GetCompatibleLlm(p, model, url, keys, effort) BY <1>2 DEF CreateLlm
  <2>2. c # Failed BY <1>0
  <2>3. c.key \in {None, p} /\ c.url = First(<<url, RegistryUrl(p)>>)
    BY <2>1, <2>2 DEF GetCompatibleLlm
  <2>4. RegistryUrl(p) \in {None, p} BY DEF RegistryUrl
  <2>5. c.url \in {url, RegistryUrl(p)} BY <2>3, FirstOfTwo
  <2> HIDE DEF c
  <2>6. KeyFits(c) BY <2>3, <2>4, <2>5 DEF KeyFits, Fits
  <2> QED BY <2>6 DEF c
<1>3. CASE p \notin Native /\ p \notin Compatible
  <2>1. c = Failed BY <1>3 DEF CreateLlm
  <2> QED BY <1>0, <2>1
<1> QED BY <1>1, <1>2, <1>3

\* The precedence, knob by knob.
Precedes(env, config, flag, k) ==
  \/ config[k] = env[k]
  \/ k = "checkpoint" /\ flag # None
  \/ k \in Efforts /\ "provider" \notin DOMAIN env /\ k # config.provider

LEMMA EffortPrecedes ==
  ASSUME NEW env, NEW a, NEW k \in Efforts \cap DOMAIN env \cap Knobs
  PROVE  \/ SelectedEffort(env, a, k) = env[k]
         \/ "provider" \notin DOMAIN env /\ k # SelectedProvider(env, a)
<1>1. ApplyEnvOverrides(env)[k] = env[k] BY DEF ApplyEnvOverrides
<1>2. CASE "provider" \in DOMAIN env BY <1>1, <1>2 DEF SelectedEffort
<1>3. CASE "provider" \notin DOMAIN env
  <2>1. SelectedProvider(env, a) = a.region BY <1>3 DEF SelectedProvider
  <2>2. CASE a.region = k BY <1>1, <2>2 DEF SelectedEffort
  <2> QED BY <1>3, <2>1, <2>2
<1> QED BY <1>2, <1>3

LEMMA EnvironmentPrecedes ==
  ASSUME NEW env, NEW a, NEW flag, NEW k \in DOMAIN env, DOMAIN env \subseteq Knobs,
         "url" \in DOMAIN env => env.url = "custom"
  PROVE  Precedes(env, BuildRunConfig(env, GetUserSelections(env, a), flag), flag, k)
<1> DEFINE d == ApplyEnvOverrides(env)
           sel == GetUserSelections(env, a)
           config == BuildRunConfig(env, sel, flag)
<1>1. d = [l \in Knobs |-> IF l \in DOMAIN env THEN env[l] ELSE Defaults[l]]
  BY DEF ApplyEnvOverrides
<1>2. d[k] = env[k] BY <1>1
<1>3. \/ k = "language" \/ k = "debate" \/ k = "risk" \/ k = "provider" \/ k = "url"
      \/ k = "quick" \/ k = "deep" \/ k = "checkpoint" \/ k \in Efforts
  BY DEF Knobs, Defaults, Efforts
<1>4. /\ sel.language = IF "language" \in DOMAIN env THEN d.language ELSE a.language
      /\ sel.provider = SelectedProvider(env, a) /\ sel.url = SelectedUrl(env, a)
      /\ sel.quick = IF {"quick", "deep"} \cap DOMAIN env # {} THEN d.quick ELSE a.quick
      /\ sel.deep = IF {"quick", "deep"} \cap DOMAIN env # {} THEN d.deep ELSE a.deep
      /\ \A l \in Efforts : sel.efforts[l] = SelectedEffort(env, a, l)
  BY DEF GetUserSelections
<1> HIDE DEF sel, d
<1>5. /\ config.language = sel.language
      /\ config.debate = IF "debate" \in DOMAIN env THEN d.debate ELSE sel.depth
      /\ config.risk = IF "risk" \in DOMAIN env THEN d.risk ELSE sel.depth
      /\ config.provider = sel.provider /\ config.url = sel.url
      /\ config.quick = sel.quick /\ config.deep = sel.deep
      /\ config.google = sel.efforts.google /\ config.openai = sel.efforts.openai
      /\ config.anthropic = sel.efforts.anthropic
      /\ config.checkpoint = IF flag # None THEN flag = "on" ELSE d.checkpoint
  BY DEF BuildRunConfig, d
<1> HIDE DEF config
<1>6. ASSUME k = "language" PROVE config[k] = env[k]
  <2>1. config["language"] = d["language"] BY <1>4, <1>5, <1>6
  <2> QED BY <1>2, <1>6, <2>1
<1>7. ASSUME k = "debate" PROVE config[k] = env[k]
  <2>1. config["debate"] = d["debate"] BY <1>5, <1>7
  <2> QED BY <1>2, <1>7, <2>1
<1>8. ASSUME k = "risk" PROVE config[k] = env[k]
  <2>1. config["risk"] = d["risk"] BY <1>5, <1>8
  <2> QED BY <1>2, <1>8, <2>1
<1>9. ASSUME k = "provider" PROVE config[k] = env[k]
  <2>1. config.provider = env.provider BY <1>4, <1>5, <1>9 DEF SelectedProvider
  <2>2. config["provider"] = env["provider"] BY <2>1
  <2> QED BY <1>9, <2>2
<1>10. ASSUME k = "url" PROVE config[k] = env[k]
  <2>1. env.url = "custom" /\ ApplyEnvOverrides(env).url = "custom" /\ "custom" # None
    BY <1>2, <1>10 DEF None, d
  <2>2. \A p, m : ResolveBackendUrl(p, m, ApplyEnvOverrides(env).url) = "custom"
    BY <2>1, FirstOfThree DEF ResolveBackendUrl
  <2>3. SelectedUrl(env, a) = "custom" BY <2>1, <2>2 DEF SelectedUrl
  <2>4. config.url = env.url BY <1>4, <1>5, <2>1, <2>3
  <2>5. config["url"] = env["url"] BY <2>4
  <2> QED BY <1>10, <2>5
<1>11. ASSUME k = "quick" PROVE config[k] = env[k]
  <2>1. config["quick"] = d["quick"] BY <1>4, <1>5, <1>11
  <2> QED BY <1>2, <1>11, <2>1
<1>12. ASSUME k = "deep" PROVE config[k] = env[k]
  <2>1. config["deep"] = d["deep"] BY <1>4, <1>5, <1>12
  <2> QED BY <1>2, <1>12, <2>1
<1>13. ASSUME k = "checkpoint" PROVE flag = None => config[k] = env[k]
  <2>1. flag = None => config["checkpoint"] = d["checkpoint"] BY <1>5
  <2> QED BY <1>2, <1>13, <2>1
<1>14. ASSUME k \in Efforts
       PROVE  config[k] = env[k] \/ ("provider" \notin DOMAIN env /\ k # config.provider)
  <2>1. config[k] = SelectedEffort(env, a, k) BY <1>4, <1>5, <1>14 DEF Efforts
  <2>2. config.provider = SelectedProvider(env, a) BY <1>4, <1>5
  <2>3. \/ SelectedEffort(env, a, k) = env[k]
        \/ "provider" \notin DOMAIN env /\ k # SelectedProvider(env, a)
    BY <1>14, EffortPrecedes
  <2>4. SelectedEffort(env, a, k) = env[k] => config[k] = env[k] BY <2>1
  <2>5. k # SelectedProvider(env, a) => k # config.provider BY <2>2
  <2> QED BY <2>3, <2>4, <2>5
<1>15. Precedes(env, config, flag, k)
  BY <1>3, <1>6, <1>7, <1>8, <1>9, <1>10, <1>11, <1>12, <1>13, <1>14 DEF Precedes
<1> QED BY <1>15 DEF config, sel

\* The rounds of the debates are counts, and the plan is one a graph is
\* compiled with.
LEMMA SetupIsOne ==
  ASSUME NEW env \in Environments, NEW a \in AnswerSet, NEW flag
  PROVE  LET sel == GetUserSelections(env, a)
             config == BuildRunConfig(env, sel, flag)
         IN  /\ config.debate \in Nat \ {0} /\ config.risk \in Nat \ {0}
             /\ InAnalystOrder(sel.analysts) \in Seq(Keys)
             /\ Distinct(InAnalystOrder(sel.analysts))
<1> DEFINE d == ApplyEnvOverrides(env)
           sel == GetUserSelections(env, a)
           config == BuildRunConfig(env, sel, flag)
<1>1. /\ DOMAIN env \subseteq Knobs
      /\ "debate" \in DOMAIN env => env.debate \in Nat \ {0}
      /\ "risk" \in DOMAIN env => env.risk \in Nat \ {0}
  BY EnvironmentsAssumption
<1>2. a.analysts \subseteq Keys /\ a.depth \in Nat \ {0} BY AnswersAssumption
<1>3. /\ "debate" \in DOMAIN env => d.debate = env.debate
      /\ "risk" \in DOMAIN env => d.risk = env.risk
  BY <1>1 DEF ApplyEnvOverrides
<1>4. /\ sel.depth = IF {"debate", "risk"} \subseteq DOMAIN env THEN d.debate ELSE a.depth
      /\ sel.analysts = FilterAnalystsForAssetType(a.analysts, a.assetType)
  BY DEF GetUserSelections
<1> HIDE DEF sel, d
<1>5. /\ config.debate = IF "debate" \in DOMAIN env THEN d.debate ELSE sel.depth
      /\ config.risk = IF "risk" \in DOMAIN env THEN d.risk ELSE sel.depth
  BY DEF BuildRunConfig, d
<1> HIDE DEF config
<1>6. sel.depth \in Nat \ {0} BY <1>1, <1>2, <1>3, <1>4
<1>7. config.debate \in Nat \ {0} BY <1>1, <1>3, <1>5, <1>6
<1>8. config.risk \in Nat \ {0} BY <1>1, <1>3, <1>5, <1>6
<1>9. sel.analysts \in SUBSET Keys BY <1>2, <1>4 DEF FilterAnalystsForAssetType
<1>10. InAnalystOrder(sel.analysts) \in Seq(Keys) /\ Distinct(InAnalystOrder(sel.analysts))
  BY <1>9, OrderedPlan
<1> QED BY <1>7, <1>8, <1>10 DEF sel, config

LEMMA RunStart ==
  ASSUME NEW env \in Environments, NEW a \in AnswerSet, NEW keys, NEW flag,
         StartRun(env, a, keys, flag)
  PROVE  RunInv'
<1> DEFINE sel == GetUserSelections(env, a)
           config == BuildRunConfig(env, sel, flag)
           around == EnsureApiKey(config.provider, keys, a.pastes)
           clients == MakeClients(config, around)
<1>1. /\ run' = [env |-> env, answers |-> a, flag |-> flag, config |-> config, clients |-> clients]
      /\ stage' = IF ~clients.deep.ok \/ ~clients.quick.ok THEN "crashed" ELSE "streaming"
  BY DEF StartRun
<1>2. DOMAIN env \subseteq Knobs /\ ("url" \in DOMAIN env => env.url = "custom")
  BY EnvironmentsAssumption
<1>3. \A k \in DOMAIN env : Precedes(env, config, flag, k) BY <1>2, EnvironmentPrecedes
<1>4. config.url = SelectedUrl(env, a) /\ config.provider = SelectedProvider(env, a)
  BY DEF BuildRunConfig, GetUserSelections
<1>5. clients = [deep |-> CreateLlm(config.provider, config.deep, config.url, around,
                                    GetProviderKwargs(config)),
                 quick |-> CreateLlm(config.provider, config.quick, config.url, around,
                                     GetProviderKwargs(config))]
  BY DEF MakeClients
<1> HIDE DEF config, around, clients
<1>6. EnvironmentWins'
  <2>1. run'.env = env /\ run'.config = config /\ run'.flag = flag BY <1>1
  <2>2. \A k \in DOMAIN run'.env : Precedes(run'.env, run'.config, run'.flag, k)
    BY <1>3, <2>1
  <2> QED BY <2>2 DEF EnvironmentWins, Precedes
<1>7. KeyFitsEndpointButGlm'
  <2>1. run'.env = env /\ run'.clients = clients BY <1>1
  <2>2. CASE "provider" \in DOMAIN env /\ env.provider = "glm"
    BY <2>1, <2>2 DEF KeyFitsEndpointButGlm
  <2>3. CASE ~("provider" \in DOMAIN env /\ env.provider = "glm")
    <3>1. Fits(config.url, config.provider) BY <1>2, <1>4, <2>3, UrlFits, AnswersAssumption
    <3>2. clients.deep.ok /\ clients.quick.ok => KeyFits(clients.deep) /\ KeyFits(clients.quick)
      BY <1>5, <3>1, ClientFits
    <3>3. stage' \in {"streaming", "done"} => clients.deep.ok /\ clients.quick.ok BY <1>1
    <3>4. stage' \in {"streaming", "done"} =>
            \A c \in {run'.clients.deep, run'.clients.quick} : KeyFits(c)
      BY <2>1, <3>2, <3>3
    <3> QED BY <3>4 DEF KeyFitsEndpointButGlm, KeyFitsEndpoint, KeyFits, Fits
  <2> QED BY <2>2, <2>3
<1> QED BY <1>6, <1>7 DEF RunInv

LEMMA StartStep ==
  ASSUME CliInv, NEW env \in Environments, NEW a \in AnswerSet, NEW keys, NEW flag,
         StartRun(env, a, keys, flag)
  PROVE  CliInv'
<1> DEFINE sel == GetUserSelections(env, a)
           config == BuildRunConfig(env, sel, flag)
           clients == MakeClients(config, EnsureApiKey(config.provider, keys, a.pastes))
           plan == InAnalystOrder(sel.analysts)
           fails == ~clients.deep.ok \/ ~clients.quick.ok
<1>1. /\ stage = "asking" /\ plan # <<>>
      /\ stage' = IF fails THEN "crashed" ELSE "streaming"
      /\ setup' = [plan |-> plan, debateRounds |-> config.debate, riskRounds |-> config.risk,
                   limit |-> RecursionLimit]
      /\ node' = IF fails THEN "failed" ELSE AgentOf(plan[1])
      /\ ~fails => InitForAnalysis(plan)
      /\ steps' = steps /\ messages' = messages /\ reports' = reports /\ invest' = invest
      /\ risk' = risk /\ plans' = plans
  BY DEF StartRun
<1>2. /\ config.debate \in Nat \ {0} /\ config.risk \in Nat \ {0}
      /\ plan \in Seq(Keys) /\ Distinct(plan)
  BY SetupIsOne
<1> HIDE DEF config, clients, plan
<1> HIDE DEF fails
<1>3. RunInv' BY RunStart
<1>4. CreateInitialState' /\ steps' = 0
  <2>1. CreateInitialState /\ steps = 0 BY <1>1 DEF CliInv
  <2> QED BY <1>1, <2>1 DEF CreateInitialState
<1>5. SaidInv' BY <1>4, SaidStart, PTL
<1>6. CASE fails
  <2>1. stage' = "crashed" /\ node' = "failed" BY <1>1, <1>6
  <2> QED BY <1>3, <1>5, <2>1 DEF CliInv
<1>7. CASE ~fails
  <2>1. stage' = "streaming" /\ node' = AgentOf(plan[1]) /\ InitForAnalysis(plan)
    BY <1>1, <1>7
  <2>2. setup'.plan = plan /\ setup'.debateRounds = config.debate
        /\ setup'.riskRounds = config.risk /\ setup'.limit = RecursionLimit
    BY <1>1
  <2>3. IsSetup(setup')
    BY <1>1, <1>2, <2>2, LimitAssumption DEF IsSetup, Distinct
  <2>4. Starts'
    BY <1>4, <2>1, <2>2, <2>3 DEF Starts, AgentOf
  <2>5. Cleared'
    <3>1. Plan' = plan BY <2>2 DEF Plan
    <3>2. Selected' = {plan[i] : i \in DOMAIN plan} BY <3>1 DEF Selected
    <3>3. /\ Agents' = FixedNodes \cup {AgentOf(k) : k \in Selected'}
          /\ Sections' = Selected' \cup {"investment", "trader", "final"}
      BY DEF Agents, Sections
    <3> QED BY <1>4, <2>1, <3>1, <3>2, <3>3 DEF Cleared, InitForAnalysis
  <2>6. GraphInv' BY <2>4, GraphStart, PTL
  <2>7. TextInv' BY <2>4, TextStart, PTL
  <2>8. DisplayInv' BY <2>4, <2>5, DisplayStart, PTL
  <2>9. TimeInv' BY <2>4, <2>5, TimeStart, PTL
  <2> QED BY <1>3, <1>5, <2>1, <2>6, <2>7, <2>8, <2>9 DEF CliInv
<1> QED BY <1>6, <1>7

-----------------------------------------------------------------------------
(* The steps of a run and its end. *)

LEMMA ChunkStep == ASSUME CliInv, StreamChunk PROVE CliInv'
<1>1. /\ stage = "streaming" /\ stage' = stage /\ run' = run /\ Superstep /\ HandleChunk
  BY DEF StreamChunk
<1>2. RunInv /\ GraphInv /\ SaidInv /\ TextInv /\ DisplayInv /\ TimeInv BY <1>1 DEF CliInv
<1>3. GraphInv' BY <1>1, <1>2, GraphStep DEF GraphNext
<1>4. SaidInv' BY <1>1, <1>2, SaidStep DEF GraphNext
<1>5. TextInv' BY <1>1, <1>2, TextStep
<1>6. DisplayInv' BY <1>1, <1>2, <1>3, DisplayStep
<1>7. TimeInv' BY <1>1, <1>2, TimeStep
<1>8. RunInv'
  BY <1>1, <1>2 DEF RunInv, EnvironmentWins, KeyFitsEndpointButGlm, KeyFitsEndpoint
<1> QED BY <1>1, <1>3, <1>4, <1>5, <1>6, <1>7, <1>8 DEF CliInv

LEMMA FailStep == ASSUME CliInv, StreamFails PROVE CliInv'
<1>1. /\ stage = "streaming" /\ stage' = "crashed" /\ run' = run /\ GraphFails
  BY DEF StreamFails
<1>2. RunInv /\ SaidInv BY <1>1 DEF CliInv
<1>3. SaidInv' /\ node' = "failed" BY <1>1, <1>2, SaidStep DEF GraphNext, GraphFails
<1>4. RunInv'
  BY <1>1, <1>2 DEF RunInv, EnvironmentWins, KeyFitsEndpointButGlm, KeyFitsEndpoint
<1> QED BY <1>1, <1>3, <1>4 DEF CliInv

\* What is saved, by section.
LEMMA SavedTexts ==
  ASSUME GraphInv, TextInv, NEW s \in Sections
  PROVE  LET text == IF s \in Keys THEN reports[s] ELSE plans[s]
         IN  FinalizingAgent(s) # "" /\ (FinalizingAgent(s) \in WriteReportTree <=> text # "")
<1> DEFINE analysts == {AgentOf(k) : k \in {k \in Keys : reports[k] # ""}}
           debaters == {a \in Agents \cap (Debaters \cup RiskAnalysts) :
             \E h \in {[by |-> "Bull Researcher", of |-> invest.bull],
                       [by |-> "Bear Researcher", of |-> invest.bear],
                       [by |-> "Aggressive Analyst", of |-> risk.aggressive],
                       [by |-> "Conservative Analyst", of |-> risk.conservative],
                       [by |-> "Neutral Analyst", of |-> risk.neutral]} : h.by = a /\ h.of # <<>>}
           judges == {a \in {"Research Manager"} : invest.judge # ""} \cup
                     {a \in {"Trader"} : plans.trader # ""} \cup
                     {a \in {"Portfolio Manager"} : risk.judge # ""}
<1>1. WriteReportTree = analysts \cup debaters \cup judges BY DEF WriteReportTree
<1>2. debaters \subseteq Debaters \cup RiskAnalysts OBVIOUS
<1>3. /\ judges \subseteq {"Research Manager", "Trader", "Portfolio Manager"}
      /\ "Research Manager" \in judges <=> invest.judge # ""
      /\ "Trader" \in judges <=> plans.trader # ""
      /\ "Portfolio Manager" \in judges <=> risk.judge # ""
  OBVIOUS
<1>4. \A k \in Keys : /\ AgentOf(k) \notin FixedNodes /\ AgentOf(k) # ""
                      /\ \A l \in Keys : AgentOf(k) = AgentOf(l) => k = l
  <2>1. \A k \in Keys : AgentOf(k) \in NodesOf(k) /\ AgentOf(k) \in Working
    BY DEF AgentOf, NodesOf, Working, AnalystNodes
  <2>2. \A k \in Keys : NodesOf(k) \cap {"None", ""} = {} BY NodeNames DEF Keys
  <2>3. \A k \in Keys : AgentOf(k) # "" BY <2>1, <2>2
  <2>4. \A k \in Keys : AgentOf(k) \notin FixedNodes BY <2>1, NodesApart
  <2>5. \A k, l \in Keys : AgentOf(k) = AgentOf(l) => k = l BY <2>1, NodesApart
  <2> QED BY <2>3, <2>4, <2>5
<1>5. \A k \in Keys : AgentOf(k) \in analysts <=> reports[k] # "" BY <1>4
<1>6. analysts \cap FixedNodes = {} BY <1>4
<1>7. /\ Debaters \cup RiskAnalysts \subseteq FixedNodes
      /\ {"Research Manager", "Trader", "Portfolio Manager"} \subseteq FixedNodes
      /\ {"Research Manager", "Trader", "Portfolio Manager"} \cap (Debaters \cup RiskAnalysts) = {}
  BY DEF FixedNodes, Debaters, RiskAnalysts
<1> HIDE DEF analysts, debaters, judges
<1>8. /\ plans.investment = invest.judge /\ plans.final = risk.judge BY DEF TextInv
<1>9. CASE s \in Keys
  <2>1. FinalizingAgent(s) = AgentOf(s) BY <1>9 DEF FinalizingAgent
  <2>2. AgentOf(s) \in WriteReportTree <=> reports[s] # ""
    <3>1. judges \subseteq FixedNodes /\ debaters \subseteq FixedNodes BY <1>2, <1>3, <1>7
    <3>2. AgentOf(s) \notin judges /\ AgentOf(s) \notin debaters BY <1>4, <1>9, <3>1
    <3> QED BY <1>1, <1>5, <1>9, <3>2
  <2> QED BY <1>4, <1>9, <2>1, <2>2
<1>10. CASE s \notin Keys
  <2>1. s \in {"investment", "trader", "final"}
    BY <1>10, Agencies DEF Sections
  <2>2. \A a \in {"Research Manager", "Trader", "Portfolio Manager"} :
          a \in WriteReportTree <=> a \in judges
    BY <1>1, <1>2, <1>6, <1>7
  <2>3. CASE s = "investment"
    <3>1. FinalizingAgent(s) = "Research Manager" BY <1>10, <2>3 DEF FinalizingAgent
    <3>2. plans[s] = invest.judge BY <1>8, <2>3
    <3> QED BY <1>3, <1>10, <2>2, <3>1, <3>2
  <2>4. CASE s = "trader"
    <3>1. FinalizingAgent(s) = "Trader" BY <1>10, <2>4 DEF FinalizingAgent
    <3>2. plans[s] = plans.trader BY <2>4
    <3> QED BY <1>3, <1>10, <2>2, <3>1, <3>2
  <2>5. CASE s = "final"
    <3>1. FinalizingAgent(s) = "Portfolio Manager" BY <1>10, <2>5 DEF FinalizingAgent
    <3>2. plans[s] = risk.judge BY <1>8, <2>5
    <3> QED BY <1>3, <1>10, <2>2, <3>1, <3>2
  <2> QED BY <2>1, <2>3, <2>4, <2>5
<1> QED BY <1>9, <1>10

LEMMA FinishStep == ASSUME CliInv, FinishRun PROVE CliInv'
<1> DEFINE text(s) == IF s \in Keys THEN reports[s] ELSE plans[s]
<1>1. /\ stage = "streaming" /\ stage' = "done" /\ run' = run
      /\ sections' = [s \in DOMAIN sections |-> IF text(s) = "" THEN "" ELSE FinalizingAgent(s)]
      /\ saved' \in {{}, WriteReportTree}
      /\ setup' = setup /\ node' = node /\ steps' = steps /\ messages' = messages
      /\ reports' = reports /\ invest' = invest /\ risk' = risk /\ plans' = plans
  BY DEF FinishRun, graphVars
<1>2. RunInv /\ GraphInv /\ SaidInv /\ TextInv /\ DisplayInv BY <1>1 DEF CliInv
<1>3. UNCHANGED graphVars BY <1>1 DEF graphVars
<1>4. GraphInv' BY <1>2, <1>3, GraphStep
<1>5. SaidInv' BY <1>2, <1>3, SaidStep
<1>6. RunInv'
  BY <1>1, <1>2 DEF RunInv, EnvironmentWins, KeyFitsEndpointButGlm, KeyFitsEndpoint
<1>7. Sections' = Sections BY <1>1 DEF Sections, Selected, Plan
<1>8. sections' = [s \in Sections |-> IF text(s) = "" THEN "" ELSE FinalizingAgent(s)]
  BY <1>1, <1>2 DEF DisplayInv
<1>9. \A s \in Sections : /\ FinalizingAgent(s) # ""
                          /\ FinalizingAgent(s) \in WriteReportTree <=> text(s) # ""
  BY <1>2, SavedTexts
<1> HIDE DEF text
<1>10. \A s \in CompletedReports' : sections'[s] \in {FinalizingAgent(s), ""}
  <2>1. CompletedReports' \subseteq Sections BY <1>8 DEF CompletedReports
  <2> QED BY <1>8, <2>1
<1>11. saved' # {} => \A s \in Sections' : sections'[s] # "" <=> FinalizingAgent(s) \in saved'
  <2> SUFFICES ASSUME saved' # {}, NEW s \in Sections
               PROVE  sections'[s] # "" <=> FinalizingAgent(s) \in saved'
    BY <1>7
  <2>1. saved' = WriteReportTree BY <1>1
  <2>2. sections'[s] = IF text(s) = "" THEN "" ELSE FinalizingAgent(s) BY <1>8
  <2> QED BY <1>9, <2>1, <2>2
<1>12. CountedReportsAreFinal' BY <1>10, <1>11 DEF CountedReportsAreFinal
<1> QED BY <1>1, <1>4, <1>5, <1>6, <1>12 DEF CliInv

LEMMA CliStep == CliInv /\ [CliNext]_cliVars => CliInv'
<1> SUFFICES ASSUME CliInv, [CliNext]_cliVars PROVE CliInv' OBVIOUS
<1>1. ASSUME NEW env \in Environments, NEW a \in AnswerSet, NEW keys \in KeysAround,
             NEW flag \in Flags, StartRun(env, a, keys, flag)
      PROVE  CliInv'
  BY <1>1, StartStep
<1>2. CASE StreamChunk BY <1>2, ChunkStep
<1>3. CASE StreamFails BY <1>3, FailStep
<1>4. CASE FinishRun BY <1>4, FinishStep
<1>5. CASE UNCHANGED cliVars
  <2>1. /\ UNCHANGED graphVars /\ stage' = stage /\ run' = run /\ status' = status
        /\ sections' = sections /\ startedAt' = startedAt /\ wallTimes' = wallTimes
        /\ saved' = saved
    BY <1>5 DEF cliVars, displayVars
  <2>2. /\ setup' = setup /\ node' = node /\ steps' = steps /\ messages' = messages
        /\ reports' = reports /\ invest' = invest /\ risk' = risk /\ plans' = plans
    BY <2>1 DEF graphVars
  <2>3. Plan' = Plan /\ Selected' = Selected /\ Agents' = Agents /\ Sections' = Sections
    BY <2>2 DEF Plan, Selected, Agents, Sections
  <2>4. GraphInv => GraphInv' BY <2>1, GraphStep
  <2>5. SaidInv => SaidInv' BY <2>1, SaidStep
  <2>6. TextInv => TextInv' BY <2>2, <2>3 DEF TextInv
  <2>7. DisplayInv => DisplayInv'
    <3>1. Shown' = Shown /\ \A a : TextBy(a)' = TextBy(a) BY <2>2, <2>3 DEF Shown, TextBy
    <3> QED BY <2>1, <2>2, <2>3, <3>1 DEF DisplayInv
  <2>8. TimeInv => TimeInv'
    <3>1. Done' = Done /\ Open' = Open BY <2>2, <2>3 DEF Done, Open
    <3>2. \A i : IsFirstOpen(i)' <=> IsFirstOpen(i) BY <3>1 DEF IsFirstOpen
    <3> QED BY <2>1, <2>2, <2>3, <3>1, <3>2 DEF TimeInv
  <2>9. RunInv => RunInv'
    BY <2>1 DEF RunInv, EnvironmentWins, KeyFitsEndpointButGlm, KeyFitsEndpoint
  <2>10. CountedReportsAreFinal => CountedReportsAreFinal'
    BY <2>1, <2>3 DEF CountedReportsAreFinal, CompletedReports
  <2>11. CreateInitialState => CreateInitialState' BY <2>2 DEF CreateInitialState
  <2> QED BY <2>1, <2>2, <2>4, <2>5, <2>6, <2>7, <2>8, <2>9, <2>10, <2>11 DEF CliInv
<1> QED BY <1>1, <1>2, <1>3, <1>4, <1>5 DEF CliNext

\* The invariant holds in every state of a run from the command line.
THEOREM CliInductive == CliSpec => []CliInv
<1>1. CliInit => CliInv
  BY DEF CliInit, CliInv, RunInv, EnvironmentWins, KeyFitsEndpointButGlm, KeyFitsEndpoint
<1> QED BY <1>1, CliStep, PTL DEF CliSpec

-----------------------------------------------------------------------------
(* What the runs check. *)

\* For any environment, answers and rounds: what a run from the command line
\* is in before the graph starts and after it failed says nothing of a debate,
\* and in between the graph's properties hold.
THEOREM RunsDebate ==
  CliSpec => [](BothSidesAreHeard /\ NothingIsForgotten /\ ConversationsAreOwn)
<1>1. CliInv => BothSidesAreHeard /\ NothingIsForgotten /\ ConversationsAreOwn
  <2> SUFFICES ASSUME CliInv PROVE BothSidesAreHeard /\ NothingIsForgotten /\ ConversationsAreOwn
    OBVIOUS
  <2>1. SaidInv => NothingIsForgotten
    BY DEF SaidInv, InvestSaid, RiskSaid, History, NothingIsForgotten
  <2>2. GraphInv => BothSidesAreHeard /\ ConversationsAreOwn
    BY DEF GraphInv, InvestInv, RiskInv, BothSidesAreHeard, ConversationInv
  <2>3. node \in {"", "failed"} => BothSidesAreHeard /\ ConversationsAreOwn
    <3>1. \A k \in Keys : NodesOf(k) \cap {"", "failed"} = {} BY NodeNames DEF Keys
    <3>2. \A k \in Keys : Specs[k].agent_node \in NodesOf(k) /\ Specs[k].tool_node \in NodesOf(k)
                          /\ Specs[k].clear_node \in NodesOf(k)
      BY DEF NodesOf
    <3>3. node \in {"", "failed"} => ConversationsAreOwn
      BY <3>1, <3>2 DEF ConversationsAreOwn
    <3>4. node \in {"", "failed"} => BothSidesAreHeard BY DEF BothSidesAreHeard
    <3> QED BY <3>3, <3>4
  <2>4. CreateInitialState => SaidInv BY SaidStart
  <2>5. SaidInv BY <2>4 DEF CliInv
  <2>6. GraphInv \/ node \in {"", "failed"} BY DEF CliInv
  <2> QED BY <2>1, <2>2, <2>3, <2>5, <2>6
<1> QED BY <1>1, CliInductive, PTL

\* "This prevents interim updates from counting as completed": for any analysts
\* and rounds, a report that counts as completed is the one of the agent who
\* ends its section, and the saved report has each text shown in the end.
THEOREM CountsAreOfFinalReports == CliSpec => []CountedReportsAreFinal
<1>1. CliInv => CountedReportsAreFinal
  <2> SUFFICES ASSUME CliInv PROVE CountedReportsAreFinal OBVIOUS
  <2>1. CASE stage # "streaming"
    <3>1. stage = "done" => CountedReportsAreFinal BY DEF CliInv
    <3>2. stage # "done" => CountedReportsAreFinal BY <2>1 DEF CountedReportsAreFinal
    <3> QED BY <3>1, <3>2
  <2>2. CASE stage = "streaming"
    <3>1. GraphInv /\ TextInv /\ DisplayInv BY <2>2 DEF CliInv
    <3>2. TextsOwned BY <3>1, Owners
    <3>3. ASSUME NEW s \in CompletedReports PROVE sections[s] = FinalizingAgent(s)
      <4>1. s \in Sections /\ sections[s] # NoText /\ status[FinalizingAgent(s)] = "completed"
        BY <3>1 DEF CompletedReports, DisplayInv
      <4>2. CASE s \in Selected
        <5>1. FinalizingAgent(s) = AgentOf(s) /\ AgentOf(s) \in Agents
          BY <3>1, <4>2, Agencies DEF FinalizingAgent
        <5>2. TextBy(AgentOf(s)) # "" BY <3>1, <4>1, <5>1 DEF DisplayInv
        <5>3. TextBy(AgentOf(s)) = reports[s] BY <3>2, <4>2 DEF TextsOwned
        <5> QED BY <3>1, <4>2, <5>1, <5>2, <5>3 DEF DisplayInv
      <4>3. /\ "Research Manager" \in ResearchTeam /\ "Research Manager" \in Agents
            /\ "Trader" \in Agents /\ "Portfolio Manager" \in Agents
        BY DEF ResearchTeam, Agents, FixedNodes
      <4>4. CASE s = "investment"
        <5>1. FinalizingAgent(s) = "Research Manager" BY <4>4 DEF FinalizingAgent, Keys
        <5>2. TextBy("Research Manager") # "" BY <3>1, <4>1, <4>3, <5>1 DEF DisplayInv
        <5>3. invest.judge # "" BY <3>2, <4>3, <5>2 DEF TextsOwned
        <5> QED BY <3>1, <4>4, <5>1, <5>3 DEF DisplayInv
      <4>5. CASE s = "trader"
        <5>1. FinalizingAgent(s) = "Trader" BY <4>5 DEF FinalizingAgent, Keys
        <5> QED BY <3>1, <4>1, <4>5, <5>1 DEF DisplayInv
      <4>6. CASE s = "final"
        <5>1. FinalizingAgent(s) = "Portfolio Manager" BY <4>6 DEF FinalizingAgent, Keys
        <5>2. TextBy("Portfolio Manager") # "" BY <3>1, <4>1, <4>3, <5>1 DEF DisplayInv
        <5>3. risk.judge # "" BY <3>2, <5>2 DEF TextsOwned
        <5> QED BY <3>1, <4>6, <5>1, <5>3 DEF DisplayInv
      <4>7. s \in Selected \/ s = "investment" \/ s = "trader" \/ s = "final"
        BY <4>1 DEF Sections
      <4> QED BY <4>2, <4>4, <4>5, <4>6, <4>7
    <3> QED BY <2>2, <3>3 DEF CountedReportsAreFinal
  <2> QED BY <2>1, <2>2
<1> QED BY <1>1, CliInductive, PTL

\* For any plan the times of the analysts who are through add up.
THEOREM TimesAddUp == CliSpec => []WallTimesAddUp
<1>1. CliInv => WallTimesAddUp
  <2> SUFFICES ASSUME CliInv, stage = "streaming" PROVE WallTimesAddUp BY DEF WallTimesAddUp
  <2> DEFINE done == {k \in Selected : reports[k] # ""}
  <2>1. GraphInv /\ TimeInv BY DEF CliInv
  <2>2. \A i \in DOMAIN Plan : Plan[i] \in done <=> i \in Done BY DEF Selected, Done
  <2> HIDE DEF done
  <2>3. ASSUME \A i \in DOMAIN Plan : Plan[i] \in done <=> \A j \in Open : i < j,
               NEW i \in DOMAIN Plan, Plan[i] \in done
        PROVE  /\ Plan[i] \in DOMAIN wallTimes /\ wallTimes[Plan[i]] > 0
               /\ i > 1 => startedAt[Plan[i]] = startedAt[Plan[i - 1]] + wallTimes[Plan[i - 1]]
    <3>1. Done \subseteq DOMAIN Plan BY DEF Done
    <3>2. \A l \in Done, j \in Open : l < j BY <2>2, <2>3, <3>1
    <3>3. i \in Done BY <2>2, <2>3
    <3> QED BY <2>1, <3>2, <3>3 DEF TimeInv
  <2> QED BY <2>3 DEF WallTimesAddUp, Open, done
<1> QED BY <1>1, CliInductive, PTL

\* For any environment and answers, the documented precedence.
THEOREM TheEnvironmentWins == CliSpec => []EnvironmentWins
<1>1. CliInv => EnvironmentWins BY DEF CliInv, RunInv
<1> QED BY <1>1, CliInductive, PTL

\* For any environment, answers and keys, "glm" from the environment apart.
THEOREM KeysFit == CliSpec => []KeyFitsEndpointButGlm
<1>1. CliInv => KeyFitsEndpointButGlm BY DEF CliInv, RunInv
<1> QED BY <1>1, CliInductive, PTL

\* For any graph, chunk by chunk: who is shown as completed has his text or
\* judgement, and stays completed.
THEOREM CompletedLasts == CliSpec => CompletedIsTrueAndLasts
<1> DEFINE Lasts ==
      stage = "streaming" /\ stage' = "streaming" =>
        \A a \in Agents :
          /\ status'[a] = "completed" <=> TextBy(a)' # ""
          /\ status[a] = "completed" => status'[a] = "completed"
<1>1. CliInv /\ CliInv' /\ CliNext => Lasts
  <2> SUFFICES ASSUME CliInv, CliInv', CliNext, stage = "streaming", stage' = "streaming",
                      NEW a \in Agents
               PROVE  /\ status'[a] = "completed" <=> TextBy(a)' # ""
                      /\ status[a] = "completed" => status'[a] = "completed"
    OBVIOUS
  <2>1. Superstep BY DEF CliNext, StartRun, StreamChunk, StreamFails, FinishRun
  <2>2. GraphInv /\ TextInv /\ DisplayInv /\ GraphInv' /\ DisplayInv' BY DEF CliInv
  <2>3. setup' = setup BY <2>1 DEF Superstep
  <2>4. Agents' = Agents /\ Selected' = Selected BY <2>3 DEF Agents, Selected, Plan
  <2>5. status'[a] = "completed" <=> TextBy(a)' # "" BY <2>2, <2>4 DEF DisplayInv
  <2>6. status[a] = "completed" <=> TextBy(a) # "" BY <2>2 DEF DisplayInv
  <2>7. TextBy(a) # "" => TextBy(a)' # ""
    <3>1. Grows BY <2>1, <2>2, TextStep
    <3>2. TextsOwned BY <2>2, Owners
    <3>3. TextsOwned' BY <2>2, Owners, PTL
    <3>4. CASE a \in ResearchTeam BY <3>1, <3>2, <3>3, <3>4 DEF TextsOwned, Grows
    <3>5. CASE a = "Trader" BY <3>1, <3>2, <3>3, <3>5 DEF TextsOwned, Grows
    <3>6. CASE a \in RiskAnalysts \cup {"Portfolio Manager"}
      BY <3>1, <3>2, <3>3, <3>6 DEF TextsOwned, Grows
    <3>7. CASE a \notin FixedNodes
      <4>1. PICK k \in Selected : a = AgentOf(k) BY <2>2, <3>7, Agencies
      <4>2. k \in Keys BY <2>2, Agencies
      <4>3. TextBy(a) = reports[k] BY <3>2, <4>1 DEF TextsOwned
      <4>4. TextBy(a)' = reports'[k] BY <2>4, <3>3, <4>1 DEF TextsOwned
      <4> QED BY <3>1, <4>2, <4>3, <4>4 DEF Grows
    <3>8. a \in FixedNodes => a \in ResearchTeam \/ a = "Trader" \/ a \in RiskAnalysts
                              \/ a = "Portfolio Manager"
      BY DEF FixedNodes, ResearchTeam, Debaters
    <3> QED BY <3>4, <3>5, <3>6, <3>7, <3>8
  <2> QED BY <2>5, <2>6, <2>7
<1>2. CliInv /\ CliInv' /\ [CliNext]_cliVars => [Lasts]_cliVars BY <1>1
<1> QED BY <1>2, CliInductive, PTL DEF CliSpec, CompletedIsTrueAndLasts
=============================================================================
