---------------------------- MODULE CommandLine ----------------------------
(***************************************************************************)
(* A run from the command line (cli/main.py): the questions, the graph and *)
(* its clients, the stream of the graph's states, and the display made of  *)
(* them.  After each superstep the whole state is streamed, and the        *)
(* display derives from it who is at work and which reports there are.     *)
(***************************************************************************)
EXTENDS DebateGraph, RunSetup

CONSTANTS
  Environments,     \* what the environment may set
  KeysAround,       \* the keys the environment may hold
  AnswerSet,        \* the answers to the questions
  Flags,            \* --checkpoint, --no-checkpoint or None
  RecursionLimit    \* max_recur_limit

\* Answers are those of the menus, an endpoint of the user's own is "custom",
\* and debates have rounds.
ASSUME AnswersAssumption ==
  \A a \in AnswerSet :
    /\ a.provider \in OnMenu /\ a.region \in Regions(a.provider) /\ a.url = "custom"
    /\ a.analysts \subseteq Keys /\ a.depth \in Nat \ {0}
ASSUME EnvironmentsAssumption ==
  \A env \in Environments :
    /\ DOMAIN env \subseteq Knobs
    /\ "url" \in DOMAIN env => env.url = "custom"
    /\ "debate" \in DOMAIN env => env.debate \in Nat \ {0}
    /\ "risk" \in DOMAIN env => env.risk \in Nat \ {0}
ASSUME LimitAssumption == RecursionLimit \in Nat

VARIABLES
  stage,            \* "asking", "streaming", "done" or "crashed"
  run,              \* the environment, the answers, what was made of them
  status,           \* MessageBuffer.agent_status
  sections,         \* MessageBuffer.report_sections: whose text is in them
  startedAt,        \* AnalystWallTimeTracker, in supersteps
  wallTimes,
  saved             \* the files of the saved report

displayVars == <<status, sections, startedAt, wallTimes>>
cliVars == <<graphVars, stage, run, displayVars, saved>>

-----------------------------------------------------------------------------
NoText == "None"
Plan == setup.plan
Selected == {Plan[i] : i \in DOMAIN Plan}
AgentOf(k) == Specs[k].agent_node
ResearchTeam == {"Bull Researcher", "Bear Researcher", "Research Manager"}
Agents == FixedNodes \cup {AgentOf(k) : k \in Selected}
Sections == Selected \cup {"investment", "trader", "final"}

\* REPORT_SECTIONS: the agent whose end makes a section final.
FinalizingAgent(s) ==
  IF s \in Keys THEN AgentOf(s)
  ELSE [investment |-> "Research Manager", trader |-> "Trader", final |-> "Portfolio Manager"][s]

\* get_completed_reports_count.
CompletedReports ==
  {s \in DOMAIN sections : sections[s] # NoText /\ status[FinalizingAgent(s)] = "completed"}

\* init_for_analysis, and the first analyst set to work.
InitForAnalysis(plan) ==
  LET keys == {plan[i] : i \in DOMAIN plan}
  IN  /\ status' = [a \in FixedNodes \cup {AgentOf(k) : k \in keys} |->
                      IF a = AgentOf(plan[1]) THEN "in_progress" ELSE "pending"]
      /\ sections' = [s \in keys \cup {"investment", "trader", "final"} |-> NoText]
      /\ startedAt' = [k \in {plan[1]} |-> 0]
      /\ wallTimes' = << >>

-----------------------------------------------------------------------------
(* One chunk of the stream.  A buffer b is [status, sections]. *)

SetStatus(b, agents, to) ==
  [b EXCEPT !.status = [a \in DOMAIN b.status |-> IF a \in agents THEN to ELSE b.status[a]]]
SetSection(b, s, from) == [b EXCEPT !.sections[s] = from]

\* The analysts without a report, as places in the plan.
WithoutReport(secs) == {i \in DOMAIN Plan : secs[Plan[i]] = NoText}
FirstOf(places) == CHOOSE i \in places : \A j \in places : i <= j

\* update_analyst_statuses.
UpdateAnalystStatuses(b, reps) ==
  LET secs == [s \in DOMAIN b.sections |->
                 IF s \in Selected /\ reps[s] # "" THEN AgentOf(s) ELSE b.sections[s]]
      open == WithoutReport(secs)
      of(i) == IF i \notin open THEN "completed"
               ELSE IF i = FirstOf(open) THEN "in_progress" ELSE "pending"
      place(a) == CHOOSE i \in DOMAIN Plan : AgentOf(Plan[i]) = a
  IN  [sections |-> secs,
       status |-> [a \in DOMAIN b.status |->
                     IF a \in AnalystNodes THEN of(place(a))
                     ELSE IF a = "Bull Researcher" /\ open = {} /\ b.status[a] = "pending"
                          THEN "in_progress" ELSE b.status[a]]]

\* The research team's part of the loop of run_analysis.
UpdateResearch(b, inv) ==
  LET spoken == inv.bull # <<>> \/ inv.bear # <<>>
      b1 == IF spoken THEN SetStatus(b, ResearchTeam, "in_progress") ELSE b
      b2 == IF inv.bear # <<>> THEN SetSection(b1, "investment", "Bear Researcher")
            ELSE IF inv.bull # <<>> THEN SetSection(b1, "investment", "Bull Researcher") ELSE b1
  IN  IF inv.judge = "" THEN b2
      ELSE SetStatus(SetStatus(SetSection(b2, "investment", "Research Manager"),
                               ResearchTeam, "completed"), {"Trader"}, "in_progress")

\* The trader's part.
UpdateTrading(b, plan) ==
  IF plan = "" THEN b
  ELSE LET b1 == SetSection(b, "trader", "Trader")
       IN  IF b.status["Trader"] = "completed" THEN b1
           ELSE SetStatus(SetStatus(b1, {"Trader"}, "completed"),
                          {"Aggressive Analyst"}, "in_progress")

\* A risk analyst who has spoken.
Spoken(b, agent, history) ==
  IF history = <<>> THEN b
  ELSE SetSection(IF b.status[agent] = "completed" THEN b
                  ELSE SetStatus(b, {agent}, "in_progress"), "final", agent)

\* Mutant: the decision is shown before the arguments.
UpdateRiskJudgeFirst(b, r) ==
  LET b0 == IF r.judge # "" /\ b.status["Portfolio Manager"] # "completed"
            THEN SetStatus(SetSection(b, "final", "Portfolio Manager"),
                           RiskAnalysts \cup {"Portfolio Manager"}, "completed") ELSE b
      b1 == Spoken(b0, "Aggressive Analyst", r.aggressive)
      b2 == Spoken(b1, "Conservative Analyst", r.conservative)
  IN  Spoken(b2, "Neutral Analyst", r.neutral)

\* The risk team's part.
UpdateRisk(b, r) ==
  LET b1 == Spoken(b, "Aggressive Analyst", r.aggressive)
      b2 == Spoken(b1, "Conservative Analyst", r.conservative)
      b3 == Spoken(b2, "Neutral Analyst", r.neutral)
  IN  IF r.judge # "" /\ b3.status["Portfolio Manager"] # "completed"
      THEN SetStatus(SetSection(b3, "final", "Portfolio Manager"),
                     RiskAnalysts \cup {"Portfolio Manager"}, "completed")
      ELSE b3

\* Mutant: a start is recorded at every chunk.
SyncTrackerRestarting(reps, now) ==
  LET open == {i \in DOMAIN Plan : reps[Plan[i]] = ""}
      seen == Selected \ {Plan[i] : i \in open \ (IF open = {} THEN {} ELSE {FirstOf(open)})}
      starts == [k \in seen |-> now]
  IN  /\ startedAt' = starts
      /\ wallTimes' = [k \in {k \in Selected : reps[k] # ""} |->
                         IF k \in DOMAIN wallTimes THEN wallTimes[k] ELSE now - starts[k]]

\* sync_analyst_tracker_from_chunk: those with a report, and the first without.
SyncAnalystTracker(reps, now) ==
  LET open == {i \in DOMAIN Plan : reps[Plan[i]] = ""}
      seen == Selected \ {Plan[i] : i \in open \ (IF open = {} THEN {} ELSE {FirstOf(open)})}
      starts == [k \in seen \cup DOMAIN startedAt |->
                   IF k \in DOMAIN startedAt THEN startedAt[k] ELSE now]
  IN  /\ startedAt' = starts
      /\ wallTimes' = [k \in DOMAIN wallTimes \cup {k \in Selected : reps[k] # ""} |->
                         IF k \in DOMAIN wallTimes THEN wallTimes[k] ELSE now - starts[k]]

\* Mutant: the trader's part comes before the research team's.
HandleChunkTraderFirst ==
  LET b1 == UpdateAnalystStatuses([status |-> status, sections |-> sections], reports')
      b2 == UpdateRisk(UpdateResearch(UpdateTrading(b1, plans'.trader), invest'), risk')
  IN  /\ status' = b2.status /\ sections' = b2.sections
      /\ SyncAnalystTracker(reports', steps')

\* The body of the loop over graph.stream; the layout is drawn at its end.
HandleChunk ==
  LET b1 == UpdateAnalystStatuses([status |-> status, sections |-> sections], reports')
      b2 == UpdateRisk(UpdateTrading(UpdateResearch(b1, invest'), plans'.trader), risk')
  IN  /\ status' = b2.status /\ sections' = b2.sections
      /\ SyncAnalystTracker(reports', steps')

-----------------------------------------------------------------------------
CliInit ==
  /\ stage = "asking" /\ saved = {} /\ run = << >>
  /\ setup = << >> /\ node = "" /\ steps = 0
  /\ CreateInitialState
  /\ status = << >> /\ sections = << >> /\ startedAt = << >> /\ wallTimes = << >>

\* From the first question to the graph and its clients.  The first chunk of
\* the stream is the initial state, which changes nothing.
StartRun(env, a, keys, flag) ==
  LET sel == GetUserSelections(env, a)
      config == BuildRunConfig(env, sel, flag)
      clients == MakeClients(config, EnsureApiKey(config.provider, keys, a.pastes))
      plan == InAnalystOrder(sel.analysts)
      fails == ~clients.deep.ok \/ ~clients.quick.ok
  IN  /\ stage = "asking" /\ plan # <<>>
      /\ run' = [env |-> env, answers |-> a, flag |-> flag, config |-> config, clients |-> clients]
      /\ stage' = IF fails THEN "crashed" ELSE "streaming"
      /\ setup' = [plan |-> plan, debateRounds |-> config.debate, riskRounds |-> config.risk,
                   limit |-> RecursionLimit]
      /\ node' = IF fails THEN "failed" ELSE AgentOf(plan[1])
      /\ IF fails THEN UNCHANGED displayVars ELSE InitForAnalysis(plan)
      /\ UNCHANGED <<steps, messages, reports, invest, risk, plans, saved>>

StreamChunk ==
  /\ stage = "streaming"
  /\ Superstep
  /\ HandleChunk
  /\ UNCHANGED <<stage, run, saved>>

\* An exception of the graph leaves the loop and the program.
StreamFails ==
  /\ stage = "streaming"
  /\ GraphFails
  /\ stage' = "crashed"
  /\ UNCHANGED <<run, displayVars, saved>>

\* What write_report_tree writes: the texts that are not empty.
WriteReportTree ==
  {AgentOf(k) : k \in {k \in Keys : reports[k] # ""}} \cup
  {a \in Agents \cap (Debaters \cup RiskAnalysts) :
     \E h \in {[by |-> "Bull Researcher", of |-> invest.bull],
               [by |-> "Bear Researcher", of |-> invest.bear],
               [by |-> "Aggressive Analyst", of |-> risk.aggressive],
               [by |-> "Conservative Analyst", of |-> risk.conservative],
               [by |-> "Neutral Analyst", of |-> risk.neutral]} : h.by = a /\ h.of # <<>>} \cup
  {a \in {"Research Manager"} : invest.judge # ""} \cup
  {a \in {"Trader"} : plans.trader # ""} \cup {a \in {"Portfolio Manager"} : risk.judge # ""}

\* After the stream: everybody has completed, the sections are those of the
\* final state, and the report may be saved.
FinishRun ==
  /\ stage = "streaming" /\ node = "END"
  /\ stage' = "done"
  /\ status' = [a \in DOMAIN status |-> "completed"]
  /\ LET text(s) == IF s \in Keys THEN reports[s] ELSE plans[s]
     IN  sections' = [s \in DOMAIN sections |-> IF text(s) = "" THEN "" ELSE FinalizingAgent(s)]
  /\ saved' \in {{}, WriteReportTree}
  /\ UNCHANGED <<graphVars, run, startedAt, wallTimes>>

CliNext ==
  \/ \E env \in Environments, a \in AnswerSet, keys \in KeysAround, flag \in Flags :
       StartRun(env, a, keys, flag)
  \/ StreamChunk \/ StreamFails \/ FinishRun

CliSpec == CliInit /\ [][CliNext]_cliVars

-----------------------------------------------------------------------------
Statuses == {"pending", "in_progress", "completed"}

\* What is shown keeps its type, and the graph is only compiled with rounds and
\* analysts it can run.
CommandLineTypeOK ==
  /\ stage \in {"asking", "streaming", "done", "crashed"}
  /\ stage # "asking" => GraphTypeOK /\ setup \in Setups
  /\ stage \in {"streaming", "done"} =>
       /\ status \in [Agents -> Statuses]
       /\ sections \in [Sections -> Agents \cup {NoText, ""}]
       /\ DOMAIN startedAt \subseteq Selected /\ DOMAIN wallTimes \subseteq DOMAIN startedAt
       /\ saved \subseteq Agents

\* What an agent was to say: the text of his own, or the judge's for a debater.
TextBy(a) ==
  IF a \in ResearchTeam THEN invest.judge
  ELSE IF a \in RiskAnalysts \cup {"Portfolio Manager"} THEN risk.judge
  ELSE IF a = "Trader" THEN plans.trader
  ELSE reports[CHOOSE k \in Selected : AgentOf(k) = a]

\* While the graph runs an agent is shown as completed exactly when his text, or
\* the judgement of his debate, is there; and he stays so, though every chunk
\* sets the trader and the researchers to work again before it is through.
CompletedIsTrueAndLasts ==
  [][stage = "streaming" /\ stage' = "streaming" =>
       \A a \in Agents :
         /\ status'[a] = "completed" <=> TextBy(a)' # ""
         /\ status[a] = "completed" => status'[a] = "completed"]_cliVars

\* "This prevents interim updates (like debate rounds) from counting as
\* completed": a report counted as completed is its finalizing agent's, and the
\* saved report has each text that is shown in the end.
CountedReportsAreFinal ==
  stage \in {"streaming", "done"} =>
    /\ \A s \in CompletedReports : sections[s] \in {FinalizingAgent(s), ""}
    /\ stage = "done" /\ saved # {} =>
         \A s \in Sections : sections[s] # "" <=> FinalizingAgent(s) \in saved

\* As long as no report has come out empty, the times of the analysts who are
\* through add up to the time of the last report.
WallTimesAddUp ==
  stage = "streaming" =>
    LET done == {k \in Selected : reports[k] # ""}
        open == {i \in DOMAIN Plan : reports[Plan[i]] = ""}
    IN  (\A i \in DOMAIN Plan : Plan[i] \in done <=> \A j \in open : i < j) =>
          \A i \in DOMAIN Plan : Plan[i] \in done =>
            /\ Plan[i] \in DOMAIN wallTimes /\ wallTimes[Plan[i]] > 0
            /\ i > 1 => startedAt[Plan[i]] = startedAt[Plan[i - 1]] + wallTimes[Plan[i - 1]]

\* The documented precedence: what the environment sets is what the run uses,
\* except that --checkpoint goes before it, and that a knob of another
\* provider than the one chosen from the menu is dropped.
EnvironmentWins ==
  stage # "asking" =>
    \A k \in DOMAIN run.env :
      \/ run.config[k] = run.env[k]
      \/ k = "checkpoint" /\ run.flag # None
      \/ k \in Efforts /\ "provider" \notin DOMAIN run.env /\ k # run.config.provider

\* "international and China accounts cannot share credentials": without a URL
\* of the user's own a key goes to the endpoint of its account.
KeyFitsEndpoint ==
  stage \in {"streaming", "done"} =>
    \A c \in {run.clients.deep, run.clients.quick} :
      c.key = None \/ c.url \in {None, "custom", c.key}

\* It does not for "glm" from the environment, whose URL is that of the menu.
KeyFitsEndpointButGlm ==
  KeyFitsEndpoint \/ ("provider" \in DOMAIN run.env /\ run.env.provider = "glm")
=============================================================================
