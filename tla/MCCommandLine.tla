--------------------------- MODULE MCCommandLine ---------------------------
(* Runs from the command line: environments, answers, and graphs of one or *)
(* two analysts.                                                           *)
EXTENDS CommandLine, TLC

Answer(p, r, d) ==
  [language |-> "Chinese", analysts |-> {"market"}, assetType |-> "stock", depth |-> d,
   provider |-> p, region |-> r, url |-> "custom", quick |-> "plain", deep |-> "thinking",
   effort |-> "high", pastes |-> TRUE]

\* Each provider with a branch of its own, the analysts of a stock and a coin,
\* and the depths of the menu.
MCAnswers ==
  {Answer(p, p, 1) : p \in {"openai", "google", "anthropic", "ollama", "openai_compatible"}} \cup
  {Answer("glm", r, 1) : r \in {"glm", "glm-cn"}} \cup
  {[Answer("qwen", "qwen-cn", 3) EXCEPT !.pastes = FALSE]} \cup
  {[Answer("openai", "openai", 1) EXCEPT !.analysts = {"market", "news", "fundamentals"},
                                         !.assetType = "crypto"],
   [Answer("openai", "openai", 1) EXCEPT !.analysts = {"social", "fundamentals"}],
   [Answer("openai", "openai", 3) EXCEPT !.analysts = {"social"}, !.quick = "thinking"]}

\* Nothing; each knob; and those that are looked at together.
MCEnvironments ==
  {<< >>, "language" :> "Chinese", "debate" :> 2, "risk" :> 2, "debate" :> 2 @@ "risk" :> 1,
   "provider" :> "glm", "provider" :> "google" @@ "google" :> "low" @@ "openai" :> "low",
   "provider" :> "qwen-cn" @@ "url" :> "custom", "url" :> "custom", "quick" :> "plain",
   "openai" :> "low", "anthropic" :> "low", "checkpoint" :> TRUE}

MCKeys == {{}, {"openai", "qwen-cn"}}
MCFlags == {None, "off"}

MCSetups ==
  [plan : {<<"market">>, <<"social">>, <<"market", "news">>, <<"social", "fundamentals">>},
   debateRounds : 1 .. 3, riskRounds : 1 .. 3, limit : {RecursionLimit}]

\* Of the environments and answers that only differ in the setup, one is run.
RunOnce ==
  steps = 0 \/ (/\ DOMAIN run.env \subseteq {"debate", "risk"} /\ run.flag = None
               /\ run.answers.provider = "openai" /\ run.config.debate + run.config.risk < 6)
=============================================================================
