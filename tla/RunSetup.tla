------------------------------ MODULE RunSetup ------------------------------
(***************************************************************************)
(* What a run from the command line is configured with: the environment    *)
(* over the defaults (default_config.py), the answers to the questions     *)
(* (cli/main.py, cli/utils.py), and the clients made of them               *)
(* (graph/trading_graph.py).                                               *)
(*                                                                         *)
(* An environment is a function from the knobs it sets.  Answers are a     *)
(* record; one that is not asked for is not looked at.                     *)
(***************************************************************************)
EXTENDS ModelClients, Filters

Efforts == {"google", "openai", "anthropic"}    \* the knob of each provider

\* DEFAULT_CONFIG before the environment.
Defaults ==
  [language |-> "English", debate |-> 1, risk |-> 1, provider |-> "openai", url |-> None,
   quick |-> "default", deep |-> "default", google |-> None, openai |-> None,
   anthropic |-> None, checkpoint |-> FALSE]
Knobs == DOMAIN Defaults

\* _apply_env_overrides.
ApplyEnvOverrides(env) == [k \in Knobs |-> IF k \in DOMAIN env THEN env[k] ELSE Defaults[k]]

\* filter_analysts_for_asset_type, and the order run_analysis gives the choice.
FilterAnalystsForAssetType(analysts, assetType) ==
  IF assetType = "crypto" THEN analysts \ {"fundamentals"} ELSE analysts
InAnalystOrder(analysts) ==
  KeepOnly(<<"market", "social", "news", "fundamentals">>, analysts)

\* The provider and its endpoint: from the environment, or the menu, the region
\* prompt and, where there is none yet, the prompt for a URL.
SelectedProvider(env, a) ==
  IF "provider" \in DOMAIN env THEN env.provider ELSE a.region

\* Mutant: the menu's endpoint, whatever the region.
SelectedUrlOfMenu(env, a) ==
  LET envUrl == ApplyEnvOverrides(env).url
      url == ResolveBackendUrl(a.region, MenuUrl(a.provider), envUrl)
  IN  IF "provider" \in DOMAIN env THEN ResolveBackendUrl(env.provider, None, envUrl)
      ELSE IF a.region \in RequireBaseUrl /\ url = None THEN a.url ELSE url

SelectedUrl(env, a) ==
  LET envUrl == ApplyEnvOverrides(env).url
      menuUrl == IF Regions(a.provider) = {a.provider} THEN MenuUrl(a.provider) ELSE a.region
      url == ResolveBackendUrl(a.region, menuUrl, envUrl)
  IN  IF "provider" \in DOMAIN env THEN ResolveBackendUrl(env.provider, None, envUrl)
      ELSE IF a.region \in RequireBaseUrl /\ url = None THEN a.url ELSE url

\* ensure_api_key: the keys there are after it.
EnsureApiKey(p, keys, pasted) ==
  IF GetApiKeyEnv(p) = None \/ p \in KeyOptional \/ ~pasted THEN keys ELSE keys \cup {p}

\* Mutant: a knob asked for overrides the environment.
SelectedEffortAsked(env, a, k) ==
  IF "provider" \in DOMAIN env THEN ApplyEnvOverrides(env)[k]
  ELSE IF a.region = k THEN a.effort ELSE None

\* Step 8: the knob of the provider that was chosen.
SelectedEffort(env, a, k) ==
  IF "provider" \in DOMAIN env \/ (a.region = k /\ k \in DOMAIN env)
  THEN ApplyEnvOverrides(env)[k]
  ELSE IF a.region = k THEN a.effort ELSE None

\* get_user_selections.
GetUserSelections(env, a) ==
  LET d == ApplyEnvOverrides(env)
      modelsSet == {"quick", "deep"} \cap DOMAIN env # {}
  IN  [language |-> IF "language" \in DOMAIN env THEN d.language ELSE a.language,
       analysts |-> FilterAnalystsForAssetType(a.analysts, a.assetType),
       depth |-> IF {"debate", "risk"} \subseteq DOMAIN env THEN d.debate ELSE a.depth,
       provider |-> SelectedProvider(env, a), url |-> SelectedUrl(env, a),
       quick |-> IF modelsSet THEN d.quick ELSE a.quick,
       deep |-> IF modelsSet THEN d.deep ELSE a.deep,
       efforts |-> [k \in Efforts |-> SelectedEffort(env, a, k)]]

\* _build_run_config; the flag is --checkpoint, --no-checkpoint or None.
BuildRunConfig(env, sel, flag) ==
  LET d == ApplyEnvOverrides(env)
  IN  [language |-> sel.language,
       debate |-> IF "debate" \in DOMAIN env THEN d.debate ELSE sel.depth,
       risk |-> IF "risk" \in DOMAIN env THEN d.risk ELSE sel.depth,
       provider |-> sel.provider, url |-> sel.url, quick |-> sel.quick, deep |-> sel.deep,
       google |-> sel.efforts.google, openai |-> sel.efforts.openai,
       anthropic |-> sel.efforts.anthropic,
       checkpoint |-> IF flag # None THEN flag = "on" ELSE d.checkpoint]

\* _get_provider_kwargs.
GetProviderKwargs(config) == IF config.provider \in Efforts THEN config[config.provider] ELSE None

\* The clients TradingAgentsGraph makes; it fails when one of them does.
MakeClients(config, keys) ==
  LET client(model) ==
        CreateLlm(config.provider, model, config.url, keys, GetProviderKwargs(config))
  IN  [deep |-> client(config.deep), quick |-> client(config.quick)]
=============================================================================
