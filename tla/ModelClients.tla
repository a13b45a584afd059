---------------------------- MODULE ModelClients ----------------------------
(***************************************************************************)
(* Providers of models, their endpoints, keys and clients                  *)
(* (llm_clients/, and the provider table of cli/utils.py).                 *)
(*                                                                         *)
(* Accounts are what a key opens and an endpoint serves: an endpoint is    *)
(* named by the provider whose account it serves, "custom" is a URL of the *)
(* user's, None is the default of the provider's SDK.  The international   *)
(* and the Chinese account of a provider differ.                           *)
(***************************************************************************)
EXTENDS Integers, Sequences

None == "None"
Native == {"anthropic", "google", "azure", "bedrock"}
Compatible == {"openai", "xai", "deepseek", "qwen", "qwen-cn", "glm", "glm-cn", "minimax",
               "minimax-cn", "openrouter", "mistral", "kimi", "groq", "nvidia", "ollama",
               "openai_compatible"}
Providers == Native \cup Compatible

\* PROVIDER_API_KEY_ENV, as the account of the key.
GetApiKeyEnv(p) == IF p \in {"bedrock", "ollama"} THEN None ELSE p

\* OPENAI_COMPATIBLE_PROVIDERS.
KeyOptional == {"ollama", "openai_compatible"}
RequireBaseUrl == {"openai_compatible"}
UseResponsesApi == {"openai"}
RegistryUrl(p) == IF p \in {"openai", "openai_compatible"} THEN None ELSE p

\* The endpoint of the menu, which the region prompt replaces.
MenuUrl(p) ==
  IF p = "glm" THEN "glm-cn"
  ELSE IF p \in {"google", "azure", "bedrock", "openai_compatible"} THEN None ELSE p
OnMenu == Providers \ {"qwen-cn", "glm-cn", "minimax-cn"}

ProviderDefaultUrl(p) == IF p \in OnMenu THEN MenuUrl(p) ELSE None

First(urls) ==
  LET set == {i \in DOMAIN urls : urls[i] # None}
  IN  IF set = {} THEN None ELSE urls[CHOOSE i \in set : \A j \in set : i <= j]

ResolveBackendUrl(p, menuUrl, envUrl) == First(<<envUrl, menuUrl, ProviderDefaultUrl(p)>>)

\* ask_glm_region, ask_qwen_region, ask_minimax_region.
Regions(p) ==
  CASE p = "qwen" -> {"qwen", "qwen-cn"}
    [] p = "glm" -> {"glm", "glm-cn"}
    [] p = "minimax" -> {"minimax", "minimax-cn"}
    [] OTHER -> {p}

-----------------------------------------------------------------------------
\* _supports_reasoning_effort, _supports_effort; Gemini takes a thinking level
\* on every model.
TakesEffort(p, model) == p = "google" \/ (p \in {"openai", "anthropic"} /\ model # "plain")

\* _is_native_openai_base_url.
IsNativeOpenAI(url) == url \in {None, "openai"}

Failed == [ok |-> FALSE]

\* OpenAIClient.get_llm; keys are the accounts with a key in the environment.
GetCompatibleLlm(p, model, baseUrl, keys, effort) ==
  LET url == First(<<baseUrl, RegistryUrl(p)>>)
      keyed == GetApiKeyEnv(p) \in keys
  IN  IF (p \in RequireBaseUrl /\ url = None) \/ (~keyed /\ p \notin KeyOptional) THEN Failed
      ELSE [ok |-> TRUE, url |-> url, key |-> IF keyed THEN p ELSE None,
            effort |-> IF TakesEffort(p, model) THEN effort ELSE None,
            responses |-> p \in UseResponsesApi /\ IsNativeOpenAI(url)]

\* AnthropicClient.get_llm, GoogleClient.get_llm and the like: the SDK looks for
\* the key itself.
GetNativeLlm(p, model, baseUrl, keys, effort) ==
  IF GetApiKeyEnv(p) \in keys \cup {None}
  THEN [ok |-> TRUE, url |-> IF p \in {"azure", "bedrock"} THEN None ELSE baseUrl,
        key |-> GetApiKeyEnv(p), effort |-> IF TakesEffort(p, model) THEN effort ELSE None,
        responses |-> FALSE]
  ELSE Failed

\* create_llm_client: Native first, then the registry.
CreateLlm(p, model, baseUrl, keys, effort) ==
  IF p \in Native THEN GetNativeLlm(p, model, baseUrl, keys, effort)
  ELSE IF p \in Compatible THEN GetCompatibleLlm(p, model, baseUrl, keys, effort)
  ELSE Failed
=============================================================================
