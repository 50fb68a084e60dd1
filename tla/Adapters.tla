-------------------------------- MODULE Adapters --------------------------------
(***************************************************************************)
(* Which language model a request calls, with whose key, and what becomes  *)
(* of the reply: ai/adapters.py and its callers, the application's default *)
(* (main.py, create_llm), a request's own provider and key (api/ai.py,     *)
(* get_effective_llm), and the check of a key before it is used            *)
(* (api/system.py, configure_live).                                        *)
(*                                                                         *)
(* A key is known by its owner, the service it is meant for and whether    *)
(* that service accepts it. An adapter is the service it sends to and the  *)
(* key it sends; what they ask differs in wording only.                    *)
(***************************************************************************)
EXTENDS Integers

Services == {"openrouter", "groq", "gemini", "ollama"}

\* The names build_provider knows.
Providers == Services \cup {"langchain"}

NoKey == [owner |-> "nobody", service |-> "none", valid |-> FALSE]
Keys(owner) == [owner : {owner}, service : Services, valid : BOOLEAN]

\* LLM_PROVIDER and the *_API_KEYs: a key is configured for its own service.
AllSettings == {s \in [provider : Providers \cup {"none"},
                       keys : [Services -> Keys("app") \cup {NoKey}]] :
                    \A v \in Services : s.keys[v] # NoKey => s.keys[v].service = v}

\* x-ai-provider and x-ai-key: none, a name of an adapter, or another name.
AllHeaders == [provider : Providers \cup {"none", "other"}, key : Keys("caller") \cup {NoKey}]

NoHeader == [provider |-> "none", key |-> NoKey]

NoProvider == [endpoint |-> "none", key |-> NoKey]

----------------------------------------------------------------------------
(* The factory                                                             *)

OrElse(key, configured) == IF key # NoKey THEN key ELSE configured

OpenRouterAdapter(key, s) ==
    [endpoint |-> "openrouter", key |-> OrElse(key, s.keys["openrouter"])]

GroqAdapter(key, s) == [endpoint |-> "groq", key |-> OrElse(key, s.keys["groq"])]

GeminiAdapter(key, s) == [endpoint |-> "gemini", key |-> OrElse(key, s.keys["gemini"])]

\* The local server needs no key.
OllamaAdapter == [endpoint |-> "ollama", key |-> NoKey]

\* Mutant: Groq's key is preferred.
LangChainAdapterGroqFirst(key, s) ==
    [endpoint |-> "openrouter",
     key |-> OrElse(key, OrElse(s.keys["groq"], s.keys["openrouter"]))]

\* LangChain's client is pointed at OpenRouter, with Groq's key if that is all
\* there is.
LangChainAdapter(key, s) ==
    [endpoint |-> "openrouter",
     key |-> OrElse(key, OrElse(s.keys["openrouter"], s.keys["groq"]))]

\* No adapter for an unknown name, or without a key where one is needed.
BuildProvider(name, key, s) ==
    LET adapter == CASE name = "openrouter" -> OpenRouterAdapter(key, s)
                     [] name = "groq"       -> GroqAdapter(key, s)
                     [] name = "gemini"     -> GeminiAdapter(key, s)
                     [] name = "ollama"     -> OllamaAdapter
                     [] name = "langchain"  -> LangChainAdapter(key, s)
                     [] OTHER               -> NoProvider
    IN  IF name = "ollama" \/ adapter.key # NoKey THEN adapter ELSE NoProvider

\* Built once, when the application starts.
CreateLLM(s) == BuildProvider(s.provider, NoKey, s)

\* The caller's choice if it brings a key; else, and also when the factory
\* does not know the name, the application's.
EffectiveLLM(h, s) ==
    LET own == BuildProvider(h.provider, h.key, s) IN
    IF h.provider # "none" /\ h.key # NoKey /\ own # NoProvider THEN own ELSE CreateLLM(s)

\* What a service does with a request's key.
Accepts(service, key) == key.service = service /\ key.valid

\* POST /system/configure tries a key on three of the services, by asking for
\* their models, which OpenRouter lists for anyone.
AIStatus(h) ==
    IF h.key = NoKey THEN "unconfigured"
    ELSE IF h.provider = "none" THEN "provider_not_set"
    ELSE IF h.provider \notin {"openrouter", "groq", "gemini"} THEN "unknown_provider"
    ELSE IF h.provider = "openrouter" \/ Accepts(h.provider, h.key) THEN "ok"
    ELSE "invalid_key"

----------------------------------------------------------------------------
(* Replies                                                                 *)

PerMille == 0 .. 1000

\* A reply's text, if it has one, is an object with recommendations and
\* perhaps a stated confidence, in thousandths; anything else raises.
EmptyObject == [recommendations |-> {}, stated |-> {}]

\* The analyses a text yields: one, or none if it does not validate.
ParseAIResponse(text) ==
    {[recommendations |-> text.recommendations, confidence |-> confidence] :
        confidence \in (IF text.stated = {} THEN {500} ELSE text.stated) \cap PerMille}

\* The transports that need a key raise on a refusal and on a missing text.
GenerateHosted(provider, reply) ==
    UNION {ParseAIResponse(text) :
              text \in IF Accepts(provider.endpoint, provider.key) THEN reply ELSE {}}

\* Ollama's reads a missing text as an empty object.
GenerateLocal(reply) ==
    UNION {ParseAIResponse(text) : text \in IF reply = {} THEN {EmptyObject} ELSE reply}

Generate(provider, reply) ==
    IF provider.endpoint = "ollama" THEN GenerateLocal(reply) ELSE GenerateHosted(provider, reply)
==============================================================================
