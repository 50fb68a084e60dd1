------------------------ MODULE CampaignAnalysisProofs ------------------------
(***************************************************************************)
(* For every number of requests and every threshold, campaign, text,       *)
(* header and setting. First the breaker alone: the parts of its invariant *)
(* support each other, for the circuit is open while a probe is in flight, *)
(* so only the probe's own end may close it, and closed means fewer        *)
(* failures than the threshold, so a straggler's failure in an open        *)
(* circuit always opens it anew. Then the service, which implements the    *)
(* breaker: its responses are always the fallback's or the model's for     *)
(* some campaign, from which what they claim follows, and its calls have   *)
(* an adapter, from which follows whose key they carry.                    *)
(***************************************************************************)
EXTENDS CampaignAnalysis, FiniteSetTheorems, TLAPS

\* While the circuit is closed, what it counts is the errors in a row.
Counting ==
    /\ circuit = "closed" <=> failures < Threshold
    /\ circuit = "closed" => failures = streak

BreakerInv == TypeOK /\ OneProbe /\ Counting

LEMMA BreakerInit == Init => BreakerInv
<1> SUFFICES ASSUME Init PROVE BreakerInv
  OBVIOUS
<1>1. TypeOK
  BY DEF Init, TypeOK
<1>2. Probes = {}
  BY DEF Init, Probes
<1>3. OneProbe
  BY <1>2 DEF Init, OneProbe
<1>4. Counting
  BY BreakerAssumption DEF Init, Counting
<1>5. QED
  BY <1>1, <1>3, <1>4 DEF BreakerInv

\* A request that ends leaves the probe flag to match the probes still there.
LEMMA ReleaseKeepsProbes ==
    ASSUME TypeOK, OneProbe, NEW r \in Requests, call[r] # "none", Release(r)
    PROVE  /\ call' \in [Requests -> {"none", "plain", "probe"}]
           /\ probing' \in BOOLEAN
           /\ probing' <=> Probes' # {}
           /\ \A p, q \in Probes' : p = q
           /\ probing' => probing /\ call[r] = "plain"
<1>1. call' \in [Requests -> {"none", "plain", "probe"}] /\ probing' \in BOOLEAN
  BY DEF Release, TypeOK
<1>2. Probes' = Probes \ {r}
  BY DEF Release, TypeOK, Probes
<1>3. CASE call[r] = "probe"
  <2>1. r \in Probes
    BY <1>3 DEF Probes
  <2>2. Probes' = {} /\ ~probing'
    BY <2>1, <1>2, <1>3 DEF OneProbe, Release
  <2>3. QED
    BY <1>1, <2>2
<1>4. CASE call[r] # "probe"
  <2>1. Probes' = Probes /\ (probing' <=> probing)
    BY <1>2, <1>4 DEF Probes, Release
  <2>2. call[r] = "plain"
    BY <1>4 DEF TypeOK
  <2>3. QED
    BY <1>1, <2>1, <2>2 DEF OneProbe
<1>5. QED
  BY <1>3, <1>4

LEMMA BreakerStep == BreakerInv /\ [Next]_vars => BreakerInv'
<1> SUFFICES ASSUME BreakerInv, [Next]_vars PROVE BreakerInv'
  OBVIOUS
<1> USE BreakerAssumption
<1>1. ASSUME NEW r \in Requests, Admit(r) PROVE BreakerInv'
  <2>1. Probes' = Probes
    BY <1>1 DEF Admit, Probes, BreakerInv, TypeOK
  <2>2. QED
    BY <1>1, <2>1 DEF Admit, BreakerInv, TypeOK, OneProbe, Counting
<1>2. ASSUME NEW r \in Requests, Probe(r) PROVE BreakerInv'
  <2>1. Probes' = {r}
    BY <1>2 DEF Probe, Probes, BreakerInv, TypeOK, OneProbe
  <2>2. QED
    BY <1>2, <2>1 DEF Probe, BreakerInv, TypeOK, OneProbe, Counting
<1>3. ASSUME NEW r \in Requests, Succeed(r) PROVE BreakerInv'
  <2>1. /\ call' \in [Requests -> {"none", "plain", "probe"}]
        /\ probing' \in BOOLEAN
        /\ probing' <=> Probes' # {}
        /\ \A p, q \in Probes' : p = q
        /\ probing' => probing /\ call[r] = "plain"
    BY <1>3, ReleaseKeepsProbes DEF Succeed, BreakerInv
  <2>2. TypeOK' /\ Counting'
    BY <1>3, <2>1 DEF Succeed, BreakerInv, TypeOK, Counting
  <2>3. probing' => circuit' # "closed"
    BY <1>3, <2>1 DEF Succeed, BreakerInv, OneProbe
  <2>4. QED
    BY <2>1, <2>2, <2>3 DEF BreakerInv, OneProbe
<1>4. ASSUME NEW r \in Requests, Fail(r) PROVE BreakerInv'
  <2>1. /\ call' \in [Requests -> {"none", "plain", "probe"}]
        /\ probing' \in BOOLEAN
        /\ probing' <=> Probes' # {}
        /\ \A p, q \in Probes' : p = q
        /\ probing' => probing /\ call[r] = "plain"
    BY <1>4, ReleaseKeepsProbes DEF Fail, BreakerInv
  <2>2. call[r] = "probe" => circuit # "closed"
    BY DEF BreakerInv, OneProbe, Probes
  <2>3. TypeOK' /\ Counting'
    BY <1>4, <2>1, <2>2 DEF Fail, BreakerInv, TypeOK, Counting
  <2>4. probing' => circuit' # "closed"
    BY <1>4, <2>1 DEF Fail, BreakerInv, OneProbe
  <2>5. QED
    BY <2>1, <2>3, <2>4 DEF BreakerInv, OneProbe
<1>5. ASSUME NEW r \in Requests, Cancel(r) PROVE BreakerInv'
  <2>1. /\ call' \in [Requests -> {"none", "plain", "probe"}]
        /\ probing' \in BOOLEAN
        /\ probing' <=> Probes' # {}
        /\ \A p, q \in Probes' : p = q
        /\ probing' => probing /\ call[r] = "plain"
    BY <1>5, ReleaseKeepsProbes DEF Cancel, BreakerInv
  <2>2. QED
    BY <1>5, <2>1 DEF Cancel, BreakerInv, TypeOK, OneProbe, Counting
<1>6. CASE Cooldown
  BY <1>6 DEF Cooldown, BreakerInv, TypeOK, OneProbe, Counting, Probes
<1>7. CASE UNCHANGED vars
  BY <1>7 DEF vars, BreakerInv, TypeOK, OneProbe, Counting, Probes
<1>8. QED
  BY <1>1, <1>2, <1>3, <1>4, <1>5, <1>6, <1>7 DEF Next

LEMMA BreakerInvariant == Spec => []BreakerInv
BY BreakerInit, BreakerStep, PTL DEF Spec

\* At most one recovery probe is in flight, at an open circuit only, and the
\* flag that admits the next one is set exactly while there is one.
THEOREM SingleProbe == Spec => []OneProbe
<1>1. BreakerInv => OneProbe
  BY DEF BreakerInv
<1>2. QED
  BY <1>1, BreakerInvariant, PTL

\* A closed circuit opens with the Threshold-th error in a row, whoever's they
\* are and however requests overlap, never before, and closes with none.
THEOREM Trips == Spec => TripsOnConsecutiveErrors
<1> DEFINE Turns ==
        /\ circuit = "closed" => (circuit' # "closed" <=> streak' >= Threshold)
        /\ circuit # "closed" /\ circuit' = "closed" => streak' = 0
<1>1. BreakerInv /\ [Next]_vars => [Turns]_vars
  <2> SUFFICES ASSUME BreakerInv, Next PROVE Turns
    BY DEF vars
  <2>1. BreakerInv'
    BY BreakerStep
  <2>2. CASE circuit = "closed"
    <3>1. failures = streak /\ streak \in Nat
      BY <2>2 DEF BreakerInv, Counting, TypeOK
    <3>2. failures' = streak'
      BY <2>2, <3>1 DEF Next, Admit, Probe, Succeed, Fail, Cancel, Cooldown
    <3>3. circuit' = "closed" <=> ~(streak' >= Threshold)
      BY <2>1, <3>2, BreakerAssumption DEF BreakerInv, Counting, TypeOK
    <3>4. QED
      BY <2>2, <3>3
  <2>3. CASE circuit # "closed" /\ circuit' = "closed"
    <3>1. PICK r \in Requests : Succeed(r)
      BY <2>3 DEF Next, Admit, Probe, Fail, Cancel, Cooldown
    <3>2. streak' = 0
      BY <3>1 DEF Succeed
    <3>3. QED
      BY <2>3, <3>2
  <2>4. QED
    BY <2>2, <2>3
<1>2. QED
  BY <1>1, BreakerInvariant, PTL DEF Spec, TripsOnConsecutiveErrors

\* A success that was in flight when the circuit opened does not close it.
THEOREM StragglersDoNotClose == Spec => OnlyProbeCloses
<1> DEFINE Closes == circuit # "closed" /\ circuit' = "closed" =>
                        \E r \in Requests : call[r] = "probe" /\ call'[r] = "none"
<1>1. BreakerInv /\ [Next]_vars => [Closes]_vars
  <2> SUFFICES ASSUME BreakerInv, Next, circuit # "closed", circuit' = "closed"
               PROVE  \E r \in Requests : call[r] = "probe" /\ call'[r] = "none"
    BY DEF vars
  <2>1. PICK r \in Requests : Succeed(r)
    BY DEF Next, Admit, Probe, Fail, Cancel, Cooldown
  <2>2. call[r] = "probe" /\ call' = [call EXCEPT ![r] = "none"]
    BY <2>1 DEF Succeed, Release
  <2>3. QED
    BY <2>2 DEF BreakerInv, TypeOK
<1>2. QED
  BY <1>1, BreakerInvariant, PTL DEF Spec, OnlyProbeCloses

----------------------------------------------------------------------------
\* What Generate may return.
Answers == UNION {ParseAIResponse(text) : text \in Texts \cup {EmptyObject}}

LEMMA AnswersAreValid ==
    \A a \in Answers : a.recommendations \subseteq Recommendations /\ a.confidence \in PerMille
BY AnalysisAssumption DEF Answers, ParseAIResponse, EmptyObject

LEMMA GenerateReturnsAnswers ==
    ASSUME NEW provider, NEW reply \in {{}} \cup {{text} : text \in Texts}
    PROVE  Generate(provider, reply) \subseteq Answers
BY DEF Generate, GenerateHosted, GenerateLocal, Answers

Responded ==
    \/ response = NoResponse
    \/ \E c \in Campaigns :
        \/ response = Fallback(c)
        \/ \E a \in Answers : response = Analysis(c, a)

LEMMA RespondedStep == Responded /\ [AnalysisNext]_analysis => Responded'
<1> SUFFICES ASSUME Responded, [AnalysisNext]_analysis PROVE Responded'
  OBVIOUS
<1>1. ASSUME NEW r \in Requests, Refuse(r) PROVE Responded'
  BY <1>1 DEF Refuse, Responded
<1>2. ASSUME NEW r \in Requests, AnswerFromModel(r) PROVE Responded'
  <2>1. PICK c \in Campaigns, reply \in {{}} \cup {{text} : text \in Texts} :
            \E a \in Generate(Provider(r), reply) : response' = Analysis(c, a)
    BY <1>2 DEF AnswerFromModel
  <2>2. PICK a \in Answers : response' = Analysis(c, a)
    BY <2>1, GenerateReturnsAnswers
  <2>3. QED
    BY <2>2 DEF Responded
<1>3. ASSUME NEW r \in Requests, AnswerFromRules(r) PROVE Responded'
  BY <1>3 DEF AnswerFromRules, Responded
<1>4. CASE UNCHANGED response
  BY <1>4 DEF Responded
<1>5. QED
  BY <1>1, <1>2, <1>3, <1>4 DEF AnalysisNext, Call, Disconnect, analysis

LEMMA AlwaysResponded == AnalysisSpec => []Responded
<1>1. AnalysisInit => Responded
  BY DEF AnalysisInit, Responded
<1>2. QED
  BY <1>1, RespondedStep, PTL DEF AnalysisSpec

\* Leaving the responses out, every step is one of the breaker or none.
THEOREM ImplementsBreaker == AnalysisSpec => Spec
<1>1. AnalysisInit => Init
  BY DEF AnalysisInit
<1>2. [AnalysisNext]_analysis => [Next]_vars
  BY DEF AnalysisNext, Refuse, Call, AnswerFromModel, AnswerFromRules, Disconnect, Next, analysis, vars
<1>3. QED
  BY <1>1, <1>2, PTL DEF AnalysisSpec, Spec

\* Requests that carry answers still have one recovery probe at most, at an
\* open circuit.
THEOREM AnswersKeepOneProbe == AnalysisSpec => []OneProbe
BY ImplementsBreaker, SingleProbe, PTL

----------------------------------------------------------------------------
\* A request that awaits a provider has one, from valid headers and settings.
ProviderInv ==
    /\ settings \in AllSettings
    /\ header \in [Requests -> AllHeaders]
    /\ \A r \in Requests : call[r] # "none" => Provider(r) # NoProvider

LEMMA NoHeaderIsAHeader == NoHeader \in AllHeaders
BY DEF NoHeader, AllHeaders

LEMMA ProviderStep == BreakerInv /\ ProviderInv /\ [AnalysisNext]_analysis => ProviderInv'
<1> SUFFICES ASSUME BreakerInv, ProviderInv, [AnalysisNext]_analysis PROVE ProviderInv'
  OBVIOUS
<1> USE DEF ProviderInv, Provider
<1>1. ASSUME NEW r \in Requests, Call(r) PROVE ProviderInv'
  <2>1. PICK h \in Headers : /\ EffectiveLLM(h, settings) # NoProvider
                            /\ header' = [header EXCEPT ![r] = h]
    BY <1>1 DEF Call
  <2>2. \A q \in Requests \ {r} : call'[q] = call[q]
    BY <1>1 DEF Call, Admit, Probe, BreakerInv, TypeOK
  <2>3. h \in AllHeaders /\ settings' = settings
    BY <1>1, AnalysisAssumption DEF Call
  <2>4. QED
    BY <2>1, <2>2, <2>3
<1>2. ASSUME NEW r \in Requests, Forget(r), Release(r) PROVE ProviderInv'
  <2>1. /\ \A q \in Requests \ {r} : call'[q] = call[q]
        /\ call'[r] = "none"
    BY <1>2 DEF Release, BreakerInv, TypeOK
  <2>2. QED
    BY <1>2, <2>1, NoHeaderIsAHeader DEF Forget
<1>3. CASE UNCHANGED <<call, settings, header>>
  BY <1>3
<1>4. QED
  BY <1>1, <1>2, <1>3 DEF AnalysisNext, Refuse, Disconnect, AnswerFromModel, AnswerFromRules,
     Succeed, Fail, Cancel, Cooldown, analysis, vars

LEMMA AlwaysProvided == AnalysisSpec => [](BreakerInv /\ ProviderInv)
<1>1. AnalysisInit => ProviderInv
  BY AnalysisAssumption, NoHeaderIsAHeader DEF AnalysisInit, Init, ProviderInv
<1>2. AnalysisSpec => []BreakerInv
  BY ImplementsBreaker, BreakerInvariant, PTL
<1>3. QED
  BY <1>1, <1>2, ProviderStep, PTL DEF AnalysisSpec

\* The breaker's variables keep their types while requests carry headers.
THEOREM TypeCorrect == AnalysisSpec => []TypeOK
<1>1. BreakerInv => TypeOK
  BY DEF BreakerInv
<1>2. QED
  BY <1>1, AlwaysProvided, PTL

\* Whatever is configured and whatever callers send: no call without a key but
\* to the local server, a caller's key only to the service named and in place
\* of the application's, whose keys stay with their services.
THEOREM KeysGoWhereTheyBelong == AnalysisSpec => []CallsAreAuthorised
<1>1. ASSUME ProviderInv PROVE CallsAreAuthorised
  <2> SUFFICES ASSUME NEW r \in Requests, call[r] # "none"
               PROVE  LET provider == Provider(r)
                          key == provider.key
                          h == header[r]
                          named == IF h.provider = "langchain" THEN "openrouter"
                                   ELSE h.provider
                      IN  /\ provider.endpoint \in Services
                          /\ key = NoKey <=> provider.endpoint = "ollama"
                          /\ key.owner = "caller" => key = h.key /\ provider.endpoint = named
                          /\ named \in Services \ {"ollama"} /\ h.key # NoKey => key = h.key
                          /\ AIStatus(h) = "ok" =>
                                /\ key = h.key
                                /\ \/ provider.endpoint = "openrouter"
                                   \/ Accepts(provider.endpoint, key)
                          /\ key.owner = "app" =>
                               \/ key = settings.keys[provider.endpoint]
                               \/ /\ settings.provider = "langchain"
                                  /\ settings.keys["openrouter"] = NoKey
                                  /\ key = settings.keys["groq"]
    BY DEF CallsAreAuthorised
  <2> DEFINE h == header[r]
             own == BuildProvider(h.provider, h.key, settings)
             default == BuildProvider(settings.provider, NoKey, settings)
  <2>1. /\ h \in AllHeaders /\ settings \in AllSettings
        /\ EffectiveLLM(h, settings) # NoProvider
        /\ Provider(r) = EffectiveLLM(h, settings)
    BY <1>1 DEF ProviderInv, Provider
  <2>2. /\ settings.keys \in [Services -> Keys("app") \cup {NoKey}]
        /\ settings.provider \in Providers \cup {"none"}
        /\ h.key \in Keys("caller") \cup {NoKey}
        /\ h.provider \in Providers \cup {"none", "other"}
    BY <2>1 DEF AllHeaders, AllSettings
  <2>3. /\ \A key \in Keys("app") : key # NoKey /\ key.owner = "app"
        /\ \A key \in Keys("caller") : key # NoKey /\ key.owner = "caller"
        /\ NoKey.owner = "nobody"
    BY DEF Keys, NoKey
  <2>4. CASE h.provider # "none" /\ h.key # NoKey /\ own # NoProvider
    <3>1. Provider(r) = own
      BY <2>1, <2>4 DEF EffectiveLLM
    <3>2. /\ h.provider \in Providers
          /\ own = IF h.provider = "ollama" THEN [endpoint |-> "ollama", key |-> NoKey]
                   ELSE [endpoint |-> IF h.provider = "langchain" THEN "openrouter"
                                      ELSE h.provider,
                         key |-> h.key]
      BY <2>2, <2>4 DEF BuildProvider, OpenRouterAdapter, GroqAdapter, GeminiAdapter,
         OllamaAdapter, LangChainAdapter, OrElse, Providers, Services, NoProvider, NoKey
    <3>3. QED
      BY <2>2, <2>3, <2>4, <3>1, <3>2 DEF Providers, Services, AIStatus
  <2>5. CASE ~(h.provider # "none" /\ h.key # NoKey /\ own # NoProvider)
    <3>1. Provider(r) = default /\ default # NoProvider
      BY <2>1, <2>5 DEF EffectiveLLM, CreateLLM
    <3>2. /\ settings.provider \in Providers
          /\ default = IF settings.provider = "ollama"
                       THEN [endpoint |-> "ollama", key |-> NoKey]
                       ELSE IF settings.provider = "langchain"
                       THEN [endpoint |-> "openrouter",
                             key |-> IF settings.keys["openrouter"] # NoKey
                                     THEN settings.keys["openrouter"]
                                     ELSE settings.keys["groq"]]
                       ELSE [endpoint |-> settings.provider,
                             key |-> settings.keys[settings.provider]]
          /\ settings.provider # "ollama" => default.key # NoKey
      BY <2>2, <3>1 DEF BuildProvider, OpenRouterAdapter, GroqAdapter, GeminiAdapter,
         OllamaAdapter, LangChainAdapter, OrElse, Providers, Services, NoProvider
    <3>3. default.key \in Keys("app") \cup {NoKey}
      BY <2>2, <3>2 DEF Providers, Services
    <3>4. h.provider \notin Services \cup {"langchain"} \/ h.key = NoKey
      BY <2>2, <2>5 DEF BuildProvider, OpenRouterAdapter, GroqAdapter, GeminiAdapter,
         OllamaAdapter, LangChainAdapter, OrElse, Providers, Services, NoProvider
    <3>5. AIStatus(h) # "ok"
      BY <3>4 DEF AIStatus, Services
    <3>6. /\ default.endpoint \in Services
          /\ default.key = NoKey <=> default.endpoint = "ollama"
          /\ default.key.owner # "caller"
          /\ default.key.owner = "app" =>
                  \/ default.key = settings.keys[default.endpoint]
                  \/ /\ settings.provider = "langchain"
                     /\ settings.keys["openrouter"] = NoKey
                     /\ default.key = settings.keys["groq"]
      <4> HIDE DEF default
      <4> QED  BY <2>2, <2>3, <3>2, <3>3 DEF Providers, Services
    <3>7. LET named == IF h.provider = "langchain" THEN "openrouter" ELSE h.provider IN
          ~(named \in Services \ {"ollama"} /\ h.key # NoKey)
      BY <3>4 DEF Services
    <3>8. QED
      BY <3>1, <3>5, <3>6, <3>7
  <2>6. QED
    BY <2>4, <2>5
<1>2. QED
  BY <1>1, AlwaysProvided, PTL

----------------------------------------------------------------------------
Latest(c) ==
    {c.measured[i].value : i \in
        {i \in DOMAIN c.measured : \A j \in DOMAIN c.measured :
            c.measured[j].name = c.measured[i].name => j <= i}}

Numbers(c) == Latest(c) \cup {100 * v : v \in Latest(c)} \cup {100 * c.audience}

\* What the guard compares with is a number of the newest aggregates.
LEMMA KnownAreNumbers ==
    ASSUME NEW c \in Campaigns
    PROVE  /\ KnownNumbers(c) \subseteq Numbers(c)
           /\ Numbers(c) \subseteq Int
<1> c \in [measured : Seq([name : STRING, value : Int]), audience : Nat]
  BY AnalysisAssumption
<1>1. \A i \in DOMAIN c.measured : c.measured[i].value \in Int
  <2> DEFINE Row == [name : STRING, value : Int]
  <2>1. c.measured \in Seq(Row)
    OBVIOUS
  <2>2. \A i \in DOMAIN c.measured : c.measured[i] \in Row
    <3> HIDE DEF Row
    <3> QED  BY <2>1
  <2>3. QED
    BY <2>2
<1>2. Latest(c) \subseteq Int
  BY <1>1 DEF Latest
<1>3. ASSUME NEW name, NEW k \in Values(c, name) PROVE k \in Latest(c)
  <2> DEFINE of == {i \in DOMAIN c.measured : c.measured[i].name = name}
  <2>1. PICK i \in of : k = c.measured[i].value /\ \A j \in of : j <= i
    BY DEF Values
  <2>2. \A j \in DOMAIN c.measured : c.measured[j].name = c.measured[i].name => j <= i
    BY <2>1
  <2>3. QED
    BY <2>1, <2>2 DEF Latest
<1>4. \A v \in Int : v * 100 = 100 * v /\ v * 100 \in Int
  OBVIOUS
<1>5. KnownNumbers(c) \subseteq Numbers(c)
  <2>1. ASSUME NEW k \in KnownNumbers(c) PROVE k \in Numbers(c)
    <3> DEFINE ratios == UNION {Values(c, name) : name \in Names(c)}
    <3>1. ratios \subseteq Latest(c)
      BY <1>3
    <3>2. \/ k \in ratios
          \/ \E v \in ratios : k = v * 100
          \/ k = c.audience * 100
      BY DEF KnownNumbers
    <3>3. CASE \E v \in ratios : k = v * 100
      <4>1. PICK v \in ratios : k = v * 100
        BY <3>3
      <4>2. v \in Latest(c) /\ k = 100 * v
        BY <4>1, <3>1, <1>2, <1>4
      <4>3. QED
        BY <4>2 DEF Numbers
    <3>4. CASE k = c.audience * 100
      BY <3>4, <1>4 DEF Numbers
    <3>5. QED
      BY <3>1, <3>2, <3>3, <3>4 DEF Numbers
  <2>2. QED
    BY <2>1
<1>6. QED
  BY <1>2, <1>4, <1>5 DEF Numbers

\* A number within the guard's tolerance of a large figure is itself close to
\* half a percent.
LEMMA CloseEnough ==
    ASSUME NEW value \in Nat, value > 1200, NEW k \in Int,
           Distance(value, k) <= 1 \/ 200 * Distance(value, k) <= Distance(k, 0)
    PROVE  200 * Distance(value, k) <= k
<1>1. CASE k < 0
  BY <1>1 DEF Distance
<1>2. CASE k >= 0
  BY <1>2 DEF Distance
<1>3. QED
  BY <1>1, <1>2

\* No answer is returned as verified with a percentage above 10, or a count or
\* decimal above 12, that the newest aggregates do not have; time windows of any
\* length and the threshold of the fallback's advice are exempt.
THEOREM VerifiedIsMeasured == AnalysisSpec => []VerifiedFigures
<1>1. ASSUME Responded PROVE VerifiedFigures
  <2> SUFFICES ASSUME response # NoResponse, response.verified,
                      NEW rec \in response.recommendations, NEW claim \in rec.claims
               PROVE  \/ response.source = "fallback" /\ claim = OpenRateThreshold
                      \/ /\ claim.shape = "percent" /\ claim.value > 1000 =>
                             \E n \in Numbers(response.campaign) :
                                 Distance(claim.value, n) <= 100
                         /\ claim.shape \in {"integer", "decimal"} /\ claim.value > 1200 =>
                             \E n \in Numbers(response.campaign) :
                                 200 * Distance(claim.value, n) <= n
    BY DEF VerifiedFigures, Numbers, Latest
  <2>1. PICK c \in Campaigns :
            \/ response = Fallback(c)
            \/ \E a \in Answers : response = Analysis(c, a)
    BY <1>1 DEF Responded
  <2>2. CASE response = Fallback(c)
    BY <2>2 DEF Fallback, FallbackAdvice
  <2>3. ASSUME NEW a \in Answers, response = Analysis(c, a)
        PROVE  /\ claim.shape = "percent" /\ claim.value > 1000 =>
                     \E n \in Numbers(c) : Distance(claim.value, n) <= 100
               /\ claim.shape \in {"integer", "decimal"} /\ claim.value > 1200 =>
                     \E n \in Numbers(c) : 200 * Distance(claim.value, n) <= n
    <3>1. rec \in a.recommendations /\ Grounded(claim, rec, KnownNumbers(c))
      BY <2>3 DEF Analysis, VerifyGrounding
    <3>2. claim.value \in Nat
      BY <3>1, AnswersAreValid DEF Recommendations, Claims
    <3>3. ASSUME claim.shape = "percent", claim.value > 1000
          PROVE  \E n \in Numbers(c) : Distance(claim.value, n) <= 100
      <4>1. ~IsSmallDelta(claim, rec)
        BY <3>2, <3>3 DEF IsSmallDelta
      <4>2. WithinPct(claim.value, KnownNumbers(c))
        BY <3>1, <3>3, <4>1 DEF Grounded, PercentGrounded
      <4>3. QED
        BY <4>2, KnownAreNumbers DEF WithinPct
    <3>4. ASSUME claim.shape \in {"integer", "decimal"}, claim.value > 1200
          PROVE  \E n \in Numbers(c) : 200 * Distance(claim.value, n) <= n
      <4>1. WithinAbs(claim.value, KnownNumbers(c))
        BY <3>1, <3>2, <3>4, SMTT(20) DEF Grounded, FigureGrounded
      <4>2. PICK k \in KnownNumbers(c) : \/ Distance(claim.value, k) <= 1
                                         \/ 200 * Distance(claim.value, k) <= Distance(k, 0)
        BY <4>1 DEF WithinAbs
      <4>3. k \in Numbers(c) /\ k \in Int
        BY <4>2, KnownAreNumbers
      <4>4. 200 * Distance(claim.value, k) <= k
        BY <3>2, <3>4, <4>2, <4>3, CloseEnough
      <4>5. QED
        BY <4>3, <4>4
    <3>5. QED
      BY <3>3, <3>4
  <2>4. response.campaign = c
    BY <2>1 DEF Fallback, Analysis
  <2>5. QED
    BY <2>1, <2>2, <2>3, <2>4
<1>2. QED
  BY <1>1, AlwaysResponded, PTL

----------------------------------------------------------------------------
UpToFour == 0 .. 4
Coverage(c) == Cardinality(Names(c) \cap Metrics)

LEMMA AddOne ==
    ASSUME NEW S, NEW x, NEW n \in Nat, IsFiniteSet(S), Cardinality(S) <= n
    PROVE  IsFiniteSet(S \cup {x}) /\ Cardinality(S \cup {x}) <= n + 1
<1>1. Cardinality(S) \in Nat
  BY FS_CardinalityType
<1>2. /\ IsFiniteSet(S \cup {x})
      /\ Cardinality(S \cup {x}) = IF x \in S THEN Cardinality(S) ELSE Cardinality(S) + 1
  BY FS_AddElement
<1>3. QED
  BY <1>1, <1>2

\* Coverage counts at most four metrics and grows with them.
LEMMA CoverageGrows ==
    /\ \A c \in Campaigns : Coverage(c) \in UpToFour
    /\ \A c, d \in Campaigns : Names(c) \subseteq Names(d) => Coverage(c) <= Coverage(d)
<1>1. IsFiniteSet(Metrics) /\ Cardinality(Metrics) <= 4
  <2> DEFINE one == {} \cup {"open_rate"}
             two == one \cup {"click_rate"}
             three == two \cup {"conversion_rate"}
             four == three \cup {"unsubscribe_rate"}
  <2>1. /\ IsFiniteSet({}) /\ Cardinality({}) <= 0
        /\ 0 + 1 = 1 /\ 1 + 1 = 2 /\ 2 + 1 = 3 /\ 3 + 1 = 4
    BY FS_EmptySet
  <2>2. IsFiniteSet(one) /\ Cardinality(one) <= 1
    <3>1. IsFiniteSet(one) /\ Cardinality(one) <= 0 + 1
      BY <2>1, AddOne, Zenon
    <3>2. QED
      BY <2>1, <3>1, Zenon
  <2>3. IsFiniteSet(two) /\ Cardinality(two) <= 2
    <3>1. IsFiniteSet(two) /\ Cardinality(two) <= 1 + 1
      <4> HIDE DEF one
      <4> QED  BY <2>2, AddOne, Zenon
    <3>2. QED
      BY <2>1, <3>1, Zenon
  <2>4. IsFiniteSet(three) /\ Cardinality(three) <= 3
    <3>1. IsFiniteSet(three) /\ Cardinality(three) <= 2 + 1
      <4> HIDE DEF two
      <4> QED  BY <2>3, AddOne, Zenon
    <3>2. QED
      BY <2>1, <3>1, Zenon
  <2>5. IsFiniteSet(four) /\ Cardinality(four) <= 4
    <3>1. IsFiniteSet(four) /\ Cardinality(four) <= 3 + 1
      <4> HIDE DEF three
      <4> QED  BY <2>4, AddOne, Zenon
    <3>2. QED
      BY <2>1, <3>1, Zenon
  <2>6. Metrics = four
    BY DEF Metrics
  <2>7. QED
    BY <2>5, <2>6
<1>2. \A c \in Campaigns : /\ IsFiniteSet(Names(c) \cap Metrics)
                          /\ Coverage(c) \in Nat /\ Coverage(c) <= 4
  BY <1>1, FS_Subset, FS_CardinalityType DEF Coverage
<1>3. ASSUME NEW c \in Campaigns, NEW d \in Campaigns, Names(c) \subseteq Names(d)
      PROVE  Coverage(c) <= Coverage(d)
  BY <1>2, <1>3, FS_Subset DEF Coverage
<1>4. \A n \in Nat : n <= 4 => n \in UpToFour
  BY DEF UpToFour
<1>5. \A c \in Campaigns : Coverage(c) \in UpToFour
  BY <1>2, <1>4, Zenon
<1>6. QED
  BY <1>3, <1>5

LEMMA SupportIsBounded ==
    ASSUME NEW c \in Campaigns
    PROVE  DataSupport(c) \in PerMille
<1>1. Coverage(c) \in UpToFour /\ Reliability[c.audience] \in PerMille
  BY CoverageGrows, AnalysisAssumption
<1>2. \A n \in UpToFour, r \in PerMille : Rounded(5 * (250 * n) + 3 * r, 8) \in PerMille
  BY DEF Rounded, PerMille, UpToFour
<1>3. DataSupport(c) = Rounded(5 * (250 * Coverage(c)) + 3 * Reliability[c.audience], 8)
  BY DEF DataSupport, Coverage
<1>4. Rounded(5 * (250 * Coverage(c)) + 3 * Reliability[c.audience], 8) \in PerMille
  BY <1>1, <1>2, Zenon
<1>5. QED
  BY <1>3, <1>4, Zenon

LEMMA SupportGrows ==
    ASSUME NEW c \in Campaigns, NEW d \in Campaigns,
           Names(c) \subseteq Names(d), d.audience = c.audience
    PROVE  DataSupport(d) >= DataSupport(c)
<1>1. /\ Coverage(c) \in UpToFour /\ Coverage(d) \in UpToFour /\ Coverage(c) <= Coverage(d)
      /\ Reliability[c.audience] \in PerMille
  BY CoverageGrows, AnalysisAssumption
<1>2. \A m, n \in UpToFour, r \in PerMille :
        m <= n => Rounded(5 * (250 * n) + 3 * r, 8) >= Rounded(5 * (250 * m) + 3 * r, 8)
  BY DEF Rounded, PerMille, UpToFour
<1>3. /\ DataSupport(c) = Rounded(5 * (250 * Coverage(c)) + 3 * Reliability[c.audience], 8)
      /\ DataSupport(d) = Rounded(5 * (250 * Coverage(d)) + 3 * Reliability[c.audience], 8)
  BY DEF DataSupport, Coverage
<1>4. Rounded(5 * (250 * Coverage(d)) + 3 * Reliability[c.audience], 8)
        >= Rounded(5 * (250 * Coverage(c)) + 3 * Reliability[c.audience], 8)
  BY <1>1, <1>2, ZenonT(20)
<1>5. QED
  BY <1>3, <1>4, Zenon

\* Whatever the model says of itself moves the confidence by at most 0.3.
LEMMA BlendStaysClose ==
    ASSUME NEW support \in PerMille, NEW stated \in PerMille
    PROVE  /\ Blend(support, stated) \in PerMille
           /\ Distance(Blend(support, stated), support) <= 300
BY DEF Blend, Rounded, Distance, PerMille

\* The confidence is the measured evidence, which a further metric never
\* lowers, give or take 0.3 for the model's own opinion.
THEOREM ConfidenceIsEvidence == AnalysisSpec => []ConfidenceFollowsEvidence
<1>1. ASSUME Responded PROVE ConfidenceFollowsEvidence
  <2> SUFFICES ASSUME response # NoResponse PROVE ConfidenceFollowsEvidence
    BY DEF ConfidenceFollowsEvidence
  <2>1. PICK c \in Campaigns :
            \/ response = Fallback(c)
            \/ \E a \in Answers : response = Analysis(c, a)
    BY <1>1 DEF Responded
  <2>2. response.campaign = c
    BY <2>1 DEF Fallback, Analysis
  <2>3. /\ DataSupport(c) \in PerMille
        /\ \A d \in Campaigns : Names(c) \subseteq Names(d) /\ d.audience = c.audience
                => DataSupport(d) >= DataSupport(c)
    BY SupportIsBounded, SupportGrows
  <2>4. CASE response = Fallback(c)
    <3>1. response.confidence = DataSupport(c)
      BY <2>4 DEF Fallback
    <3>2. Distance(DataSupport(c), DataSupport(c)) <= 300
      BY <2>3 DEF Distance, PerMille
    <3>3. QED
      BY <2>2, <2>3, <3>1, <3>2 DEF ConfidenceFollowsEvidence
  <2>5. ASSUME NEW a \in Answers, response = Analysis(c, a)
        PROVE  ConfidenceFollowsEvidence
    <3>1. /\ response.source = "llm"
          /\ response.confidence = Blend(DataSupport(c), a.confidence)
      BY <2>5 DEF Analysis
    <3>2. /\ Blend(DataSupport(c), a.confidence) \in PerMille
          /\ Distance(Blend(DataSupport(c), a.confidence), DataSupport(c)) <= 300
      <4>1. a.confidence \in PerMille
        BY AnswersAreValid
      <4>2. QED
        BY <2>3, <4>1, BlendStaysClose, Zenon
    <3>3. QED
      BY <2>2, <2>3, <3>1, <3>2 DEF ConfidenceFollowsEvidence
  <2>6. QED
    BY <2>1, <2>4, <2>5
<1>2. QED
  BY <1>1, AlwaysResponded, PTL
===============================================================================
