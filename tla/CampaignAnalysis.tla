--------------------------- MODULE CampaignAnalysis ---------------------------
(***************************************************************************)
(* What the analysis service answers (ai/service.py with context_builder,  *)
(* grounding_guard, confidence and fallback): the circuit breaker of       *)
(* AnalysisService together with the provider each request calls, the key  *)
(* it sends (Adapters) and the content of the responses.                   *)
(*                                                                         *)
(* Prose is reduced to the figures in it. A recommendation is a set of     *)
(* claims and whether a directional verb occurs in it; a claim is a number *)
(* with the shape in which the guard's expressions find it. Numbers are in *)
(* hundredths, so that 0.18 is 18, 18% is 1800 and 500 people are 50000;   *)
(* confidences are in thousandths. What facts restate is left out, and so  *)
(* is the engagement sample, which no endpoint passes to the context.      *)
(***************************************************************************)
EXTENDS AnalysisService, Adapters, Sequences, FiniteSets

CONSTANTS
    Campaigns,      \* [measured, audience]: a request's campaign_metrics in
                    \* the order of the query, and audience_size
    Texts,          \* [recommendations, stated]: what a model may write
    Headers,        \* x-ai-provider and x-ai-key of the requests
    Settings,       \* LLM_PROVIDER and keys the process may be started with
    Reliability     \* Reliability[n]: log-scaled weight of n people, per mille

\* CANONICAL_METRICS.
Metrics == {"open_rate", "click_rate", "conversion_rate", "unsubscribe_rate"}

Claims == [value : Nat, shape : {"percent", "time", "integer", "decimal"}, by : BOOLEAN]
Recommendations == [claims : SUBSET Claims, directional : BOOLEAN]

ASSUME AnalysisAssumption ==
    /\ Campaigns \subseteq [measured : Seq([name : STRING, value : Int]), audience : Nat]
    /\ \A c \in Campaigns : Reliability[c.audience] \in PerMille
    /\ \A text \in Texts : text.recommendations \subseteq Recommendations
    /\ Headers \subseteq AllHeaders
    /\ Settings \subseteq AllSettings

VARIABLES
    response,   \* the latest response, and the campaign it is about
    settings,   \* get_settings(), cached when the process starts
    header      \* the headers of the requests that await a provider

analysis == <<vars, response, settings, header>>

NoResponse == [source |-> "none"]

AnalysisInit ==
    /\ Init
    /\ response = NoResponse
    /\ settings \in Settings
    /\ header = [r \in Requests |-> NoHeader]

\* The adapter whose generate a request awaits.
Provider(r) == EffectiveLLM(header[r], settings)

----------------------------------------------------------------------------
(* The context                                                             *)

\* The latest measurement of a metric, if there is one: a dict keeps the last.
Values(c, name) ==
    LET of == {i \in DOMAIN c.measured : c.measured[i].name = name} IN
    {c.measured[i].value : i \in {i \in of : \A j \in of : j <= i}}

Names(c) == {c.measured[i].name : i \in DOMAIN c.measured}

----------------------------------------------------------------------------
(* The grounding guard                                                     *)

\* A metric counts as a ratio and, from 0 to 1, as a percentage.
KnownNumbers(c) ==
    LET ratios == UNION {Values(c, name) : name \in Names(c)} IN
    ratios
    \cup {v * 100 : v \in {v \in ratios : 0 <= v /\ v <= 100}}
    \cup {c.audience * 100}

Distance(a, b) == IF a < b THEN b - a ELSE a - b

\* One percentage point, or half a percent of the number but at least 0.01.
WithinPct(value, known) == \E k \in known : Distance(value, k) <= 100
WithinAbs(value, known) ==
    \E k \in known : Distance(value, k) <= 1 \/ 200 * Distance(value, k) <= Distance(k, 0)

\* Mutant: any percentage passes beside a directional verb.
IsSmallDeltaUnbounded(claim, rec) == rec.directional

\* "increase ... by 5%": the guard looks for the "by" anywhere in the text.
IsSmallDelta(claim, rec) ==
    /\ claim.value <= 1000
    /\ rec.directional
    /\ \E other \in rec.claims : other.shape = "percent" /\ other.by

PercentGrounded(claim, rec, known) ==
    WithinPct(claim.value, known) \/ IsSmallDelta(claim, rec)

\* A time window, a small count, or a number of the context.
FigureGrounded(claim, known) ==
    \/ claim.shape = "time"
    \/ claim.shape = "integer" /\ claim.value \in 100 .. 1200
    \/ WithinAbs(claim.value, known)

Grounded(claim, rec, known) ==
    IF claim.shape = "percent"
    THEN PercentGrounded(claim, rec, known)
    ELSE FigureGrounded(claim, known)

VerifyGrounding(recommendations, c) ==
    \A rec \in recommendations : \A claim \in rec.claims :
        Grounded(claim, rec, KnownNumbers(c))

----------------------------------------------------------------------------
(* Confidence                                                              *)

\* The positive number a / b, rounded to an integer.
Rounded(a, b) == (2 * a + b) \div (2 * b)

\* Metric coverage weighs 5 and the audience 3.
DataSupport(c) ==
    LET coverage == 250 * Cardinality(Names(c) \cap Metrics)
    IN Rounded(5 * coverage + 3 * Reliability[c.audience], 8)

\* Mutant: the weights of evidence and self-report are swapped.
BlendSwapped(support, stated) == Rounded(3 * support + 7 * stated, 10)

Blend(support, stated) == Rounded(7 * support + 3 * stated, 10)

----------------------------------------------------------------------------
(* Responses                                                               *)

OpenRateThreshold == [value |-> 1500, shape |-> "percent", by |-> FALSE]

\* Of the fallback's texts, only the one on a low open rate has a figure.
FallbackAdvice(c) ==
    {[claims |-> IF \E v \in Values(c, "open_rate") : v < 15
                 THEN {OpenRateThreshold}
                 ELSE {},
      directional |-> FALSE]}

\* The fallback does not go through the guard: verified is a default.
Fallback(c) ==
    [source |-> "fallback", campaign |-> c, recommendations |-> FallbackAdvice(c),
     verified |-> TRUE, confidence |-> DataSupport(c)]

\* An ungrounded answer is returned too, marked as such.
Analysis(c, a) ==
    [source |-> "llm", campaign |-> c, recommendations |-> a.recommendations,
     verified |-> VerifyGrounding(a.recommendations, c),
     confidence |-> Blend(DataSupport(c), a.confidence)]

\* No provider, or the circuit is open and admits no probe.
Refuse(r) ==
    /\ call[r] = "none"
    /\ \/ \E h \in Headers : EffectiveLLM(h, settings) = NoProvider
       \/ circuit = "cooling"
       \/ circuit = "cooled" /\ probing
    /\ \E c \in Campaigns : response' = Fallback(c)
    /\ UNCHANGED <<vars, settings, header>>

Call(r) ==
    /\ Admit(r) \/ Probe(r)
    /\ \E h \in Headers : /\ EffectiveLLM(h, settings) # NoProvider
                         /\ header' = [header EXCEPT ![r] = h]
    /\ UNCHANGED <<response, settings>>

Forget(r) == header' = [header EXCEPT ![r] = NoHeader] /\ UNCHANGED settings

AnswerFromModel(r) ==
    /\ Succeed(r)
    /\ \E c \in Campaigns, reply \in {{}} \cup {{text} : text \in Texts} :
          \E a \in Generate(Provider(r), reply) : response' = Analysis(c, a)
    /\ Forget(r)

\* Any call may fail, whatever its key: unreachable, too slow, unreadable.
AnswerFromRules(r) ==
    /\ Fail(r)
    /\ \E c \in Campaigns : response' = Fallback(c)
    /\ Forget(r)

Disconnect(r) == Cancel(r) /\ Forget(r) /\ UNCHANGED response

AnalysisNext ==
    \/ \E r \in Requests : \/ Refuse(r) \/ Call(r) \/ Disconnect(r)
                           \/ AnswerFromModel(r) \/ AnswerFromRules(r)
    \/ Cooldown /\ UNCHANGED <<response, settings, header>>

AnalysisSpec == AnalysisInit /\ [][AnalysisNext]_analysis

----------------------------------------------------------------------------
(* Properties                                                              *)

\* Whose key goes where, for every call in flight. Only the local server is
\* called without a key. A caller's key goes to the service the caller names,
\* which it is used for instead of the application's. A key that POST
\* /system/configure found valid is the one sent, and Groq and Gemini accept it
\* (OpenRouter was not really asked). The application's keys go to their own
\* services, but for LangChain with no key except Groq's.
CallsAreAuthorised ==
    \A r \in Requests : call[r] # "none" =>
        LET provider == Provider(r)
            key == provider.key
            h == header[r]
            named == IF h.provider = "langchain" THEN "openrouter" ELSE h.provider
        IN  /\ provider.endpoint \in Services
            /\ key = NoKey <=> provider.endpoint = "ollama"
            /\ key.owner = "caller" => key = h.key /\ provider.endpoint = named
            /\ named \in Services \ {"ollama"} /\ h.key # NoKey => key = h.key
            /\ AIStatus(h) = "ok" =>
                /\ key = h.key
                /\ provider.endpoint = "openrouter" \/ Accepts(provider.endpoint, key)
            /\ key.owner = "app" =>
                \/ key = settings.keys[provider.endpoint]
                \/ /\ settings.provider = "langchain"
                   /\ settings.keys["openrouter"] = NoKey
                   /\ key = settings.keys["groq"]

\* An answer returned as verified, whichever way it came about, states no
\* percentage above 10 that is not within a point of a number in the newest
\* aggregates, and no integer or decimal above 12 that is off by more than half
\* a percent, however its sentences are put together. Exempt are two kinds of
\* figures: a number before a unit of time, of any size ("24 hours" is nothing
\* aggregates could confirm), and the threshold in the fallback's advice on a
\* low open rate.
VerifiedFigures ==
    response # NoResponse /\ response.verified =>
        \A rec \in response.recommendations : \A claim \in rec.claims :
            LET measured == response.campaign.measured
                people == 100 * response.campaign.audience
                latest == {measured[i].value : i \in
                            {i \in DOMAIN measured : \A j \in DOMAIN measured :
                                measured[j].name = measured[i].name => j <= i}}
                numbers == latest \cup {100 * v : v \in latest} \cup {people}
            IN  \/ response.source = "fallback" /\ claim = OpenRateThreshold
                \/ /\ claim.shape = "percent" /\ claim.value > 1000 =>
                        \E n \in numbers : Distance(claim.value, n) <= 100
                   /\ claim.shape \in {"integer", "decimal"} /\ claim.value > 1200 =>
                        \E n \in numbers : 200 * Distance(claim.value, n) <= n

\* "The model's self-report only nudges it": the confidence stays within 0.3 of
\* the measured evidence, which is all there is without a model, and which a
\* further metric never lowers.
ConfidenceFollowsEvidence ==
    response # NoResponse =>
        LET support == DataSupport(response.campaign) IN
        /\ response.confidence \in PerMille
        /\ Distance(response.confidence, support) <= 300
        /\ response.source = "fallback" => response.confidence = support
        /\ \A c \in Campaigns :
            /\ Names(response.campaign) \subseteq Names(c)
            /\ c.audience = response.campaign.audience
            => DataSupport(c) >= support
==============================================================================
