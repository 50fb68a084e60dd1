-------------------------- MODULE MCCampaignAnalysis --------------------------
(***************************************************************************)
(* CampaignAnalysis with interchangeable requests. Three campaigns: a      *)
(* small one without metrics, one whose open rate was measured twice, and  *)
(* one of the same size with a metric more. Answers restate a metric, set  *)
(* a goal, hide a goal behind a small delta, name counts and windows, and  *)
(* leave the confidence out or out of range. Callers bring nothing, a good *)
(* or a bad key, a key for LangChain or Ollama, or an unknown name.        *)
(***************************************************************************)
EXTENDS CampaignAnalysis, TLC

RequestSymmetry == Permutations(Requests)

Measured(name, value) == [name |-> name, value |-> value]

NewCampaign == [measured |-> <<>>, audience |-> 12]
OpenRateFell == [measured |-> <<Measured("open_rate", 30), Measured("open_rate", 8)>>,
                 audience |-> 500]
WithClicks == [measured |-> <<Measured("open_rate", 18), Measured("click_rate", 1)>>,
               audience |-> 500]

MCCampaigns == {NewCampaign, OpenRateFell, WithClicks}

MCReliability == [n \in {12, 500} |-> IF n = 12 THEN 278 ELSE 675]

Claim(value, shape, by) == [value |-> value, shape |-> shape, by |-> by]
Goal == Claim(9500, "percent", FALSE)
SmallGoal == Claim(900, "percent", FALSE)
Delta == Claim(500, "percent", TRUE)
OldOpenRate == Claim(3000, "percent", FALSE)
OpenRate == Claim(1760, "percent", FALSE)
People == Claim(50200, "integer", FALSE)
Dollars == Claim(420000, "integer", FALSE)
Variants == Claim(300, "integer", FALSE)
Hours == Claim(2400, "time", FALSE)

Says(claims, directional, confidence) ==
    [recommendations |-> {[claims |-> claims, directional |-> directional]},
     stated |-> {confidence}]

MCTexts == {Says({Goal, Delta}, TRUE, 990), Says({SmallGoal, Delta}, TRUE, 500),
            Says({OpenRate, People}, FALSE, 0), Says({OldOpenRate}, FALSE, 1000),
            Says({Variants, Hours}, FALSE, 500), Says({Dollars}, TRUE, 1000),
            Says({OpenRate}, FALSE, 1001), Says({OpenRate}, FALSE, -1),
            [recommendations |-> {}, stated |-> {}]}

Key(owner, service, valid) == [owner |-> owner, service |-> service, valid |-> valid]
Header(provider, key) == [provider |-> provider, key |-> key]

MCHeaders == {NoHeader,
              Header("groq", Key("caller", "groq", TRUE)),
              Header("gemini", Key("caller", "gemini", FALSE)),
              Header("openrouter", Key("caller", "openrouter", FALSE)),
              Header("langchain", Key("caller", "openrouter", TRUE)),
              Header("ollama", Key("caller", "groq", TRUE)),
              Header("other", Key("caller", "groq", TRUE)),
              Header("gemini", NoKey)}

Own(service) == Key("app", service, TRUE)

Started(provider, configured) ==
    [provider |-> provider,
     keys |-> [v \in Services |-> IF v \in configured THEN Own(v) ELSE NoKey]]

MCSettings == {Started("none", {}), Started("gemini", {"groq"}),
               Started("groq", {"groq", "openrouter"}), Started("ollama", {}),
               Started("langchain", {"groq"}), Started("langchain", {"groq", "openrouter"})}
==============================================================================
