CONSTANTS
    Requests = {r1, r2, r3}
    Threshold = 2
    MaxFailures = 4
    Campaigns <- MCCampaigns
    Texts <- MCTexts
    Headers <- MCHeaders
    Settings <- MCSettings
    Reliability <- MCReliability
SPECIFICATION AnalysisSpec
SYMMETRY RequestSymmetry
INVARIANTS
    TypeOK
    OneProbe
    VerifiedFigures
    ConfidenceFollowsEvidence
    CallsAreAuthorised
PROPERTIES
    TripsOnConsecutiveErrors
    OnlyProbeCloses
