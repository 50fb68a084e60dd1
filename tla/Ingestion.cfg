CONSTANTS
    Items <- MCItems
    Unstorable <- MCUnstorable
    Batches <- MCBatches
    Requests = {r1, r2}
    SeedRows <- MCSeedRows
    NCampaigns = 2
    MaxRequests = 3
    MaxFaults = 1
SPECIFICATION FairSpec
INVARIANTS
    SeedingTypeOK
    OneOutboxRow
    AnswersAreDurable
    AcceptedOnce
    MetricsOfOneSeed
PROPERTIES
    RequestsAnswered
CHECK_DEADLOCK FALSE
