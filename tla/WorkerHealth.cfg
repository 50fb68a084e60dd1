CONSTANTS
    w1 = w1
    w2 = w2
    a = a
    b = b
    Workers = {w1, w2}
    Embeddings = {{}, {w1}}
    Names = {a, b}
    Namings <- MCNamings
    Interval = 1
    Timeout = 1
    TTL = 4
    MaxFaults = 2
SPECIFICATION FairSpec
INVARIANTS
    TypeOK
    ReadyMeansAlive
    VisibleUnlessMissed
PROPERTIES
    RunningIsReady
