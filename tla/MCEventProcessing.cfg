CONSTANTS
    purchase = purchase
    unsubscribe = unsubscribe
    click = click
    stray = stray
    ann = ann
    bob = bob
    Events <- MCEvents
    Foreign <- MCForeign
    Customers <- MCCustomers
    CustomerOf <- MCCustomerOf
    KindOf <- MCKindOf
    ChannelOf <- MCChannelOf
    TimeOf <- MCTimeOf
    WeightOf <- MCWeightOf
    Horizon = 1
    Decay <- MCDecay
    Channels <- MCChannels
    Sessions = {s1, s2}
    MaxDeadLetters = 2
SPECIFICATION Spec
SYMMETRY SessionSymmetry
INVARIANTS
    TypeOK
    ExactlyOnce
    ScoreMatchesLedger
    ProfileMatchesHistory
    OneOpenDeadLetter
    NoLockCycle
PROPERTIES
    RefinesLifecycle
