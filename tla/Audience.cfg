CONSTANTS
    Customers = {1, 2, 3}
    Channels = {"email", "web"}
    Rows <- MCRows
    Bodies <- MCBodies
    Day = 1
    Floor = 0
    Ceiling = 4
    Decay <- MCDecay
    MaxTime = 2
SPECIFICATION Spec
INVARIANTS
    TypeOK
    HeapIsTop
    BestFirst
    OnlyTheWilling
