CONSTANTS
    ann = ann
    Customers <- MCCustomers
    CustomerOf <- MCCustomerOf
    Events = {e1, e2}
    Foreign = {poison}
    Unstorable = {poison}
    Demo = {}
    DemoLength = 1
    ScanFactor = 10
    Workers = {w1, w2}
    OutboxBatch = 1
    WorkerBatch = 2
    MaxRetries = 0
    MaxRows = 2
    MaxMessages = 8
    MaxFaults = 0
    MaxOld = 0
SPECIFICATION Spec
SYMMETRY MCSymmetry
INVARIANTS
    TypeOK NoDuplicatePublication
PROPERTIES
    AckAfterSettled
