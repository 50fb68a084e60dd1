CONSTANTS
    ann = ann
    Customers <- MCCustomers
    CustomerOf <- MCCustomerOf
    Events = {e1}
    Foreign = {demo}
    Unstorable = {}
    Demo = {demo}
    DemoLength = 1
    ScanFactor = 10
    Workers = {w1, w2}
    OutboxBatch = 1
    WorkerBatch = 1
    MaxRetries = 1
    MaxRows = 1
    MaxMessages = 5
    MaxFaults = 1
    MaxOld = 1
SPECIFICATION FairSpec
INVARIANTS
    BoundedRepublication
PROPERTIES
    EventuallySettled RetentionEnforced AckAfterSettled
