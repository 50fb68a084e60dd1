CONSTANTS
    ann = ann
    Customers <- MCCustomers
    CustomerOf <- MCCustomerOf
    Events = {e1, e2}
    Foreign = {}
    Unstorable = {}
    Demo = {}
    DemoLength = 1
    ScanFactor = 10
    Workers = {w1, w2, w3}
    OutboxBatch = 1
    WorkerBatch = 2
    MaxRetries = 0
    MaxRows = 2
    MaxMessages = 8
    MaxFaults = 0
    MaxOld = 2
SPECIFICATION Spec
SYMMETRY MCSymmetry
INVARIANTS
    NoReconcileDeadlock
