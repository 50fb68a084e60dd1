CONSTANTS
    ann = ann
    Customers <- MCCustomers
    CustomerOf <- MCCustomerOf
    Events = {e1}
    Foreign = {demo}
    Unstorable = {}
    Demo = {demo}
    DemoLength = 1
    ScanFactor = 1
    Workers = {w1, w2}
    OutboxBatch = 1
    WorkerBatch = 2
    MaxRetries = 0
    MaxRows = 1
    MaxMessages = 6
    MaxFaults = 0
    MaxOld = 0
SPECIFICATION FairSpec
PROPERTIES
    StreamDrains
