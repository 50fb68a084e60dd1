CONSTANTS
    ann = ann
    Customers <- MCCustomers
    CustomerOf <- MCCustomerOf
    Events = {e1}
    Foreign = {stray}
    Unstorable = {stray}
    Demo = {}
    DemoLength = 1
    ScanFactor = 10
    Workers = {w1}
    OutboxBatch = 1
    WorkerBatch = 2
    MaxRetries = 0
    MaxRows = 1
    MaxMessages = 4
    MaxFaults = 0
    MaxOld = 0
SPECIFICATION FairSpec
PROPERTIES
    DeliveredEventsSettle
