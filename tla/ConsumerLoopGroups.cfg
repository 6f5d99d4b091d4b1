\* Are the two groups independent?  Without any fault.
CONSTANTS
    ma = ma
    anomaly = anomaly
    e1 = e1
    e2 = e2
    Consumers <- MCConsumers
    Ids <- MCIds
    MaxLog = 2
    MaxRetries = 2
    MaxKinds = 0
    Budget <- NoFaults
SPECIFICATION Spec
INVARIANT EveryGroupHandlesEveryEvent
