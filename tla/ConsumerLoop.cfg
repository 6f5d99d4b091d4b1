CONSTANTS
    ma = ma
    anomaly = anomaly
    e1 = e1
    e2 = e2
    Consumers <- MCConsumers
    Ids <- MCIds
    MaxLog = 2
    MaxRetries = 2
    MaxKinds = 2
    Budget <- AllFaults
SPECIFICATION Spec
SYMMETRY Symmetry
INVARIANTS TypeOK AtMostOnce Accounted EveryKeyGetsItsTtl
PROPERTIES OffsetsAreSafe ImplementsContract
