SPECIFICATION Spec
CONSTANTS
    a = a
    b = b
    Nodes = {a, b}
    Weight <- MCWeight
    Power <- MCPower
    Floor = 2
    Threshold = 2
    Certifies = 2
    Window = 1
    Divisor = 2
    MaxBatch = 1
    MaxIndex = 2
    MaxTime = 3
    MaxFaults = 1
    NONE = none
CHECK_DEADLOCK FALSE
INVARIANTS NonceBinding BatchesAgree
