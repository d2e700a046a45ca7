SPECIFICATION Spec
CONSTANTS
    Voters = {a, b}
    Weights <- EqualWeights
    Pids = {p1, p2}
    Payloads <- AllPayloads
    NewKeys = {"window"}
    MaxVersion = 3
    MaxFaultyBps = 3
    DefaultDelta = 1
    DefaultFaulty = 3
    NONE = none
SYMMETRY Symmetry
INVARIANTS SomeVersionLive MpcConfigConsistent
PROPERTIES ConfigTypesStable ExecutedByQuorum
