SPECIFICATION FairSpec
CONSTANTS
    Validators = {v1, v2}
    Delegates = {}
    Zero = zero
    TlsKeys = {}
    MpcKeys = {k1, k2}
    MaxEpoch = 3
    NONE = none
INVARIANTS HandoffChain HandoffGenuine ServingMembersRegistered
PROPERTIES CommitteesSettled SomeMemberStays ImplementsEpochs PendingResolves
