SPECIFICATION Spec
CONSTANTS
    Validators = {v1, v2}
    Delegates = {zero, v1}
    Zero = zero
    TlsKeys = {t1, t2}
    MpcKeys = {k1}
    MaxEpoch = 1
    NONE = none
INVARIANT TlsIndexLockstep
