SPECIFICATION Spec
CONSTANTS
    DepositUtxos = {d1, d2}
    DepositSize = 3
    DepositAmount <- MCDepositAmount
    Donations = {}
    Txns = {t1, t2}
    MaxChange = 1
    MaxSats = 4
    Reqs = {r1, r2}
    ReqSize = 2
    ReqAmount <- MCReqAmount
    WithdrawalMinimums = {2}
    Dust = 1
    MaxEpoch = 1
    NONE = none
    SIGNED = signed
SYMMETRY Symmetry
INVARIANTS TypeOK NoDoubleSpend LocksAgree RequestsPaidOnce PegExact ChangeProvenance ArchiveOrder NonceUnique PendingSlotsCurrent
PROPERTIES Settled
