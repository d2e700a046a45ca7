SPECIFICATION FairSpec
CONSTANTS
    DepositUtxos = {d1}
    DepositSize = 4
    DepositAmount <- MCDepositAmount
    Donations = {}
    Txns = {t1, t2}
    MaxChange = 1
    MaxSats = 2
    Reqs = {r1, r2}
    ReqSize = 2
    ReqAmount <- MCReqAmount
    WithdrawalMinimums = {2}
    Dust = 1
    MaxEpoch = 1
    NONE = none
    SIGNED = signed
PROPERTIES CommittedIsArchived
