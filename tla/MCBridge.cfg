SPECIFICATION BridgeSpec
CONSTANTS
    DepositUtxos = {d1, d2}
    DepositSize = 3
    DepositAmount <- MCDepositAmount
    Donations = {d2}
    Txns = {t1}
    MaxChange = 1
    MaxSats = 4
    Reqs = {r1}
    ReqSize = 2
    ReqAmount <- MCReqAmount
    WithdrawalMinimums = {2}
    Dust = 1
    MaxEpoch = 2
    NONE = none
    SIGNED = signed
    DReqs = {q1, q2}
    Claimable <- Utxos
SYMMETRY Symmetry
INVARIANTS CreditedOnce BitcoinSolvent
PROPERTIES ImplementsWithdraw
