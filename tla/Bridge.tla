------------------------------- MODULE Bridge -------------------------------
(***************************************************************************)
(* The bridge as a whole: deposits and withdrawals over one UTXO pool, one *)
(* supply and one epoch machine, and a Bitcoin on which both the           *)
(* depositors' payments and the bridge's own change outputs appear.        *)
(***************************************************************************)
EXTENDS Withdraw, Deposit

bridgeVars == <<vars, depositVars>>

BridgeInit == Init /\ DepositInit

\* A mined transaction's change outputs exist on Bitcoin from then on, where
\* a deposit request may name them.
MineOnBitcoin(t) ==
    /\ Mine(t)
    /\ onBitcoin' = onBitcoin \cup txnChange[t]
    /\ UNCHANGED <<dRequests, dProcessed, dDeleted, dUtxo, dApproval, dDelayed,
                   dExpired, dIndexed>>

BridgeNext ==
    \/ DepositStep /\ UNCHANGED withdrawVars
    \/ WithdrawStep /\ UNCHANGED depositVars
    \/ \E t \in Txns : MineOnBitcoin(t)
    \/ (EpochStep \/ SetPaused) /\ UNCHANGED <<withdrawVars, depositVars>>

BridgeSpec == BridgeInit /\ [][BridgeNext]_bridgeVars

-----------------------------------------------------------------------------
(* Properties.                                                             *)

\* Every variable keeps its type.
BridgeTypeOK == TypeOK /\ DepositTypeOK

\* An outpoint is credited by at most one deposit, however many requests name
\* it and whenever they were approved; a change output of the bridge is never
\* credited as a deposit, although the committee sees it on Bitcoin; and no
\* request is both live and filed, or indexed before its mint.
CreditedOnce ==
    /\ \A d, e \in dProcessed : dUtxo[d] = dUtxo[e] => d = e
    /\ \A d \in dProcessed : dUtxo[d] \in DepositUtxos \cap onBitcoin
    /\ dRequests \cap dProcessed = {}
    /\ dIndexed = {d \in dProcessed : dUtxo[d] \notin Donations}

\* The outputs that exist on Bitcoin and no mined transaction has spent, among
\* those the pool records.
Unspent ==
    {u \in records \cap onBitcoin : spentBy[u] \notin mined}

\* The requests of transactions that are committed and not mined.
Unpaid == UNION {txnRequests[t] : t \in AllTxns \ mined}

\* The bridge is solvent on Bitcoin itself and not only in its books: what its
\* keys control there is the hBTC supply, the donations, and what committed
\* but not yet mined withdrawals owe to their requesters and to miners.
BitcoinSolvent ==
    TotalAmount(Unspent)
        = supply
          + Total(DepositAmount, Donations \cap (records \cup spentUtxos))
          + Total(ReqAmount, Unpaid)

\* The bridge implements Withdraw.tla's specification: every deposit step is
\* one of the environment steps withdrawals were checked against, so what is
\* proved of Withdraw holds of the bridge.
ImplementsWithdraw == Spec
=============================================================================
