------------------------------- MODULE Deposit -------------------------------
(***************************************************************************)
(* Deposits on chain: btc/deposit.move and btc/deposit_queue.move.         *)
(*                                                                         *)
(* Anybody may name any outpoint in a request, the same one in several and *)
(* the bridge's own change outputs included.  The committee signs an       *)
(* approval only for an outpoint it sees on Bitcoin with that amount and   *)
(* recipient (crates/hashi/src/deposits.rs), here: one in onBitcoin.  A    *)
(* request about an output that is not there is in no way approvable and   *)
(* stands for every untruthful one.                                        *)
(*                                                                         *)
(* Time is two sets: the requests whose delay since their latest approval  *)
(* has passed, and the requests older than MAX_DEPOSIT_REQUEST_AGE_MS.     *)
(***************************************************************************)
EXTENDS Hashi

CONSTANTS
    DReqs,          \* ids of DepositRequest objects
    Claimable       \* the outpoints that requests name

ASSUME DepositAssumption == Claimable \subseteq Utxos /\ IsFiniteSet(DReqs)

VARIABLES
    dRequests,      \* keys of DepositRequestQueue.requests
    dProcessed,     \* keys of .processed
    dDeleted,       \* ids of the requests deleted after expiring
    dUtxo,          \* DepositRequest.utxo
    dApproval,      \* the epoch of DepositRequest.approval_cert
    dDelayed,       \* requests whose approval is older than the time delay
    dExpired,       \* requests older than the maximum age
    dIndexed,       \* requests in their recipient's user_requests bag
    onBitcoin       \* external: outpoints that exist on Bitcoin

depositVars == <<dRequests, dProcessed, dDeleted, dUtxo, dApproval, dDelayed,
                 dExpired, dIndexed, onBitcoin>>

DepositTypeOK ==
    /\ dRequests \in SUBSET DReqs
    /\ dProcessed \in SUBSET DReqs
    /\ dDeleted \in SUBSET DReqs
    /\ dUtxo \in [DReqs -> Utxos \cup {NONE}]
    /\ dApproval \in [DReqs -> Epoch \cup {NONE}]
    /\ dDelayed \in SUBSET DReqs
    /\ dExpired \in SUBSET DReqs
    /\ dIndexed \in SUBSET DReqs
    /\ onBitcoin \in SUBSET Utxos

\* deposit_queue::create
DepositInit ==
    /\ dRequests = {} /\ dProcessed = {} /\ dDeleted = {}
    /\ dUtxo = [d \in DReqs |-> NONE]
    /\ dApproval = [d \in DReqs |-> NONE]
    /\ dDelayed = {} /\ dExpired = {} /\ dIndexed = {}
    /\ onBitcoin = {}

-----------------------------------------------------------------------------

\* deposit::deposit
RequestDeposit(d, u) ==
    /\ ~paused
    /\ d \notin dRequests \cup dProcessed \cup dDeleted
    /\ ~IsSpentOrActive(u)
    /\ dRequests' = dRequests \cup {d}
    /\ dUtxo' = [dUtxo EXCEPT ![d] = u]
    /\ UNCHANGED <<dProcessed, dDeleted, dApproval, dDelayed, dExpired, dIndexed,
                   onBitcoin, hashiVars>>

\* deposit::approve_deposit: once per epoch; a later epoch's approval restarts
\* the delay.
ApproveDeposit(d) ==
    /\ Operational
    /\ d \in dRequests
    /\ ~IsSpentOrActive(dUtxo[d])
    /\ dApproval[d] # epoch
    /\ dUtxo[d] \in onBitcoin
    /\ dApproval' = [dApproval EXCEPT ![d] = epoch]
    /\ dDelayed' = dDelayed \ {d}
    /\ UNCHANGED <<dRequests, dProcessed, dDeleted, dUtxo, dExpired, dIndexed,
                   onBitcoin, hashiVars>>

\* deposit::confirm_deposit: the stored certificate must verify under the
\* committee of the current epoch.
ConfirmDeposit(d) ==
    /\ Operational
    /\ d \in dRequests
    /\ CertifiedBy(dApproval[d])
    /\ d \in dDelayed
    /\ CreditDeposit(dUtxo[d])
    /\ dRequests' = dRequests \ {d}
    /\ dProcessed' = dProcessed \cup {d}
    /\ dIndexed' = IF dUtxo[d] \in DepositUtxos \ Donations
                   THEN dIndexed \cup {d} ELSE dIndexed
    /\ UNCHANGED <<dDeleted, dUtxo, dApproval, dDelayed, dExpired, onBitcoin,
                   epochVars, paused, numConsumed>>

\* deposit::delete_expired_deposit, permissionless.
DeleteExpiredDeposit(d) ==
    /\ d \notin dProcessed
    /\ d \in dRequests
    /\ d \in dExpired
    /\ dRequests' = dRequests \ {d}
    /\ dDeleted' = dDeleted \cup {d}
    /\ dUtxo' = [dUtxo EXCEPT ![d] = NONE]
    /\ dApproval' = [dApproval EXCEPT ![d] = NONE]
    /\ dDelayed' = dDelayed \ {d}
    /\ dExpired' = dExpired \ {d}
    /\ UNCHANGED <<dProcessed, dIndexed, onBitcoin, hashiVars>>

-----------------------------------------------------------------------------
(* Time and Bitcoin.                                                       *)

\* Sui's clock reaches the latest approval of d plus the time delay.
DelayElapses(d) ==
    /\ d \in dRequests \ dDelayed
    /\ dApproval[d] # NONE
    /\ dDelayed' = dDelayed \cup {d}
    /\ UNCHANGED <<dRequests, dProcessed, dDeleted, dUtxo, dApproval, dExpired,
                   dIndexed, onBitcoin, hashiVars>>

\* Sui's clock passes d's creation plus MAX_DEPOSIT_REQUEST_AGE_MS.
RequestExpires(d) ==
    /\ d \in dRequests \ dExpired
    /\ dExpired' = dExpired \cup {d}
    /\ UNCHANGED <<dRequests, dProcessed, dDeleted, dUtxo, dApproval, dDelayed,
                   dIndexed, onBitcoin, hashiVars>>

\* A depositor's payment reaches the confirmation threshold on Bitcoin.
PayDeposit(u) ==
    /\ u \in DepositUtxos \ onBitcoin
    /\ onBitcoin' = onBitcoin \cup {u}
    /\ UNCHANGED <<dRequests, dProcessed, dDeleted, dUtxo, dApproval, dDelayed,
                   dExpired, dIndexed, hashiVars>>

DepositStep ==
    \/ \E d \in DReqs :
          \/ \E u \in Claimable : RequestDeposit(d, u)
          \/ ApproveDeposit(d)
          \/ ConfirmDeposit(d)
          \/ DeleteExpiredDeposit(d)
          \/ DelayElapses(d)
          \/ RequestExpires(d)
    \/ \E u \in DepositUtxos : PayDeposit(u)
=============================================================================
