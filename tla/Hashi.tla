-------------------------------- MODULE Hashi --------------------------------
(***************************************************************************)
(* The part of the shared Hashi object that deposits and withdrawals both  *)
(* touch: the epoch machine, the pause flag, the hBTC supply (treasury),   *)
(* the presignature allocator and the UTXO pool (btc/utxo_pool.move).      *)
(*                                                                         *)
(* A Bag is the set of its keys plus one function per field of its values, *)
(* total, with NONE where a field is Move's option::none() or the key is   *)
(* absent.  An outpoint (txid, vout) is either one paid by a depositor or  *)
(* the j-th change output of a withdrawal transaction: a change txid is    *)
(* the hash of that very transaction, so it is named by the transaction.   *)
(***************************************************************************)
EXTENDS Epochs, Integers, FiniteSets, Totals

CONSTANTS
    DepositUtxos,     \* outpoints that depositors pay on Bitcoin
    DepositAmount,    \* [DepositUtxos -> Nat], the satoshis they carry
    Donations,        \* those without a derivation path, which mint nothing
    Txns,             \* ids of WithdrawalTransaction objects
    MaxChange,        \* bound: change outputs of one transaction
    MaxSats           \* bound: satoshis in one change output

ChangeUtxos == Txns \X (1 .. MaxChange)

Utxos == DepositUtxos \cup ChangeUtxos

ASSUME HashiAssumption ==
    /\ DepositAmount \in [DepositUtxos -> Nat]
    /\ Donations \subseteq DepositUtxos
    /\ DepositUtxos \cap ChangeUtxos = {}
    /\ NONE \notin Txns
    /\ MaxChange \in Nat /\ MaxSats \in Nat
    /\ IsFiniteSet(DepositUtxos) /\ IsFiniteSet(Txns)

VARIABLES
    paused,        \* the paused config flag
    supply,        \* total hBTC supply of the treasury
    numConsumed,   \* PresigAllocator.num_consumed
    records,       \* keys of UtxoPool.utxo_records
    amount,        \* UtxoRecord.utxo.amount
    producedBy,    \* UtxoRecord.produced_by
    spentBy,       \* UtxoRecord.spent_by
    spentEpoch,    \* UtxoRecord.spent_epoch
    spentUtxos     \* keys of UtxoPool.spent_utxos

poolVars == <<records, amount, producedBy, spentBy, spentEpoch, spentUtxos>>
hashiVars == <<epochVars, paused, supply, numConsumed, poolVars>>

PoolTypeOK ==
    /\ records \in SUBSET Utxos
    /\ amount \in [Utxos -> Nat]
    /\ producedBy \in [Utxos -> Txns \cup {NONE}]
    /\ spentBy \in [Utxos -> Txns \cup {NONE}]
    /\ spentEpoch \in [Utxos -> Epoch \cup {NONE}]
    /\ spentUtxos \in SUBSET Utxos

HashiTypeOK ==
    /\ EpochTypeOK
    /\ paused \in BOOLEAN
    /\ numConsumed \in Nat
    /\ PoolTypeOK

\* hashi::init
HashiInit ==
    /\ EpochInit
    /\ paused = FALSE
    /\ supply = 0
    /\ numConsumed = 0
    /\ records = {}
    /\ amount = [u \in Utxos |-> 0]
    /\ producedBy = [u \in Utxos |-> NONE]
    /\ spentBy = [u \in Utxos |-> NONE]
    /\ spentEpoch = [u \in Utxos |-> NONE]
    /\ spentUtxos = {}

-----------------------------------------------------------------------------
(* Guards every entry point composes.                                      *)

\* hashi::assert_unpaused, then hashi::assert_not_reconfiguring
Operational == ~paused /\ NotReconfiguring

\* hashi::verify: a certificate counts only if the current committee, which
\* must exist, signed it in the current epoch.
CertifiedBy(certEpoch) == HasCommittee(epoch) /\ certEpoch = epoch

\* Mutant: outpoints already spent and cleaned up are not looked up.
IsActive(u) == u \in records

\* utxo_pool::is_spent_or_active
IsSpentOrActive(u) == u \in records \/ u \in spentUtxos

\* What the records in S add up to.
TotalAmount(S) == Total(amount, S)

-----------------------------------------------------------------------------
(* Operations on the pool.                                                 *)

\* The satoshis a truthful deposit request names for outpoint u.
SatsOf(u) == IF u \in DepositUtxos THEN DepositAmount[u] ELSE amount[u]

\* Mutant: a deposit without a derivation path mints as well.
MintedForAny(u) == IF u \in DepositUtxos THEN DepositAmount[u] ELSE 0

\* What crediting u mints: nothing without a derivation path.
MintedFor(u) == IF u \in DepositUtxos \ Donations THEN DepositAmount[u] ELSE 0

\* utxo_pool::insert_active, with the mint of deposit::confirm_deposit.
CreditDeposit(u) ==
    /\ ~IsSpentOrActive(u)
    /\ records' = records \cup {u}
    /\ amount' = [amount EXCEPT ![u] = SatsOf(u)]
    /\ producedBy' = [producedBy EXCEPT ![u] = NONE]
    /\ spentBy' = [spentBy EXCEPT ![u] = NONE]
    /\ spentEpoch' = [spentEpoch EXCEPT ![u] = NONE]
    /\ supply' = supply + MintedFor(u)
    /\ UNCHANGED spentUtxos

\* Mutant: the change outputs are not recorded until they confirm.
LockOnly(t, inputs, change) ==
    /\ inputs \subseteq records
    /\ \A u \in inputs : spentBy[u] = NONE
    /\ spentBy' = [u \in Utxos |-> IF u \in inputs THEN t ELSE spentBy[u]]
    /\ UNCHANGED <<records, amount, producedBy, spentEpoch, spentUtxos>>

\* Mutant: an output locked by another transaction may be locked again.
RelockAndInsertPending(t, inputs, change) ==
    /\ inputs \subseteq records
    /\ \A u \in DOMAIN change : ~IsSpentOrActive(u)
    /\ records' = records \cup DOMAIN change
    /\ amount' = [u \in Utxos |->
                    IF u \in DOMAIN change THEN change[u] ELSE amount[u]]
    /\ producedBy' = [u \in Utxos |->
                        IF u \in DOMAIN change THEN t ELSE producedBy[u]]
    /\ spentBy' = [u \in Utxos |-> IF u \in inputs THEN t ELSE spentBy[u]]
    /\ UNCHANGED <<spentEpoch, spentUtxos>>

\* utxo_pool::lock for every input, then insert_pending for every change
\* output, as commit_withdrawal_tx calls them.
LockAndInsertPending(t, inputs, change) ==
    /\ inputs \subseteq records
    /\ \A u \in inputs : spentBy[u] = NONE
    /\ \A u \in DOMAIN change : ~IsSpentOrActive(u)
    /\ records' = records \cup DOMAIN change
    /\ amount' = [u \in Utxos |->
                    IF u \in DOMAIN change THEN change[u] ELSE amount[u]]
    /\ producedBy' = [u \in Utxos |->
                        IF u \in DOMAIN change THEN t ELSE producedBy[u]]
    /\ spentBy' = [u \in Utxos |->
                     IF u \in inputs THEN t
                     ELSE IF u \in DOMAIN change THEN NONE ELSE spentBy[u]]
    /\ spentEpoch' = [u \in Utxos |->
                        IF u \in DOMAIN change THEN NONE ELSE spentEpoch[u]]
    /\ UNCHANGED spentUtxos

\* Mutant: change that was locked in the meantime is not confirmed.
MarkSpentAndConfirmUnlocked(inputs, change) ==
    /\ inputs \subseteq records
    /\ spentEpoch' = [u \in Utxos |->
                        IF u \in inputs THEN epoch ELSE spentEpoch[u]]
    /\ producedBy' = [u \in Utxos |->
           IF u \in change \cap records /\ spentBy[u] = NONE
           THEN NONE ELSE producedBy[u]]
    /\ UNCHANGED <<records, amount, spentBy, spentUtxos>>

\* utxo_pool::mark_spent for every input and confirm_pending for every change
\* output still recorded.
MarkSpentAndConfirm(inputs, change) ==
    /\ inputs \subseteq records
    /\ spentEpoch' = [u \in Utxos |->
                        IF u \in inputs THEN epoch ELSE spentEpoch[u]]
    /\ producedBy' = [u \in Utxos |->
                        IF u \in change \cap records THEN NONE ELSE producedBy[u]]
    /\ UNCHANGED <<records, amount, spentBy, spentUtxos>>

\* Mutant: the cleanup drops the record without filing the output as spent.
CleanupForgets(u) ==
    /\ u \in records
    /\ spentEpoch[u] # NONE
    /\ records' = records \ {u}
    /\ amount' = [amount EXCEPT ![u] = 0]
    /\ producedBy' = [producedBy EXCEPT ![u] = NONE]
    /\ spentBy' = [spentBy EXCEPT ![u] = NONE]
    /\ spentEpoch' = [spentEpoch EXCEPT ![u] = NONE]
    /\ UNCHANGED spentUtxos

\* withdraw::cleanup_spent_utxos, permissionless.
CleanupSpent(u) ==
    /\ u \in records
    /\ spentEpoch[u] # NONE
    /\ records' = records \ {u}
    /\ spentUtxos' = spentUtxos \cup {u}
    /\ amount' = [amount EXCEPT ![u] = 0]
    /\ producedBy' = [producedBy EXCEPT ![u] = NONE]
    /\ spentBy' = [spentBy EXCEPT ![u] = NONE]
    /\ spentEpoch' = [spentEpoch EXCEPT ![u] = NONE]

-----------------------------------------------------------------------------
(* Steps of the rest of the system.                                        *)

\* An emergency_pause proposal, or the one that lifts it, executes.
SetPaused ==
    /\ paused' = ~paused
    /\ UNCHANGED <<epochVars, supply, numConsumed, poolVars>>

\* The epoch machine; end_reconfig also resets the presignature allocator.
EpochStep ==
    /\ \/ (AdvanceSui \/ StartReconfig \/ AbortReconfig) /\ UNCHANGED numConsumed
       \/ EndReconfig /\ numConsumed' = 0
    /\ UNCHANGED <<paused, supply, poolVars>>
=============================================================================
