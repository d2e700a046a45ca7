---------------------------- MODULE Bridge_proofs ----------------------------
(***************************************************************************)
(* The safety of withdrawals for every set of deposits, requests and       *)
(* transactions, every amount and any number of epochs; and of deposits    *)
(* and withdrawals together: the bridge implements Withdraw.tla, so what   *)
(* is proved of withdrawals holds of it, no outpoint is credited twice and *)
(* Bitcoin holds what the bridge owes.                                     *)
(***************************************************************************)
EXTENDS Bridge, Totals_proofs


\* Every set of outpoints is finite, so that its size is a number.
LEMMA UtxosFinite == IsFiniteSet(Utxos)
<1>1. IsFiniteSet(1 .. MaxChange)
  BY FS_Interval, HashiAssumption
<1>2. IsFiniteSet(Txns \X (1 .. MaxChange))
  BY <1>1, FS_Product, HashiAssumption
<1> QED
  BY <1>2, FS_Union, HashiAssumption DEF Utxos, ChangeUtxos

\* A set of outpoints has a size that is a natural number.
LEMMA UtxoCount ==
  ASSUME NEW S \in SUBSET Utxos
  PROVE  Cardinality(S) \in Nat
BY UtxosFinite, FS_Subset, FS_CardinalityType

\* mpc_signing::allocate: the presignatures handed out together are distinct,
\* and all of them lie in the block that the allocator moves past.
LEMMA AllocationsFacts ==
  ASSUME NEW S \in SUBSET Utxos, NEW f \in Allocations(S), numConsumed \in Nat
  PROVE  /\ Cardinality(S) \in Nat
         /\ DOMAIN f = S
         /\ f \in [S -> Nat]
         /\ \A u \in S : numConsumed <= f[u] /\ f[u] < numConsumed + Cardinality(S)
         /\ \A u, w \in S : f[u] = f[w] => u = w
<1>1. Cardinality(S) \in Nat
  BY UtxoCount
<1> QED
  BY <1>1 DEF Allocations

\* The change outputs of a transaction: outpoints it owns, with an amount each.
LEMMA ChangeFacts ==
  ASSUME NEW t \in Txns, NEW change \in ChangeOutputs(t)
  PROVE  /\ DOMAIN change \subseteq {t} \X (1 .. MaxChange)
         /\ DOMAIN change \subseteq ChangeUtxos
         /\ DOMAIN change \subseteq Utxos
         /\ \A u \in DOMAIN change : change[u] \in Nat
<1>1. PICK k \in 0 .. MaxChange : change \in [{t} \X (1 .. k) -> 0 .. MaxSats]
  BY DEF ChangeOutputs
<1>2. DOMAIN change = {t} \X (1 .. k)
  BY <1>1
<1>3. 1 .. k \subseteq 1 .. MaxChange
  BY HashiAssumption
<1>4. DOMAIN change \subseteq {t} \X (1 .. MaxChange)
  BY <1>2, <1>3
<1>5. DOMAIN change \subseteq ChangeUtxos
  BY <1>4 DEF ChangeUtxos
<1>6. \A u \in DOMAIN change : change[u] \in Nat
  BY <1>1, HashiAssumption
<1> QED
  BY <1>4, <1>5, <1>6 DEF Utxos

-----------------------------------------------------------------------------
(* Types.                                                                  *)

\* The published bridge, with no requests and an empty pool, has the types.
LEMMA InitTypeOK == Init => TypeOK
<1> SUFFICES ASSUME Init PROVE TypeOK
  OBVIOUS
<1>1. EpochTypeOK
  BY MaxEpochAssumption DEF Init, HashiInit, EpochInit, EpochTypeOK, Epoch
<1>2. PoolTypeOK
  BY DEF Init, HashiInit, PoolTypeOK
<1>3. WithdrawTypeOK
  BY DEF Init, WithdrawInit, WithdrawTypeOK, Slot
<1> QED
  BY <1>1, <1>2, <1>3 DEF Init, HashiInit, TypeOK, HashiTypeOK

\* Requesting, approving, cancelling and the cooldown keep the types.
LEMMA RequestStepTypeOK ==
  ASSUME TypeOK, NEW r \in Reqs, RequestStep(r)
  PROVE  TypeOK'
<1> USE DEF TypeOK, HashiTypeOK, PoolTypeOK, EpochTypeOK, WithdrawTypeOK,
            hashiVars, epochVars, poolVars, signingVars, txnVars
<1>1. CASE RequestWithdrawal(r)
  BY <1>1, WithdrawAssumption DEF RequestWithdrawal
<1>2. CASE CooldownElapses(r)
  BY <1>2 DEF CooldownElapses
<1>3. CASE CancelWithdrawal(r)
  BY <1>3 DEF CancelWithdrawal
<1>4. CASE ApproveRequest(r)
  BY <1>4 DEF ApproveRequest
<1> QED
  BY <1>1, <1>2, <1>3, <1>4 DEF RequestStep

\* commit_withdrawal_tx, which touches the pool, the allocator and the queue,
\* keeps the types.
LEMMA CommitTypeOK ==
  ASSUME TypeOK, NEW t \in Txns, NEW rs \in SUBSET requests,
         NEW inputs \in SUBSET records, NEW fee \in Fees,
         NEW change \in ChangeOutputs(t),
         CommitWithdrawalTx(t, rs, inputs, change, fee)
  PROVE  TypeOK'
<1> USE DEF TypeOK, HashiTypeOK, PoolTypeOK, EpochTypeOK, WithdrawTypeOK,
            hashiVars, epochVars, poolVars
<1>1. /\ DOMAIN change \subseteq Utxos
      /\ \A u \in DOMAIN change : change[u] \in Nat
  BY ChangeFacts
<1>2. inputs \in SUBSET Utxos
  OBVIOUS
<1>3. PICK f \in Allocations(inputs) :
          /\ slots' = [slots EXCEPT ![t] =
                          [u \in Utxos |-> IF u \in inputs THEN f[u] ELSE NONE]]
          /\ issued' = issued \cup Issues(t, f)
  BY DEF CommitWithdrawalTx
<1>4. /\ Cardinality(inputs) \in Nat
      /\ DOMAIN f = inputs
      /\ \A u \in inputs : f[u] \in Nat
  BY <1>2, AllocationsFacts
<1>5. /\ slots' \in [Txns -> [Utxos -> Slot]]
      /\ issued' \in SUBSET Issue
  BY <1>2, <1>3, <1>4 DEF Slot, Issues, Issue
<1>6. PoolTypeOK'
  BY <1>1, <1>2 DEF CommitWithdrawalTx, LockAndInsertPending
<1>7. /\ numConsumed' \in Nat
      /\ paused' \in BOOLEAN
      /\ EpochTypeOK'
  BY <1>4 DEF CommitWithdrawalTx
<1> QED
  BY <1>1, <1>2, <1>5, <1>6, <1>7 DEF CommitWithdrawalTx

\* Every other operation on a transaction, from commit to archival, keeps the types.
LEMMA TxnStepTypeOK ==
  ASSUME TypeOK, NEW t \in Txns, TxnStep(t)
  PROVE  TypeOK'
<1> USE DEF TypeOK, HashiTypeOK, PoolTypeOK, EpochTypeOK, WithdrawTypeOK,
            hashiVars, epochVars, poolVars, signingVars, txnVars, requestVars
<1>1. ASSUME NEW rs \in SUBSET requests, NEW inputs \in SUBSET records,
             NEW fee \in Fees, NEW change \in ChangeOutputs(t),
             CommitWithdrawalTx(t, rs, inputs, change, fee)
      PROVE  TypeOK'
  BY <1>1, CommitTypeOK
<1>2. ASSUME NEW indices \in SUBSET txnInputs[t], CommitInputSignatures(t, indices)
      PROVE  TypeOK'
  BY <1>2 DEF CommitInputSignatures, Slot
<1>3. CASE FinalizeWithdrawal(t)
  BY <1>3 DEF FinalizeWithdrawal
<1>4. CASE ReallocatePresigs(t)
  <2>1. PendingSlots(t) \in SUBSET Utxos
    BY DEF PendingSlots
  <2>2. PICK f \in Allocations(PendingSlots(t)) :
          /\ slots' = [slots EXCEPT ![t] =
                 [u \in Utxos |-> IF u \in DOMAIN f THEN f[u] ELSE slots[t][u]]]
          /\ issued' = issued \cup Issues(t, f)
    BY <1>4 DEF ReallocatePresigs
  <2>3. /\ Cardinality(PendingSlots(t)) \in Nat
        /\ DOMAIN f \subseteq Utxos
        /\ \A u \in DOMAIN f : f[u] \in Nat
    BY <2>1, AllocationsFacts
  <2>4. /\ slots' \in [Txns -> [Utxos -> Slot]]
        /\ issued' \in SUBSET Issue
    BY <2>2, <2>3 DEF Slot, Issues, Issue
  <2> QED
    BY <1>4, <2>3, <2>4 DEF ReallocatePresigs
<1>5. CASE ConfirmWithdrawal(t)
  BY <1>5 DEF ConfirmWithdrawal, MarkSpentAndConfirm
<1>6. CASE ArchiveConfirmedWithdrawal(t)
  BY <1>6 DEF ArchiveConfirmedWithdrawal, ArchiveRequests, MoveToConfirmed
<1>7. ASSUME NEW rs \in SUBSET Reqs, ArchiveWithdrawalRequests(t, rs)
      PROVE  TypeOK'
  BY <1>7 DEF ArchiveWithdrawalRequests, ArchiveRequests
<1>8. CASE FinishArchiveWithdrawalTxn(t)
  BY <1>8 DEF FinishArchiveWithdrawalTxn, MoveToConfirmed
<1> QED
  BY <1>1, <1>2, <1>3, <1>4, <1>5, <1>6, <1>7, <1>8 DEF TxnStep

\* The epoch machine keeps its types.
LEMMA EpochStepTypeOK ==
  ASSUME EpochTypeOK, EpochNext
  PROVE  EpochTypeOK'
<1>1. CASE AdvanceSui
  BY <1>1, MaxEpochAssumption DEF AdvanceSui, EpochTypeOK, Epoch
<1>2. CASE StartReconfig
  BY <1>2 DEF StartReconfig, EpochTypeOK
<1>3. CASE EndReconfig
  <2>1. pending \in Epoch
    BY <1>3 DEF EndReconfig, EpochTypeOK
  <2> QED
    BY <1>3, <2>1 DEF EndReconfig, EpochTypeOK
<1>4. CASE AbortReconfig
  BY <1>4 DEF AbortReconfig, EpochTypeOK
<1> QED
  BY <1>1, <1>2, <1>3, <1>4 DEF EpochNext

\* Every step keeps the types.
LEMMA StepTypeOK == TypeOK /\ [Next]_vars => TypeOK'
<1> SUFFICES ASSUME TypeOK, [Next]_vars PROVE TypeOK'
  OBVIOUS
<1> USE DEF TypeOK, HashiTypeOK, WithdrawTypeOK, hashiVars, signingVars, txnVars,
            requestVars, withdrawVars
<1>1. ASSUME NEW r \in Reqs, RequestStep(r) PROVE TypeOK'
  BY <1>1, RequestStepTypeOK
<1>2. ASSUME NEW t \in Txns, TxnStep(t) PROVE TypeOK'
  BY <1>2, TxnStepTypeOK
<1>3. ASSUME NEW u \in Utxos, CleanupSpentUtxo(u) PROVE TypeOK'
  BY <1>3 DEF CleanupSpentUtxo, CleanupSpent, PoolTypeOK, EpochTypeOK, epochVars
<1>4. ASSUME NEW t \in Txns, Mine(t) PROVE TypeOK'
  BY <1>4 DEF Mine, PoolTypeOK, EpochTypeOK, epochVars, poolVars
<1>5. CASE EnvironmentStep
  <2>1. CASE EpochStep
    <3>1. EpochTypeOK'
      BY <2>1, EpochStepTypeOK DEF EpochStep, EpochNext
    <3> QED
      BY <1>5, <2>1, <3>1 DEF EnvironmentStep, EpochStep, PoolTypeOK, poolVars
  <2>2. CASE SetPaused
    BY <1>5, <2>2 DEF EnvironmentStep, SetPaused, PoolTypeOK, EpochTypeOK,
       epochVars, poolVars
  <2>3. ASSUME NEW u \in DepositUtxos, CreditDeposit(u),
               UNCHANGED <<epochVars, paused, numConsumed>>
        PROVE  TypeOK'
    <3>1. u \in Utxos /\ SatsOf(u) \in Nat
      BY HashiAssumption DEF Utxos, SatsOf
    <3> QED
      BY <1>5, <2>3, <3>1 DEF EnvironmentStep, CreditDeposit, PoolTypeOK,
         EpochTypeOK, epochVars
  <2> QED
    BY <1>5, <2>1, <2>2, <2>3 DEF EnvironmentStep
<1>6. CASE UNCHANGED vars
  BY <1>6 DEF vars, PoolTypeOK, EpochTypeOK, epochVars, poolVars
<1> QED
  BY <1>1, <1>2, <1>3, <1>4, <1>5, <1>6 DEF Next, WithdrawStep

-----------------------------------------------------------------------------
(* Locks: NoDoubleSpend and LocksAgree are inductive together.             *)

lockVars == <<records, spentBy, spentEpoch, spentUtxos, txns, confirmedTxns,
              txnInputs, confirmed>>

LockInv == NoDoubleSpend /\ LocksAgree /\ confirmed \subseteq AllTxns

\* An input that can be locked belongs to no transaction yet.
LEMMA UnlockedInputsAreFree ==
  ASSUME TypeOK, LockInv, NEW u \in records, spentBy[u] = NONE
  PROVE  \A s \in AllTxns : u \notin txnInputs[s]
<1> SUFFICES ASSUME NEW s \in AllTxns, u \in txnInputs[s] PROVE FALSE
  OBVIOUS
<1>1. s # NONE
  BY HashiAssumption DEF TypeOK, WithdrawTypeOK, AllTxns
<1>2. spentBy[u] = s \/ u \in spentUtxos
  BY DEF LockInv, LocksAgree
<1> QED
  BY <1>1, <1>2 DEF LockInv, LocksAgree

\* Locking the inputs of a new transaction and inserting its change as
\* pending keeps locks and transactions in agreement.
LEMMA CommitLocks ==
  ASSUME TypeOK, LockInv, NEW t \in Txns, NEW rs \in SUBSET requests,
         NEW inputs \in SUBSET records, NEW fee \in Fees,
         NEW change \in ChangeOutputs(t),
         CommitWithdrawalTx(t, rs, inputs, change, fee)
  PROVE  LockInv'
<1>0. /\ records \subseteq Utxos
      /\ spentUtxos \subseteq Utxos
      /\ spentBy \in [Utxos -> Txns \cup {NONE}]
      /\ spentEpoch \in [Utxos -> Epoch \cup {NONE}]
      /\ txnInputs \in [Txns -> SUBSET Utxos]
      /\ txns \subseteq Txns /\ confirmedTxns \subseteq Txns
      /\ NONE \notin Txns
  BY HashiAssumption DEF TypeOK, HashiTypeOK, PoolTypeOK, WithdrawTypeOK
<1>1. /\ \A u \in inputs : spentBy[u] = NONE
      /\ \A u \in DOMAIN change : u \notin records /\ u \notin spentUtxos
      /\ records' = records \cup DOMAIN change
      /\ spentBy' = [u \in Utxos |->
                        IF u \in inputs THEN t
                        ELSE IF u \in DOMAIN change THEN NONE ELSE spentBy[u]]
      /\ spentEpoch' = [u \in Utxos |->
                          IF u \in DOMAIN change THEN NONE ELSE spentEpoch[u]]
      /\ spentUtxos' = spentUtxos
  BY DEF CommitWithdrawalTx, LockAndInsertPending, IsSpentOrActive
<1>2. /\ t \notin AllTxns
      /\ AllTxns' = AllTxns \cup {t}
      /\ txnInputs' = [txnInputs EXCEPT ![t] = inputs]
      /\ confirmed' = confirmed
  BY DEF CommitWithdrawalTx, FreshTxn, AllTxns
<1>3. AllTxns \subseteq Txns
  BY <1>0 DEF AllTxns
<1>4. \A s \in AllTxns : txnInputs'[s] = txnInputs[s]
  BY <1>0, <1>2, <1>3
<1>5. txnInputs'[t] = inputs
  BY <1>0, <1>2
<1>6. \A s \in AllTxns : txnInputs[s] \cap inputs = {}
  BY <1>1, UnlockedInputsAreFree
<1>7. DOMAIN change \subseteq Utxos
  BY ChangeFacts
<1>8. confirmed \subseteq AllTxns /\ t \notin confirmed /\ NONE \notin confirmed
  BY <1>0, <1>2, <1>3 DEF LockInv
<1>9. NoDoubleSpend'
  BY <1>2, <1>4, <1>5, <1>6 DEF LockInv, NoDoubleSpend
<1>10. \A s \in AllTxns' : \A u \in txnInputs'[s] :
          \/ u \in records' /\ spentBy'[u] = s
          \/ u \in spentUtxos' /\ s \in confirmed'
  <2>1. ASSUME NEW s \in AllTxns, NEW u \in txnInputs[s]
        PROVE  \/ u \in records' /\ spentBy'[u] = s
               \/ u \in spentUtxos' /\ s \in confirmed'
    <3>1. u \notin inputs
      BY <1>6
    <3>2. u \in Utxos
      BY <1>0, <1>3
    <3>3. \/ u \in records /\ spentBy[u] = s
          \/ u \in spentUtxos /\ s \in confirmed
      BY DEF LockInv, LocksAgree
    <3> QED
      BY <1>1, <1>2, <3>1, <3>2, <3>3
  <2>2. ASSUME NEW u \in inputs
        PROVE  u \in records' /\ spentBy'[u] = t
    BY <1>0, <1>1
  <2> QED
    BY <1>2, <1>4, <1>5, <2>1, <2>2
<1>11. \A u \in records' : spentBy'[u] # NONE =>
          spentBy'[u] \in AllTxns' /\ u \in txnInputs'[spentBy'[u]]
  BY <1>0, <1>1, <1>2, <1>4, <1>5, <1>7 DEF LockInv, LocksAgree
<1>12. \A u \in records' : spentEpoch'[u] # NONE <=> spentBy'[u] \in confirmed'
  BY <1>0, <1>1, <1>2, <1>7, <1>8 DEF LockInv, LocksAgree
<1>13. records' \cap spentUtxos' = {}
  BY <1>1 DEF LockInv, LocksAgree
<1> QED
  BY <1>2, <1>8, <1>9, <1>10, <1>11, <1>12, <1>13 DEF LockInv, LocksAgree

\* confirm_withdrawal marks exactly the inputs of its transaction spent.
LEMMA ConfirmLocks ==
  ASSUME TypeOK, LockInv, NEW t \in Txns, ConfirmWithdrawal(t)
  PROVE  LockInv'
<1>1. /\ epoch # NONE
      /\ txnInputs[t] \subseteq Utxos
      /\ records \subseteq Utxos
      /\ confirmed \subseteq Txns
  BY NoneAssumption, MaxEpochAssumption
     DEF TypeOK, HashiTypeOK, EpochTypeOK, PoolTypeOK, WithdrawTypeOK, Epoch
<1>2. /\ t \in txns /\ t \notin confirmed
      /\ confirmed' = confirmed \cup {t}
      /\ txnInputs[t] \subseteq records
      /\ spentEpoch' = [u \in Utxos |->
                          IF u \in txnInputs[t] THEN epoch ELSE spentEpoch[u]]
      /\ UNCHANGED <<records, spentBy, spentUtxos, txns, confirmedTxns, txnInputs>>
  BY DEF ConfirmWithdrawal, MarkSpentAndConfirm
<1>3. \A u \in records : u \in txnInputs[t] <=> spentBy[u] = t
  BY <1>2, HashiAssumption DEF LockInv, LocksAgree, AllTxns
<1>4. \A u \in records' : spentEpoch'[u] # NONE <=> spentBy'[u] \in confirmed'
  BY <1>1, <1>2, <1>3 DEF LockInv, LocksAgree
<1> QED
  BY <1>2, <1>4 DEF LockInv, LocksAgree, NoDoubleSpend, AllTxns

\* cleanup_spent files an output as spent before it drops the record.
LEMMA CleanupLocks ==
  ASSUME TypeOK, LockInv, NEW w \in Utxos, CleanupSpentUtxo(w)
  PROVE  LockInv'
<1>1. /\ records \subseteq Utxos
      /\ spentBy \in [Utxos -> Txns \cup {NONE}]
      /\ spentEpoch \in [Utxos -> Epoch \cup {NONE}]
  BY DEF TypeOK, HashiTypeOK, PoolTypeOK
<1>2. /\ w \in records /\ spentEpoch[w] # NONE
      /\ records' = records \ {w}
      /\ spentUtxos' = spentUtxos \cup {w}
      /\ spentBy' = [spentBy EXCEPT ![w] = NONE]
      /\ spentEpoch' = [spentEpoch EXCEPT ![w] = NONE]
      /\ UNCHANGED <<txns, confirmedTxns, txnInputs, confirmed>>
  BY DEF CleanupSpentUtxo, CleanupSpent, withdrawVars, txnVars
<1>3. spentBy[w] \in confirmed
  BY <1>2 DEF LockInv, LocksAgree
<1> QED
  BY <1>1, <1>2, <1>3 DEF LockInv, LocksAgree, NoDoubleSpend, AllTxns

\* A deposit that confirm_deposit inserts is new to the pool, hence unlocked.
LEMMA CreditLocks ==
  ASSUME TypeOK, LockInv, NEW w \in DepositUtxos, CreditDeposit(w),
         UNCHANGED withdrawVars
  PROVE  LockInv'
<1>1. /\ records \subseteq Utxos
      /\ spentBy \in [Utxos -> Txns \cup {NONE}]
      /\ spentEpoch \in [Utxos -> Epoch \cup {NONE}]
      /\ confirmed \subseteq Txns /\ NONE \notin Txns
      /\ w \in Utxos
  BY HashiAssumption DEF TypeOK, HashiTypeOK, PoolTypeOK, WithdrawTypeOK, Utxos
<1>2. /\ w \notin records /\ w \notin spentUtxos
      /\ records' = records \cup {w}
      /\ spentUtxos' = spentUtxos
      /\ spentBy' = [spentBy EXCEPT ![w] = NONE]
      /\ spentEpoch' = [spentEpoch EXCEPT ![w] = NONE]
      /\ UNCHANGED <<txns, confirmedTxns, txnInputs, confirmed>>
  BY DEF CreditDeposit, IsSpentOrActive, withdrawVars, txnVars
<1> QED
  BY <1>1, <1>2 DEF LockInv, LocksAgree, NoDoubleSpend, AllTxns

\* Filing a transaction as confirmed moves it and changes no lock.
LEMMA ArchiveLocks ==
  ASSUME LockInv, NEW t \in txns, MoveToConfirmed(t),
         UNCHANGED <<records, spentBy, spentEpoch, spentUtxos>>
  PROVE  LockInv'
BY DEF MoveToConfirmed, LockInv, LocksAgree, NoDoubleSpend, AllTxns

\* Every step keeps locks and transactions in agreement.
LEMMA StepLocks == TypeOK /\ LockInv /\ [Next]_vars => LockInv'
<1> SUFFICES ASSUME TypeOK, LockInv, [Next]_vars PROVE LockInv'
  OBVIOUS
<1>0. ASSUME UNCHANGED lockVars PROVE LockInv'
  BY <1>0 DEF lockVars, LockInv, LocksAgree, NoDoubleSpend, AllTxns
<1> USE DEF hashiVars, poolVars, txnVars
<1>1. ASSUME NEW r \in Reqs, RequestStep(r) PROVE LockInv'
  BY <1>0, <1>1 DEF RequestStep, RequestWithdrawal, CooldownElapses,
     CancelWithdrawal, ApproveRequest, lockVars
<1>2. ASSUME NEW t \in Txns, TxnStep(t) PROVE LockInv'
  <2>1. ASSUME NEW rs \in SUBSET requests, NEW inputs \in SUBSET records,
               NEW fee \in Fees, NEW change \in ChangeOutputs(t),
               CommitWithdrawalTx(t, rs, inputs, change, fee)
        PROVE  LockInv'
    BY <2>1, CommitLocks
  <2>2. ASSUME NEW indices \in SUBSET txnInputs[t],
               CommitInputSignatures(t, indices)
        PROVE  LockInv'
    BY <1>0, <2>2 DEF CommitInputSignatures, lockVars
  <2>3. CASE FinalizeWithdrawal(t)
    BY <1>0, <2>3 DEF FinalizeWithdrawal, lockVars
  <2>4. CASE ReallocatePresigs(t)
    BY <1>0, <2>4 DEF ReallocatePresigs, lockVars
  <2>5. CASE ConfirmWithdrawal(t)
    BY <2>5, ConfirmLocks
  <2>6. CASE ArchiveConfirmedWithdrawal(t)
    BY <2>6, ArchiveLocks DEF ArchiveConfirmedWithdrawal
  <2>7. ASSUME NEW rs \in SUBSET Reqs, ArchiveWithdrawalRequests(t, rs)
        PROVE  LockInv'
    BY <1>0, <2>7 DEF ArchiveWithdrawalRequests, lockVars
  <2>8. CASE FinishArchiveWithdrawalTxn(t)
    BY <2>8, ArchiveLocks DEF FinishArchiveWithdrawalTxn
  <2> QED
    BY <1>2, <2>1, <2>2, <2>3, <2>4, <2>5, <2>6, <2>7, <2>8 DEF TxnStep
<1>3. ASSUME NEW u \in Utxos, CleanupSpentUtxo(u) PROVE LockInv'
  BY <1>3, CleanupLocks
<1>4. ASSUME NEW t \in Txns, Mine(t) PROVE LockInv'
  BY <1>0, <1>4 DEF Mine, lockVars
<1>5. CASE EnvironmentStep
  <2>1. CASE EpochStep \/ SetPaused
    BY <1>0, <1>5, <2>1 DEF EnvironmentStep, EpochStep, SetPaused, lockVars,
       withdrawVars
  <2>2. ASSUME NEW u \in DepositUtxos, CreditDeposit(u) PROVE LockInv'
    BY <1>5, <2>2, CreditLocks DEF EnvironmentStep
  <2> QED
    BY <1>5, <2>1, <2>2 DEF EnvironmentStep
<1>6. CASE UNCHANGED vars
  BY <1>0, <1>6 DEF vars, withdrawVars, lockVars
<1> QED
  BY <1>1, <1>2, <1>3, <1>4, <1>5, <1>6 DEF Next, WithdrawStep

\* The empty pool agrees with no transactions.
LEMMA InitLocks == Init => LockInv
BY DEF Init, HashiInit, WithdrawInit, LockInv, LocksAgree, NoDoubleSpend, AllTxns

-----------------------------------------------------------------------------
(* Requests: RequestsPaidOnce and ArchiveOrder are inductive together.     *)

archiveVars == <<requests, processed, cancelled, indexed, escrow, reqTxn, txns,
                 confirmedTxns, txnRequests, confirmed>>

RequestInv == RequestsPaidOnce /\ ArchiveOrder

RequestTypeOK ==
  /\ requests \in SUBSET Reqs
  /\ processed \in SUBSET Reqs
  /\ cancelled \in SUBSET Reqs
  /\ escrow \in [Reqs -> Nat]
  /\ reqTxn \in [Reqs -> Txns \cup {NONE}]
  /\ txns \in SUBSET Txns
  /\ confirmedTxns \in SUBSET Txns
  /\ txnRequests \in [Txns -> SUBSET Reqs]
  /\ confirmed \in SUBSET Txns
  /\ NONE \notin Txns

\* Requesting, approving and cancelling touch only requests without a
\* transaction.
LEMMA RequestStepRequests ==
  ASSUME RequestTypeOK, RequestInv, NEW r \in Reqs, RequestStep(r)
  PROVE  RequestInv'
<1> USE DEF RequestTypeOK, RequestInv, RequestsPaidOnce, ArchiveOrder, AllTxns, txnVars
<1>0. ASSUME UNCHANGED archiveVars PROVE RequestInv'
  BY <1>0 DEF archiveVars
<1>1. CASE RequestWithdrawal(r)
  <2>1. r \notin requests /\ r \notin processed /\ r \notin cancelled
    BY <1>1 DEF RequestWithdrawal, FreshRequest
  <2>2. reqTxn[r] = NONE
    BY <2>1
  <2> QED
    BY <1>1, <2>1, <2>2, WithdrawAssumption DEF RequestWithdrawal
<1>2. CASE CooldownElapses(r)
  BY <1>0, <1>2 DEF CooldownElapses, archiveVars
<1>3. CASE CancelWithdrawal(r)
  <2>1. reqTxn[r] = NONE /\ r \in requests
    BY <1>3 DEF CancelWithdrawal, IsCommitted
  <2>2. \A t \in AllTxns : r \notin txnRequests[t]
    BY <2>1
  <2> QED
    BY <1>3, <2>1, <2>2 DEF CancelWithdrawal
<1>4. CASE ApproveRequest(r)
  BY <1>0, <1>4 DEF ApproveRequest, archiveVars
<1> QED
  BY <1>1, <1>2, <1>3, <1>4 DEF RequestStep

\* commit_requests links only requests that no transaction has.
LEMMA CommitRequests ==
  ASSUME RequestTypeOK, RequestInv, confirmed \subseteq AllTxns,
         NEW t \in Txns, NEW rs \in SUBSET requests,
         NEW inputs \in SUBSET records, NEW fee \in Fees,
         NEW change \in ChangeOutputs(t),
         CommitWithdrawalTx(t, rs, inputs, change, fee)
  PROVE  RequestInv'
<1>1. /\ t \notin AllTxns
      /\ AllTxns' = AllTxns \cup {t}
      /\ \A r \in rs : reqTxn[r] = NONE
      /\ escrow' = [r \in Reqs |-> IF r \in rs THEN 0 ELSE escrow[r]]
      /\ reqTxn' = [r \in Reqs |-> IF r \in rs THEN t ELSE reqTxn[r]]
      /\ txns' = txns \cup {t}
      /\ txnRequests' = [txnRequests EXCEPT ![t] = rs]
      /\ UNCHANGED <<requests, processed, cancelled, indexed, confirmedTxns, confirmed>>
  BY DEF CommitWithdrawalTx, FreshTxn, AllTxns, IsCommitted
<1>2. \A s \in AllTxns : txnRequests'[s] = txnRequests[s]
  BY <1>1 DEF RequestTypeOK, AllTxns
<1>3. txnRequests'[t] = rs
  BY <1>1 DEF RequestTypeOK
<1>4. \A s \in AllTxns : txnRequests[s] \cap rs = {}
  BY <1>1 DEF RequestTypeOK, RequestInv, RequestsPaidOnce, AllTxns
<1>5. \A s, w \in AllTxns' : s # w => txnRequests'[s] \cap txnRequests'[w] = {}
  BY <1>1, <1>2, <1>3, <1>4 DEF RequestInv, RequestsPaidOnce
<1>6. \A s \in AllTxns' : \A r \in txnRequests'[s] :
          r \in requests' \cup processed' /\ reqTxn'[r] = s
  <2>1. ASSUME NEW s \in AllTxns, NEW r \in txnRequests[s]
        PROVE  r \in requests' \cup processed' /\ reqTxn'[r] = s
    <3>1. r \notin rs /\ r \in requests \cup processed /\ reqTxn[r] = s
      BY <1>4 DEF RequestInv, RequestsPaidOnce
    <3> QED
      BY <1>1, <3>1 DEF RequestTypeOK
  <2> QED
    BY <1>1, <1>2, <1>3, <2>1 DEF RequestTypeOK
<1>7. \A r \in Reqs : reqTxn'[r] # NONE =>
          /\ reqTxn'[r] \in AllTxns' /\ r \in txnRequests'[reqTxn'[r]]
          /\ escrow'[r] = 0
  BY <1>1, <1>2, <1>3 DEF RequestTypeOK, RequestInv, RequestsPaidOnce
<1>8. /\ \A r \in requests' : reqTxn'[r] = NONE => escrow'[r] = ReqAmount[r]
      /\ cancelled' \cap (requests' \cup processed') = {}
  BY <1>1 DEF RequestTypeOK, RequestInv, RequestsPaidOnce
<1>9. ArchiveOrder'
  BY <1>1, <1>2 DEF RequestTypeOK, RequestInv, ArchiveOrder, AllTxns
<1> QED
  BY <1>5, <1>6, <1>7, <1>8, <1>9 DEF RequestInv, RequestsPaidOnce

\* Archival in any of its three ways files only requests of a confirmed
\* transaction, and the transaction after them.
LEMMA TxnStepRequests ==
  ASSUME RequestTypeOK, RequestInv, confirmed \subseteq AllTxns,
         NEW t \in Txns, TxnStep(t)
  PROVE  RequestInv'
<1> USE DEF RequestTypeOK, RequestInv, RequestsPaidOnce, ArchiveOrder, AllTxns
<1>0. ASSUME UNCHANGED archiveVars PROVE RequestInv'
  BY <1>0 DEF archiveVars
<1>1. ASSUME NEW rs \in SUBSET requests, NEW inputs \in SUBSET records,
             NEW fee \in Fees, NEW change \in ChangeOutputs(t),
             CommitWithdrawalTx(t, rs, inputs, change, fee)
      PROVE  RequestInv'
  BY <1>1, CommitRequests
<1>2. ASSUME NEW indices \in SUBSET txnInputs[t], CommitInputSignatures(t, indices)
      PROVE  RequestInv'
  BY <1>0, <1>2 DEF CommitInputSignatures, archiveVars, requestVars, txnVars
<1>3. CASE FinalizeWithdrawal(t)
  BY <1>0, <1>3 DEF FinalizeWithdrawal, archiveVars, requestVars
<1>4. CASE ReallocatePresigs(t)
  BY <1>0, <1>4 DEF ReallocatePresigs, archiveVars, requestVars, txnVars
<1>5. CASE ConfirmWithdrawal(t)
  BY <1>5 DEF ConfirmWithdrawal, requestVars
<1>6. CASE ArchiveConfirmedWithdrawal(t)
  BY <1>6 DEF ArchiveConfirmedWithdrawal, ArchiveRequests, MoveToConfirmed
<1>7. ASSUME NEW rs \in SUBSET Reqs, ArchiveWithdrawalRequests(t, rs)
      PROVE  RequestInv'
  BY <1>7 DEF ArchiveWithdrawalRequests, ArchiveRequests, txnVars
<1>8. CASE FinishArchiveWithdrawalTxn(t)
  BY <1>8 DEF FinishArchiveWithdrawalTxn, MoveToConfirmed, requestVars
<1> QED
  BY <1>1, <1>2, <1>3, <1>4, <1>5, <1>6, <1>7, <1>8 DEF TxnStep

\* Every step keeps requests and transactions naming each other.
LEMMA StepRequests ==
  TypeOK /\ RequestInv /\ confirmed \subseteq AllTxns /\ [Next]_vars => RequestInv'
<1> SUFFICES ASSUME TypeOK, RequestInv, confirmed \subseteq AllTxns, [Next]_vars
             PROVE  RequestInv'
  OBVIOUS
<1>0. ASSUME UNCHANGED archiveVars PROVE RequestInv'
  BY <1>0 DEF archiveVars, RequestInv, RequestsPaidOnce, ArchiveOrder, AllTxns
<1>t. RequestTypeOK
  BY HashiAssumption DEF TypeOK, WithdrawTypeOK, RequestTypeOK
<1>1. ASSUME NEW r \in Reqs, RequestStep(r) PROVE RequestInv'
  BY <1>1, <1>t, RequestStepRequests
<1>2. ASSUME NEW t \in Txns, TxnStep(t) PROVE RequestInv'
  BY <1>2, <1>t, TxnStepRequests
<1> USE DEF withdrawVars, requestVars, txnVars, archiveVars
<1>3. ASSUME NEW u \in Utxos, CleanupSpentUtxo(u) PROVE RequestInv'
  BY <1>0, <1>3 DEF CleanupSpentUtxo
<1>4. ASSUME NEW t \in Txns, Mine(t) PROVE RequestInv'
  BY <1>0, <1>4 DEF Mine
<1>5. CASE EnvironmentStep
  BY <1>0, <1>5 DEF EnvironmentStep
<1>6. CASE UNCHANGED vars
  BY <1>0, <1>6 DEF vars
<1> QED
  BY <1>1, <1>2, <1>3, <1>4, <1>5, <1>6 DEF Next, WithdrawStep

\* Without requests there is nothing to agree on.
LEMMA InitRequests == Init => RequestInv
BY DEF Init, WithdrawInit, RequestInv, RequestsPaidOnce, ArchiveOrder, AllTxns

-----------------------------------------------------------------------------
(* Presignatures: an index of the current epoch lies below the allocator,  *)
(* and an epoch that is not activated has none, so a reset repeats none.   *)

nonceVars == <<epoch, activated, pending, numConsumed, txns, confirmedTxns,
               txnInputs, slots, batchEpoch, issued>>

NonceInv ==
  /\ NonceUnique
  /\ PendingSlotsCurrent
  /\ \A t \in AllTxns, u \in Utxos : slots[t][u] \in Nat => u \in txnInputs[t]
  /\ \A i \in issued : /\ i.epoch \in activated
                       /\ i.epoch = epoch => i.index < numConsumed
  /\ pending \notin activated

NonceTypeOK ==
  /\ epoch \in Nat
  /\ activated \in SUBSET Nat
  /\ suiEpoch \in Nat
  /\ numConsumed \in Nat
  /\ txns \in SUBSET Txns
  /\ confirmedTxns \in SUBSET Txns
  /\ txnInputs \in [Txns -> SUBSET Utxos]
  /\ slots \in [Txns -> [Utxos -> Slot]]
  /\ batchEpoch \in [Txns -> Epoch \cup {NONE}]
  /\ issued \in SUBSET [epoch : Epoch, index : Nat, txn : Txns, input : Utxos]
  /\ Epoch \subseteq Nat

\* Handing out the allocator's next block to inputs of one transaction.
LEMMA AllocationIsFresh ==
  ASSUME NonceTypeOK, NonceInv, Operational, NEW t \in Txns, NEW S \in SUBSET Utxos,
         NEW f \in Allocations(S),
         issued' = issued \cup Issues(t, f),
         numConsumed' = numConsumed + Cardinality(S),
         UNCHANGED <<epoch, activated, pending>>
  PROVE  /\ NonceUnique'
         /\ \A i \in issued' : /\ i.epoch \in activated'
                               /\ i.epoch = epoch' => i.index < numConsumed'
         /\ pending' \notin activated'
<1>1. /\ Cardinality(S) \in Nat
      /\ DOMAIN f = S
      /\ \A u \in S : f[u] \in Nat
      /\ \A u \in S : numConsumed <= f[u] /\ f[u] < numConsumed + Cardinality(S)
      /\ \A u, w \in S : f[u] = f[w] => u = w
  BY AllocationsFacts DEF NonceTypeOK
<1>2. epoch \in activated
  BY NoneAssumption DEF Operational, NotReconfiguring, IsReconfiguring, HasCommittee,
     NonceTypeOK
<1>3. \A i \in Issues(t, f) :
         /\ i.epoch = epoch
         /\ i.index \in Nat /\ numConsumed <= i.index
         /\ i.index < numConsumed + Cardinality(S)
  BY <1>1 DEF Issues
<1>4. \A i, j \in Issues(t, f) : i.index = j.index => i = j
  BY <1>1 DEF Issues
<1>5. \A i \in issued : /\ i.epoch = epoch => i.index < numConsumed
                        /\ i.epoch \in activated
                        /\ i.index \in Nat
  BY DEF NonceInv, NonceTypeOK
<1>6. \A i \in issued, j \in Issues(t, f) :
         ~(i.epoch = j.epoch /\ i.index = j.index)
  BY <1>3, <1>5 DEF NonceTypeOK
<1>7. NonceUnique'
  BY <1>4, <1>6 DEF NonceInv, NonceUnique
<1>8. \A i \in issued' : i.epoch = epoch' => i.index < numConsumed'
  <2> SUFFICES ASSUME NEW i \in issued', i.epoch = epoch'
               PROVE  i.index < numConsumed'
    OBVIOUS
  <2>1. CASE i \in issued
    BY <1>1, <1>5, <2>1 DEF NonceTypeOK
  <2>2. CASE i \in Issues(t, f)
    BY <1>3, <2>2
  <2> QED
    BY <2>1, <2>2
<1> QED
  BY <1>2, <1>3, <1>5, <1>7, <1>8 DEF NonceInv

\* The indices allocated by commit_withdrawal_tx are new in the current epoch.
LEMMA CommitNonces ==
  ASSUME NonceTypeOK, NonceInv, NEW t \in Txns, NEW rs \in SUBSET requests,
         NEW inputs \in SUBSET Utxos, NEW fee \in Fees,
         NEW change \in ChangeOutputs(t),
         CommitWithdrawalTx(t, rs, inputs, change, fee)
  PROVE  NonceInv'
<1>1. PICK f \in Allocations(inputs) :
          /\ slots' = [slots EXCEPT ![t] =
                          [u \in Utxos |-> IF u \in inputs THEN f[u] ELSE NONE]]
          /\ issued' = issued \cup Issues(t, f)
  BY DEF CommitWithdrawalTx
<1>2. DOMAIN f = inputs /\ \A u \in inputs : f[u] \in Nat
  BY AllocationsFacts DEF NonceTypeOK
<1>3. /\ Operational
      /\ numConsumed' = numConsumed + Cardinality(inputs)
      /\ UNCHANGED <<epoch, activated, pending, confirmedTxns>>
      /\ t \notin txns /\ t \notin confirmedTxns
      /\ txns' = txns \cup {t}
      /\ txnInputs' = [txnInputs EXCEPT ![t] = inputs]
      /\ batchEpoch' = [batchEpoch EXCEPT ![t] = epoch]
  BY DEF CommitWithdrawalTx, FreshTxn, epochVars
<1>4. /\ NonceUnique'
      /\ \A i \in issued' : /\ i.epoch \in activated'
                            /\ i.epoch = epoch' => i.index < numConsumed'
      /\ pending' \notin activated'
  BY <1>1, <1>3, AllocationIsFresh
<1>5. \A s \in AllTxns : /\ slots'[s] = slots[s]
                          /\ txnInputs'[s] = txnInputs[s]
                          /\ batchEpoch'[s] = batchEpoch[s]
  BY <1>1, <1>3 DEF NonceTypeOK, AllTxns
<1>6. /\ \A u \in Utxos : slots'[t][u] = IF u \in inputs THEN f[u] ELSE NONE
      /\ txnInputs'[t] = inputs
      /\ batchEpoch'[t] = epoch
  BY <1>1, <1>3 DEF NonceTypeOK
<1>7. PendingSlotsCurrent'
  <2> SUFFICES ASSUME NEW s \in txns', NEW u \in Utxos, slots'[s][u] \in Nat
               PROVE  [epoch |-> batchEpoch'[s], index |-> slots'[s][u],
                       txn |-> s, input |-> u] \in issued'
    BY DEF PendingSlotsCurrent
  <2>1. CASE s = t
    BY <1>1, <1>2, <1>6, <2>1, NoneAssumption DEF Issues
  <2>2. CASE s \in txns
    <3>1. slots'[s][u] = slots[s][u] /\ batchEpoch'[s] = batchEpoch[s]
      BY <1>5, <2>2 DEF AllTxns
    <3>2. [epoch |-> batchEpoch[s], index |-> slots[s][u],
           txn |-> s, input |-> u] \in issued
      BY <2>2, <3>1 DEF NonceInv, PendingSlotsCurrent
    <3> QED
      BY <1>1, <3>1, <3>2
  <2> QED
    BY <1>3, <2>1, <2>2
<1>8. \A s \in AllTxns', u \in Utxos : slots'[s][u] \in Nat => u \in txnInputs'[s]
  BY <1>3, <1>5, <1>6, NoneAssumption DEF NonceInv, AllTxns
<1> QED
  BY <1>4, <1>7, <1>8 DEF NonceInv

\* reallocate_presigs draws new indices of the current epoch for the pending
\* slots and relabels the batch.
LEMMA ReallocateNonces ==
  ASSUME NonceTypeOK, NonceInv, NEW t \in Txns, ReallocatePresigs(t)
  PROVE  NonceInv'
<1> DEFINE S == PendingSlots(t)
<1>0. S \in SUBSET Utxos
  BY DEF PendingSlots, NonceTypeOK
<1>1. PICK f \in Allocations(S) :
          /\ slots' = [slots EXCEPT ![t] =
                 [u \in Utxos |-> IF u \in DOMAIN f THEN f[u] ELSE slots[t][u]]]
          /\ issued' = issued \cup Issues(t, f)
  BY DEF ReallocatePresigs
<1>2. DOMAIN f = S /\ \A u \in S : f[u] \in Nat
  BY <1>0, AllocationsFacts DEF NonceTypeOK
<1>3. /\ Operational
      /\ t \in txns
      /\ numConsumed' = numConsumed + Cardinality(S)
      /\ UNCHANGED <<epoch, activated, pending, confirmedTxns, txns, txnInputs>>
      /\ batchEpoch' = [batchEpoch EXCEPT ![t] = epoch]
  BY DEF ReallocatePresigs, epochVars, txnVars
<1>4. /\ NonceUnique'
      /\ \A i \in issued' : /\ i.epoch \in activated'
                            /\ i.epoch = epoch' => i.index < numConsumed'
      /\ pending' \notin activated'
  BY <1>0, <1>1, <1>3, AllocationIsFresh
<1>5. \A s \in AllTxns \ {t} : slots'[s] = slots[s] /\ batchEpoch'[s] = batchEpoch[s]
  BY <1>1, <1>3 DEF NonceTypeOK, AllTxns
<1>6. /\ \A u \in Utxos : slots'[t][u] = IF u \in S THEN f[u] ELSE slots[t][u]
      /\ batchEpoch'[t] = epoch
  BY <1>1, <1>2, <1>3 DEF NonceTypeOK
<1>7. \A u \in Utxos : slots'[t][u] \in Nat => u \in S
  <2> SUFFICES ASSUME NEW u \in Utxos, u \notin S, slots[t][u] \in Nat PROVE FALSE
    BY <1>6
  <2>1. u \in txnInputs[t]
    BY <1>3 DEF NonceInv, AllTxns
  <2> QED
    BY <2>1, WithdrawAssumption DEF PendingSlots
<1>8. PendingSlotsCurrent'
  <2> SUFFICES ASSUME NEW s \in txns, NEW u \in Utxos, slots'[s][u] \in Nat
               PROVE  [epoch |-> batchEpoch'[s], index |-> slots'[s][u],
                       txn |-> s, input |-> u] \in issued'
    BY <1>3 DEF PendingSlotsCurrent
  <2>1. CASE s = t
    BY <1>1, <1>2, <1>6, <1>7, <2>1 DEF Issues
  <2>2. CASE s # t
    BY <1>1, <1>5, <2>2 DEF NonceInv, PendingSlotsCurrent, AllTxns
  <2> QED
    BY <2>1, <2>2
<1>9. \A s \in AllTxns', u \in Utxos : slots'[s][u] \in Nat => u \in txnInputs'[s]
  BY <1>3, <1>5, <1>7 DEF NonceInv, AllTxns, PendingSlots
<1> QED
  BY <1>4, <1>8, <1>9 DEF NonceInv

\* The reset of end_reconfig is sound: the epoch that becomes current has
\* issued nothing.
LEMMA EpochNonces ==
  ASSUME NonceTypeOK, NonceInv, EpochStep, UNCHANGED withdrawVars
  PROVE  NonceInv'
<1> USE DEF withdrawVars, signingVars, txnVars
<1>1. NONE \notin activated
  BY NoneAssumption DEF NonceTypeOK
<1>2. CASE AdvanceSui /\ UNCHANGED numConsumed
  BY <1>2 DEF AdvanceSui, NonceInv, NonceUnique, PendingSlotsCurrent, AllTxns
<1>3. CASE StartReconfig /\ UNCHANGED numConsumed
  BY <1>3 DEF StartReconfig, HasCommittee, NonceInv, NonceUnique,
     PendingSlotsCurrent, AllTxns
<1>4. CASE AbortReconfig /\ UNCHANGED numConsumed
  BY <1>1, <1>4 DEF AbortReconfig, NonceInv, NonceUnique, PendingSlotsCurrent, AllTxns
<1>5. CASE EndReconfig /\ numConsumed' = 0
  <2>1. /\ epoch' = pending /\ pending' = NONE
        /\ activated' = activated \cup {pending}
        /\ pending \notin activated
        /\ pending # NONE
    BY <1>5, NoneAssumption DEF EndReconfig, NonceInv, NonceTypeOK
  <2>2. \A i \in issued' : i.epoch \in activated' /\ i.epoch # epoch'
    BY <2>1 DEF NonceInv
  <2>3. pending' \notin activated'
    BY <1>1, <2>1
  <2>4. NonceUnique' /\ PendingSlotsCurrent'
    BY DEF NonceInv, NonceUnique, PendingSlotsCurrent
  <2> QED
    BY <2>2, <2>3, <2>4 DEF NonceInv, AllTxns
<1> QED
  BY <1>2, <1>3, <1>4, <1>5 DEF EpochStep

\* Every step keeps issued presignatures unique and pending slots current.
LEMMA StepNonces == TypeOK /\ NonceInv /\ [Next]_vars => NonceInv'
<1> SUFFICES ASSUME TypeOK, NonceInv, [Next]_vars PROVE NonceInv'
  OBVIOUS
<1>0. ASSUME UNCHANGED nonceVars PROVE NonceInv'
  BY <1>0 DEF nonceVars, NonceInv, NonceUnique, PendingSlotsCurrent, AllTxns
<1>t. NonceTypeOK
  BY MaxEpochAssumption DEF TypeOK, HashiTypeOK, EpochTypeOK, WithdrawTypeOK,
     NonceTypeOK, Epoch, Issue
<1> USE DEF hashiVars, epochVars, txnVars, signingVars, withdrawVars
<1>1. ASSUME NEW r \in Reqs, RequestStep(r) PROVE NonceInv'
  BY <1>0, <1>1 DEF RequestStep, RequestWithdrawal, CooldownElapses,
     CancelWithdrawal, ApproveRequest, nonceVars
<1>2. ASSUME NEW t \in Txns, TxnStep(t) PROVE NonceInv'
  <2>1. ASSUME NEW rs \in SUBSET requests, NEW inputs \in SUBSET records,
               NEW fee \in Fees, NEW change \in ChangeOutputs(t),
               CommitWithdrawalTx(t, rs, inputs, change, fee)
        PROVE  NonceInv'
    <3>1. inputs \in SUBSET Utxos
      BY DEF TypeOK, HashiTypeOK, PoolTypeOK
    <3> QED
      BY <1>t, <2>1, <3>1, CommitNonces
  <2>2. ASSUME NEW indices \in SUBSET txnInputs[t],
               CommitInputSignatures(t, indices)
        PROVE  NonceInv'
    <3>1. /\ slots' = [slots EXCEPT ![t] =
                   [u \in Utxos |-> IF u \in indices THEN SIGNED ELSE slots[t][u]]]
          /\ UNCHANGED <<epoch, activated, pending, numConsumed, txns,
                         confirmedTxns, txnInputs, batchEpoch, issued>>
      BY <2>2 DEF CommitInputSignatures
    <3>2. \A s \in Txns, u \in Utxos : slots'[s][u] \in Nat =>
             slots[s][u] = slots'[s][u]
      BY <1>t, <3>1, WithdrawAssumption DEF NonceTypeOK
    <3> QED
      BY <1>t, <3>1, <3>2 DEF NonceTypeOK, NonceInv, NonceUnique,
         PendingSlotsCurrent, AllTxns
  <2>3. CASE FinalizeWithdrawal(t)
    BY <1>0, <2>3 DEF FinalizeWithdrawal, nonceVars
  <2>4. CASE ReallocatePresigs(t)
    BY <1>t, <2>4, ReallocateNonces
  <2>5. CASE ConfirmWithdrawal(t)
    BY <1>0, <2>5 DEF ConfirmWithdrawal, nonceVars
  <2>6. CASE ArchiveConfirmedWithdrawal(t)
    BY <2>6 DEF ArchiveConfirmedWithdrawal, MoveToConfirmed, NonceInv, NonceUnique,
       PendingSlotsCurrent, AllTxns
  <2>7. ASSUME NEW rs \in SUBSET Reqs, ArchiveWithdrawalRequests(t, rs)
        PROVE  NonceInv'
    BY <1>0, <2>7 DEF ArchiveWithdrawalRequests, nonceVars
  <2>8. CASE FinishArchiveWithdrawalTxn(t)
    BY <2>8 DEF FinishArchiveWithdrawalTxn, MoveToConfirmed, NonceInv, NonceUnique,
       PendingSlotsCurrent, AllTxns
  <2> QED
    BY <1>2, <2>1, <2>2, <2>3, <2>4, <2>5, <2>6, <2>7, <2>8 DEF TxnStep
<1>3. ASSUME NEW u \in Utxos, CleanupSpentUtxo(u) PROVE NonceInv'
  BY <1>0, <1>3 DEF CleanupSpentUtxo, nonceVars
<1>4. ASSUME NEW t \in Txns, Mine(t) PROVE NonceInv'
  BY <1>0, <1>4 DEF Mine, nonceVars
<1>5. CASE EnvironmentStep
  <2>1. CASE EpochStep
    BY <1>t, <1>5, <2>1, EpochNonces DEF EnvironmentStep
  <2>2. CASE SetPaused
    BY <1>0, <1>5, <2>2 DEF EnvironmentStep, SetPaused, nonceVars
  <2>3. CASE UNCHANGED <<epochVars, paused, numConsumed>>
    BY <1>0, <1>5, <2>3 DEF EnvironmentStep, nonceVars
  <2> QED
    BY <1>5, <2>1, <2>2, <2>3 DEF EnvironmentStep
<1>6. CASE UNCHANGED vars
  BY <1>0, <1>6 DEF vars, nonceVars
<1> QED
  BY <1>1, <1>2, <1>3, <1>4, <1>5, <1>6 DEF Next, WithdrawStep

\* Nothing is issued when the package is published.
LEMMA InitNonces == Init => NonceInv
BY DEF Init, HashiInit, EpochInit, WithdrawInit, NonceInv, NonceUnique,
   PendingSlotsCurrent, AllTxns

-----------------------------------------------------------------------------
(* Change outputs and the Bitcoin chain.                                   *)

changeVars == <<records, producedBy, txns, confirmedTxns, txnInputs, txnChange,
                confirmed, mined>>

ChangeInv ==
  /\ ChangeProvenance
  /\ confirmed \subseteq mined /\ mined \subseteq AllTxns
  /\ \A t \in mined : \A u \in txnInputs[t] \cap ChangeUtxos : u[1] \in mined
  /\ \A t \in AllTxns : txnChange[t] \subseteq {t} \X (1 .. MaxChange)

ChangeTypeOK ==
  /\ records \in SUBSET Utxos
  /\ producedBy \in [Utxos -> Txns \cup {NONE}]
  /\ txns \in SUBSET Txns
  /\ confirmedTxns \in SUBSET Txns
  /\ txnInputs \in [Txns -> SUBSET Utxos]
  /\ txnChange \in [Txns -> SUBSET Utxos]
  /\ NONE \notin Txns

\* The change that commit_withdrawal_tx inserts is pending and carries the
\* txid of its producer.
LEMMA CommitChange ==
  ASSUME ChangeTypeOK, ChangeInv, NEW t \in Txns, NEW rs \in SUBSET requests,
         NEW inputs \in SUBSET records, NEW fee \in Fees,
         NEW change \in ChangeOutputs(t),
         CommitWithdrawalTx(t, rs, inputs, change, fee)
  PROVE  ChangeInv'
<1>1. /\ t \notin AllTxns
      /\ AllTxns' = AllTxns \cup {t}
      /\ txns' = txns \cup {t}
      /\ txnInputs' = [txnInputs EXCEPT ![t] = inputs]
      /\ txnChange' = [txnChange EXCEPT ![t] = DOMAIN change]
      /\ records' = records \cup DOMAIN change
      /\ producedBy' = [u \in Utxos |->
                          IF u \in DOMAIN change THEN t ELSE producedBy[u]]
      /\ \A u \in DOMAIN change : u \notin records
      /\ UNCHANGED <<confirmed, mined>>
  BY DEF CommitWithdrawalTx, LockAndInsertPending, FreshTxn, AllTxns, IsSpentOrActive
<1>2. /\ DOMAIN change \subseteq {t} \X (1 .. MaxChange)
      /\ DOMAIN change \subseteq Utxos
  BY ChangeFacts
<1>3. AllTxns \subseteq Txns
  BY DEF ChangeTypeOK, AllTxns
<1>4. \A s \in AllTxns : txnInputs'[s] = txnInputs[s] /\ txnChange'[s] = txnChange[s]
  BY <1>1, <1>3 DEF ChangeTypeOK
<1>5. txnChange'[t] = DOMAIN change
  BY <1>1 DEF ChangeTypeOK
<1>6. t \notin mined /\ t \notin confirmed /\ mined \subseteq AllTxns
      /\ confirmed \subseteq AllTxns
  BY <1>1 DEF ChangeInv
<1>7. \A u \in records' : producedBy'[u] # NONE =>
          producedBy'[u] \in txns' \ confirmed' /\ u \in txnChange'[producedBy'[u]]
  <2>1. ASSUME NEW u \in DOMAIN change
        PROVE  producedBy'[u] = t
    BY <1>1, <1>2
  <2>2. ASSUME NEW u \in records, producedBy'[u] # NONE
        PROVE  producedBy'[u] \in txns \ confirmed /\ u \in txnChange[producedBy'[u]]
    <3>1. producedBy'[u] = producedBy[u]
      BY <1>1 DEF ChangeTypeOK
    <3> QED
      BY <2>2, <3>1 DEF ChangeInv, ChangeProvenance
  <2> QED
    BY <1>1, <1>4, <1>5, <1>6, <2>1, <2>2 DEF AllTxns
<1>8. \A u \in records' \cap ChangeUtxos : producedBy'[u] = NONE => u[1] \in confirmed'
  BY <1>1, <1>2 DEF ChangeTypeOK, ChangeInv, ChangeProvenance
<1>9. /\ \A s \in confirmed' : \A u \in txnInputs'[s] \cap ChangeUtxos : u[1] \in mined'
      /\ \A s \in mined' : \A u \in txnInputs'[s] \cap ChangeUtxos : u[1] \in mined'
  BY <1>1, <1>4, <1>6 DEF ChangeInv, ChangeProvenance
<1>10. \A s \in AllTxns' : txnChange'[s] \subseteq {s} \X (1 .. MaxChange)
  BY <1>1, <1>2, <1>4, <1>5 DEF ChangeInv
<1> QED
  BY <1>1, <1>7, <1>8, <1>9, <1>10 DEF ChangeInv, ChangeProvenance

\* confirm_withdrawal clears the pending mark of the change of its own
\* transaction.
LEMMA ConfirmChange ==
  ASSUME ChangeTypeOK, ChangeInv, NEW t \in Txns, ConfirmWithdrawal(t)
  PROVE  ChangeInv'
<1>1. /\ t \in txns /\ t \in mined
      /\ confirmed' = confirmed \cup {t}
      /\ producedBy' = [u \in Utxos |->
               IF u \in txnChange[t] \cap records THEN NONE ELSE producedBy[u]]
      /\ UNCHANGED <<records, txns, confirmedTxns, txnInputs, txnChange, mined>>
  BY DEF ConfirmWithdrawal, MarkSpentAndConfirm
<1>2. \A u \in txnChange[t] : u[1] = t
  BY <1>1 DEF ChangeInv, AllTxns
<1>3. \A u \in records : producedBy[u] = t => u \in txnChange[t]
  BY <1>1 DEF ChangeTypeOK, ChangeInv, ChangeProvenance
<1>4. \A u \in records' : producedBy'[u] # NONE =>
          producedBy'[u] \in txns' \ confirmed' /\ u \in txnChange'[producedBy'[u]]
  BY <1>1, <1>3 DEF ChangeTypeOK, ChangeInv, ChangeProvenance
<1>5. \A u \in records' \cap ChangeUtxos : producedBy'[u] = NONE => u[1] \in confirmed'
  BY <1>1, <1>2 DEF ChangeTypeOK, ChangeInv, ChangeProvenance
<1> QED
  BY <1>1, <1>4, <1>5 DEF ChangeInv, ChangeProvenance, AllTxns

\* Every step keeps the provenance of change outputs.
LEMMA StepChange == TypeOK /\ ChangeInv /\ [Next]_vars => ChangeInv'
<1> SUFFICES ASSUME TypeOK, ChangeInv, [Next]_vars PROVE ChangeInv'
  OBVIOUS
<1>0. ASSUME UNCHANGED changeVars PROVE ChangeInv'
  BY <1>0 DEF changeVars, ChangeInv, ChangeProvenance, AllTxns
<1>t. ChangeTypeOK
  BY HashiAssumption DEF TypeOK, HashiTypeOK, PoolTypeOK, WithdrawTypeOK, ChangeTypeOK
<1>a. ASSUME NEW t \in txns, t \in confirmed, MoveToConfirmed(t),
             UNCHANGED <<records, producedBy, mined>>
      PROVE  ChangeInv'
  BY <1>a DEF MoveToConfirmed, ChangeInv, ChangeProvenance, AllTxns
<1> USE DEF hashiVars, poolVars, txnVars
<1>1. ASSUME NEW r \in Reqs, RequestStep(r) PROVE ChangeInv'
  BY <1>0, <1>1 DEF RequestStep, RequestWithdrawal, CooldownElapses,
     CancelWithdrawal, ApproveRequest, changeVars
<1>2. ASSUME NEW t \in Txns, TxnStep(t) PROVE ChangeInv'
  <2>1. ASSUME NEW rs \in SUBSET requests, NEW inputs \in SUBSET records,
               NEW fee \in Fees, NEW change \in ChangeOutputs(t),
               CommitWithdrawalTx(t, rs, inputs, change, fee)
        PROVE  ChangeInv'
    BY <1>t, <2>1, CommitChange
  <2>2. ASSUME NEW indices \in SUBSET txnInputs[t],
               CommitInputSignatures(t, indices)
        PROVE  ChangeInv'
    BY <1>0, <2>2 DEF CommitInputSignatures, changeVars
  <2>3. CASE FinalizeWithdrawal(t)
    BY <1>0, <2>3 DEF FinalizeWithdrawal, changeVars
  <2>4. CASE ReallocatePresigs(t)
    BY <1>0, <2>4 DEF ReallocatePresigs, changeVars
  <2>5. CASE ConfirmWithdrawal(t)
    BY <1>t, <2>5, ConfirmChange
  <2>6. CASE ArchiveConfirmedWithdrawal(t)
    BY <1>a, <2>6 DEF ArchiveConfirmedWithdrawal
  <2>7. ASSUME NEW rs \in SUBSET Reqs, ArchiveWithdrawalRequests(t, rs)
        PROVE  ChangeInv'
    BY <1>0, <2>7 DEF ArchiveWithdrawalRequests, changeVars
  <2>8. CASE FinishArchiveWithdrawalTxn(t)
    BY <1>a, <2>8 DEF FinishArchiveWithdrawalTxn
  <2> QED
    BY <1>2, <2>1, <2>2, <2>3, <2>4, <2>5, <2>6, <2>7, <2>8 DEF TxnStep
<1>3. ASSUME NEW u \in Utxos, CleanupSpentUtxo(u) PROVE ChangeInv'
  BY <1>t, <1>3 DEF CleanupSpentUtxo, CleanupSpent, withdrawVars, ChangeTypeOK,
     ChangeInv, ChangeProvenance, AllTxns
<1>4. ASSUME NEW t \in Txns, Mine(t) PROVE ChangeInv'
  BY <1>4 DEF Mine, ChangeInv, ChangeProvenance, AllTxns
<1>5. CASE EnvironmentStep
  <2>1. CASE EpochStep \/ SetPaused
    BY <1>0, <1>5, <2>1 DEF EnvironmentStep, EpochStep, SetPaused, changeVars,
       withdrawVars
  <2>2. ASSUME NEW u \in DepositUtxos, CreditDeposit(u) PROVE ChangeInv'
    <3>1. u \in Utxos /\ u \notin ChangeUtxos
      BY HashiAssumption DEF Utxos
    <3> QED
      BY <1>t, <1>5, <2>2, <3>1 DEF EnvironmentStep, CreditDeposit, withdrawVars,
         ChangeTypeOK, ChangeInv, ChangeProvenance, AllTxns
  <2> QED
    BY <1>5, <2>1, <2>2 DEF EnvironmentStep
<1>6. CASE UNCHANGED vars
  BY <1>0, <1>6 DEF vars, withdrawVars, changeVars
<1> QED
  BY <1>1, <1>2, <1>3, <1>4, <1>5, <1>6 DEF Next, WithdrawStep

\* The empty pool holds no change.
LEMMA InitChange == Init => ChangeInv
BY DEF Init, HashiInit, WithdrawInit, ChangeInv, ChangeProvenance, AllTxns

-----------------------------------------------------------------------------
(* All safety invariants of the module, as one inductive invariant.        *)

IInv == TypeOK /\ LockInv /\ RequestInv /\ NonceInv /\ ChangeInv

\* The inductive invariant holds when the package is published.
LEMMA InitIInv == Init => IInv
BY InitTypeOK, InitLocks, InitRequests, InitNonces, InitChange DEF IInv

\* Every step preserves the inductive invariant.
LEMMA StepIInv == IInv /\ [Next]_vars => IInv'
<1>1. LockInv => confirmed \subseteq AllTxns
  BY DEF LockInv
<1> QED
  BY <1>1, StepTypeOK, StepLocks, StepRequests, StepNonces, StepChange DEF IInv

\* The inductive invariant of withdrawals holds in every reachable state, for
\* any number of requests, transactions, outputs and epochs.
THEOREM Inductive == Spec => []IInv
BY InitIInv, StepIInv, PTL DEF Spec

\* Every variable keeps its type, for any number of requests, transactions,
\* deposits and epochs.
THEOREM TypeCorrect == Spec => []TypeOK
<1>1. IInv => TypeOK
  BY DEF IInv
<1> QED
  BY <1>1, Inductive, PTL

\* No outpoint is ever an input of two withdrawal transactions.
THEOREM NoDoubleSpendHolds == Spec => []NoDoubleSpend
<1>1. IInv => NoDoubleSpend
  BY DEF IInv, LockInv
<1> QED
  BY <1>1, Inductive, PTL

\* The pool's locks and the transactions' inputs agree in every reachable
\* state, so confirm_withdrawal never aborts on a missing record and
\* cleanup_spent_utxos never drops a lock that is still needed.
THEOREM LocksAgreeHolds == Spec => []LocksAgree
<1>1. IInv => LocksAgree
  BY DEF IInv, LockInv
<1> QED
  BY <1>1, Inductive, PTL

\* Every request is paid by at most one transaction, and never both paid and
\* refunded.
THEOREM RequestsPaidOnceHolds == Spec => []RequestsPaidOnce
<1>1. IInv => RequestsPaidOnce
  BY DEF IInv, RequestInv
<1> QED
  BY <1>1, Inductive, PTL

\* No presignature is ever handed to two inputs: not within a transaction, not
\* across transactions, not across the allocator's resets.
THEOREM NonceUniqueHolds == Spec => []NonceUnique
<1>1. IInv => NonceUnique
  BY DEF IInv, NonceInv
<1> QED
  BY <1>1, Inductive, PTL

\* The index a pending slot shows was issued to that very slot, in the epoch
\* its batch names.
THEOREM PendingSlotsCurrentHolds == Spec => []PendingSlotsCurrent
<1>1. IInv => PendingSlotsCurrent
  BY DEF IInv, NonceInv
<1> QED
  BY <1>1, Inductive, PTL

\* A change output loses its unconfirmed mark exactly with its producer's
\* confirmation, and only outputs that exist on Bitcoin are spent by a
\* confirmed transaction.
THEOREM ChangeProvenanceHolds == Spec => []ChangeProvenance
<1>1. IInv => ChangeProvenance
  BY DEF IInv, ChangeInv
<1> QED
  BY <1>1, Inductive, PTL

\* Requests are filed only under confirmed transactions and transactions only
\* after all their requests, however archival is chunked.
THEOREM ArchiveOrderHolds == Spec => []ArchiveOrder
<1>1. IInv => ArchiveOrder
  BY DEF IInv, RequestInv
<1> QED
  BY <1>1, Inductive, PTL

\* The supporting facts hold in every reachable state.
THEOREM BookkeepingHolds == Spec => []Bookkeeping
<1>1. IInv => Bookkeeping
  BY DEF IInv, ChangeInv, NonceInv, Bookkeeping
<1> QED
  BY <1>1, Inductive, PTL

\* mpc_signing::record and reallocate: no step turns a signed slot back into a
\* pending one.
LEMMA SlotsSettled ==
  ASSUME TypeOK, NEW t \in Txns, NEW s \in AllTxns, TxnStep(t),
         NEW u \in txnInputs[s], slots[s][u] = SIGNED
  PROVE  slots'[s][u] = SIGNED
<1>0. /\ s \in Txns /\ u \in Utxos
      /\ slots \in [Txns -> [Utxos -> Slot]]
  BY DEF TypeOK, WithdrawTypeOK, AllTxns
<1>1. ASSUME NEW rs \in SUBSET requests, NEW inputs \in SUBSET records,
             NEW fee \in Fees, NEW change \in ChangeOutputs(t),
             CommitWithdrawalTx(t, rs, inputs, change, fee)
      PROVE  slots'[s][u] = SIGNED
  <2>1. s # t
    BY <1>1 DEF CommitWithdrawalTx, FreshTxn, AllTxns
  <2> QED
    BY <1>0, <1>1, <2>1 DEF CommitWithdrawalTx
<1>2. ASSUME NEW indices \in SUBSET txnInputs[t], CommitInputSignatures(t, indices)
      PROVE  slots'[s][u] = SIGNED
  BY <1>0, <1>2 DEF CommitInputSignatures
<1>3. CASE ReallocatePresigs(t)
  <2>1. PendingSlots(t) \in SUBSET Utxos /\ numConsumed \in Nat
    BY DEF PendingSlots, TypeOK, HashiTypeOK, WithdrawTypeOK
  <2>2. PICK f \in Allocations(PendingSlots(t)) :
           slots' = [slots EXCEPT ![t] =
                 [w \in Utxos |-> IF w \in DOMAIN f THEN f[w] ELSE slots[t][w]]]
    BY <1>3 DEF ReallocatePresigs
  <2>3. s = t => u \notin DOMAIN f
    BY <2>1, AllocationsFacts DEF PendingSlots
  <2> QED
    BY <1>0, <2>2, <2>3
<1>4. CASE UNCHANGED slots
  BY <1>4
<1> QED
  BY <1>1, <1>2, <1>3, <1>4 DEF TxnStep, FinalizeWithdrawal, ConfirmWithdrawal,
     ArchiveConfirmedWithdrawal, ArchiveWithdrawalRequests,
     FinishArchiveWithdrawalTxn, signingVars

\* A transaction, once committed, keeps its inputs and requests, and is never
\* forgotten.
LEMMA TxnsSettled ==
  ASSUME TypeOK, NEW t \in Txns, NEW s \in AllTxns, TxnStep(t)
  PROVE  /\ s \in AllTxns'
         /\ txnInputs'[s] = txnInputs[s] /\ txnRequests'[s] = txnRequests[s]
<1>0. /\ s \in Txns
      /\ txnInputs \in [Txns -> SUBSET Utxos]
      /\ txnRequests \in [Txns -> SUBSET Reqs]
  BY DEF TypeOK, WithdrawTypeOK, AllTxns
<1>1. ASSUME NEW rs \in SUBSET requests, NEW inputs \in SUBSET records,
             NEW fee \in Fees, NEW change \in ChangeOutputs(t),
             CommitWithdrawalTx(t, rs, inputs, change, fee)
      PROVE  /\ s \in AllTxns'
             /\ txnInputs'[s] = txnInputs[s] /\ txnRequests'[s] = txnRequests[s]
  BY <1>0, <1>1 DEF CommitWithdrawalTx, FreshTxn, AllTxns
<1>2. ASSUME NEW indices \in SUBSET txnInputs[t], CommitInputSignatures(t, indices)
      PROVE  UNCHANGED txnVars
  BY <1>2 DEF CommitInputSignatures
<1> QED
  BY <1>1, <1>2 DEF TxnStep, FinalizeWithdrawal, ReallocatePresigs,
     ConfirmWithdrawal, ArchiveConfirmedWithdrawal, ArchiveWithdrawalRequests,
     FinishArchiveWithdrawalTxn, MoveToConfirmed, txnVars, AllTxns

\* The pool's part: what was filed as spent stays filed, and a lock is only
\* given up by filing the output as spent.
LEMMA PoolSettled ==
  ASSUME IInv, Next
  PROVE  /\ spentUtxos \subseteq spentUtxos'
         /\ \A u \in records : spentBy[u] # NONE =>
               u \in spentUtxos' \/ (u \in records' /\ spentBy'[u] = spentBy[u])
<1> DEFINE Goal == /\ spentUtxos \subseteq spentUtxos'
                   /\ \A u \in records : spentBy[u] # NONE =>
                         u \in spentUtxos' \/ (u \in records' /\ spentBy'[u] = spentBy[u])
<1>0. records \subseteq Utxos /\ spentBy \in [Utxos -> Txns \cup {NONE}]
  BY DEF IInv, TypeOK, HashiTypeOK, PoolTypeOK
<1>1. ASSUME UNCHANGED <<records, spentBy, spentUtxos>> PROVE Goal
  BY <1>1
<1> USE DEF hashiVars, poolVars
<1>2. ASSUME NEW r \in Reqs, RequestStep(r) PROVE Goal
  BY <1>1, <1>2 DEF RequestStep, RequestWithdrawal, CooldownElapses,
     CancelWithdrawal, ApproveRequest
<1>3. ASSUME NEW t \in Txns, TxnStep(t) PROVE Goal
  <2>1. ASSUME NEW rs \in SUBSET requests, NEW inputs \in SUBSET records,
               NEW fee \in Fees, NEW change \in ChangeOutputs(t),
               CommitWithdrawalTx(t, rs, inputs, change, fee)
        PROVE  Goal
    BY <1>0, <2>1 DEF CommitWithdrawalTx, LockAndInsertPending, IsSpentOrActive
  <2>2. ASSUME NEW indices \in SUBSET txnInputs[t], CommitInputSignatures(t, indices)
        PROVE  Goal
    BY <1>1, <2>2 DEF CommitInputSignatures
  <2> QED
    BY <1>1, <1>3, <2>1, <2>2 DEF TxnStep, FinalizeWithdrawal, ReallocatePresigs,
       ConfirmWithdrawal, MarkSpentAndConfirm, ArchiveConfirmedWithdrawal,
       ArchiveWithdrawalRequests, FinishArchiveWithdrawalTxn
<1>4. ASSUME NEW u \in Utxos, CleanupSpentUtxo(u) PROVE Goal
  BY <1>0, <1>4 DEF CleanupSpentUtxo, CleanupSpent
<1>5. ASSUME NEW t \in Txns, Mine(t) PROVE Goal
  BY <1>1, <1>5 DEF Mine
<1>6. CASE EnvironmentStep
  BY <1>0, <1>1, <1>6 DEF EnvironmentStep, EpochStep, SetPaused, CreditDeposit,
     IsSpentOrActive
<1> QED
  BY <1>2, <1>3, <1>4, <1>5, <1>6 DEF Next, WithdrawStep

\* What is settled stays settled, whatever step is taken.
THEOREM SettledHolds == Spec => Settled
<1>1. IInv /\ [Next]_vars => [SettledStep]_vars
  <2> SUFFICES ASSUME IInv, Next PROVE SettledStep
    OBVIOUS
  <2>1. TypeOK
    BY DEF IInv
  <2>2. ASSUME NEW s \in AllTxns
        PROVE  /\ s \in AllTxns'
               /\ txnInputs'[s] = txnInputs[s] /\ txnRequests'[s] = txnRequests[s]
               /\ \A u \in txnInputs[s] : slots[s][u] = SIGNED => slots'[s][u] = SIGNED
    <3>1. ASSUME NEW t \in Txns, TxnStep(t)
          PROVE  /\ s \in AllTxns'
                 /\ txnInputs'[s] = txnInputs[s] /\ txnRequests'[s] = txnRequests[s]
                 /\ \A u \in txnInputs[s] :
                       slots[s][u] = SIGNED => slots'[s][u] = SIGNED
      BY <2>1, <3>1, TxnsSettled, SlotsSettled
    <3>2. CASE UNCHANGED <<txnVars, signingVars>>
      BY <3>2 DEF txnVars, signingVars, AllTxns
    <3> QED
      BY <3>1, <3>2 DEF Next, WithdrawStep, RequestStep, RequestWithdrawal,
         CooldownElapses, CancelWithdrawal, ApproveRequest, CleanupSpentUtxo, Mine,
         EnvironmentStep, withdrawVars
  <2> QED
    BY <2>2, PoolSettled DEF SettledStep
<1> QED
  BY <1>1, Inductive, PTL DEF Settled, Spec

-----------------------------------------------------------------------------
(* The peg: what the pool gains and loses is what the supply gains and     *)
(* loses.  The sums are over sets of any size.                             *)

pegVars == <<supply, records, amount, spentBy, spentUtxos>>

\* The outputs no withdrawal has been promised, and the donations received.
Free == {u \in records : spentBy[u] = NONE}
Donated == Donations \cap (records \cup spentUtxos)

PegInv == supply \in Int /\ PegExact

PegTypeOK ==
  /\ records \in SUBSET Utxos
  /\ spentUtxos \in SUBSET Utxos
  /\ amount \in [Utxos -> Nat]
  /\ spentBy \in [Utxos -> Txns \cup {NONE}]
  /\ DepositAmount \in [DepositUtxos -> Nat]
  /\ Donations \subseteq DepositUtxos
  /\ DepositUtxos \subseteq Utxos
  /\ IsFiniteSet(Free)
  /\ IsFiniteSet(Donated)

\* The types and the finiteness the sums need.
LEMMA PegTypes == TypeOK => PegTypeOK
<1> SUFFICES ASSUME TypeOK PROVE PegTypeOK
  OBVIOUS
<1>1. /\ records \in SUBSET Utxos
      /\ spentUtxos \in SUBSET Utxos
      /\ amount \in [Utxos -> Nat]
      /\ spentBy \in [Utxos -> Txns \cup {NONE}]
      /\ DepositAmount \in [DepositUtxos -> Nat]
      /\ Donations \subseteq DepositUtxos
      /\ DepositUtxos \subseteq Utxos
  BY HashiAssumption DEF TypeOK, HashiTypeOK, PoolTypeOK, Utxos
<1>2. Free \subseteq Utxos /\ Donated \subseteq Utxos
  BY <1>1 DEF Free, Donated
<1>3. IsFiniteSet(Free) /\ IsFiniteSet(Donated)
  BY <1>2, UtxosFinite, FS_Subset
<1> QED
  BY <1>1, <1>3 DEF PegTypeOK

\* Adding one element to a set adds its value to the sum.
LEMMA TotalAdd ==
  ASSUME NEW f, NEW S, NEW x, x \notin S, IsFiniteSet(S),
         \A y \in S \cup {x} : f[y] \in Nat
  PROVE  Total(f, S \cup {x}) = Total(f, S) + f[x]
<1>1. IsFiniteSet({x}) /\ S \cap {x} = {}
  BY FS_Singleton
<1>2. Total(f, S \cup {x}) = Total(f, S) + Total(f, {x})
  BY <1>1, TotalUnion
<1>3. Total(f, {x}) = f[x]
  BY TotalOne
<1> QED
  BY <1>2, <1>3

\* A deposit's value goes to the supply or to the donations.
LEMMA CreditBacking ==
  ASSUME PegTypeOK, supply \in Int, NEW w \in DepositUtxos, CreditDeposit(w)
  PROVE  /\ supply' \in Int
         /\ Total(DepositAmount, Donated) \in Nat
         /\ Total(DepositAmount, Donated') \in Nat
         /\ supply' + Total(DepositAmount, Donated')
              = supply + Total(DepositAmount, Donated) + DepositAmount[w]
<1>1. /\ w \notin records /\ w \notin spentUtxos
      /\ records' = records \cup {w}
      /\ spentUtxos' = spentUtxos
      /\ supply' = supply + IF w \in Donations THEN 0 ELSE DepositAmount[w]
  BY DEF CreditDeposit, IsSpentOrActive, MintedFor
<1>2. DepositAmount[w] \in Nat
  BY DEF PegTypeOK
<1>3. Total(DepositAmount, Donated) \in Nat
  BY TotalType DEF PegTypeOK, Donated
<1>4. CASE w \in Donations
  <2>1. Donated' = Donated \cup {w} /\ w \notin Donated
    BY <1>1, <1>4 DEF Donated
  <2>2. \A u \in Donated \cup {w} : DepositAmount[u] \in Nat
    BY DEF Donated, PegTypeOK
  <2>3. Total(DepositAmount, Donated \cup {w})
          = Total(DepositAmount, Donated) + DepositAmount[w]
    BY <2>1, <2>2, TotalAdd DEF PegTypeOK
  <2> QED
    BY <1>1, <1>2, <1>3, <1>4, <2>1, <2>3
<1>5. CASE w \notin Donations
  <2>1. Donated' = Donated
    BY <1>1, <1>5 DEF Donated
  <2> QED
    BY <1>1, <1>2, <1>3, <1>5, <2>1
<1> QED
  BY <1>4, <1>5

\* A deposit adds its value to the free outputs as well.
LEMMA CreditPeg ==
  ASSUME PegTypeOK, PegInv, NEW w \in DepositUtxos, CreditDeposit(w)
  PROVE  PegInv'
<1>1. /\ w \notin records
      /\ records' = records \cup {w}
      /\ spentBy' = [spentBy EXCEPT ![w] = NONE]
      /\ amount' = [amount EXCEPT ![w] = DepositAmount[w]]
  BY DEF CreditDeposit, IsSpentOrActive, SatsOf
<1>2. w \in Utxos /\ DepositAmount[w] \in Nat
  BY DEF PegTypeOK
<1>3. Free' = Free \cup {w} /\ w \notin Free
  BY <1>1, <1>2 DEF Free, PegTypeOK
<1>4. /\ \A u \in Free : amount'[u] = amount[u]
      /\ amount'[w] = DepositAmount[w]
      /\ \A u \in Free \cup {w} : amount'[u] \in Nat
  BY <1>1, <1>2, <1>3 DEF Free, PegTypeOK
<1>5. Total(amount', Free \cup {w}) = Total(amount', Free) + amount'[w]
  BY <1>3, <1>4, TotalAdd DEF PegTypeOK
<1>6. Total(amount', Free) = Total(amount, Free)
  BY <1>4, TotalSame
<1>7. Total(amount', Free') = Total(amount, Free) + DepositAmount[w]
  BY <1>3, <1>4, <1>5, <1>6
<1>8. supply \in Int /\ supply + Total(DepositAmount, Donated) = Total(amount, Free)
  BY DEF PegInv, PegExact, TotalAmount, Free, Donated
<1>9. supply' \in Int /\ supply' + Total(DepositAmount, Donated') = Total(amount', Free')
  BY <1>2, <1>7, <1>8, CreditBacking
<1> QED
  BY <1>9 DEF PegInv, PegExact, TotalAmount, Free, Donated

\* What the fee accounting comes to.
AddsUp(rs, inputs, change) ==
  /\ Total(change, DOMAIN change) \in Nat
  /\ Total(ReqAmount, rs) \in Nat
  /\ Total(amount, inputs) \in Nat
  /\ Total(amount, inputs) = Total(change, DOMAIN change) + Total(ReqAmount, rs)

\* new_withdrawal_txn's fee accounting: the inputs carry the change and the
\* full amounts of the requests, whatever part of those goes to miners.
LEMMA FeesAddUp ==
  ASSUME TypeOK, NEW t \in Txns, NEW rs \in SUBSET Reqs,
         NEW inputs \in SUBSET Utxos, NEW fee \in Fees,
         NEW change \in ChangeOutputs(t), FeesBalance(rs, inputs, change, fee)
  PROVE  AddsUp(rs, inputs, change)
<1>1. /\ IsFiniteSet(rs) /\ IsFiniteSet(inputs) /\ IsFiniteSet(DOMAIN change)
      /\ \A u \in DOMAIN change : change[u] \in Nat
      /\ \A u \in inputs : amount[u] \in Nat
      /\ \A r \in rs : ReqAmount[r] \in Nat
  BY ChangeFacts, UtxosFinite, FS_Subset, WithdrawAssumption
     DEF TypeOK, HashiTypeOK, PoolTypeOK
<1>2. /\ Total(change, DOMAIN change) \in Nat
      /\ Total(ReqAmount, rs) \in Nat
      /\ Total(amount, inputs) \in Nat
  BY <1>1, TotalType
<1>3. fee \in Nat
  BY WithdrawAssumption DEF Fees
<1> DEFINE net == [r \in rs |-> ReqAmount[r] - fee]
<1>4. Total(amount, inputs) - (Total(net, rs) + Total(change, DOMAIN change))
        = fee * Cardinality(rs)
  BY DEF FeesBalance, TotalAmount
<1>5. \A r \in rs : net[r] \in Nat /\ ReqAmount[r] = net[r] + fee
  BY <1>1, <1>3, WithdrawAssumption DEF FeesBalance
<1>6. Cardinality(rs) \in Nat
  BY <1>1, FS_CardinalityType
<1> HIDE DEF net
<1>7. Total(net, rs) \in Nat
  BY <1>1, <1>5, TotalType
<1>8. Total(ReqAmount, rs) = Total(net, rs) + fee * Cardinality(rs)
  BY <1>1, <1>3, <1>5, TotalShift
<1> DEFINE share == fee * Cardinality(rs)
<1>9. share \in Nat
  BY <1>3, <1>6
<1> HIDE DEF share
<1>10. /\ Total(amount, inputs) - (Total(net, rs) + Total(change, DOMAIN change)) = share
       /\ Total(ReqAmount, rs) = Total(net, rs) + share
  BY <1>4, <1>8 DEF share
<1> QED
  BY <1>2, <1>7, <1>9, <1>10 DEF AddsUp

\* The escrow burned for a batch is what its requests asked for.
LEMMA EscrowIsAmount ==
  ASSUME RequestInv, NEW rs \in SUBSET requests, \A r \in rs : ~IsCommitted(r)
  PROVE  EscrowOf(rs) = Total(ReqAmount, rs)
<1>1. \A r \in rs : escrow[r] = ReqAmount[r]
  BY DEF RequestInv, RequestsPaidOnce, IsCommitted
<1> QED
  BY <1>1, TotalSame DEF EscrowOf

\* commit_withdrawal_tx takes its inputs out of the free outputs, puts its
\* change in, and burns the difference.
LEMMA CommitPeg ==
  ASSUME TypeOK, RequestInv, PegInv, NEW t \in Txns, NEW rs \in SUBSET requests,
         NEW inputs \in SUBSET records, NEW fee \in Fees,
         NEW change \in ChangeOutputs(t),
         CommitWithdrawalTx(t, rs, inputs, change, fee)
  PROVE  PegInv'
<1>0. PegTypeOK
  BY PegTypes
<1>1. /\ FeesBalance(rs, inputs, change, fee)
      /\ \A r \in rs : ~IsCommitted(r)
      /\ \A u \in inputs : spentBy[u] = NONE
      /\ \A u \in DOMAIN change : u \notin records /\ u \notin spentUtxos
      /\ records' = records \cup DOMAIN change
      /\ amount' = [u \in Utxos |->
                      IF u \in DOMAIN change THEN change[u] ELSE amount[u]]
      /\ spentBy' = [u \in Utxos |->
                        IF u \in inputs THEN t
                        ELSE IF u \in DOMAIN change THEN NONE ELSE spentBy[u]]
      /\ spentUtxos' = spentUtxos
      /\ supply' = supply - EscrowOf(rs)
  BY DEF CommitWithdrawalTx, LockAndInsertPending, IsSpentOrActive
<1>2. /\ DOMAIN change \subseteq Utxos /\ DOMAIN change \subseteq ChangeUtxos
      /\ \A u \in DOMAIN change : change[u] \in Nat
  BY ChangeFacts
<1>3. rs \in SUBSET Reqs /\ inputs \in SUBSET Utxos /\ t # NONE
  BY HashiAssumption DEF TypeOK, WithdrawTypeOK, HashiTypeOK, PoolTypeOK
<1>4. /\ Total(change, DOMAIN change) \in Nat
      /\ Total(ReqAmount, rs) \in Nat
      /\ Total(amount, inputs) \in Nat
      /\ Total(amount, inputs) = Total(change, DOMAIN change) + Total(ReqAmount, rs)
  <2>1. FeesBalance(rs, inputs, change, fee)
    BY <1>1
  <2>2. rs \in SUBSET Reqs /\ inputs \in SUBSET Utxos
    BY <1>3
  <2>3. AddsUp(rs, inputs, change)
    BY <2>1, <2>2, FeesAddUp
  <2> QED
    BY <2>3 DEF AddsUp
<1>5. EscrowOf(rs) = Total(ReqAmount, rs)
  BY <1>1, EscrowIsAmount
<1>6. inputs \subseteq Free
  BY <1>1 DEF Free
<1>7. Free' = (Free \ inputs) \cup DOMAIN change
  BY <1>0, <1>1, <1>2, <1>3 DEF Free, PegTypeOK
<1>8. (Free \ inputs) \cap DOMAIN change = {}
  BY <1>1 DEF Free
<1>9. IsFiniteSet(Free) /\ IsFiniteSet(Free \ inputs) /\ IsFiniteSet(DOMAIN change)
  BY <1>0, <1>2, UtxosFinite, FS_Subset, FS_Difference DEF PegTypeOK
<1>10. /\ \A u \in Free \ inputs : amount'[u] = amount[u]
       /\ \A u \in DOMAIN change : amount'[u] = change[u]
       /\ \A u \in Free : amount[u] \in Nat
       /\ \A u \in (Free \ inputs) \cup DOMAIN change : amount'[u] \in Nat
  BY <1>0, <1>1, <1>2 DEF Free, PegTypeOK
<1>11. Total(amount', (Free \ inputs) \cup DOMAIN change)
         = Total(amount', Free \ inputs) + Total(amount', DOMAIN change)
  BY <1>8, <1>9, <1>10, TotalUnion
<1>12. /\ Total(amount', Free \ inputs) = Total(amount, Free \ inputs)
       /\ Total(amount', DOMAIN change) = Total(change, DOMAIN change)
  BY <1>10, TotalSame
<1>13. Total(amount, Free) = Total(amount, inputs) + Total(amount, Free \ inputs)
  BY <1>6, <1>9, <1>10, TotalSplit
<1>14. Donated' = Donated
  BY <1>1, <1>2, HashiAssumption DEF Donated
<1>15. Total(amount, Free \ inputs) \in Nat /\ Total(DepositAmount, Donated) \in Nat
  BY <1>0, <1>9, <1>10, TotalType DEF PegTypeOK, Donated
<1>16. supply \in Int /\ supply + Total(DepositAmount, Donated) = Total(amount, Free)
  BY DEF PegInv, PegExact, TotalAmount, Free, Donated
<1>17. supply' = supply - Total(ReqAmount, rs)
  BY <1>1, <1>5
<1>18. Total(amount', Free') = Total(amount, Free \ inputs) + Total(change, DOMAIN change)
  BY <1>7, <1>11, <1>12
<1>19. supply' \in Int /\ supply' + Total(DepositAmount, Donated') = Total(amount', Free')
  BY <1>4, <1>13, <1>14, <1>15, <1>16, <1>17, <1>18
<1> QED
  BY <1>19 DEF PegInv, PegExact, TotalAmount, Free, Donated

\* cleanup_spent_utxos drops only outputs that were not free any more.
LEMMA CleanupPeg ==
  ASSUME TypeOK, LockInv, PegInv, NEW w \in Utxos, CleanupSpentUtxo(w)
  PROVE  PegInv'
<1>0. PegTypeOK
  BY PegTypes
<1>1. /\ w \in records /\ spentEpoch[w] # NONE
      /\ records' = records \ {w}
      /\ spentUtxos' = spentUtxos \cup {w}
      /\ spentBy' = [spentBy EXCEPT ![w] = NONE]
      /\ amount' = [amount EXCEPT ![w] = 0]
      /\ supply' = supply
  BY DEF CleanupSpentUtxo, CleanupSpent
<1>2. spentBy[w] \in confirmed /\ NONE \notin confirmed
  BY <1>1, HashiAssumption DEF LockInv, LocksAgree, TypeOK, WithdrawTypeOK
<1>3. Free' = Free /\ w \notin Free
  BY <1>0, <1>1, <1>2 DEF Free, PegTypeOK
<1>4. Donated' = Donated
  BY <1>1 DEF Donated
<1>5. \A u \in Free : amount'[u] = amount[u]
  BY <1>0, <1>1, <1>3 DEF PegTypeOK
<1>6. Total(amount', Free) = Total(amount, Free)
  BY <1>5, TotalSame
<1>7. supply \in Int /\ supply + Total(DepositAmount, Donated) = Total(amount, Free)
  BY DEF PegInv, PegExact, TotalAmount, Free, Donated
<1>8. supply' \in Int /\ supply' + Total(DepositAmount, Donated') = Total(amount', Free')
  BY <1>1, <1>3, <1>4, <1>6, <1>7
<1> QED
  BY <1>8 DEF PegInv, PegExact, TotalAmount, Free, Donated

\* Every step keeps the peg.
LEMMA StepPeg == IInv /\ PegInv /\ [Next]_vars => PegInv'
<1> SUFFICES ASSUME IInv, PegInv, [Next]_vars PROVE PegInv'
  OBVIOUS
<1>0. ASSUME UNCHANGED pegVars PROVE PegInv'
  <2>1. /\ supply' = supply /\ records' = records /\ amount' = amount
        /\ spentBy' = spentBy /\ spentUtxos' = spentUtxos
    BY <1>0 DEF pegVars
  <2> QED
    BY <2>1 DEF PegInv, PegExact, TotalAmount
<1>t. TypeOK /\ LockInv /\ RequestInv /\ PegTypeOK
  BY PegTypes DEF IInv
<1> USE DEF hashiVars, poolVars
<1>1. ASSUME NEW r \in Reqs, RequestStep(r) PROVE PegInv'
  BY <1>0, <1>1 DEF RequestStep, RequestWithdrawal, CooldownElapses,
     CancelWithdrawal, ApproveRequest, pegVars
<1>2. ASSUME NEW t \in Txns, TxnStep(t) PROVE PegInv'
  <2>1. ASSUME NEW rs \in SUBSET requests, NEW inputs \in SUBSET records,
               NEW fee \in Fees, NEW change \in ChangeOutputs(t),
               CommitWithdrawalTx(t, rs, inputs, change, fee)
        PROVE  PegInv'
    BY <1>t, <2>1, CommitPeg
  <2>2. ASSUME NEW indices \in SUBSET txnInputs[t], CommitInputSignatures(t, indices)
        PROVE  PegInv'
    BY <1>0, <2>2 DEF CommitInputSignatures, pegVars
  <2>3. CASE FinalizeWithdrawal(t) \/ ReallocatePresigs(t)
    BY <1>0, <2>3 DEF FinalizeWithdrawal, ReallocatePresigs, pegVars
  <2>4. CASE ConfirmWithdrawal(t)
    BY <1>0, <2>4 DEF ConfirmWithdrawal, MarkSpentAndConfirm, pegVars
  <2>5. CASE ArchiveConfirmedWithdrawal(t) \/ FinishArchiveWithdrawalTxn(t)
    BY <1>0, <2>5 DEF ArchiveConfirmedWithdrawal, FinishArchiveWithdrawalTxn, pegVars
  <2>6. ASSUME NEW rs \in SUBSET Reqs, ArchiveWithdrawalRequests(t, rs)
        PROVE  PegInv'
    BY <1>0, <2>6 DEF ArchiveWithdrawalRequests, pegVars
  <2> QED
    BY <1>2, <2>1, <2>2, <2>3, <2>4, <2>5, <2>6 DEF TxnStep
<1>3. ASSUME NEW u \in Utxos, CleanupSpentUtxo(u) PROVE PegInv'
  BY <1>t, <1>3, CleanupPeg
<1>4. ASSUME NEW t \in Txns, Mine(t) PROVE PegInv'
  BY <1>0, <1>4 DEF Mine, pegVars
<1>5. CASE EnvironmentStep
  <2>1. CASE EpochStep \/ SetPaused
    BY <1>0, <2>1 DEF EpochStep, SetPaused, pegVars
  <2>2. ASSUME NEW u \in DepositUtxos, CreditDeposit(u) PROVE PegInv'
    BY <1>t, <2>2, CreditPeg
  <2> QED
    BY <1>5, <2>1, <2>2 DEF EnvironmentStep
<1>6. CASE UNCHANGED vars
  BY <1>0, <1>6 DEF vars, pegVars
<1> QED
  BY <1>1, <1>2, <1>3, <1>4, <1>5, <1>6 DEF Next, WithdrawStep

\* Nothing is minted and nothing is held when the package is published.
LEMMA InitPeg == Init => PegInv
<1> SUFFICES ASSUME Init PROVE PegInv
  OBVIOUS
<1>1. /\ supply = 0
      /\ {u \in records : spentBy[u] = NONE} = {}
      /\ Donations \cap (records \cup spentUtxos) = {}
  BY DEF Init, HashiInit
<1>2. /\ TotalAmount({u \in records : spentBy[u] = NONE}) = 0
      /\ Total(DepositAmount, Donations \cap (records \cup spentUtxos)) = 0
  BY <1>1, TotalEmpty DEF TotalAmount
<1> QED
  BY <1>1, <1>2 DEF PegInv, PegExact

\* hBTC is backed exactly in every reachable state, for any number of deposits,
\* requests and transactions of any value: no order of mints, burns, locks,
\* unconfirmed change and cleanups creates or loses a satoshi.
THEOREM PegExactHolds == Spec => []PegExact
<1>1. Init => IInv /\ PegInv
  BY InitIInv, InitPeg
<1>2. (IInv /\ PegInv) /\ [Next]_vars => (IInv /\ PegInv)'
  BY StepIInv, StepPeg
<1>3. PegInv => PegExact
  BY DEF PegInv
<1> QED
  BY <1>1, <1>2, <1>3, PTL DEF Spec

-----------------------------------------------------------------------------
(* Deposits and withdrawals together.                                      *)

\* The outpoints the pool remembers, spendable or spent.
Known == records \cup spentUtxos

\* What CreditedOnce rests on: the pool knows the change outputs of every
\* transaction, those seen on Bitcoin included, and every output it credited;
\* only an output seen on Bitcoin is approved, and only in a live request.
DepositInv ==
  /\ DepositTypeOK
  /\ \A t \in AllTxns : txnChange[t] \subseteq Known
  /\ \A u \in onBitcoin : u \in DepositUtxos \/ u \in Known
  /\ \A d \in DReqs : dApproval[d] # NONE =>
        d \in dRequests \cup dProcessed /\ dUtxo[d] \in onBitcoin
  /\ \A d \in dProcessed : dUtxo[d] \in Known
  /\ CreditedOnce

depositOnlyVars == <<dRequests, dProcessed, dDeleted, dUtxo, dApproval, dDelayed,
                     dExpired, dIndexed>>

\* The initial state of the queues satisfies it.
LEMMA InitDeposit == BridgeInit => DepositInv
BY DEF BridgeInit, Init, WithdrawInit, HashiInit, DepositInit, DepositInv,
   DepositTypeOK, CreditedOnce, AllTxns, Known

\* The pool never forgets an outpoint.
LEMMA KnownGrows ==
  ASSUME IInv, [Next]_vars
  PROVE  Known \subseteq Known'
<1>0. ASSUME UNCHANGED <<records, spentUtxos>> PROVE Known \subseteq Known'
  BY <1>0 DEF Known
<1> USE DEF Known, hashiVars, poolVars
<1>1. ASSUME NEW r \in Reqs, RequestStep(r) PROVE Known \subseteq Known'
  BY <1>0, <1>1 DEF RequestStep, RequestWithdrawal, CooldownElapses,
     CancelWithdrawal, ApproveRequest
<1>2. ASSUME NEW t \in Txns, TxnStep(t) PROVE Known \subseteq Known'
  <2>1. ASSUME NEW rs \in SUBSET requests, NEW inputs \in SUBSET records,
               NEW fee \in Fees, NEW change \in ChangeOutputs(t),
               CommitWithdrawalTx(t, rs, inputs, change, fee)
        PROVE  Known \subseteq Known'
    BY <2>1 DEF CommitWithdrawalTx, LockAndInsertPending
  <2>2. ASSUME NEW indices \in SUBSET txnInputs[t], CommitInputSignatures(t, indices)
        PROVE  Known \subseteq Known'
    BY <1>0, <2>2 DEF CommitInputSignatures
  <2> QED
    BY <1>0, <1>2, <2>1, <2>2 DEF TxnStep, FinalizeWithdrawal, ReallocatePresigs,
       ConfirmWithdrawal, MarkSpentAndConfirm, ArchiveConfirmedWithdrawal,
       ArchiveWithdrawalRequests, FinishArchiveWithdrawalTxn
<1>3. ASSUME NEW u \in Utxos, CleanupSpentUtxo(u) PROVE Known \subseteq Known'
  BY <1>3 DEF CleanupSpentUtxo, CleanupSpent
<1>4. ASSUME NEW t \in Txns, Mine(t) PROVE Known \subseteq Known'
  BY <1>0, <1>4 DEF Mine
<1>5. CASE EnvironmentStep
  BY <1>0, <1>5 DEF EnvironmentStep, EpochStep, SetPaused, CreditDeposit
<1>6. CASE UNCHANGED vars
  BY <1>0, <1>6 DEF vars
<1> QED
  BY <1>1, <1>2, <1>3, <1>4, <1>5, <1>6 DEF Next, WithdrawStep

\* commit_withdrawal_tx records every change output it promises, and no step
\* of a transaction changes that list.
LEMMA ChangeIsKnown ==
  ASSUME IInv, [Next]_vars, \A t \in AllTxns : txnChange[t] \subseteq Known
  PROVE  \A t \in AllTxns' : txnChange'[t] \subseteq Known'
<1> DEFINE Goal == \A t \in AllTxns' : txnChange'[t] \subseteq Known'
<1>0. ASSUME UNCHANGED txnVars PROVE Goal
  BY <1>0, KnownGrows DEF txnVars, AllTxns
<1>1. ASSUME NEW t \in txns, MoveToConfirmed(t) PROVE Goal
  BY <1>1, KnownGrows DEF MoveToConfirmed, AllTxns
<1>2. ASSUME NEW t \in Txns, TxnStep(t) PROVE Goal
  <2>1. ASSUME NEW rs \in SUBSET requests, NEW inputs \in SUBSET records,
               NEW fee \in Fees, NEW change \in ChangeOutputs(t),
               CommitWithdrawalTx(t, rs, inputs, change, fee)
        PROVE  Goal
    <3>1. txnChange \in [Txns -> SUBSET Utxos]
      BY DEF IInv, TypeOK, WithdrawTypeOK
    <3>2. /\ AllTxns' = AllTxns \cup {t} /\ t \notin AllTxns
          /\ txnChange' = [txnChange EXCEPT ![t] = DOMAIN change]
          /\ DOMAIN change \subseteq Known'
      BY <2>1 DEF CommitWithdrawalTx, LockAndInsertPending, FreshTxn, AllTxns, Known
    <3>3. \A s \in AllTxns : txnChange'[s] = txnChange[s]
      BY <3>1, <3>2
    <3>4. txnChange'[t] = DOMAIN change
      BY <3>1, <3>2
    <3> QED
      BY <3>2, <3>3, <3>4, KnownGrows
  <2>2. ASSUME NEW indices \in SUBSET txnInputs[t], CommitInputSignatures(t, indices)
        PROVE  Goal
    BY <1>0, <2>2 DEF CommitInputSignatures
  <2>3. CASE FinalizeWithdrawal(t) \/ ConfirmWithdrawal(t)
    BY <2>3, KnownGrows DEF FinalizeWithdrawal, ConfirmWithdrawal, AllTxns
  <2> QED
    BY <1>0, <1>1, <1>2, <2>1, <2>2, <2>3 DEF TxnStep, ReallocatePresigs,
       ArchiveConfirmedWithdrawal, ArchiveWithdrawalRequests,
       FinishArchiveWithdrawalTxn
<1> QED
  BY <1>0, <1>2 DEF Next, WithdrawStep, RequestStep, RequestWithdrawal,
     CooldownElapses, CancelWithdrawal, ApproveRequest, CleanupSpentUtxo, Mine,
     EnvironmentStep, withdrawVars, vars

-----------------------------------------------------------------------------

\* confirm_deposit only ever credits an output a depositor paid: the bridge's
\* own change outputs are known to the pool before anybody can claim them.
LEMMA ConfirmsPaidOutput ==
  ASSUME IInv, DepositInv, NEW d \in DReqs, ConfirmDeposit(d)
  PROVE  /\ dUtxo[d] \in DepositUtxos \cap onBitcoin
         /\ dUtxo[d] \notin Known
<1>1. dApproval[d] # NONE
  BY NoneAssumption, MaxEpochAssumption DEF ConfirmDeposit, CertifiedBy, IInv, TypeOK,
     HashiTypeOK, EpochTypeOK, Epoch
<1>2. dUtxo[d] \in onBitcoin /\ dUtxo[d] \notin Known
  BY <1>1 DEF DepositInv, ConfirmDeposit, CreditDeposit, IsSpentOrActive, Known
<1> QED
  BY <1>2 DEF DepositInv

\* Every step of the bridge is a step of Withdraw.tla's specification or
\* leaves its state alone.
LEMMA StepImplementsWithdraw ==
  IInv /\ DepositInv /\ [BridgeNext]_bridgeVars => [Next]_vars
<1> SUFFICES ASSUME IInv, DepositInv, [BridgeNext]_bridgeVars
             PROVE  Next \/ UNCHANGED vars
  OBVIOUS
<1>1. CASE DepositStep /\ UNCHANGED withdrawVars
  <2>1. ASSUME NEW d \in DReqs, ConfirmDeposit(d) PROVE Next
    BY <1>1, <2>1, ConfirmsPaidOutput DEF ConfirmDeposit, Next, EnvironmentStep
  <2>2. ASSUME UNCHANGED hashiVars PROVE UNCHANGED vars
    BY <1>1, <2>2 DEF vars
  <2> QED
    BY <1>1, <2>1, <2>2 DEF DepositStep, RequestDeposit, ApproveDeposit,
       DeleteExpiredDeposit, DelayElapses, RequestExpires, PayDeposit
<1>2. CASE WithdrawStep
  BY <1>2 DEF Next
<1>3. ASSUME NEW t \in Txns, MineOnBitcoin(t) PROVE Next
  BY <1>3 DEF MineOnBitcoin, Next
<1>4. CASE (EpochStep \/ SetPaused) /\ UNCHANGED withdrawVars
  BY <1>4 DEF Next, EnvironmentStep
<1>5. CASE UNCHANGED bridgeVars
  BY <1>5 DEF bridgeVars
<1> QED
  BY <1>1, <1>2, <1>3, <1>4, <1>5 DEF BridgeNext

-----------------------------------------------------------------------------
(* The deposit queue.                                                      *)

\* The part of DepositInv that speaks of requests only.
QueueInv ==
  /\ DepositTypeOK
  /\ \A u \in onBitcoin : u \in DepositUtxos \/ u \in Known
  /\ \A d \in DReqs : dApproval[d] # NONE =>
        d \in dRequests \cup dProcessed /\ dUtxo[d] \in onBitcoin
  /\ \A d \in dProcessed : dUtxo[d] \in Known
  /\ CreditedOnce

\* Nothing but the deposit queue's own steps can disturb it, as the pool only
\* learns outpoints.
LEMMA QueueUndisturbed ==
  ASSUME QueueInv, UNCHANGED depositOnlyVars, Known \subseteq Known',
         onBitcoin \subseteq onBitcoin', onBitcoin' \in SUBSET Utxos,
         \A u \in onBitcoin' : u \in DepositUtxos \/ u \in Known'
  PROVE  QueueInv'
BY DEF QueueInv, DepositTypeOK, CreditedOnce, depositOnlyVars

\* Every step of the deposit queue keeps QueueInv.
LEMMA DepositStepQueue ==
  ASSUME IInv, DepositInv, DepositStep, Known \subseteq Known'
  PROVE  QueueInv'
<1>0. /\ QueueInv
      /\ epoch \in Epoch /\ NONE \notin Epoch
      /\ Claimable \subseteq Utxos /\ DepositUtxos \subseteq Utxos
  BY NoneAssumption, DepositAssumption DEF IInv, TypeOK, HashiTypeOK, EpochTypeOK,
     DepositInv, QueueInv, Epoch, Utxos
<1>1. ASSUME NEW d \in DReqs, NEW u \in Claimable, RequestDeposit(d, u)
      PROVE  QueueInv'
  <2>1. d \notin dRequests /\ d \notin dProcessed /\ dApproval[d] = NONE
    BY <1>0, <1>1 DEF RequestDeposit, QueueInv
  <2>2. /\ dRequests' = dRequests \cup {d}
        /\ dUtxo' = [dUtxo EXCEPT ![d] = u]
        /\ UNCHANGED <<dProcessed, dDeleted, dApproval, dDelayed, dExpired,
                       dIndexed, onBitcoin>>
    BY <1>1 DEF RequestDeposit
  <2>3. \A e \in DReqs \ {d} : dUtxo'[e] = dUtxo[e]
    BY <1>0, <2>2 DEF QueueInv, DepositTypeOK
  <2>4. DepositTypeOK'
    BY <1>0, <2>2 DEF QueueInv, DepositTypeOK
  <2>5. dProcessed \subseteq DReqs \ {d}
    BY <1>0, <2>1 DEF QueueInv, DepositTypeOK
  <2>6. CreditedOnce'
    BY <1>0, <2>1, <2>2, <2>3, <2>5 DEF QueueInv, CreditedOnce
  <2> QED
    BY <1>0, <2>1, <2>2, <2>3, <2>4, <2>5, <2>6 DEF QueueInv
<1>2. ASSUME NEW d \in DReqs, ApproveDeposit(d) PROVE QueueInv'
  BY <1>0, <1>2 DEF ApproveDeposit, QueueInv, DepositTypeOK, CreditedOnce
<1>3. ASSUME NEW d \in DReqs, ConfirmDeposit(d) PROVE QueueInv'
  <2>1. dUtxo[d] \in DepositUtxos \cap onBitcoin /\ dUtxo[d] \notin Known
    BY <1>3, ConfirmsPaidOutput
  <2>2. /\ d \in dRequests
        /\ dRequests' = dRequests \ {d}
        /\ dProcessed' = dProcessed \cup {d}
        /\ dIndexed' = IF dUtxo[d] \in DepositUtxos \ Donations
                       THEN dIndexed \cup {d} ELSE dIndexed
        /\ UNCHANGED <<dDeleted, dUtxo, dApproval, dDelayed, dExpired, onBitcoin>>
    BY <1>3 DEF ConfirmDeposit
  <2>3. dUtxo[d] \in Known'
    BY <1>3 DEF ConfirmDeposit, CreditDeposit, Known
  <2>4. \A e \in dProcessed : dUtxo[e] # dUtxo[d]
    BY <1>0, <2>1 DEF QueueInv
  <2>5. CreditedOnce'
    BY <1>0, <2>1, <2>2, <2>4 DEF QueueInv, CreditedOnce
  <2>6. DepositTypeOK'
    BY <1>0, <2>2 DEF QueueInv, DepositTypeOK
  <2> QED
    BY <1>0, <2>2, <2>3, <2>5, <2>6 DEF QueueInv
<1>4. ASSUME NEW d \in DReqs, DeleteExpiredDeposit(d) PROVE QueueInv'
  <2>1. /\ d \notin dProcessed /\ d \in dRequests
        /\ dRequests' = dRequests \ {d}
        /\ dDeleted' = dDeleted \cup {d}
        /\ dUtxo' = [dUtxo EXCEPT ![d] = NONE]
        /\ dApproval' = [dApproval EXCEPT ![d] = NONE]
        /\ dDelayed' = dDelayed \ {d}
        /\ dExpired' = dExpired \ {d}
        /\ UNCHANGED <<dProcessed, dIndexed, onBitcoin>>
    BY <1>4 DEF DeleteExpiredDeposit
  <2>2. \A e \in DReqs \ {d} : dUtxo'[e] = dUtxo[e] /\ dApproval'[e] = dApproval[e]
    BY <1>0, <2>1 DEF QueueInv, DepositTypeOK
  <2>3. dProcessed \subseteq DReqs \ {d} /\ dApproval'[d] = NONE
    BY <1>0, <2>1 DEF QueueInv, DepositTypeOK
  <2>4. DepositTypeOK'
    BY <1>0, <2>1 DEF QueueInv, DepositTypeOK
  <2>5. CreditedOnce'
    BY <1>0, <2>1, <2>2, <2>3 DEF QueueInv, CreditedOnce
  <2> QED
    BY <1>0, <2>1, <2>2, <2>3, <2>4, <2>5 DEF QueueInv
<1>5. ASSUME NEW d \in DReqs, DelayElapses(d) PROVE QueueInv'
  BY <1>0, <1>5 DEF DelayElapses, QueueInv, DepositTypeOK, CreditedOnce
<1>6. ASSUME NEW d \in DReqs, RequestExpires(d) PROVE QueueInv'
  BY <1>0, <1>6 DEF RequestExpires, QueueInv, DepositTypeOK, CreditedOnce
<1>7. ASSUME NEW u \in DepositUtxos, PayDeposit(u) PROVE QueueInv'
  BY <1>0, <1>7 DEF PayDeposit, QueueInv, DepositTypeOK, CreditedOnce
<1> QED
  BY <1>1, <1>2, <1>3, <1>4, <1>5, <1>6, <1>7 DEF DepositStep

\* Every step of the bridge keeps DepositInv.
LEMMA StepDeposit ==
  IInv /\ DepositInv /\ [BridgeNext]_bridgeVars => DepositInv'
<1> SUFFICES ASSUME IInv, DepositInv, [BridgeNext]_bridgeVars PROVE DepositInv'
  OBVIOUS
<1>1. [Next]_vars
  BY StepImplementsWithdraw
<1>2. Known \subseteq Known'
  BY <1>1, KnownGrows
<1>3. \A t \in AllTxns' : txnChange'[t] \subseteq Known'
  BY <1>1, ChangeIsKnown DEF DepositInv
<1>4. QueueInv
  BY DEF DepositInv, QueueInv
<1>5. QueueInv'
  <2>1. CASE DepositStep
    BY <2>1, <1>2, DepositStepQueue
  <2>2. CASE UNCHANGED depositVars
    BY <1>2, <1>4, <2>2, QueueUndisturbed DEF depositVars, depositOnlyVars, QueueInv,
       DepositTypeOK
  <2>3. ASSUME NEW t \in Txns, MineOnBitcoin(t) PROVE QueueInv'
    <3>1. /\ t \in txns /\ onBitcoin' = onBitcoin \cup txnChange[t]
          /\ UNCHANGED depositOnlyVars
      BY <2>3 DEF MineOnBitcoin, Mine, depositOnlyVars
    <3>2. txnChange[t] \subseteq Known /\ txnChange[t] \subseteq Utxos
      BY <3>1 DEF DepositInv, AllTxns, IInv, TypeOK, WithdrawTypeOK
    <3> QED
      BY <1>2, <1>4, <3>1, <3>2, QueueUndisturbed DEF QueueInv, DepositTypeOK
  <2> QED
    BY <2>1, <2>2, <2>3 DEF BridgeNext, bridgeVars
<1> QED
  BY <1>3, <1>5 DEF DepositInv, QueueInv

\* The whole invariant of the bridge: Withdraw's, and the deposit queue's.
BridgeInv == IInv /\ DepositInv

\* It holds in every reachable state.
THEOREM BridgeInductive == BridgeSpec => []BridgeInv
<1>1. BridgeInit => BridgeInv
  BY InitIInv, InitDeposit DEF BridgeInit, BridgeInv
<1>2. BridgeInv /\ [BridgeNext]_bridgeVars => BridgeInv'
  BY StepImplementsWithdraw, StepIInv, StepDeposit DEF BridgeInv
<1> QED
  BY <1>1, <1>2, PTL DEF BridgeSpec

\* The bridge implements Withdraw.tla: the deposit side only ever takes the
\* environment steps that the theorems on withdrawals allow for.
THEOREM BridgeRefinesWithdraw == BridgeSpec => ImplementsWithdraw
<1>1. BridgeInit => Init
  BY DEF BridgeInit
<1>2. BridgeInv /\ [BridgeNext]_bridgeVars => [Next]_vars
  BY StepImplementsWithdraw DEF BridgeInv
<1> QED
  BY <1>1, <1>2, BridgeInductive, PTL DEF BridgeSpec, ImplementsWithdraw, Spec

\* No outpoint is credited twice and no change output of the bridge is ever
\* credited as a deposit, for any number of competing requests and epochs.
THEOREM CreditedOnceHolds == BridgeSpec => []CreditedOnce
<1>1. BridgeInv => CreditedOnce
  BY DEF BridgeInv, DepositInv
<1> QED
  BY <1>1, BridgeInductive, PTL

\* Every variable of the bridge keeps its type.
THEOREM BridgeTypeCorrect == BridgeSpec => []BridgeTypeOK
<1>1. BridgeInv => BridgeTypeOK
  BY DEF BridgeInv, IInv, DepositInv, BridgeTypeOK
<1> QED
  BY <1>1, BridgeInductive, PTL

-----------------------------------------------------------------------------
(* Solvency on Bitcoin itself.                                             *)

\* Where outputs are: change exists on Bitcoin exactly when its transaction is
\* mined, a recorded deposit exists there, what is filed as spent was mined,
\* and the pool records no change but that of its transactions.
ChainInv ==
  /\ \A u \in spentUtxos \cap ChangeUtxos : u[1] \in mined
  /\ \A u \in onBitcoin \cap ChangeUtxos : u[1] \in mined
  /\ \A t \in mined : txnChange[t] \subseteq onBitcoin
  /\ records \cap DepositUtxos \subseteq onBitcoin
  /\ \A u \in records \cap ChangeUtxos : u[1] \in AllTxns /\ u \in txnChange[u[1]]

\* The inputs of t carry its change and what its requests asked for.
FundedTxn(t) ==
  Total(amount, txnInputs[t])
    = Total(amount, txnChange[t]) + Total(ReqAmount, txnRequests[t])

SolventInv ==
  /\ supply \in Int
  /\ ChainInv
  /\ \A t \in AllTxns \ mined : FundedTxn(t)
  /\ BitcoinSolvent

\* The types and bookkeeping of BridgeInv that the sums need.
SolventTypeOK ==
  /\ records \in SUBSET Utxos
  /\ spentUtxos \in SUBSET Utxos
  /\ onBitcoin \in SUBSET Utxos
  /\ amount \in [Utxos -> Nat]
  /\ spentBy \in [Utxos -> Txns \cup {NONE}]
  /\ txnInputs \in [Txns -> SUBSET Utxos]
  /\ txnChange \in [Txns -> SUBSET Utxos]
  /\ txnRequests \in [Txns -> SUBSET Reqs]
  /\ AllTxns \subseteq Txns /\ mined \subseteq AllTxns /\ confirmed \subseteq mined
  /\ NONE \notin Txns
  /\ ReqAmount \in [Reqs -> Nat]
  /\ Utxos = DepositUtxos \cup ChangeUtxos /\ DepositUtxos \cap ChangeUtxos = {}
  /\ \A t \in AllTxns : /\ txnChange[t] \subseteq records \cup spentUtxos
                        /\ txnChange[t] \subseteq ChangeUtxos
                        /\ \A u \in txnChange[t] : u[1] = t
  /\ IsFiniteSet(Unspent) /\ IsFiniteSet(Unpaid)
  /\ Unpaid \subseteq Reqs

\* They hold in every state of the bridge.
LEMMA SolventTypes == BridgeInv => SolventTypeOK
<1> SUFFICES ASSUME BridgeInv PROVE SolventTypeOK
  OBVIOUS
<1>1. /\ records \in SUBSET Utxos
      /\ spentUtxos \in SUBSET Utxos
      /\ onBitcoin \in SUBSET Utxos
      /\ amount \in [Utxos -> Nat]
      /\ spentBy \in [Utxos -> Txns \cup {NONE}]
  BY DEF BridgeInv, IInv, TypeOK, HashiTypeOK, PoolTypeOK, DepositInv, DepositTypeOK
<1>2. /\ txnInputs \in [Txns -> SUBSET Utxos]
      /\ txnChange \in [Txns -> SUBSET Utxos]
      /\ txnRequests \in [Txns -> SUBSET Reqs]
      /\ AllTxns \subseteq Txns
  BY DEF BridgeInv, IInv, TypeOK, WithdrawTypeOK, AllTxns
<1>3. /\ mined \subseteq AllTxns /\ confirmed \subseteq mined
      /\ \A t \in AllTxns : txnChange[t] \subseteq {t} \X (1 .. MaxChange)
      /\ \A t \in AllTxns : txnChange[t] \subseteq records \cup spentUtxos
  BY DEF BridgeInv, IInv, ChangeInv, DepositInv, Known
<1>4. \A t \in AllTxns : /\ txnChange[t] \subseteq ChangeUtxos
                         /\ \A u \in txnChange[t] : u[1] = t
  BY <1>2, <1>3 DEF ChangeUtxos
<1>5. Unspent \subseteq Utxos /\ Unpaid \subseteq Reqs
  BY <1>1, <1>2 DEF Unspent, Unpaid
<1>6. IsFiniteSet(Unspent) /\ IsFiniteSet(Unpaid)
  BY <1>5, UtxosFinite, FS_Subset, WithdrawAssumption
<1>7. /\ NONE \notin Txns /\ ReqAmount \in [Reqs -> Nat]
      /\ Utxos = DepositUtxos \cup ChangeUtxos /\ DepositUtxos \cap ChangeUtxos = {}
  BY HashiAssumption, WithdrawAssumption DEF Utxos
<1> QED
  BY <1>1, <1>2, <1>3, <1>4, <1>5, <1>6, <1>7 DEF SolventTypeOK

\* What a transaction that is not mined spends and creates is in the pool's
\* records, and no mined transaction spends it.
LEMMA UnminedIsRecorded ==
  ASSUME BridgeInv, SolventTypeOK, ChainInv, NEW t \in AllTxns \ mined
  PROVE  /\ txnInputs[t] \subseteq records /\ txnChange[t] \subseteq records
         /\ \A u \in txnInputs[t] \cup txnChange[t] : spentBy[u] \notin mined
         /\ \A u \in txnInputs[t] : spentBy[u] = t
<1>1. t \notin confirmed
  BY DEF SolventTypeOK
<1>2. \A u \in txnInputs[t] : u \in records /\ spentBy[u] = t
  BY <1>1 DEF BridgeInv, IInv, LockInv, LocksAgree
<1>3. \A u \in txnChange[t] : u \in records
  BY DEF SolventTypeOK, ChainInv
<1>4. ASSUME NEW u \in txnChange[t], spentBy[u] \in mined PROVE FALSE
  <2>1. spentBy[u] # NONE
    BY <1>4 DEF SolventTypeOK
  <2>2. u \in txnInputs[spentBy[u]]
    BY <1>3, <2>1 DEF BridgeInv, IInv, LockInv, LocksAgree
  <2>3. u \in ChangeUtxos /\ u[1] = t
    BY DEF SolventTypeOK
  <2>4. u[1] \in mined
    BY <1>4, <2>2, <2>3 DEF BridgeInv, IInv, ChangeInv
  <2> QED
    BY <2>3, <2>4
<1> QED
  BY <1>2, <1>3, <1>4

\* A transaction stays funded while the amounts it names stay.
LEMMA FundedFrame ==
  ASSUME NEW t, FundedTxn(t),
         txnInputs'[t] = txnInputs[t], txnChange'[t] = txnChange[t],
         txnRequests'[t] = txnRequests[t],
         \A u \in txnInputs[t] \cup txnChange[t] : amount'[u] = amount[u]
  PROVE  FundedTxn(t)'
<1>1. Total(amount', txnInputs[t]) = Total(amount, txnInputs[t])
  BY TotalSame
<1>2. Total(amount', txnChange[t]) = Total(amount, txnChange[t])
  BY TotalSame
<1>3. Total(amount', txnInputs'[t])
        = Total(amount', txnChange'[t]) + Total(ReqAmount, txnRequests'[t])
  BY <1>1, <1>2 DEF FundedTxn
<1> QED
  BY <1>3 DEF FundedTxn

solventVars == <<supply, records, amount, spentBy, spentUtxos, mined, onBitcoin,
                 txnInputs, txnChange, txnRequests>>

\* Steps that move none of this change nothing, archival of a transaction
\* included.
LEMMA SolventFrame ==
  ASSUME SolventInv, UNCHANGED solventVars, AllTxns' = AllTxns
  PROVE  SolventInv'
<1>1. /\ supply' = supply /\ records' = records /\ amount' = amount
      /\ spentBy' = spentBy /\ spentUtxos' = spentUtxos /\ mined' = mined
      /\ onBitcoin' = onBitcoin /\ txnInputs' = txnInputs
      /\ txnChange' = txnChange /\ txnRequests' = txnRequests
  BY DEF solventVars
<1>2. ChainInv'
  BY <1>1 DEF SolventInv, ChainInv
<1>3. \A t \in AllTxns' \ mined' : FundedTxn(t)'
  BY <1>1 DEF SolventInv, FundedTxn
<1>4. Unspent' = Unspent /\ Unpaid' = Unpaid
  BY <1>1 DEF Unspent, Unpaid
<1>5. BitcoinSolvent'
  BY <1>1, <1>4 DEF SolventInv, BitcoinSolvent, TotalAmount
<1> QED
  BY <1>1, <1>2, <1>3, <1>5 DEF SolventInv

\* confirm_deposit records an output that is on Bitcoin and unspent there.
LEMMA CreditSolvent ==
  ASSUME BridgeInv, SolventTypeOK, SolventInv, NEW w \in DepositUtxos \cap onBitcoin,
         CreditDeposit(w), UNCHANGED <<withdrawVars, onBitcoin>>
  PROVE  SolventInv'
<1>0. PegTypeOK
  BY PegTypes DEF BridgeInv, IInv
<1>1. /\ w \notin records /\ w \notin spentUtxos
      /\ records' = records \cup {w}
      /\ spentUtxos' = spentUtxos
      /\ spentBy' = [spentBy EXCEPT ![w] = NONE]
      /\ amount' = [amount EXCEPT ![w] = DepositAmount[w]]
  BY DEF CreditDeposit, IsSpentOrActive, SatsOf
<1>2. /\ mined' = mined /\ onBitcoin' = onBitcoin /\ txnInputs' = txnInputs
      /\ txnChange' = txnChange /\ txnRequests' = txnRequests /\ AllTxns' = AllTxns
  BY DEF withdrawVars, txnVars, AllTxns
<1>3. w \in Utxos /\ w \notin ChangeUtxos /\ DepositAmount[w] \in Nat
  BY HashiAssumption DEF Utxos
<1>4. ChainInv'
  BY <1>1, <1>2, <1>3 DEF SolventInv, ChainInv
<1>5. \A t \in AllTxns' \ mined' : FundedTxn(t)'
  <2> SUFFICES ASSUME NEW t \in AllTxns \ mined PROVE FundedTxn(t)'
    BY <1>2
  <2>1. \A u \in txnInputs[t] \cup txnChange[t] : u \in records
    BY UnminedIsRecorded DEF SolventInv
  <2>2. \A u \in txnInputs[t] \cup txnChange[t] : amount'[u] = amount[u]
    BY <1>1, <2>1 DEF SolventTypeOK
  <2>3. FundedTxn(t)
    BY DEF SolventInv
  <2> QED
    BY <1>2, <2>2, <2>3, FundedFrame
<1>6. Unspent' = Unspent \cup {w} /\ w \notin Unspent /\ Unpaid' = Unpaid
  BY <1>1, <1>2, <1>3 DEF Unspent, Unpaid, SolventTypeOK
<1>7. /\ \A u \in Unspent : amount'[u] = amount[u]
      /\ amount'[w] = DepositAmount[w]
      /\ \A u \in Unspent \cup {w} : amount'[u] \in Nat
  BY <1>1, <1>3 DEF Unspent, SolventTypeOK
<1>8. Total(amount', Unspent \cup {w}) = Total(amount', Unspent) + amount'[w]
  BY <1>6, <1>7, TotalAdd DEF SolventTypeOK
<1>9. Total(amount', Unspent) = Total(amount, Unspent)
  BY <1>7, TotalSame
<1>10. Total(amount', Unspent') = Total(amount, Unspent) + DepositAmount[w]
  BY <1>6, <1>7, <1>8, <1>9
<1>11. /\ supply \in Int
       /\ Total(amount, Unspent)
            = supply + Total(DepositAmount, Donated) + Total(ReqAmount, Unpaid)
  BY DEF SolventInv, BitcoinSolvent, TotalAmount, Donated
<1>12. Total(ReqAmount, Unpaid) \in Nat
  BY TotalType DEF SolventTypeOK
<1>13. /\ supply' \in Int
       /\ Total(DepositAmount, Donated) \in Nat
       /\ Total(DepositAmount, Donated') \in Nat
       /\ supply' + Total(DepositAmount, Donated')
            = supply + Total(DepositAmount, Donated) + DepositAmount[w]
  BY <1>0, <1>11, CreditBacking
<1>14. Total(amount', Unspent')
         = supply' + Total(DepositAmount, Donated') + Total(ReqAmount, Unpaid')
  BY <1>3, <1>6, <1>10, <1>11, <1>12, <1>13
<1>15. BitcoinSolvent'
  BY <1>14 DEF BitcoinSolvent, TotalAmount, Donated
<1> QED
  BY <1>4, <1>5, <1>13, <1>15 DEF SolventInv

\* commit_withdrawal_tx moves nothing on Bitcoin: what it burns it owes.
LEMMA CommitSolvent ==
  ASSUME BridgeInv, SolventTypeOK, SolventInv, NEW t \in Txns,
         NEW rs \in SUBSET requests, NEW inputs \in SUBSET records,
         NEW fee \in Fees, NEW change \in ChangeOutputs(t),
         CommitWithdrawalTx(t, rs, inputs, change, fee), UNCHANGED onBitcoin
  PROVE  SolventInv'
<1>0. TypeOK /\ RequestInv
  BY DEF BridgeInv, IInv
<1>1. /\ FeesBalance(rs, inputs, change, fee)
      /\ \A r \in rs : ~IsCommitted(r)
      /\ \A u \in inputs : spentBy[u] = NONE
      /\ \A u \in DOMAIN change : u \notin records /\ u \notin spentUtxos
      /\ records' = records \cup DOMAIN change
      /\ amount' = [u \in Utxos |->
                      IF u \in DOMAIN change THEN change[u] ELSE amount[u]]
      /\ spentBy' = [u \in Utxos |->
                        IF u \in inputs THEN t
                        ELSE IF u \in DOMAIN change THEN NONE ELSE spentBy[u]]
      /\ spentUtxos' = spentUtxos
      /\ supply' = supply - EscrowOf(rs)
  BY DEF CommitWithdrawalTx, LockAndInsertPending, IsSpentOrActive
<1>2. /\ t \notin AllTxns
      /\ AllTxns' = AllTxns \cup {t}
      /\ txnInputs' = [txnInputs EXCEPT ![t] = inputs]
      /\ txnChange' = [txnChange EXCEPT ![t] = DOMAIN change]
      /\ txnRequests' = [txnRequests EXCEPT ![t] = rs]
      /\ mined' = mined /\ onBitcoin' = onBitcoin
  BY DEF CommitWithdrawalTx, FreshTxn, AllTxns
<1>3. /\ DOMAIN change \subseteq Utxos /\ DOMAIN change \subseteq ChangeUtxos
      /\ DOMAIN change \subseteq {t} \X (1 .. MaxChange)
      /\ \A u \in DOMAIN change : change[u] \in Nat /\ u[1] = t
  BY ChangeFacts
<1>4. rs \in SUBSET Reqs /\ inputs \in SUBSET Utxos /\ t # NONE /\ t \notin mined
  BY <1>2, HashiAssumption DEF BridgeInv, IInv, TypeOK, WithdrawTypeOK, SolventTypeOK
<1>5. \A s \in AllTxns : /\ txnInputs'[s] = txnInputs[s]
                         /\ txnChange'[s] = txnChange[s]
                         /\ txnRequests'[s] = txnRequests[s]
  BY <1>2 DEF SolventTypeOK
<1>6. txnInputs'[t] = inputs /\ txnChange'[t] = DOMAIN change /\ txnRequests'[t] = rs
  BY <1>2 DEF SolventTypeOK
<1>7. ChainInv'
  BY <1>1, <1>2, <1>3, <1>5, <1>6 DEF SolventInv, ChainInv, SolventTypeOK
<1>8. /\ \A u \in records : amount'[u] = amount[u]
      /\ \A u \in DOMAIN change : amount'[u] = change[u]
  BY <1>1, <1>3 DEF SolventTypeOK
<1>9. AddsUp(rs, inputs, change)
  <2>1. FeesBalance(rs, inputs, change, fee)
    BY <1>1
  <2>2. rs \in SUBSET Reqs /\ inputs \in SUBSET Utxos
    BY <1>4
  <2> QED
    BY <1>0, <2>1, <2>2, FeesAddUp
<1>10. FundedTxn(t)'
  <2>1. Total(amount', inputs) = Total(amount, inputs)
    BY <1>8, TotalSame
  <2>2. Total(amount', DOMAIN change) = Total(change, DOMAIN change)
    BY <1>8, TotalSame
  <2>3. Total(amount', txnInputs'[t])
          = Total(amount', txnChange'[t]) + Total(ReqAmount, txnRequests'[t])
    BY <1>6, <1>9, <2>1, <2>2 DEF AddsUp
  <2> QED
    BY <2>3 DEF FundedTxn
<1>11. \A s \in AllTxns' \ mined' : FundedTxn(s)'
  <2>1. ASSUME NEW s \in AllTxns \ mined PROVE FundedTxn(s)'
    <3>1. \A u \in txnInputs[s] \cup txnChange[s] : u \in records
      BY UnminedIsRecorded DEF SolventInv
    <3>2. \A u \in txnInputs[s] \cup txnChange[s] : amount'[u] = amount[u]
      BY <1>8, <3>1
    <3>3. FundedTxn(s)
      BY DEF SolventInv
    <3> QED
      BY <1>5, <3>2, <3>3, FundedFrame
  <2> QED
    BY <1>2, <1>10, <2>1
<1>12. Unspent' = Unspent
  <2>1. \A u \in DOMAIN change : u \notin onBitcoin
    BY <1>3, <1>4 DEF SolventInv, ChainInv
  <2>2. \A u \in records : spentBy'[u] \in mined <=> spentBy[u] \in mined
    BY <1>1, <1>4 DEF SolventTypeOK
  <2> QED
    BY <1>1, <1>2, <2>1, <2>2 DEF Unspent
<1>13. Unpaid' = Unpaid \cup rs /\ Unpaid \cap rs = {}
  <2>1. Unpaid' = Unpaid \cup rs
    BY <1>2, <1>4, <1>5, <1>6 DEF Unpaid, SolventTypeOK
  <2>2. \A s \in AllTxns : txnRequests[s] \cap rs = {}
    BY <1>0, <1>1, <1>4 DEF SolventTypeOK, RequestInv, RequestsPaidOnce, IsCommitted
  <2> QED
    BY <2>1, <2>2 DEF Unpaid
<1>14. Total(amount', Unspent') = Total(amount, Unspent)
  <2>1. \A u \in Unspent : amount'[u] = amount[u]
    BY <1>8 DEF Unspent
  <2> QED
    BY <1>12, <2>1, TotalSame
<1>15. /\ Total(ReqAmount, Unpaid \cup rs) = Total(ReqAmount, Unpaid) + Total(ReqAmount, rs)
       /\ Total(ReqAmount, Unpaid) \in Nat
  <2>1. IsFiniteSet(rs) /\ IsFiniteSet(Unpaid)
    BY <1>4, WithdrawAssumption, FS_Subset DEF SolventTypeOK
  <2>2. \A r \in Unpaid \cup rs : ReqAmount[r] \in Nat
    BY <1>4 DEF SolventTypeOK
  <2> QED
    BY <1>13, <2>1, <2>2, TotalUnion, TotalType
<1>16. Donated' = Donated
  BY <1>1, <1>3, HashiAssumption DEF Donated
<1>17. EscrowOf(rs) = Total(ReqAmount, rs) /\ Total(ReqAmount, rs) \in Nat
  BY <1>0, <1>1, <1>9, EscrowIsAmount DEF AddsUp
<1>18. /\ supply \in Int
       /\ Total(amount, Unspent)
            = supply + Total(DepositAmount, Donated) + Total(ReqAmount, Unpaid)
  BY DEF SolventInv, BitcoinSolvent, TotalAmount, Donated
<1>19. Total(DepositAmount, Donated) \in Nat
  BY <1>0, PegTypes, TotalType DEF PegTypeOK, Donated
<1>20. supply' = supply - Total(ReqAmount, rs)
  BY <1>1, <1>17
<1>21. /\ supply' \in Int
       /\ Total(amount', Unspent')
            = supply' + Total(DepositAmount, Donated') + Total(ReqAmount, Unpaid')
  BY <1>13, <1>14, <1>15, <1>16, <1>17, <1>18, <1>19, <1>20
<1>22. BitcoinSolvent'
  BY <1>21 DEF BitcoinSolvent, TotalAmount, Donated
<1> QED
  BY <1>7, <1>11, <1>21, <1>22 DEF SolventInv

\* Mining a transaction spends its inputs, all of them on Bitcoin and unspent,
\* creates its change, and pays its requests and its fee.
LEMMA MineSolvent ==
  ASSUME BridgeInv, SolventTypeOK, SolventInv, NEW t \in Txns, MineOnBitcoin(t)
  PROVE  SolventInv'
<1>1. /\ t \in AllTxns \ mined
      /\ \A u \in txnInputs[t] \cap ChangeUtxos : u[1] \in mined
      /\ mined' = mined \cup {t}
      /\ onBitcoin' = onBitcoin \cup txnChange[t]
      /\ txnInputs' = txnInputs /\ txnChange' = txnChange
      /\ txnRequests' = txnRequests /\ AllTxns' = AllTxns
  BY DEF MineOnBitcoin, Mine, AllTxns, txnVars
<1>2. /\ supply' = supply /\ records' = records /\ amount' = amount
      /\ spentBy' = spentBy /\ spentUtxos' = spentUtxos
  BY DEF MineOnBitcoin, Mine, hashiVars, poolVars
<1>3. ChainInv'
  BY <1>1, <1>2 DEF SolventInv, ChainInv, SolventTypeOK
<1>4. \A s \in AllTxns' \ mined' : FundedTxn(s)'
  BY <1>1, <1>2 DEF SolventInv, FundedTxn
<1>5. /\ txnInputs[t] \subseteq records /\ txnChange[t] \subseteq records
      /\ \A u \in txnInputs[t] \cup txnChange[t] : spentBy[u] \notin mined
      /\ \A u \in txnInputs[t] : spentBy[u] = t
  BY <1>1, UnminedIsRecorded DEF SolventInv
<1>6. /\ txnChange[t] \subseteq ChangeUtxos
      /\ \A u \in txnChange[t] : u[1] = t
      /\ t # NONE
  BY <1>1 DEF SolventTypeOK
<1>7. txnInputs[t] \subseteq Unspent
  <2> SUFFICES ASSUME NEW u \in txnInputs[t] PROVE u \in onBitcoin
    BY <1>5 DEF Unspent
  <2>1. CASE u \in DepositUtxos
    BY <1>5, <2>1 DEF SolventInv, ChainInv
  <2>2. CASE u \in ChangeUtxos
    <3>1. u[1] \in mined /\ u \in txnChange[u[1]]
      BY <1>1, <1>5, <2>2 DEF SolventInv, ChainInv
    <3> QED
      BY <3>1 DEF SolventInv, ChainInv
  <2> QED
    BY <1>1, <2>1, <2>2 DEF SolventTypeOK
<1>8. \A u \in txnChange[t] : u \notin onBitcoin
  BY <1>1, <1>6 DEF SolventInv, ChainInv
<1>9. \A u \in records : spentBy[u] = t => u \in txnInputs[t]
  BY <1>6 DEF BridgeInv, IInv, LockInv, LocksAgree
<1>10. \A u \in txnChange[t] : spentBy[u] # t
  BY <1>1, <1>5, <1>6, <1>9
<1>11. Unspent' = (Unspent \ txnInputs[t]) \cup txnChange[t]
  BY <1>1, <1>2, <1>5, <1>9, <1>10 DEF Unspent
<1>12. (Unspent \ txnInputs[t]) \cap txnChange[t] = {}
  BY <1>8 DEF Unspent
<1>13. /\ IsFiniteSet(Unspent) /\ IsFiniteSet(Unspent \ txnInputs[t])
       /\ IsFiniteSet(txnChange[t])
       /\ \A u \in Unspent \cup txnChange[t] : amount[u] \in Nat
  <2>1. txnChange[t] \in SUBSET Utxos /\ Unspent \subseteq Utxos
    BY <1>1 DEF SolventTypeOK, Unspent
  <2> QED
    BY <2>1, UtxosFinite, FS_Subset, FS_Difference DEF SolventTypeOK
<1> DEFINE ins == txnInputs[t]
           outs == txnChange[t]
           reqs == txnRequests[t]
<1>14. Unspent' = (Unspent \ ins) \cup outs /\ (Unspent \ ins) \cap outs = {}
       /\ ins \subseteq Unspent
  BY <1>7, <1>11, <1>12
<1>15. Total(amount, ins) = Total(amount, outs) + Total(ReqAmount, reqs)
  BY <1>1 DEF SolventInv, FundedTxn
<1>16. Unpaid' = Unpaid \ reqs /\ reqs \subseteq Unpaid
  <2>1. \A s \in AllTxns : s # t => txnRequests[s] \cap txnRequests[t] = {}
    BY <1>1 DEF BridgeInv, IInv, RequestInv, RequestsPaidOnce
  <2> QED
    BY <1>1, <2>1 DEF Unpaid
<1>17. /\ IsFiniteSet(Unspent) /\ IsFiniteSet(Unspent \ ins) /\ IsFiniteSet(outs)
       /\ \A u \in Unspent \cup outs : amount[u] \in Nat
  BY <1>13
<1> HIDE DEF ins, outs, reqs
<1>18. Total(amount, (Unspent \ ins) \cup outs)
         = Total(amount, Unspent \ ins) + Total(amount, outs)
  BY <1>14, <1>17, TotalUnion
<1>19. Total(amount, Unspent) = Total(amount, ins) + Total(amount, Unspent \ ins)
  BY <1>14, <1>17, TotalSplit
<1>20. Total(ReqAmount, Unpaid) = Total(ReqAmount, reqs) + Total(ReqAmount, Unpaid \ reqs)
  BY <1>16, TotalSplit DEF SolventTypeOK
<1>21. /\ Total(amount, Unspent \ ins) \in Nat
       /\ Total(amount, outs) \in Nat
       /\ Total(ReqAmount, reqs) \in Nat
       /\ Total(ReqAmount, Unpaid \ reqs) \in Nat
  <2>1. IsFiniteSet(reqs) /\ IsFiniteSet(Unpaid \ reqs)
    BY <1>16, FS_Subset, FS_Difference DEF SolventTypeOK
  <2>2. \A r \in Unpaid : ReqAmount[r] \in Nat
    BY DEF SolventTypeOK
  <2> QED
    BY <1>16, <1>17, <2>1, <2>2, TotalType
<1>22. /\ supply \in Int
       /\ Total(amount, Unspent)
            = supply + Total(DepositAmount, Donated) + Total(ReqAmount, Unpaid)
  BY DEF SolventInv, BitcoinSolvent, TotalAmount, Donated
<1>23. Total(DepositAmount, Donated) \in Nat
  BY PegTypes, TotalType DEF PegTypeOK, Donated, BridgeInv, IInv
<1>24. Donated' = Donated
  BY <1>2 DEF Donated
<1>25. Total(amount', Unspent') = Total(amount, Unspent \ ins) + Total(amount, outs)
  BY <1>2, <1>14, <1>18
<1>26. Total(amount', Unspent')
         = supply' + Total(DepositAmount, Donated') + Total(ReqAmount, Unpaid')
  BY <1>2, <1>15, <1>16, <1>19, <1>20, <1>21, <1>22, <1>23, <1>24, <1>25
<1>27. BitcoinSolvent'
  BY <1>26 DEF BitcoinSolvent, TotalAmount, Donated
<1> QED
  BY <1>2, <1>3, <1>4, <1>22, <1>27 DEF SolventInv

\* cleanup_spent_utxos drops only records that a mined transaction has spent.
LEMMA CleanupSolvent ==
  ASSUME BridgeInv, SolventTypeOK, SolventInv, NEW w \in Utxos,
         CleanupSpentUtxo(w), UNCHANGED onBitcoin
  PROVE  SolventInv'
<1>1. /\ w \in records /\ spentEpoch[w] # NONE
      /\ records' = records \ {w}
      /\ spentUtxos' = spentUtxos \cup {w}
      /\ spentBy' = [spentBy EXCEPT ![w] = NONE]
      /\ amount' = [amount EXCEPT ![w] = 0]
      /\ supply' = supply
  BY DEF CleanupSpentUtxo, CleanupSpent
<1>2. /\ mined' = mined /\ onBitcoin' = onBitcoin /\ txnInputs' = txnInputs
      /\ txnChange' = txnChange /\ txnRequests' = txnRequests /\ AllTxns' = AllTxns
  BY DEF CleanupSpentUtxo, withdrawVars, txnVars, AllTxns
<1>3. spentBy[w] \in confirmed
  BY <1>1 DEF BridgeInv, IInv, LockInv, LocksAgree
<1>4. spentBy[w] \in mined /\ w \in txnInputs[spentBy[w]]
  BY <1>1, <1>3 DEF BridgeInv, IInv, LockInv, LocksAgree, SolventTypeOK
<1>5. w \in ChangeUtxos => w[1] \in mined
  BY <1>4 DEF BridgeInv, IInv, ChangeInv
<1>6. ChainInv'
  BY <1>1, <1>2, <1>5 DEF SolventInv, ChainInv
<1>7. \A t \in AllTxns' \ mined' : FundedTxn(t)'
  <2> SUFFICES ASSUME NEW t \in AllTxns \ mined PROVE FundedTxn(t)'
    BY <1>2
  <2>1. w \notin txnInputs[t] \cup txnChange[t]
    BY <1>4, UnminedIsRecorded DEF SolventInv
  <2>2. txnInputs[t] \cup txnChange[t] \subseteq Utxos
    BY DEF SolventTypeOK
  <2>3. \A u \in txnInputs[t] \cup txnChange[t] : amount'[u] = amount[u]
    BY <1>1, <2>1, <2>2 DEF SolventTypeOK
  <2>4. FundedTxn(t)
    BY DEF SolventInv
  <2> QED
    BY <1>2, <2>3, <2>4, FundedFrame
<1>8. Unspent' = Unspent /\ w \notin Unspent /\ Unpaid' = Unpaid
  BY <1>1, <1>2, <1>4 DEF Unspent, Unpaid, SolventTypeOK
<1>9. \A u \in Unspent : amount'[u] = amount[u]
  BY <1>1, <1>8 DEF Unspent, SolventTypeOK
<1>10. Total(amount', Unspent) = Total(amount, Unspent)
  BY <1>9, TotalSame
<1>11. Donated' = Donated
  BY <1>1 DEF Donated
<1>12. Total(amount', Unspent')
         = supply' + Total(DepositAmount, Donated') + Total(ReqAmount, Unpaid')
  BY <1>1, <1>8, <1>10, <1>11 DEF SolventInv, BitcoinSolvent, TotalAmount, Donated
<1>13. BitcoinSolvent'
  BY <1>12 DEF BitcoinSolvent, TotalAmount, Donated
<1> QED
  BY <1>1, <1>6, <1>7, <1>13 DEF SolventInv

\* A payment the pool does not record yet counts for nothing.
LEMMA PaySolvent ==
  ASSUME SolventTypeOK, SolventInv, NEW w \in DepositUtxos, PayDeposit(w),
         UNCHANGED withdrawVars
  PROVE  SolventInv'
<1>1. /\ w \notin onBitcoin /\ onBitcoin' = onBitcoin \cup {w}
      /\ mined' = mined /\ txnInputs' = txnInputs
      /\ txnChange' = txnChange /\ txnRequests' = txnRequests /\ AllTxns' = AllTxns
  BY DEF PayDeposit, withdrawVars, txnVars, AllTxns
<1>2. /\ supply' = supply /\ records' = records /\ amount' = amount
      /\ spentBy' = spentBy /\ spentUtxos' = spentUtxos
  BY DEF PayDeposit, hashiVars, poolVars
<1>3. w \notin ChangeUtxos /\ w \notin records
  BY <1>1, HashiAssumption DEF SolventInv, ChainInv
<1>4. ChainInv'
  BY <1>1, <1>2, <1>3 DEF SolventInv, ChainInv
<1>5. \A t \in AllTxns' \ mined' : FundedTxn(t)'
  BY <1>1, <1>2 DEF SolventInv, FundedTxn
<1>6. Unspent' = Unspent /\ Unpaid' = Unpaid
  BY <1>1, <1>2, <1>3 DEF Unspent, Unpaid
<1>7. BitcoinSolvent'
  BY <1>2, <1>6 DEF SolventInv, BitcoinSolvent, TotalAmount
<1> QED
  BY <1>2, <1>4, <1>5, <1>7 DEF SolventInv

\* Every step of a withdrawal keeps the bridge solvent.
LEMMA WithdrawStepSolvent ==
  ASSUME BridgeInv, SolventTypeOK, SolventInv, WithdrawStep, UNCHANGED depositVars
  PROVE  SolventInv'
<1>0. onBitcoin' = onBitcoin
  BY DEF depositVars
<1>a. ASSUME NEW t \in txns, MoveToConfirmed(t), UNCHANGED <<mined, hashiVars>>
      PROVE  SolventInv'
  BY <1>0, <1>a, SolventFrame DEF MoveToConfirmed, solventVars, AllTxns, hashiVars,
     poolVars
<1> USE DEF hashiVars, poolVars, txnVars, solventVars
<1>1. ASSUME NEW r \in Reqs, RequestStep(r) PROVE SolventInv'
  BY <1>0, <1>1, SolventFrame DEF RequestStep, RequestWithdrawal, CooldownElapses,
     CancelWithdrawal, ApproveRequest, AllTxns
<1>2. ASSUME NEW t \in Txns, TxnStep(t) PROVE SolventInv'
  <2>1. ASSUME NEW rs \in SUBSET requests, NEW inputs \in SUBSET records,
               NEW fee \in Fees, NEW change \in ChangeOutputs(t),
               CommitWithdrawalTx(t, rs, inputs, change, fee)
        PROVE  SolventInv'
    BY <1>0, <2>1, CommitSolvent
  <2>2. ASSUME NEW indices \in SUBSET txnInputs[t], CommitInputSignatures(t, indices)
        PROVE  SolventInv'
    BY <1>0, <2>2, SolventFrame DEF CommitInputSignatures, AllTxns
  <2>3. CASE FinalizeWithdrawal(t) \/ ReallocatePresigs(t)
    BY <1>0, <2>3, SolventFrame DEF FinalizeWithdrawal, ReallocatePresigs, AllTxns
  <2>4. CASE ConfirmWithdrawal(t)
    BY <1>0, <2>4, SolventFrame DEF ConfirmWithdrawal, MarkSpentAndConfirm, AllTxns
  <2>5. CASE ArchiveConfirmedWithdrawal(t)
    BY <1>a, <2>5 DEF ArchiveConfirmedWithdrawal
  <2>6. CASE FinishArchiveWithdrawalTxn(t)
    BY <1>a, <2>6 DEF FinishArchiveWithdrawalTxn
  <2>7. ASSUME NEW rs \in SUBSET Reqs, ArchiveWithdrawalRequests(t, rs)
        PROVE  SolventInv'
    BY <1>0, <2>7, SolventFrame DEF ArchiveWithdrawalRequests, AllTxns
  <2> QED
    BY <1>2, <2>1, <2>2, <2>3, <2>4, <2>5, <2>6, <2>7 DEF TxnStep
<1>3. ASSUME NEW u \in Utxos, CleanupSpentUtxo(u) PROVE SolventInv'
  BY <1>0, <1>3, CleanupSolvent
<1> QED
  BY <1>1, <1>2, <1>3 DEF WithdrawStep

\* Every step of the bridge keeps it solvent.
LEMMA StepSolvent == BridgeInv /\ SolventInv /\ [BridgeNext]_bridgeVars => SolventInv'
<1> SUFFICES ASSUME BridgeInv, SolventInv, [BridgeNext]_bridgeVars
             PROVE  SolventInv'
  OBVIOUS
<1>t. SolventTypeOK
  BY SolventTypes
<1>0. ASSUME UNCHANGED <<withdrawVars, supply, poolVars, onBitcoin>>
      PROVE  SolventInv'
  <2>1. UNCHANGED solventVars
    BY <1>0 DEF withdrawVars, poolVars, txnVars, solventVars
  <2>2. AllTxns' = AllTxns
    BY <1>0 DEF withdrawVars, txnVars, AllTxns
  <2> QED
    BY <2>1, <2>2, SolventFrame
<1>1. CASE DepositStep /\ UNCHANGED withdrawVars
  <2>1. ASSUME NEW d \in DReqs, ConfirmDeposit(d) PROVE SolventInv'
    <3>1. dUtxo[d] \in DepositUtxos \cap onBitcoin
      BY <2>1, ConfirmsPaidOutput DEF BridgeInv
    <3>2. CreditDeposit(dUtxo[d]) /\ UNCHANGED onBitcoin
      BY <2>1 DEF ConfirmDeposit
    <3> QED
      BY <1>t, <1>1, <3>1, <3>2, CreditSolvent
  <2>2. ASSUME NEW u \in DepositUtxos, PayDeposit(u) PROVE SolventInv'
    BY <1>t, <1>1, <2>2, PaySolvent
  <2>3. ASSUME UNCHANGED <<onBitcoin, hashiVars>> PROVE SolventInv'
    BY <1>0, <1>1, <2>3 DEF hashiVars
  <2> QED
    BY <1>1, <2>1, <2>2, <2>3 DEF DepositStep, RequestDeposit, ApproveDeposit,
       DeleteExpiredDeposit, DelayElapses, RequestExpires
<1>2. CASE WithdrawStep /\ UNCHANGED depositVars
  BY <1>t, <1>2, WithdrawStepSolvent
<1>3. ASSUME NEW t \in Txns, MineOnBitcoin(t) PROVE SolventInv'
  BY <1>t, <1>3, MineSolvent
<1>4. CASE (EpochStep \/ SetPaused) /\ UNCHANGED <<withdrawVars, depositVars>>
  BY <1>0, <1>4 DEF EpochStep, SetPaused, depositVars
<1>5. CASE UNCHANGED bridgeVars
  BY <1>0, <1>5 DEF bridgeVars, vars, hashiVars, depositVars
<1> QED
  BY <1>1, <1>2, <1>3, <1>4, <1>5 DEF BridgeNext

\* Nothing is owed and nothing is held when the package is published.
LEMMA InitSolvent == BridgeInit => SolventInv
<1> SUFFICES ASSUME BridgeInit PROVE SolventInv
  OBVIOUS
<1>1. /\ supply = 0 /\ records = {} /\ spentUtxos = {} /\ onBitcoin = {}
      /\ mined = {} /\ AllTxns = {}
  BY DEF BridgeInit, Init, HashiInit, WithdrawInit, DepositInit, AllTxns
<1>2. /\ Unspent = {} /\ Unpaid = {}
      /\ Donations \cap (records \cup spentUtxos) = {}
  BY <1>1 DEF Unspent, Unpaid
<1>3. BitcoinSolvent
  <2>1. /\ TotalAmount(Unspent) = 0 /\ Total(ReqAmount, Unpaid) = 0
        /\ Total(DepositAmount, Donations \cap (records \cup spentUtxos)) = 0
    BY <1>2, TotalEmpty DEF TotalAmount
  <2> QED
    BY <1>1, <2>1 DEF BitcoinSolvent
<1> QED
  BY <1>1, <1>3 DEF SolventInv, ChainInv

\* What the bridge's keys control on Bitcoin covers the supply, the donations
\* and the committed withdrawals to the satoshi, in every reachable state: for
\* any number of deposits, requests and transactions, whenever Bitcoin mines
\* them and whenever they are confirmed, cleaned up and archived on Sui.
THEOREM BitcoinSolventHolds == BridgeSpec => []BitcoinSolvent
<1>1. BridgeInit => BridgeInv /\ SolventInv
  BY InitIInv, InitDeposit, InitSolvent DEF BridgeInit, BridgeInv
<1>2. BridgeInv /\ [BridgeNext]_bridgeVars => BridgeInv'
  BY StepImplementsWithdraw, StepIInv, StepDeposit DEF BridgeInv
<1>3. SolventInv => BitcoinSolvent
  BY DEF SolventInv
<1> QED
  BY <1>1, <1>2, <1>3, StepSolvent, PTL DEF BridgeSpec

=============================================================================
