------------------------------ MODULE Withdraw ------------------------------
(***************************************************************************)
(* Withdrawals on chain: btc/withdraw.move, btc/withdrawal_queue.move and  *)
(* core/mpc_signing.move.                                                  *)
(*                                                                         *)
(* A request escrows hBTC; the committee approves it; a commitment burns   *)
(* the escrow of a batch of requests, locks the inputs of one Bitcoin      *)
(* transaction and allocates one presignature per input; signatures arrive *)
(* in any order and over several epochs; the guardian signs; the Bitcoin   *)
(* transaction is mined and confirmed; bookkeeping is archived in chunks.  *)
(*                                                                         *)
(* Abstracted:                                                             *)
(*  - a certificate of the current committee may exist for any message at  *)
(*    any time, except that the committee confirms a withdrawal only after *)
(*    it saw it mined (crates/hashi/src/withdrawals.rs); duplicates and    *)
(*    delays are covered, because every certificate can be submitted in    *)
(*    every later state of the epoch it was signed in;                     *)
(*  - selected_utxos and request_ids are sets: a repeated element aborts   *)
(*    in lock and in commit_requests;                                      *)
(*  - time is the set of requests whose cancellation cooldown has passed;  *)
(*  - governance may change the withdrawal minimum between any two steps:  *)
(*    each step reads one of WithdrawalMinimums.                           *)
(***************************************************************************)
EXTENDS Hashi

CONSTANTS
    Reqs,                 \* ids of WithdrawalRequest objects
    ReqAmount,            \* [Reqs -> Nat], the satoshis asked for
    WithdrawalMinimums,   \* values bitcoin_withdrawal_minimum may have
    Dust,                 \* DUST_RELAY_MIN_VALUE
    SIGNED                \* a slot holding MpcSig::Signed

ASSUME WithdrawAssumption ==
    /\ ReqAmount \in [Reqs -> Nat]
    /\ WithdrawalMinimums \subseteq Nat
    /\ Dust \in Nat
    /\ \A m \in WithdrawalMinimums : m >= Dust + 1
    /\ NONE \notin Reqs
    /\ SIGNED \notin Nat \cup {NONE}
    /\ IsFiniteSet(Reqs)

VARIABLES
    requests,        \* keys of WithdrawalRequestQueue.requests
    processed,       \* keys of .processed
    cancelled,       \* ids of the requests destroyed by a cancellation
    matured,         \* requests whose cancellation cooldown has passed
    indexed,         \* requests in their sender's user_requests bag
    escrow,          \* WithdrawalRequest.btc
    approvalEpoch,   \* the epoch of WithdrawalRequest.approval_cert
    reqTxn,          \* WithdrawalRequest.withdrawal_txn_id
    txns,            \* keys of .withdrawal_txns
    confirmedTxns,   \* keys of .confirmed_txns
    txnRequests,     \* WithdrawalTransaction.request_ids
    txnInputs,       \* WithdrawalTransaction.inputs
    txnChange,       \* the outpoints of WithdrawalTransaction.change_outputs
    slots,           \* SigningBatch.signatures, one slot per input
    batchEpoch,      \* SigningBatch.epoch
    guardianSigned,  \* transactions with guardian_signatures
    confirmed,       \* transactions with confirmed_timestamp_ms
    mined,           \* external: transactions in the Bitcoin chain
    issued           \* history: every presignature ever handed to an input

requestVars == <<requests, processed, cancelled, matured, indexed, escrow,
                 approvalEpoch, reqTxn>>
signingVars == <<slots, batchEpoch, issued>>
txnVars == <<txns, confirmedTxns, txnRequests, txnInputs, txnChange,
             guardianSigned, confirmed>>
withdrawVars == <<requestVars, signingVars, txnVars, mined>>
vars == <<hashiVars, withdrawVars>>

Slot == Nat \cup {SIGNED, NONE}

Issue == [epoch : Epoch, index : Nat, txn : Txns, input : Utxos]

WithdrawTypeOK ==
    /\ requests \in SUBSET Reqs
    /\ processed \in SUBSET Reqs
    /\ cancelled \in SUBSET Reqs
    /\ matured \in SUBSET Reqs
    /\ indexed \in SUBSET Reqs
    /\ escrow \in [Reqs -> Nat]
    /\ approvalEpoch \in [Reqs -> Epoch \cup {NONE}]
    /\ reqTxn \in [Reqs -> Txns \cup {NONE}]
    /\ txns \in SUBSET Txns
    /\ confirmedTxns \in SUBSET Txns
    /\ txnRequests \in [Txns -> SUBSET Reqs]
    /\ txnInputs \in [Txns -> SUBSET Utxos]
    /\ txnChange \in [Txns -> SUBSET Utxos]
    /\ slots \in [Txns -> [Utxos -> Slot]]
    /\ batchEpoch \in [Txns -> Epoch \cup {NONE}]
    /\ guardianSigned \in SUBSET Txns
    /\ confirmed \in SUBSET Txns
    /\ mined \in SUBSET Txns
    /\ issued \in SUBSET Issue

\* Every variable keeps its type.
TypeOK == HashiTypeOK /\ WithdrawTypeOK

\* withdrawal_queue::create
WithdrawInit ==
    /\ requests = {} /\ processed = {} /\ cancelled = {}
    /\ matured = {} /\ indexed = {}
    /\ escrow = [r \in Reqs |-> 0]
    /\ approvalEpoch = [r \in Reqs |-> NONE]
    /\ reqTxn = [r \in Reqs |-> NONE]
    /\ txns = {} /\ confirmedTxns = {}
    /\ txnRequests = [t \in Txns |-> {}]
    /\ txnInputs = [t \in Txns |-> {}]
    /\ txnChange = [t \in Txns |-> {}]
    /\ slots = [t \in Txns |-> [u \in Utxos |-> NONE]]
    /\ batchEpoch = [t \in Txns |-> NONE]
    /\ guardianSigned = {} /\ confirmed = {}
    /\ mined = {}
    /\ issued = {}

Init == HashiInit /\ WithdrawInit

-----------------------------------------------------------------------------
(* Queries of withdrawal_queue.move and mpc_signing.move.                  *)

FreshRequest(r) == r \notin requests \cup processed \cup cancelled

FreshTxn(t) == t \notin txns \cup confirmedTxns

\* Mutant: a request counts as committed only once it is archived.
IsArchived(r) == r \in processed

IsCommitted(r) == reqTxn[r] # NONE

\* Mutant: signed inputs count as pending, too.
AllSlots(t) == txnInputs[t]

PendingSlots(t) == {u \in txnInputs[t] : slots[t][u] # SIGNED}

\* withdrawal_queue::txn_fully_signed
FullySigned(t) == PendingSlots(t) = {} /\ t \in guardianSigned

\* The hBTC held by the requests of rs.
EscrowOf(rs) == Total(escrow, rs)

TotalEscrow == EscrowOf(Reqs)

\* Mutant: the block starts one index too early.
AllocationsOneBefore(S) ==
    {f \in [S -> (numConsumed - 1) .. (numConsumed + Cardinality(S) - 2)] :
        \A u, w \in S : f[u] = f[w] => u = w}

\* Mutant: the block reaches one index too far.
AllocationsOnePast(S) ==
    {f \in [S -> numConsumed .. (numConsumed + Cardinality(S))] :
        \A u, w \in S : f[u] = f[w] => u = w}

\* PresigAllocator::allocate: the inputs of S get the next contiguous block of
\* indices, in the order the caller lists them.
Allocations(S) ==
    {f \in [S -> numConsumed .. (numConsumed + Cardinality(S) - 1)] :
        \A u, w \in S : f[u] = f[w] => u = w}

Issues(t, f) ==
    {[epoch |-> epoch, index |-> f[u], txn |-> t, input |-> u] : u \in DOMAIN f}

-----------------------------------------------------------------------------
(* Requests.                                                               *)

\* withdraw::request_withdrawal: hBTC that somebody holds moves into escrow.
RequestWithdrawal(r) ==
    /\ ~paused
    /\ FreshRequest(r)
    /\ \E minimum \in WithdrawalMinimums : ReqAmount[r] >= minimum
    /\ TotalEscrow + ReqAmount[r] <= supply
    /\ requests' = requests \cup {r}
    /\ indexed' = indexed \cup {r}
    /\ escrow' = [escrow EXCEPT ![r] = ReqAmount[r]]
    /\ UNCHANGED <<processed, cancelled, matured, approvalEpoch, reqTxn,
                   signingVars, txnVars, mined, hashiVars>>

\* Sui's clock reaches the end of r's cancellation cooldown.
CooldownElapses(r) ==
    /\ r \in requests \ matured
    /\ matured' = matured \cup {r}
    /\ UNCHANGED <<requests, processed, cancelled, indexed, escrow, approvalEpoch,
                   reqTxn, signingVars, txnVars, mined, hashiVars>>

\* withdraw::cancel_withdrawal by the requester; works while paused and during
\* a reconfiguration.
CancelWithdrawal(r) ==
    /\ r \in requests
    /\ ~IsCommitted(r)
    /\ r \in matured
    /\ requests' = requests \ {r}
    /\ cancelled' = cancelled \cup {r}
    /\ matured' = matured \ {r}
    /\ indexed' = indexed \ {r}
    /\ escrow' = [escrow EXCEPT ![r] = 0]
    /\ approvalEpoch' = [approvalEpoch EXCEPT ![r] = NONE]
    /\ UNCHANGED <<processed, reqTxn, signingVars, txnVars, mined, hashiVars>>

\* withdraw::approve_request
ApproveRequest(r) ==
    /\ Operational
    /\ r \in requests
    /\ ~IsCommitted(r)
    /\ approvalEpoch[r] # NONE => approvalEpoch[r] < epoch
    /\ approvalEpoch' = [approvalEpoch EXCEPT ![r] = epoch]
    /\ UNCHANGED <<requests, processed, cancelled, matured, indexed, escrow,
                   reqTxn, signingVars, txnVars, mined, hashiVars>>

-----------------------------------------------------------------------------
(* Transactions.                                                           *)

\* The shares of the miner fee some minimum allows (worst_case_network_fee).
Fees == UNION {0 .. (minimum - Dust) : minimum \in WithdrawalMinimums}

\* The change outputs t may have: no more than MaxChange trailing outputs.
ChangeOutputs(t) ==
    UNION {[{t} \X (1 .. k) -> 0 .. MaxSats] : k \in 0 .. MaxChange}

\* Mutant: the miner fee has an upper bound only.
FeesBounded(rs, inputs, change, fee) ==
    LET paid == Total([r \in rs |-> ReqAmount[r] - fee], rs)
        back == Total(change, DOMAIN change)
    IN  /\ TotalAmount(inputs) - (paid + back) <= fee * Cardinality(rs)
        /\ \E minimum \in WithdrawalMinimums : fee <= minimum - Dust
        /\ \A r \in rs : ReqAmount[r] >= fee + Dust

\* The fee accounting of withdrawal_queue::new_withdrawal_txn: what the inputs
\* carry beyond the outputs is the miner fee, split evenly over the requests,
\* each of which is paid its amount less its share.
FeesBalance(rs, inputs, change, fee) ==
    LET paid == Total([r \in rs |-> ReqAmount[r] - fee], rs)
        back == Total(change, DOMAIN change)
    IN  /\ TotalAmount(inputs) - (paid + back) = fee * Cardinality(rs)
        /\ \E minimum \in WithdrawalMinimums : fee <= minimum - Dust
        /\ \A r \in rs : ReqAmount[r] >= fee + Dust

\* withdraw::commit_withdrawal_tx
CommitWithdrawalTx(t, rs, inputs, change, fee) ==
    /\ Operational
    /\ FreshTxn(t)
    /\ rs # {} /\ inputs # {}
    /\ rs \subseteq requests
    /\ \A r \in rs : approvalEpoch[r] # NONE /\ ~IsCommitted(r)
    /\ FeesBalance(rs, inputs, change, fee)
    /\ LockAndInsertPending(t, inputs, change)
    /\ \E f \in Allocations(inputs) :
          /\ slots' = [slots EXCEPT ![t] =
                          [u \in Utxos |-> IF u \in inputs THEN f[u] ELSE NONE]]
          /\ issued' = issued \cup Issues(t, f)
    /\ numConsumed' = numConsumed + Cardinality(inputs)
    /\ batchEpoch' = [batchEpoch EXCEPT ![t] = epoch]
    /\ supply' = supply - EscrowOf(rs)
    /\ escrow' = [r \in Reqs |-> IF r \in rs THEN 0 ELSE escrow[r]]
    /\ reqTxn' = [r \in Reqs |-> IF r \in rs THEN t ELSE reqTxn[r]]
    /\ txns' = txns \cup {t}
    /\ txnRequests' = [txnRequests EXCEPT ![t] = rs]
    /\ txnInputs' = [txnInputs EXCEPT ![t] = inputs]
    /\ txnChange' = [txnChange EXCEPT ![t] = DOMAIN change]
    /\ UNCHANGED <<requests, processed, cancelled, matured, indexed, approvalEpoch,
                   confirmedTxns, guardianSigned, confirmed, mined,
                   epochVars, paused>>

\* withdraw::commit_input_signatures: first writer wins; any epoch.
CommitInputSignatures(t, indices) ==
    /\ Operational
    /\ t \in txns
    /\ ~FullySigned(t)
    /\ indices \subseteq txnInputs[t]
    /\ slots' = [slots EXCEPT ![t] =
                    [u \in Utxos |-> IF u \in indices THEN SIGNED ELSE slots[t][u]]]
    /\ UNCHANGED <<batchEpoch, issued, requestVars, txnVars, mined, hashiVars>>

\* withdraw::finalize_withdrawal
FinalizeWithdrawal(t) ==
    /\ Operational
    /\ t \in txns
    /\ ~FullySigned(t)
    /\ PendingSlots(t) = {}
    /\ guardianSigned' = guardianSigned \cup {t}
    /\ UNCHANGED <<txns, confirmedTxns, txnRequests, txnInputs, txnChange,
                   confirmed, requestVars, signingVars, mined, hashiVars>>

\* Mutant: the batch is relabelled and keeps its presignatures.
RelabelPresigs(t) ==
    /\ Operational
    /\ t \in txns
    /\ batchEpoch[t] # epoch
    /\ batchEpoch' = [batchEpoch EXCEPT ![t] = epoch]
    /\ UNCHANGED <<slots, issued, requestVars, txnVars, mined, hashiVars>>

\* withdraw::reallocate_presigs, permissionless: a batch of an earlier epoch
\* gets fresh presignatures for every slot still pending.
ReallocatePresigs(t) ==
    /\ Operational
    /\ t \in txns
    /\ batchEpoch[t] # epoch
    /\ \E f \in Allocations(PendingSlots(t)) :
          /\ slots' = [slots EXCEPT ![t] =
                 [u \in Utxos |-> IF u \in DOMAIN f THEN f[u] ELSE slots[t][u]]]
          /\ issued' = issued \cup Issues(t, f)
    /\ numConsumed' = numConsumed + Cardinality(PendingSlots(t))
    /\ batchEpoch' = [batchEpoch EXCEPT ![t] = epoch]
    /\ UNCHANGED <<requestVars, txnVars, mined, epochVars, paused, supply, poolVars>>

\* The Bitcoin network mines a committed transaction once every input it
\* spends exists on Bitcoin.
Mine(t) ==
    /\ t \in txns \ mined
    /\ \A u \in txnInputs[t] \cap ChangeUtxos : u[1] \in mined
    /\ mined' = mined \cup {t}
    /\ UNCHANGED <<requestVars, signingVars, txnVars, hashiVars>>

\* withdraw::confirm_withdrawal, not gated on a pending reconfiguration.
ConfirmWithdrawal(t) ==
    /\ ~paused
    /\ HasCommittee(epoch)
    /\ t \in mined
    /\ t \in txns
    /\ FullySigned(t)
    /\ t \notin confirmed
    /\ confirmed' = confirmed \cup {t}
    /\ MarkSpentAndConfirm(txnInputs[t], txnChange[t])
    /\ UNCHANGED <<txns, confirmedTxns, txnRequests, txnInputs, txnChange,
                   guardianSigned, requestVars, signingVars, mined,
                   epochVars, paused, supply, numConsumed>>

-----------------------------------------------------------------------------
(* Archival and cleanup, permissionless and gated on nothing but a         *)
(* confirmation.                                                           *)

\* Mutant: a request that an earlier chunk took is an error.
ArchiveLiveRequests(t, rs) ==
    /\ \A r \in rs : r \in requests /\ reqTxn[r] = t
    /\ requests' = requests \ rs
    /\ processed' = processed \cup rs

\* archive_request for each id of rs that is still a live request: the request
\* must be linked to t.
ArchiveRequests(t, rs) ==
    /\ \A r \in rs \cap requests : reqTxn[r] = t
    /\ requests' = requests \ rs
    /\ processed' = processed \cup (rs \cap requests)

MoveToConfirmed(t) ==
    /\ txns' = txns \ {t}
    /\ confirmedTxns' = confirmedTxns \cup {t}
    /\ UNCHANGED <<txnRequests, txnInputs, txnChange, guardianSigned, confirmed>>

\* withdraw::archive_confirmed_withdrawals
ArchiveConfirmedWithdrawal(t) ==
    /\ t \in txns
    /\ t \in confirmed
    /\ ArchiveRequests(t, txnRequests[t])
    /\ MoveToConfirmed(t)
    /\ UNCHANGED <<cancelled, matured, indexed, escrow, approvalEpoch, reqTxn,
                   signingVars, mined, hashiVars>>

\* withdraw::archive_withdrawal_requests, for a chunk the caller chooses.
ArchiveWithdrawalRequests(t, rs) ==
    /\ t \in txns
    /\ t \in confirmed
    /\ ArchiveRequests(t, rs)
    /\ UNCHANGED <<cancelled, matured, indexed, escrow, approvalEpoch, reqTxn,
                   txnVars, signingVars, mined, hashiVars>>

\* Mutant: the transaction is filed with requests still live.
FinishArchiveEarly(t) ==
    /\ t \in txns
    /\ t \in confirmed
    /\ MoveToConfirmed(t)
    /\ UNCHANGED <<requestVars, signingVars, mined, hashiVars>>

\* withdraw::finish_archive_withdrawal_txns
FinishArchiveWithdrawalTxn(t) ==
    /\ t \in txns
    /\ t \in confirmed
    /\ txnRequests[t] \subseteq processed
    /\ MoveToConfirmed(t)
    /\ UNCHANGED <<requestVars, signingVars, mined, hashiVars>>

\* withdraw::cleanup_spent_utxos
CleanupSpentUtxo(u) ==
    /\ CleanupSpent(u)
    /\ UNCHANGED <<withdrawVars, epochVars, paused, supply, numConsumed>>

-----------------------------------------------------------------------------

RequestStep(r) ==
    \/ RequestWithdrawal(r)
    \/ CooldownElapses(r)
    \/ CancelWithdrawal(r)
    \/ ApproveRequest(r)

TxnStep(t) ==
    \/ \E rs \in SUBSET requests, inputs \in SUBSET records, fee \in Fees,
          change \in ChangeOutputs(t) :
             CommitWithdrawalTx(t, rs, inputs, change, fee)
    \/ \E indices \in SUBSET txnInputs[t] : CommitInputSignatures(t, indices)
    \/ FinalizeWithdrawal(t)
    \/ ReallocatePresigs(t)
    \/ ConfirmWithdrawal(t)
    \/ ArchiveConfirmedWithdrawal(t)
    \/ \E rs \in SUBSET Reqs : ArchiveWithdrawalRequests(t, rs)
    \/ FinishArchiveWithdrawalTxn(t)

WithdrawStep ==
    \/ \E r \in Reqs : RequestStep(r)
    \/ \E t \in Txns : TxnStep(t)
    \/ \E u \in Utxos : CleanupSpentUtxo(u)

\* The steps of the rest of the system: the epoch machine, pausing, and the
\* confirmation of a deposit, of which only the effect on the pool shows.
EnvironmentStep ==
    /\ \/ EpochStep
       \/ SetPaused
       \/ \E u \in DepositUtxos :
             /\ Operational
             /\ CreditDeposit(u)
             /\ UNCHANGED <<epochVars, paused, numConsumed>>
    /\ UNCHANGED withdrawVars

Next == WithdrawStep \/ (\E t \in Txns : Mine(t)) \/ EnvironmentStep

Spec == Init /\ [][Next]_vars

\* What the leader of the moment does for t at each checkpoint: a batch of an
\* earlier epoch is reallocated before anything is signed, the pending inputs
\* are signed with the presignatures of the current epoch only, and the rest
\* follows (crates/hashi/src/leader/withdrawal_transactions.rs,
\* process_unsigned_withdrawal_txn; leader/garbage_collection.rs).
LeaderStep(t) ==
    \/ PendingSlots(t) # {} /\ ReallocatePresigs(t)
    \/ batchEpoch[t] = epoch /\ CommitInputSignatures(t, PendingSlots(t))
    \/ FinalizeWithdrawal(t)
    \/ ConfirmWithdrawal(t)
    \/ ArchiveConfirmedWithdrawal(t)

\* Leaders rotate and retry at every checkpoint; Bitcoin mines what it can.
FairSpec ==
    /\ Spec
    /\ \A t \in Txns : WF_vars(LeaderStep(t)) /\ WF_vars(Mine(t))

-----------------------------------------------------------------------------
(* Properties.                                                             *)

AllTxns == txns \cup confirmedTxns

\* No outpoint is an input of two withdrawal transactions, however locks,
\* confirmations, cleanups and re-insertions interleave.
NoDoubleSpend ==
    \A s, t \in AllTxns : s # t => txnInputs[s] \cap txnInputs[t] = {}

\* The pool's locks and the transactions' inputs agree: a transaction that is
\* not confirmed holds the lock on every one of its inputs, so confirming it
\* cannot abort on a missing record, a locked record belongs to the
\* transaction it names, and a confirmed transaction's inputs stay marked or
\* filed as spent.
LocksAgree ==
    /\ \A t \in AllTxns : \A u \in txnInputs[t] :
          \/ u \in records /\ spentBy[u] = t
          \/ u \in spentUtxos /\ t \in confirmed
    /\ \A u \in records : spentBy[u] # NONE =>
          spentBy[u] \in AllTxns /\ u \in txnInputs[spentBy[u]]
    /\ \A u \in records : spentEpoch[u] # NONE <=> spentBy[u] \in confirmed
    /\ records \cap spentUtxos = {}

\* Every request is paid by at most one transaction, and request and
\* transaction name each other: a cancelled request is never paid, a paid one
\* never refunded (its escrow is burned), and archival never meets a request
\* that is linked elsewhere or missing.
RequestsPaidOnce ==
    /\ \A s, t \in AllTxns : s # t => txnRequests[s] \cap txnRequests[t] = {}
    /\ \A t \in AllTxns : \A r \in txnRequests[t] :
          r \in requests \cup processed /\ reqTxn[r] = t
    /\ \A r \in Reqs : reqTxn[r] # NONE =>
          /\ reqTxn[r] \in AllTxns /\ r \in txnRequests[reqTxn[r]]
          /\ escrow[r] = 0
    /\ \A r \in requests : reqTxn[r] = NONE => escrow[r] = ReqAmount[r]
    /\ cancelled \cap (requests \cup processed) = {}

\* A presignature index is handed to one input of one transaction in the
\* epoch it belongs to, for ever, although the allocator restarts at every
\* reconfiguration: a nonce used for two messages would reveal the key.
NonceUnique ==
    \A i, j \in issued : i.epoch = j.epoch /\ i.index = j.index => i = j

\* The index a pending slot shows is one that was issued to that very slot in
\* the batch's epoch: a reallocation leaves no index of an earlier epoch
\* behind under the new epoch's label.
PendingSlotsCurrent ==
    \A t \in txns, u \in Utxos : slots[t][u] \in Nat =>
       [epoch |-> batchEpoch[t], index |-> slots[t][u], txn |-> t, input |-> u]
          \in issued

\* hBTC is backed exactly: the supply, plus what was donated without a
\* derivation path, is the value of the outputs not yet promised to a
\* withdrawal, unconfirmed change included.
PegExact ==
    supply + Total(DepositAmount, Donations \cap (records \cup spentUtxos))
        = TotalAmount({u \in records : spentBy[u] = NONE})

\* A change output stops being marked unconfirmed exactly when the transaction
\* producing it is confirmed, also when it was spent in the meantime, and a
\* confirmed transaction spends only outputs that exist on Bitcoin.
ChangeProvenance ==
    /\ \A u \in records : producedBy[u] # NONE =>
          producedBy[u] \in txns \ confirmed /\ u \in txnChange[producedBy[u]]
    /\ \A u \in records \cap ChangeUtxos : producedBy[u] = NONE => u[1] \in confirmed
    /\ \A t \in confirmed : \A u \in txnInputs[t] \cap ChangeUtxos : u[1] \in mined

\* Archival order: a request is filed as processed only under a confirmed
\* transaction, and a transaction is filed only after all its requests.
ArchiveOrder ==
    /\ \A r \in processed : reqTxn[r] \in confirmed
    /\ \A t \in confirmedTxns : t \in confirmed /\ txnRequests[t] \subseteq processed
    /\ txns \cap confirmedTxns = {} /\ requests \cap processed = {}
    /\ indexed = requests \cup processed

\* Facts the properties above rest on and that hold of every reachable state:
\* with them the safety invariants of this module are inductive.  Confirmed
\* transactions are mined, mined ones committed, and their inputs mined before
\* them; change outputs carry their producer's txid; only inputs have a
\* pending slot; indices of the current epoch were all drawn from the
\* allocator, and no index was ever issued in an epoch not yet activated.
Bookkeeping ==
    /\ confirmed \subseteq mined /\ mined \subseteq AllTxns
    /\ \A t \in mined : \A u \in txnInputs[t] \cap ChangeUtxos : u[1] \in mined
    /\ \A t \in AllTxns : txnChange[t] \subseteq {t} \X (1 .. MaxChange)
    /\ \A t \in AllTxns, u \in Utxos : slots[t][u] \in Nat => u \in txnInputs[t]
    /\ \A i \in issued : /\ i.epoch \in activated
                         /\ i.epoch = epoch => i.index < numConsumed
    /\ pending \notin activated

\* A committed withdrawal is eventually confirmed and archived, provided the
\* bridge is eventually left unpaused with no reconfiguration pending: no
\* order of signatures, reallocations and chunked archival strands it.
CommittedIsArchived ==
    <>[]Operational => \A t \in Txns : (t \in txns) ~> (t \in confirmedTxns)

\* What is settled stays settled: a spent outpoint never becomes spendable
\* again, a recorded signature is never replaced by a pending slot, and a
\* transaction's inputs and requests never change once committed.
SettledStep ==
    /\ spentUtxos \subseteq spentUtxos'
    /\ \A u \in records : spentBy[u] # NONE =>
          u \in spentUtxos' \/ (u \in records' /\ spentBy'[u] = spentBy[u])
    /\ \A t \in AllTxns :
          /\ t \in AllTxns'
          /\ txnInputs'[t] = txnInputs[t] /\ txnRequests'[t] = txnRequests[t]
          /\ \A u \in txnInputs[t] : slots[t][u] = SIGNED => slots'[t][u] = SIGNED

\* Every step keeps what is settled: SettledStep is a property of all steps.
Settled == [][SettledStep]_vars
=============================================================================
