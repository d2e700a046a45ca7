# Hashi: a TLA+ verification project

Hashi is a Bitcoin bridge whose state lives in one shared object on Sui. A
committee of Sui validators runs a threshold signer (MPC) and, together with a
guardian enclave that co-signs, holds the Bitcoin; depositors are credited in
hBTC on Sui and redeem it for Bitcoin. This directory models the on-chain half
of that system (the Move package in `packages/hashi/sources`), together with as
much of Bitcoin and of Sui's clock and epochs as it depends on; the failover of
the guardian (`crates/hashi-guardian`); and three things a node does
(`crates/hashi`): making and using presignatures, taking a withdrawal through the
guardian, and finding a deposit on Bitcoin. TLC checks the models on small instances; TLAPS proves
the main safety properties for every value of the constants.

## 1. Inventory

Paths are relative to the repository root; `P` is `packages/hashi/sources` and
`R` is `crates/hashi/src`.

| Component | State | Operations | Hard part | Correct when |
|---|---|---|---|---|
| Committee registry (`P/core/committee/committee_set.move`, `P/core/validator.move`) | members and their keys, operator, ignore and resign flags; TLS reverse index | register, set keys, set operator, resign, withdraw resignation, remove inactive member, ignore | members leave while they serve or are about to serve; an index kept in lockstep by hand | no serving member is deleted; the index is the inverse of the keys; an ignored validator does not shed its exclusion |
| Reconfiguration (`P/core/reconfig.move`, `P/core/committee/*.move`) | current epoch, committees by epoch, pending change, handoff certificates, MPC key | start, submit handoff, end, abort | certificates arrive late, twice or for a target that was aborted and started again; Sui's epoch moves underneath | handoffs form one unbroken, genuine chain; an activated committee is never altered; a pending change always resolves |
| UTXO pool (`P/btc/utxo_pool.move`) | records with producer, spender and spent epoch; set of spent outpoints | insert active, insert pending, lock, mark spent, confirm pending, cleanup | change is spendable before its producer confirms; records are deleted by a permissionless cleanup in any order | no output is spent twice; locks and transactions agree |
| Withdrawals (`P/btc/withdraw.move`, `P/btc/withdrawal_queue.move`) | requests, transactions, archives, escrow | request, cancel, approve, commit, sign, finalize, confirm, reallocate, archive (three chunked ways), cleanup | one transaction lives across epochs; archival in chunks interleaves with itself and with cleanup; cancel races approve and commit | a request is paid once or refunded once; the peg is exact; nothing is stranded |
| Presignature allocation (`P/core/mpc_signing.move`) | `num_consumed`, a batch of slots per transaction | allocate, record signatures, reallocate, reset | the counter restarts every epoch while batches survive it | no presignature is ever assigned to two messages (reuse reveals the key) |
| Deposits (`P/btc/deposit.move`, `P/btc/deposit_queue.move`) | live and processed requests, approval certificates | request, approve, confirm, delete expired | several requests name one outpoint; approvals go stale at an epoch boundary; the bridge's own change is visible on Bitcoin | an outpoint mints at most once; change never mints |
| Governance (`P/core/proposal/**`, `P/core/versioning.move`, `P/core/config/*`, `P/core/mpc_config.move`) | active and executed proposals, votes, enabled versions, two configuration stores | propose, vote, remove vote, execute, delete expired, upgrade | proposals validated when proposed and executed later, after others; committee weights change under the votes | some version can always run; what is stored and pinned is consistent; only what the seated committee backs is executed |
| Certificate log (`P/core/tob.move`, `P/core/cert_submission.move`) | dealer certificates by epoch, batch and protocol; sealed dealer sets | submit, seal, destroy | sealing races submission; retention races a slow recovery | every node derives the sealed dealer set; for retention see section 7 |
| Treasury and configuration of BTC (`P/core/treasury.move`, `P/btc/btc_config.move`, `P/btc/bitcoin_state.move`) | supply, minimums and delays | mint, burn, setters | governance changes a minimum between two steps of one withdrawal | the fee bound of commit and the minimum of request agree |
| Leader (`R/leader/`) | in-flight tasks, retry state | drives every certificate to the chain; garbage collection | retries of work already done, stale views | on-chain guards make every duplicate harmless |
| Validator-side checks (`R/deposits.rs`, `R/withdrawals.rs`, `R/finalize_bitcoin_check.rs`) | none of its own | decide what a node signs | signs from a mirror that lags the chain | a node signs only what the chain will still accept or what is harmless |
| MPC (`R/mpc/`) | presignature pool, staged batch, cached partial signatures, stored endorsements | deal nonces, settle the dealer set, seal, refill, recover, sign; the driver of a reconfiguration | certificates are read from a mirror that lags; a restarted node rebuilds its pool while the chain allocates on | a nonce signs one message, on every node and over every restart |
| On-chain mirror (`R/onchain/`) | local copy of the object | apply, watch, rescan, re-bootstrap | events that are late or were jumped over | what depends on it recovers (`Finalize`) or waits until it is far enough (`Presigs`) |
| Bitcoin monitor (`R/btc_monitor/`, `R/deposit_tracker.rs`, `R/leader/deposits.rs`) | header chain, tracked outpoints, scan queue, lookup caches, workers, the leader's schedule | connect, reorganize, discover, scan, check, restart | Core, Kyoto and the monitor are at different tips; workers outlive a reorganization | nothing is confirmed that is not deep enough; no deposit is forgotten |
| Guardian (`crates/hashi-guardian`) | in memory: rate limiter, sequence number, committee; on S3: a write-once log | heartbeat, activate, sign a withdrawal, update the committee | a session dies with a PUT in flight; its successor recovers from the log; only clocks keep the two apart | the log is one history of one token bucket; nothing is signed that is not counted |
| Limiter mirror and finalizing (`R/guardian_limiter.rs`, `R/leader/guardian.rs`, `R/leader/withdrawal_transactions.rs`, `crates/hashi-guardian-proxy`) | each node's copy of the guardian's sequence number, pacing, the window of the stall tracker, the proxy's log index and info cache | seed, finalize, apply, reconcile | lost calls, lost events, seeds that count what is in flight | the copies come together again and every withdrawal is finalized |
| Monitor, CLI, types, tests (`crates/hashi-monitor`, `R/cli`, `crates/hashi-types`, `crates/e2e-tests`) | none that other parts read | alarms, tooling | | not modelled |

How they interact. Every Move entry point is a transaction on the one shared
object, so each is an atomic step and an action here; all concurrency is between
transactions. Deposits and withdrawals share the pool, the supply and the pause
flag; everything that needs a certificate is gated on the epoch machine
(`hashi.move`: `verify`, `assert_not_reconfiguring`); withdrawals draw from the
presignature allocator that `end_reconfig` resets. Off chain, nodes collect
signatures into certificates and anybody may submit them, at any time and as
often as they like. Certificates are therefore modelled as permissions that stay
usable in every later state the chain accepts them in, never as messages that
are consumed.

## 2. Modules

| Module | Models | Built on |
|---|---|---|
| `Epochs` | abstract: Sui epoch, Hashi epoch, activated epochs, pending change | |
| `CommitteeSet` | the registry and the whole of reconfig.move | implements `Epochs` |
| `Hashi` | what deposits and withdrawals share: pause, supply, allocator, UTXO pool | `Epochs` |
| `Withdraw` | requests, transactions, presignature batches, archival | `Hashi` |
| `Deposit` | deposit requests | `Hashi` |
| `Bridge` | deposits, withdrawals and Bitcoin together | `Withdraw`, `Deposit`; implements `Withdraw!Spec` |
| `Governance` | proposals, votes, versions, the two configuration stores and their pinning | |
| `Guardian` | guardian sessions, their log writer, S3 and clocks | |
| `Finalize` | the leader's finalize task, the proxy, the guardian's sequence number and the nodes' mirrors of it | |
| `DepositWatch` | the Bitcoin monitor, the deposit tracker and the leader's schedule of one deposit | |
| `Presigs` | certificates and seals of nonce batches, and every node's presignature pool, over one epoch | |
| `Totals` | sums of amounts and of weights | used by `Hashi`, `Governance`, `Presigs` |
| `Totals_proofs`, `CommitteeSet_proofs`, `Bridge_proofs`, `Governance_proofs`, `Guardian_proofs`, `Finalize_proofs`, `DepositWatch_proofs`, `Presigs_proofs` | the theorems of section 6; those of `Withdraw` are in `Bridge_proofs` | |
| `MCCommitteeSet`, `MCWithdraw`, `MCBridge`, `MCGovernance`, `MCGuardian`, `MCFinalize`, `MCDepositWatch`, `MCPresigs` | instances for TLC | |

**Totals.** Amounts, fees and weights are natural numbers, and a sum of them is the size
of a set: `Total(f, S)` counts the pairs `<<x, i>>` with `x` in `S` and `i` in `1 ..
f[x]`. That is the sum the code's loops compute, written so that the theorems on
cardinality apply to it; of a fold nothing can be proved without induction over data.

**Epochs** is the interface between the two halves: `CommitteeSet` is proved to
implement it (a committee that is stored and not pending is `Activated`), and
`Hashi` extends it. So whatever is shown of deposits and withdrawals holds over
every behaviour of the real registry, without carrying the registry's state.

**CommitteeSet.** A `Committee` is its member set and `committees[e] = {}` means
that no committee is stored under `e`. Committees live in one bag with the
handoffs (distinct key types), which is why `committees` and `handoffs` are two
functions. Keys are set or unset, except TLS keys, which carry the index. A BLS
certificate is a record of who signed what; `certs` grows for ever, so a late
certificate of an aborted target can be submitted against its successor. `start_reconfig`
aborts when no validator is eligible; `end_reconfig` asks for a handoff
certificate unless this is genesis; `abort_reconfig` only works once the target's
Sui epoch has passed. `excluded` is a history variable for the property about
exclusion.

**Hashi** and **Withdraw.** A Move `Bag` is the set of its keys plus one total
function per field. A change output is named `<<t, j>>` by its transaction, since
a change txid is the hash of the very transaction. `CommitWithdrawalTx` does what
`commit_withdrawal_tx` does in one transaction: fee accounting, locking of the
inputs, insertion of the change as pending, allocation of presignatures, burning
of the escrow, linking of the requests. `issued` is a history variable: the
presignatures ever assigned, with the epoch, index, transaction and input.
Clocks are sets of the objects whose deadline has passed. The miner fee is an
explicit parameter: any fee the code's equation allows.

**Deposit.** Anybody names any outpoint; the committee approves only what it sees
on Bitcoin. `confirm_deposit` re-verifies the stored certificate under the
current committee, so `CertifiedBy` compares epochs.

**Bridge.** Adds Bitcoin: payments and mined change outputs appear in `onBitcoin`,
and a depositor may claim a change output.

**Governance.** A proposal has a kind and a payload (a version, a pair of keys and
values, a flag). Its checks are run when it is proposed and, where the code does so,
again when it is executed. `Execute` runs the code of some live version, since every
published version of the package may be called: that is what decides which version
`disable_version` refuses. `FormCommittee` pins the epoch store into the committee
that `start_reconfig` forms and `SeatCommittee` gives it the votes' weight. A
configuration value is its type and, for the keys that are coupled, its number.

**Guardian.** A session is one run of the enclave; a restart is another session. The
service's lock makes every RPC and every heartbeat exclusive, so a session has one
`step` and writes one record at a time. A write is an attempt (`StartWrite`, `Retry`),
after which S3 may store the record (`Land`) at any time up to `Delay` after the
attempt's deadline, the session may see it stored in time (`Written`), or the attempt
fails. `Crash` stands for every panic and for the host; the PUT in flight survives it.
`MayAttempt` is the fence. Wall clocks read anything from `now` to `now + MaxOffset`,
each time anew, so they may be set back. Activation is four steps, as in
`OAInstall::from_request`: scan, committee, limiter, log. S3 keeps, of the heartbeats,
each session's latest timestamp, which is all the reader's summary uses, and the
withdrawal records with the hour directory they were filed under. A key collision
between withdrawals is not relied upon: their keys contain the request's id. The
operator's expected state hash can only refuse an activation (`RefuseActivation`).

**Finalize.** A withdrawal with all MPC signatures takes the guardian's half of the
witness and is then finalized on chain. `task` is the leader's signing task:
`StartFinalize` asks a quorum for the guardian request at the mirror's sequence
number, `Lookup` is the proxy's look into the log, `Forward` the enclave's answer,
`CollectFinalize` the certificate, `SubmitFinalize` the transaction. A task may be
lost at any await (`LoseTask`), and what the proxy had forwarded for it goes on
without it (`orphans`). Each node's mirror moves when it applies the event
(`ApplyConsume`); a re-bootstrap jumps over events. `ReadGuardian` starts a read of
GetGuardianInfo, possibly answered from the proxy's copy (`info`), and `SeedLimiter`
or `ReconcileLimiter` use it later. The tokens of the bucket are left out.

**DepositWatch.** One outpoint, a tree of blocks, and three followers of the best
chain: Bitcoin Core, Kyoto, and the monitor behind Kyoto's event queue. The tracker's
entry is `status`; `disc`, `scan`, `waiters` and the check inside `job` are the
spawned workers, each with the generation or the entry it was started for, so that
they can end after a reorganization or a restart. The leader's schedule is `pending`,
`waiting` and `notify` (a watch channel and a notification). The output is the one the
request names and is not spent; a query of the unspent outputs may also answer for a
transaction that is only in the mempool (`UnspentAtTip`).

`gone` are the blocks the network has left, and `Returns` says whether it may come back
to one. Bitcoin Core is asked several times for one answer, before and after the call that
matters, whether it still has the captured tip (`btc_monitor/monitor.rs` 2033-2114,
2382-2461). If the best chain leaves that tip and returns to it between two of these
questions, the answer in the middle is about another chain and nobody notices: with
`Returns = TRUE`, TLC finds a deposit recorded as absent that no scan will find, and a
confirmation that is not as deep as it says. Two reorganizations of the best chain within
one exchange with Core, the second undoing the first, are needed; the run and the theorems
that depend on it therefore state `Returns = FALSE`.

**Presigs.** `certs` and `seals` are the nonce buckets of the epoch, `Views` what a
mirror may show of one of them: all certificates stamped before the mirror's clock and
a prefix of those stamped at it. `DealerSets` are the sets `fetch_final_nonce_certs`
may settle on. With a window, the certificate that reaches the floor fixes a cutoff, later
certificates are admitted up to it, and a node waits until its mirror is past it. Without
one (`Window = 0`, a legal configuration and the one of the end-to-end tests, or a crossing
certificate stamped 0) the set closes at the certificate that reaches the floor and nobody
waits: `CutoffOf` is then `NONE`. `Weight` is a member's reduced weight, its shares, and may
be 0: such a member deals nothing and its certificates are passed over; `Power` is its weight
in the committee, which certifies a seal. `avid_admission`, a deterministic check of a
certificate's content, is left out. `FallBack` does not repeat the refusal while the node's
view of the cursor is above zero, because that view is open at every read and may be zero.
A node's MPC loop does one `job` at a time: generate the first batch,
refill, or, after a restart that emptied its memory (`Restart`), its stored endorsements
included, rebuild the batches that a walk over the chain found (`Walks`, `Recover`), or
deal into a batch that is missing (`RepairMissingBatch`). The chain's allocator is not repeated
here: `Withdraw!NonceUnique` says that an index belongs to one message for the whole
epoch, so an index stands for its message, and what a node reads of the cursor and of
pending indices is anything the chain could show (`Cursors`, `Pendings`). `used` and
`endorsed` are histories. The two reads of `fetch_final_nonce_certs`, and the reads of a
walk, are one step: the node does nothing between them that others see, and what an
earlier read may show of the chain a later one may show as well.

## 3. Runs

| Run | Checks | Instance | Shows |
|---|---|---|---|
| `registry` | `TlsIndexLockstep` | 2 validators, 2 TLS keys, an operator that is another validator and one that is `@0x0` | the hand-maintained TLS index stays the inverse of the keys over key swaps, removals and re-registration |
| `reconfig` | `HandoffChain`, `HandoffGenuine`, `ServingMembersRegistered`, `CommitteesSettled`, `SomeMemberStays`, `ImplementsEpochs`, `PendingResolves` | 2 validators, 4 Sui epochs | chains over skipped and aborted epochs, late certificates, members that resign while pending; the last willing member stays; a pending change never sticks |
| `withdraw` | `NoDoubleSpend`, `LocksAgree`, `RequestsPaidOnce`, `PegExact`, `ChangeProvenance`, `ArchiveOrder`, `NonceUnique`, `PendingSlotsCurrent`, `Settled`, `TypeOK` | 2 deposits, 2 requests, 2 transactions with change, over one epoch change, so that the second may spend the first's unconfirmed change and presignatures are reallocated | the pool and the queue agree in every interleaving of confirmation, archival and cleanup; no presignature is issued twice |
| `withdraw_live` | `CommittedIsArchived` | one deposit, two chained transactions, one epoch change | no committed withdrawal is stranded, also when its presignatures went stale |
| `bridge` | `CreditedOnce`, `BitcoinSolvent`, `ImplementsWithdraw` | 2 deposit requests, a donation, a change output that is claimed as a deposit, 3 epochs with an abort | an outpoint mints once; Bitcoin holdings match supply plus what is owed |
| `governance` | `SomeVersionLive`, `MpcConfigConsistent`, `ConfigTypesStable`, `ExecutedByQuorum` | 2 voters, committees of both or of one, 2 proposals of any kind over 3 versions and over coupled, new and pinned keys | no order of enabling, disabling and upgrading locks governance out; proposals that were each valid when proposed stay harmless together; a quorum is one of the committee seated at execution |
| `guardian_takeover` | `OneWriter`, `CommitteeChain` | 2 sessions, 2 attempts a write, a delay that uses up the budget, 2 withdrawals, 3 committee epochs | nobody else can extend the log a session relies on; one chain of committees across the failover |
| `guardian_limiter` | `LimiterChain`, `SignaturesCounted` | 2 sessions, skew that uses up the budget, 2 withdrawals, 2 limiter configurations, an hour boundary inside the run | one token bucket across the failover |
| `finalize` | `TypeOK`, `AheadOnlyAfterResync`, `AllFinalized` | 2 nodes that must both certify, one leader, 2 withdrawals, one fault of any kind | the mirrors come together again, and every withdrawal is finalized |
| `replay` (a violation) | `WidConsumedOnce` | the same with two leaders | see below |
| `deposit_watch` | `TypeOK`, `AbsentIsScanned`, `RecordedOnChain`, `ConfirmedIsDeep`, `EventuallyApproved` | a fork that leaves one deposit where it is and moves the other to a later block, one fault of any kind | no deposit is confirmed too early or forgotten |
| `presigs` | `NonceBinding`, `BatchesAgree` | 2 nodes of weights 2 and 1, floor 2, a window of one tick that a stamp of 0 does not open, 2 batches of one or two presignatures, 2 indices, one fault of any kind | one dealer set and one first index for a batch on every node; no nonce for two messages |

The run `replay` documents a disagreement between the code and its documentation.
`crates/hashi-guardian-proxy/src/node/widlog.rs` (8-10) says: "When a node retries a
wid, the proxy must return the recorded response and must not ask the enclave to sign
again." The proxy looks the withdrawal up and forwards it when it is not in the log
(`node/cache.rs` 161-181); nothing holds back a second call for the same withdrawal in
between. Two leaders whose mirrors differ by one, because one was just seeded while a
withdrawal was in flight, ask at consecutive sequence numbers, both miss, and the
enclave accepts both. The cost is a number and the amount in the rate limiter; the
index logs it.

Bounds. `MaxEpoch` bounds Sui's epochs (four is the least with a genesis, a
completed change, an aborted one and one more after it). `MaxChange` bounds the
change outputs of a transaction (the code's bound is a configuration value; one
output is enough for a chain of transactions). `MaxSats` bounds a change amount
and equals what the deposits can leave. Two requests and two transactions are
enough for every pairwise conflict: two transactions over one input, two requests
in one transaction, a transaction spending the other's change. Deposits carry 3
satoshis and requests 2, so that fees, change and dust all occur. The sets of
validators, deposits, requests and transactions are symmetric where the run
checks no liveness property.

The guardian's periods keep the order of the real ones (a timeout plus the budget
is less than the quiet period, skew or delay fills the budget exactly): a quiet
period of 3 ticks is the least that leaves a session time to heartbeat,
activate and sign. `MaxTime` is the least at which a second session can activate
after the first has signed and still sign itself; two sessions are one failover.

`MaxFaults = 1` in the three runs about nodes: a fault (a lost call or event, a failed
round, a crash, a re-bootstrap, a removed request) at every point of every behaviour,
but one in each. In `presigs` the clock goes from 0 to 3: a batch that reaches the floor at
0 closes without a cutoff, and one that reaches it at 1 has a cutoff of 2 and settles at 3,
so that a batch of each kind, in this order, fits into one behaviour. Two windows one after
the other, `Window = 0` at later times and members without shares are left to the proofs. Weights 2 and
1 with a floor of 2 make the heavier node cross it alone, so that the lighter one's
certificate may fall inside, at or after the cutoff. `MaxLag` bounds the events of
Kyoto that the monitor has not seen, `MaxSeq` the guardian's numbers (one more than
the withdrawals, for a number consumed twice).

Deadlock is checked in every run but these: the guardian's, where all sessions may have
died and time has run out; `deposit_watch`, which follows a request until it is
approved; and `presigs`, whose clock and indices end.

## 4. Fairness

`CommitteeSet!FairSpec`: Sui's epochs keep advancing, and an enabled
`abort_reconfig` is eventually submitted. `drive_reconfig` in
`crates/hashi/src/mpc/service.rs` (534-582) runs on every node: once the pending
target's Sui epoch has passed it submits `abort_reconfig` and retries until the
pending change is gone. No fairness is assumed of `start_reconfig`, of handoff
signatures or of `end_reconfig`: an unresponsive committee never completes one.

`Withdraw!FairSpec`: signatures, finalization, reallocation, mining, confirmation
and archival each happen eventually while they stay enabled. `LeaderStep(t)` is what
the leader does with an unsigned transaction: it reallocates a batch of an earlier
epoch first and signs only a batch of the current one
(`leader/withdrawal_transactions.rs` 60-66, 350-420). The leader
(`crates/hashi/src/leader`) re-examines every live transaction on each tick and
retries, leaders rotate, and garbage collection does the same for archival. The
property is conditional: it says nothing of a bridge that is paused or
reconfiguring for ever.

`Finalize!FairSpec`: the leader's task and a node's reconcile loop go on, the watcher
delivers events, a request the proxy has forwarded ends, its copy of the guardian's
info expires (a time to live), and a pause is lifted. Calls may still be lost, as often
as `MaxFaults` allows.

`DepositWatch!FairSpec`: Bitcoin goes on and Core and Kyoto follow it, every worker
ends (each has a timeout), and the loops of the monitor and of the leader take what is
ready. The node keeps its turn as leader; with rotation another one starts the same
schedule from its own tracker.

## 5. What the properties say

The property definitions carry a comment each. The ones to know:

- `NonceUnique`: a presignature (epoch, index) is assigned to at most one input of
  one transaction, ever. Two Schnorr signatures with one nonce reveal the key.
  `reset_presig_allocator` restarts the counter in every epoch, and a batch
  outlives its epoch: only the relabelling discipline of `reallocate_presigs`
  keeps the two apart (`PendingSlotsCurrent`).
- `NoDoubleSpend` and `LocksAgree`: each output is an input of at most one
  transaction, for ever, even after its record was cleaned up.
- `PegExact`: the recorded, unspent satoshis are exactly the supply plus donations;
  `BitcoinSolvent` says the same of Bitcoin itself.
- `HandoffChain` and `HandoffGenuine`: a light client can walk from genesis to the
  current committee, and each link was signed by the committee it starts from.
- `ServingMembersRegistered`: cleanup of departed validators never takes away the
  registration (keys, operator, endpoint) of somebody with duties.

- `SomeMemberStays`: as long as an epoch lasts, no sequence of resignations, clean-ups and
  registrations leaves its committee without a member that the next formation may take;
  only governance can, by ignoring it. The guard (`assert_not_last_active_member`) is
  best-effort by its own comment: it does not look at keys, at Sui's active set or at the
  pending committee, and the property claims none of these.
- `SomeVersionLive`, `MpcConfigConsistent`, `ConfigTypesStable`: the checks made at
  proposal time are repeated where they must be; no order of execution reaches a
  state in which no version may run, a stored value has another type, or a committee
  is formed with parameters that contradict each other.
- `OneWriter`: from the moment a guardian session has checked the heartbeats, nothing
  another session started, dead or alive, can still reach the log. It is what makes
  the non-atomic recovery sound, and `LimiterChain` and `CommitteeChain` are what it
  is for: a fork of a sequence number or of the committee would double the allowed
  outflow or let a retired committee sign.

- `NonceBinding`: `NonceUnique` continued into the nodes. The chain gives an index to
  one message; a node finds the nonce of an index in a pool it has built, or rebuilt
  after a crash, from certificates. Indices and nonces correspond one to one over all
  nodes and all restarts: a node that came to start a batch at another index would
  sign a second message with a nonce. `BatchesAgree` is why: the dealer set is settled
  only by a mirror whose clock is strictly past the cutoff, or, without a cutoff, by
  certificates that no later one can change.
- `AllFinalized`, `AheadOnlyAfterResync`: sequence numbers that went apart come together.
- `AbsentIsScanned`, `RecordedOnChain`, `ConfirmedIsDeep`, `EventuallyApproved`: what the
  tracker believes stays tied to the monitor's chain, although answers come late.

Each property has a mutant: a plausible bug in the code that TLC must catch
under the same configuration. Mutants are the definitions whose comment says so.

## 6. Proofs

Assumptions: the named `ASSUME`s only (finite sets of ids, `NONE` and `SIGNED`
outside the naturals, amounts and weights natural numbers, blocks with one place on
every chain they are on). TLC evaluates each of them. Two theorems of `DepositWatch` have
hypotheses of their own, named below. Every invariant and action property that a passing
run checks is a theorem, for every value of the constants; every inductive invariant was
checked by TLC on the instance of its run before it was proved. Liveness is not proved.

`Totals_proofs` has what the others need of sums: a sum is a number, the sum of nothing
and of one element, of two disjoint sets, of a part and the rest, of functions that agree
or differ by a constant, of a set and a renaming of it, and that it grows with the set.

### Withdrawals and the bridge

`Bridge_proofs` proves the invariants of `Withdraw` for any number of requests,
transactions, outputs and epochs. None of the properties is inductive alone. The
invariant is `IInv == TypeOK /\ LockInv /\ RequestInv /\ NonceInv /\ ChangeInv`:

- `LockInv` ties the pool to the transactions in both directions: a recorded output
  is locked by `t` exactly if it is an input of `t`, it is marked spent exactly if
  `t` is confirmed, an output filed as spent belongs to a confirmed transaction, and
  inputs of transactions are recorded or filed. From it `NoDoubleSpend` and
  `LocksAgree` follow.
- `RequestInv` ties a request's link to the request set of the transaction it names,
  in both directions, and says which archive state goes with which transaction state.
- `NonceInv` bounds issued indices of the current epoch by `numConsumed`, says that
  every issued epoch was activated and that a pending target was not, and that every
  pending slot was issued in its batch's epoch. The second fact is what makes the
  reset sound: the epoch that `end_reconfig` makes current has issued nothing.
- `ChangeInv` gives the provenance of change records.

`PegExact`, with the supply a number, is inductive on top of `IInv`. The step that matters is
the commit, where inputs leave, change comes and the escrow burns: `EscrowIsAmount` gives
that a request picked for a commit still holds what it asked for, and `FeesAddUp` derives
from the code's two checks of the fee that inputs, change and burned amount agree. Cleanup
and confirmation move records between sets that count alike.

The bridge implements `Withdraw!Spec`, so every theorem about withdrawals holds of it. With
one more invariant about deposits (`DepositInv`) every outpoint is credited at most once.
`BitcoinSolvent` rests on `SolventInv`: `ChainInv` says which change is on Bitcoin, recorded
or filed as spent, by whether its transaction is mined; `FundedTxn` that the inputs of a
transaction not yet mined carry its change and what its requests asked for. The cases are
the mining of a transaction (its inputs vanish, its change appears, its requests are no
longer owed) and the commit (the burned amount becomes owed).

### Registry and reconfiguration

`CommitteeSet_proofs` proves the registry and chain invariants (`IInv ==
TypeOK /\ RegistryInv /\ ChainInv`) and, from them, the refinement `Spec =>
ImplementsEpochs`. `ChainInv` adds to `HandoffChain` that activation is bounded by
the current epoch, which is bounded by Sui's, and that the pending target is above
it or is genesis; without it `end_reconfig` could not be shown to extend the chain.
`SomeMemberStays` follows step by step: the current committee is registered, so whoever
registers is not in it; who is cleaned up is not in it either; who resigns from it leaves
another willing member; and what a reconfiguration forms or aborts is stored under another
epoch, because the current one is activated.

### Governance

`Governance_proofs` proves `SomeVersionLive`, `MpcConfigConsistent` and
`ConfigTypesStable` from `GovInv == StoresOK /\ SomeVersionLive /\
MpcConfigConsistent`. `StoresOK` (each stored value has its type, the coupled keys are
present) is needed because consistency is only defined of typed values.
`ExecutedByQuorum` needs `VoteInv`: the votes of a proposal are distinct, over any order of
votes and removals, so that the loop over the votes weighs every voter once; and it needs
that the threshold is rounded up.

### Guardian

`Guardian_proofs` proves `OneWriter` for any number of sessions and any periods
that satisfy `FencingAssumption`: the timeout and the budget fit into the quiet period
(asserted in the guardian's `lib.rs`), skew and late durability share the budget (its
README), and both periods are short against an hour. `FenceInv` has three parts for each session and one for each pair:

- `Phase`: which stage goes with which step of the lock holder, and that a session
  which relies on the log has a fence;
- `Beat`: a fence counts from a heartbeat that is durable and stamped no earlier, so
  a reader of the log never underestimates how long the session may write;
- `Deadline`: an attempt ends before the fence, and a PUT in flight is not older than
  its deadline plus the delay;
- `Takeover`: of two sessions, one that relies on the log is fenced or the other is
  cleared: nothing of it can reach the log any more. `OneWriter` follows.

The step that establishes `Takeover` is the heartbeat check. It reads only the hour
directories around the time its scan began, so the proof needs `ScanWindow`: a
heartbeat outside them is older than the quiet period. That a heartbeat may not lie
in a later hour either needs `2 * MaxOffset + LiveMaxAge <= Hour`, because the
session's own heartbeat must still be live when its scan ends.

`LimiterChain`, `CommitteeChain` and `SignaturesCounted` follow from a second invariant on
top of it, `LogInv`: the withdrawals in the log are numbered without gaps, each has the
state that follows from its predecessor's, the committees form a chain, and a session that
relies on the log and is not fenced has in memory exactly the log's last state (or the one
its own write in flight will make it). `OneWriter` is what makes the last part inductive.
That recovery finds the last withdrawal although it reads only the latest non-empty hours
needs that an hour directory is at most one hour off.

### Finalizing

`Finalize_proofs` proves `AheadOnlyAfterResync` from `LockstepInv`: as long as a node did
not resynchronize, its mirror has counted withdrawals that are finalized, each once, and
the guardian has consumed a number for each of them; what a task, an orphaned call or the
proxy's copy carries was the guardian's number at some time.

### Deposits on Bitcoin

`DepositWatch_proofs` proves `RecordedOnChain`, and `TypeOK` with the claim that only blocks
of the monitor's chain are queued, over any tree of blocks. `WatchInv` ties the monitor's
tip and Kyoto's chain by the events between them, says of each worker for which generation
and which tip it works, and that a worker of an old generation, or of an entry that was
removed, cannot record anything. `AbsentIsScanned` and `ConfirmedIsDeep` also rest on what
Core was asked and are proved under `~Returns`: the tip that was on Core's chain at the
first and at the last question was on it in between, which `gone` gives. `ConfirmedIsDeep`
moreover assumes positive thresholds; `btc_config.move` sets no minimum for
`bitcoin_confirmation_threshold`, and with zero a block that the tip has not reached counts
as confirmed.

### Presignatures

`Presigs_proofs` proves `BatchesAgree` and `NonceBinding` for any finite
committee, any reduced weights and voting powers (zero included), any collection window (zero
included), any number of batches, any lag of the mirrors and any crashes. What is assumed of
the numbers is that floor, threshold, certifying weight and refill divisor are positive and
the threshold is at most the floor (`required_nonce_weight` is the total weight less
`max_faulty`). `PresigInv` says that the
certificates on chain determine one layout of the epoch and that everything a node has ever
built is part of it. A batch has closed (`Closed`) when the floor is reached and the clock is
past the cutoff, if there is one; `SetOf` is then its dealer set and `StartOf` the sum of the sizes of the
batches before it. Two lemmas carry the argument: `ViewsAgree`, that a mirror strictly past
the cutoff, or above the floor if there is none, derives `SetOf` whatever prefix of the
certificates it shows, and `ClosedStays`, that no later certificate changes it. Both rest on
`SameAdmitted` (certificates past the cutoff, or past the floor without one, do not change who
is admitted); that a closed batch holds at least one presignature (`ClosedSize`) needs
`WeightOfShares`, that leaving out members without shares changes no sum. From these, pools, staged batches, endorsements, the
sizes of a walk and the batches of a rebuild are all pieces of the layout (`WellBuilt`,
`Derived`, `JobInv`), a recovered pool is the one a node that never failed would hold
(`RecoveredPoolWell`), and a nonce is used at the index the layout gives it (`UsedWell`).

### Only model-checked

Liveness (`PendingResolves`, `CommittedIsArchived`, `AllFinalized`, `EventuallyApproved`) is
out of the prover's reach, as it rests on fairness and ENABLED, and stays with TLC.
`WidConsumedOnce` is violated. `Bridge_proofs` also proves `Bookkeeping` and `BridgeTypeOK`,
which no run needs.

## 7. Not modelled, and the plan

Left out on purpose: BLS, Schnorr and proof-of-possession verification (a
certificate or key is valid or absent), Bitcoin scripts and addresses, events,
gas, the text of metadata. Voting powers only matter for quorums, which a
certificate stands for.

Of the guardian, the key ceremony and the stages before a session is armed are left
out (`Boot` stands for the latter), and its reads of S3 during one recovery step are
atomic. `Bridge` knows no reorganizations: a deposit is credited behind the threshold
that `DepositWatch` is about. Of the MPC protocols, dealing, echoing and reconstruction
are cryptography; a dealing yields a certificate or does not, a party phase the batch of
its dealer set or nothing. Coin selection and fee estimation are numerical heuristics
whose results the chain checks.

Next, in this order:

1. The driver of a reconfiguration (`R/mpc/service.rs`) against `CommitteeSet`, with
   crashes and restarts, and with it the removal of old certificates and the node's own
   retention (`R/db.rs`): what a slow recovery still finds.
2. The frames and re-bootstraps of the mirror (`R/onchain/`), which one task applies in
   turn, as the refinement of the prefix that `Presigs` and `Finalize` assume.
3. The composition of `Presigs` with the allocator of `Withdraw`, so that an index and its
   message are one state.
