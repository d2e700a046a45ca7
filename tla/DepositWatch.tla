---------------------------- MODULE DepositWatch ----------------------------
(***************************************************************************)
(* How a node decides that a deposit is confirmed on Bitcoin: the monitor  *)
(* that follows the headers of a Kyoto light client, the tracker that      *)
(* records in which block a deposit's output was seen, the workers that    *)
(* look an output up (discovery), check it (against Bitcoin Core) and scan *)
(* connected blocks for it, and the leader that schedules the checks.      *)
(*                                                                         *)
(* One outpoint is followed.  Its output is the one the request names and  *)
(* is not spent; "not found" and "in the mempool" are one status, since    *)
(* the tracker treats them alike.  A chain is the sequence of the blocks   *)
(* after Kyoto's start checkpoint; Core and Kyoto follow the network's     *)
(* best chain each at its own pace.  The node keeps its turn as leader.    *)
(*                                                                         *)
(* Bitcoin Core is asked several times for one answer, each time whether   *)
(* it still has the captured tip.  A network that leaves a branch and      *)
(* returns to it between two of these questions is not noticed, so what    *)
(* is concluded from them holds unless Returns.                            *)
(***************************************************************************)
EXTENDS Integers, Sequences, SequencesExt, FiniteSets

CONSTANTS
  Branches,    \* the longest chains, sequences of blocks with common prefixes
  Deposits,    \* the blocks with the deposit's transaction, and the threshold
  Returns,     \* the network may return to a branch that it left
  MaxLag,      \* bound of the model on Kyoto events the monitor has not seen
  MaxFaults,   \* bound of the model on failures, restarts and removed requests
  NONE

Chains == UNION {{SubSeq(c, 1, i) : i \in 0 .. Len(c)} : c \in Branches}
Horizon == CHOOSE n \in {Len(c) : c \in Chains} : \A c \in Chains : Len(c) <= n

\* A block names its predecessors, so it has one place on every chain it is on.
Blocks == UNION {ToSet(c) : c \in Branches}

ASSUME ChainsAssumption ==
  /\ \A c \in Branches : c \in Seq(Blocks)
  /\ \A c, d \in Branches : \A i \in DOMAIN c, j \in DOMAIN d :
       c[i] = d[j] => i = j /\ SubSeq(c, 1, i) = SubSeq(d, 1, i)
  /\ \E n \in {Len(c) : c \in Chains} : \A c \in Chains : Len(c) <= n
  /\ NONE \notin Blocks

ASSUME DepositWatchAssumption ==
  /\ {MaxLag, MaxFaults} \subseteq Nat
  /\ Returns \in BOOLEAN
  /\ \A d \in Deposits :
       /\ d.threshold \in Nat
       /\ \A c \in Branches : Cardinality(ToSet(c) \cap d.blocks) <= 1

VARIABLES
  deposit,   \* the deposit that is followed; it never changes
  best,      \* the network's best chain
  gone,      \* the blocks that were on it and are not
  core,      \* the chain of Bitcoin Core
  kyoto,     \* the chain of the Kyoto node
  events,    \* Kyoto's events the monitor has not processed
  tip,       \* the monitor's tip, as the chain that ends in it
  synced,
  gen,       \* bitcoin_generation
  status,    \* the tracker's entry of the outpoint
  cache,     \* DepositLookupCache: the transaction's block, and its outputs
  queue,     \* block_scan_queue
  scan,      \* the block scan worker
  disc,      \* the discovery worker
  waiters,   \* detached fetches of blocks (FetchWaiter)
  job,       \* the leader's task for the request, with its check worker
  pending,   \* the request is in pending_unapproved_deposit_requests
  waiting,   \* unapproved_deposits_waiting_for_btc_block
  notify,    \* what the leader has not seen: tracker work, or that and a block
  approved,
  faults

bitcoinVars == <<best, gone, core, kyoto, events>>
viewVars == <<tip, synced, gen>>
scanVars == <<queue, scan>>
leaderVars == <<pending, waiting, notify, approved>>
vars == <<deposit, bitcoinVars, viewVars, status, cache, scanVars, disc, waiters, job,
          leaderVars, faults>>

Untracked == [st |-> "untracked", block |-> NONE]
Unchecked == [st |-> "unchecked", block |-> NONE]
Absent == [st |-> "absent", block |-> NONE]
InBlock(b) == [st |-> "inblock", block |-> b]
Error == [st |-> "error", block |-> NONE]

NoCache == [block |-> NONE, outputs |-> FALSE]
NoScan == [block |-> NONE, gen |-> 0]
NoDisc == [pc |-> "none"]
NoJob == [pc |-> "none", stale |-> FALSE]

Init ==
  /\ deposit \in Deposits
  /\ best = <<>> /\ gone = {} /\ core = <<>> /\ kyoto = <<>> /\ events = <<>>
  /\ tip = <<>> /\ synced = FALSE /\ gen = 0
  /\ status = Untracked /\ cache = NoCache
  /\ queue = {} /\ scan = NoScan /\ disc = NoDisc /\ waiters = {}
  /\ job = NoJob /\ pending = FALSE /\ waiting = "no" /\ notify = "none" /\ approved = FALSE
  /\ faults = 0

Height(b) == CHOOSE h \in 1 .. Horizon : \E c \in Branches : h <= Len(c) /\ c[h] = b

\* The block of a chain that has the transaction.
Carrier(c) ==
  IF ToSet(c) \cap deposit.blocks = {} THEN NONE ELSE CHOOSE b \in ToSet(c) : b \in deposit.blocks

Confirmations(b, c) == IF Height(b) > Len(c) THEN 0 ELSE Len(c) + 1 - Height(b)

Fault == faults < MaxFaults /\ faults' = faults + 1

-----------------------------------------------------------------------------
(* Bitcoin, Bitcoin Core and Kyoto *)

Mine ==
  /\ \E c \in Chains :
       /\ Len(c) = Len(best) + 1
       /\ Returns \/ ToSet(c) \cap gone = {}
       /\ best' = c
       /\ gone' = gone \cup (ToSet(best) \ ToSet(c))
  /\ UNCHANGED <<core, kyoto, events, viewVars, status, cache, scanVars, disc,
                 waiters, job, leaderVars, faults>>

SyncCore ==
  /\ core # best
  /\ core' = best
  /\ UNCHANGED <<best, gone, kyoto, events, viewVars, status, cache, scanVars, disc,
                 waiters, job, leaderVars, faults>>

\* A header that extends Kyoto's chain, or the chain that replaces it.
KyotoHeaders ==
  /\ kyoto # best /\ Len(events) < MaxLag
  /\ kyoto' = IF IsPrefix(kyoto, best) THEN SubSeq(best, 1, Len(kyoto) + 1) ELSE best
  /\ events' = Append(events, [kind |-> "chain", chain |-> kyoto'])
  /\ UNCHANGED <<best, gone, core, viewVars, status, cache, scanVars, disc, waiters,
                 job, leaderVars, faults>>

KyotoFilters ==
  /\ kyoto = best /\ Len(events) < MaxLag
  /\ ~ synced /\ \A i \in DOMAIN events : events[i].kind # "synced"
  /\ events' = Append(events, [kind |-> "synced", chain |-> kyoto])
  /\ UNCHANGED <<best, gone, core, kyoto, viewVars, status, cache, scanVars, disc,
                 waiters, job, leaderVars, faults>>

-----------------------------------------------------------------------------
(* The tracker *)

\* The tracker answers for a deposit itself.
Known(s) == s.st \in {"absent", "inblock"}

IsScanCandidate(s) == s.st \in {"unchecked", "absent"}

\* A token is dead once the entry was changed, reset or removed.
DeadToken(d) == IF d.pc # "none" /\ d.token = "live" THEN [d EXCEPT !.token = "dead"] ELSE d

WorkNotified == IF notify = "none" THEN "work" ELSE notify

NotifyWork ==
  /\ notify' = WorkNotified
  /\ UNCHANGED <<pending, waiting, approved>>

UpsertRequest ==
  /\ status = Untracked /\ ~ approved
  /\ status' = Unchecked
  /\ NotifyWork
  /\ UNCHANGED <<bitcoinVars, viewVars, cache, scanVars, disc, waiters, job, faults>>

RemoveRequest ==
  /\ Fault
  /\ status # Untracked
  /\ status' = Untracked
  /\ disc' = DeadToken(disc)
  /\ NotifyWork
  /\ UNCHANGED <<bitcoinVars, viewVars, cache, scanVars, waiters, job>>

\* A mutant: a block of another generation is applied as well.
AppliesAlways(b, g) == b \in deposit.blocks /\ IsScanCandidate(status)

Applies(b, g) == g = gen /\ b \in deposit.blocks /\ IsScanCandidate(status)

ApplyBlockIfCurrent(b, g) ==
  IF Applies(b, g)
  THEN status' = InBlock(b) /\ NotifyWork
  ELSE UNCHANGED <<status, leaderVars>>

-----------------------------------------------------------------------------
(* Block scans *)

\* start_next_block_scan, when no scan runs; the order is left open.
StartNextScan(q) ==
  IF ~ IsScanCandidate(status') \/ q = {}
  THEN queue' = {} /\ scan' = NoScan
  ELSE /\ queue' = q
       /\ \E b \in q : scan' = [block |-> b, gen |-> gen']

QueueScans(q, blocks) ==
  IF ~ IsScanCandidate(status') THEN queue' = q /\ UNCHANGED scan
  ELSE IF scan # NoScan THEN queue' = q \cup blocks /\ UNCHANGED scan
  ELSE StartNextScan(q \cup blocks)

FinishScan ==
  /\ scan # NoScan
  /\ UNCHANGED gen
  /\ \/ /\ ApplyBlockIfCurrent(scan.block, scan.gen)
        /\ disc' = IF Applies(scan.block, scan.gen) THEN DeadToken(disc) ELSE disc
        /\ StartNextScan(IF scan.gen = gen THEN queue \ {scan.block} ELSE queue)
        /\ UNCHANGED faults
     \/ /\ Fault                                    \* fetched again later
        /\ UNCHANGED <<status, disc, leaderVars>>
        /\ StartNextScan(queue)
  /\ UNCHANGED <<bitcoinVars, tip, synced, cache, waiters, job>>

-----------------------------------------------------------------------------
(* Chain updates *)

\* publish_block_height, after set_tip: the sequence number advances and the
\* leader is told.
Overdue == IF waiting = "yes" THEN "due" ELSE waiting

PublishBlockHeight ==
  /\ notify' = "block"
  /\ waiting' = Overdue
  /\ UNCHANGED <<pending, approved>>

\* A block came while the task was under way.
Stale(j) == IF j = NoJob THEN j ELSE [j EXCEPT !.stale = TRUE]

Connected ==
  /\ events # <<>> /\ Head(events).kind = "chain"
  /\ LET c == Head(events).chain IN
     /\ IsPrefix(tip, c)
     /\ tip' = c
     /\ UNCHANGED <<gen, status>>
     /\ IF synced
        THEN /\ PublishBlockHeight
             /\ QueueScans(queue, {Last(c)})
             /\ job' = Stale(job)
        ELSE UNCHANGED <<leaderVars, scanVars, job>>
  /\ events' = Tail(events)
  /\ UNCHANGED <<best, gone, core, kyoto, synced, cache, disc, waiters, faults>>

\* cancel_deposit_workers: unfinished workers end, and their callers are told.
CancelledJob(j) ==
  IF j.pc \in {"discover", "check"} THEN [pc |-> "failed", stale |-> j.stale] ELSE j

\* A mutant: scans of disconnected blocks stay queued.
KeptAll(disconnected) == queue

KeptScans(disconnected) == queue \ disconnected

\* apply_reorg, reset_bitcoin_state
AfterReorg(s, disconnected) == IF s.block \in disconnected THEN Unchecked ELSE s
AfterReset(s) == IF s = Untracked THEN Untracked ELSE Unchecked

Reorganized ==
  /\ events # <<>> /\ Head(events).kind = "chain"
  /\ LET c == Head(events).chain
         disconnected == ToSet(tip) \ ToSet(c)
         accepted == ToSet(c) \ ToSet(tip) IN
     /\ ~ IsPrefix(tip, c)
     /\ tip' = c
     /\ gen' = gen + 1
     /\ cache' = NoCache
     /\ disc' = NoDisc
     /\ status' = AfterReorg(status, disconnected)
     /\ IF synced
        THEN /\ PublishBlockHeight
             /\ QueueScans(KeptScans(disconnected), accepted)
             /\ job' = Stale(CancelledJob(job))
        ELSE /\ job' = CancelledJob(job)
             /\ queue' = KeptScans(disconnected)
             /\ NotifyWork
             /\ UNCHANGED scan
  /\ events' = Tail(events)
  /\ UNCHANGED <<best, gone, core, kyoto, synced, waiters, faults>>

FiltersSynced ==
  /\ events # <<>> /\ Head(events).kind = "synced"
  /\ synced' = TRUE
  /\ tip' = Head(events).chain
  /\ PublishBlockHeight
  /\ job' = Stale(job)
  /\ events' = Tail(events)
  /\ UNCHANGED <<best, gone, core, kyoto, gen, status, cache, scanVars, disc, waiters, faults>>

\* Blocks past the horizon of the model only advance the sequence number.
LaterBlock ==
  /\ synced /\ tip = best /\ Len(best) = Horizon
  /\ PublishBlockHeight
  /\ job' = Stale(job)
  /\ UNCHANGED <<bitcoinVars, viewVars, status, cache, scanVars, disc, waiters, faults>>

\* Kyoto is rebuilt from the start checkpoint and its events are lost.
Restart ==
  /\ Fault
  /\ kyoto' = <<>> /\ events' = <<>>
  /\ synced' = FALSE /\ tip' = <<>> /\ gen' = gen + 1
  /\ cache' = NoCache /\ queue' = {} /\ disc' = NoDisc
  /\ status' = AfterReset(status)
  /\ waiting' = Overdue
  /\ notify' = WorkNotified
  /\ job' = Stale(CancelledJob(job))
  /\ UNCHANGED <<best, gone, core, scan, waiters, pending, approved>>

-----------------------------------------------------------------------------
(* Discovery: where is the transaction? *)

\* A mutant: checks are taken while the monitor catches up.
ReadyAlways == TRUE

Ready == synced

StartCheck(s) ==
  job' = [pc |-> "check", stale |-> job.stale, tip |-> tip, gen |-> gen, status |-> s]

\* process_client_message, CheckDeposit
ConfirmDeposit ==
  /\ job.pc = "ask"
  /\ \/ /\ ~ Ready
        /\ job' = [job EXCEPT !.pc = "failed"]
        /\ UNCHANGED disc
     \/ /\ Ready /\ Known(status)
        /\ StartCheck(status)
        /\ UNCHANGED disc
     \/ /\ Ready /\ status.st \in {"unchecked", "untracked"}
        /\ job' = [job EXCEPT !.pc = "discover"]
        /\ disc' = IF disc # NoDisc THEN disc
                   ELSE [pc |-> "require", tip |-> tip, gen |-> gen, block |-> NONE,
                         token |-> IF status = Unchecked THEN "live" ELSE "none",
                         result |-> Error]
  /\ UNCHANGED <<bitcoinVars, viewVars, status, cache, scanVars, waiters, leaderVars, faults>>

\* Bitcoin Core has the captured tip at its height.
CoreAt(c) == IsPrefix(c, core)

Done(s) == [disc EXCEPT !.pc = "done", !.result = s]

\* The cached outputs, what the tracker recorded for the block, or a fetch of
\* it, which a second discovery joins.
FindOutputs(b) ==
  IF cache.outputs \/ status = InBlock(b)
  THEN disc' = Done(InBlock(b)) /\ UNCHANGED waiters
  ELSE /\ disc' = [disc EXCEPT !.pc = "fetch", !.block = b]
       /\ waiters' = waiters \cup {[block |-> b, gen |-> disc.gen]}

\* lookup_tx_block, from the cache or up to getrawtransaction
DiscoverRequire ==
  /\ disc.pc = "require"
  /\ IF cache.block # NONE THEN FindOutputs(cache.block)
     ELSE /\ disc' = IF CoreAt(disc.tip) THEN [disc EXCEPT !.pc = "lookup"] ELSE Done(Error)
          /\ UNCHANGED waiters
  /\ UNCHANGED <<bitcoinVars, viewVars, status, cache, scanVars, job, leaderVars, faults>>

DiscoverLookup ==
  /\ disc.pc = "lookup"
  /\ LET b == Carrier(core) IN
     \/ /\ b = NONE
        /\ disc' = [disc EXCEPT !.pc = "recheck"]
        /\ UNCHANGED <<cache, waiters>>
     \/ /\ b # NONE /\ b \in ToSet(kyoto)
        /\ cache' = [cache EXCEPT !.block = b]
        /\ FindOutputs(b)
     \/ /\ b # NONE /\ b \notin ToSet(kyoto)
        /\ disc' = Done(Error)
        /\ UNCHANGED <<cache, waiters>>
  /\ UNCHANGED <<bitcoinVars, viewVars, status, scanVars, job, leaderVars, faults>>

DiscoverRecheck ==
  /\ disc.pc = "recheck"
  /\ disc' = Done(IF CoreAt(disc.tip) THEN Absent ELSE Error)
  /\ UNCHANGED <<bitcoinVars, viewVars, status, cache, scanVars, waiters, job,
                 leaderVars, faults>>

\* The answer reaches the discovery that waits for it, if it still does.
Answered(d, w, s) ==
  IF d.pc = "fetch" /\ d.block = w.block /\ d.gen = w.gen
  THEN [d EXCEPT !.pc = "done", !.result = s] ELSE d

\* FetchWaiter::wait; the cache is a new one in every generation.
FetchDone(w) ==
  /\ waiters' = waiters \ {w}
  /\ \/ /\ ApplyBlockIfCurrent(w.block, w.gen)
        /\ disc' = Answered(IF Applies(w.block, w.gen) THEN DeadToken(disc) ELSE disc,
                            w, InBlock(w.block))
        /\ cache' = IF w.gen = gen THEN [cache EXCEPT !.outputs = TRUE] ELSE cache
        /\ UNCHANGED faults
     \/ /\ Fault
        /\ cache' = IF w.gen = gen THEN NoCache ELSE cache
        /\ disc' = Answered(disc, w, Error)
        /\ UNCHANGED <<status, leaderVars>>
  /\ UNCHANGED <<bitcoinVars, viewVars, scanVars, job>>

DiscoveryTimesOut ==
  /\ Fault
  /\ disc.pc \notin {"none", "done"}
  /\ disc' = Done(Error)
  /\ UNCHANGED <<bitcoinVars, viewVars, status, cache, scanVars, waiters, job, leaderVars>>

\* A mutant: the result of a discovery whose token is dead is recorded too.
RecordedAlways == disc.result # Error

RecordsResult == disc.token = "live" /\ disc.result # Error

\* finish_deposit_discovery: the tracker's own status takes precedence over
\* the result of a discovery that was overtaken.
FinishDiscovery ==
  /\ disc.pc = "done"
  /\ disc' = NoDisc
  /\ LET s == IF RecordsResult THEN disc.result
              ELSE IF Known(status) THEN status
              ELSE IF disc.token = "dead" /\ status = Untracked THEN Error ELSE disc.result IN
     /\ status' = IF RecordsResult THEN disc.result ELSE status
     /\ IF RecordsResult THEN NotifyWork ELSE UNCHANGED leaderVars
     /\ IF job.pc # "discover" THEN UNCHANGED job
        ELSE IF s = Error THEN job' = [job EXCEPT !.pc = "failed"] ELSE StartCheck(s)
  /\ UNCHANGED <<bitcoinVars, viewVars, cache, scanVars, waiters, faults>>

-----------------------------------------------------------------------------
(* The check, and the leader *)

\* check_unspent_at_tip: Core may be past the captured tip, on its chain.
UnspentAtTip(c) == CoreAt(c)

\* check_result_from_status
CheckStatus ==
  /\ job.pc = "check"
  /\ job' = [pc |-> "checked", stale |-> job.stale, block |-> job.status.block, gen |-> job.gen,
             confirmed |-> /\ job.status.st = "inblock"
                           /\ Confirmations(job.status.block, job.tip) >= deposit.threshold
                           /\ UnspentAtTip(job.tip)]
  /\ UNCHANGED <<bitcoinVars, viewVars, status, cache, scanVars, disc, waiters,
                 leaderVars, faults>>

CheckFails ==
  /\ Fault
  /\ job.pc \in {"discover", "check"}
  /\ job' = [pc |-> "failed", stale |-> job.stale]
  /\ UNCHANGED <<bitcoinVars, viewVars, status, cache, scanVars, disc, waiters, leaderVars>>

\* A mutant: the generation the check started in is not compared.
DeliversAlways == job.confirmed

Delivers == job.confirmed /\ job.gen = gen

\* finish_deposit_check
FinishCheck ==
  /\ job.pc = "checked"
  /\ job' = [pc |-> IF Delivers THEN "confirmed" ELSE "failed", stale |-> job.stale]
  /\ UNCHANGED <<bitcoinVars, viewVars, status, cache, scanVars, disc, waiters,
                 leaderVars, faults>>

\* actionable_requests
Actionable ==
  \/ status = Unchecked
  \/ status.st = "inblock" /\ Confirmations(status.block, tip) >= deposit.threshold

\* reload_pending_unapproved_deposit_requests, with what waits for a block
Reload(wait, inflight) ==
  /\ waiting' = IF Actionable THEN wait ELSE "no"
  /\ pending' = (Actionable /\ wait = "no" /\ ~ inflight /\ ~ approved)

\* process_unapproved_deposit_requests
StartJob ==
  /\ pending /\ job = NoJob
  /\ pending' = FALSE
  /\ job' = [pc |-> "ask", stale |-> FALSE]
  /\ UNCHANGED <<bitcoinVars, viewVars, status, cache, scanVars, disc, waiters,
                 waiting, notify, approved, faults>>

\* The tracker has changed, or activate_unapproved_deposits_for_btc_block.
Wakeup ==
  /\ notify # "none"
  /\ notify' = "none"
  /\ Reload(IF notify = "block" /\ waiting = "due" THEN "no" ELSE waiting, job # NoJob)
  /\ UNCHANGED <<bitcoinVars, viewVars, status, cache, scanVars, disc, waiters, job,
                 approved, faults>>

\* handle_completed_unapproved_deposit_task: a check that failed is tried again
\* at once if a block came meanwhile, else with the next block.  Collecting the
\* members' signatures on a confirmed deposit and submitting them is one step with
\* the approval.
HandleCompleted ==
  /\ job.pc \in {"failed", "confirmed"}
  /\ job' = NoJob
  /\ \/ /\ job.pc = "confirmed"
        /\ approved' = TRUE
        /\ UNCHANGED <<pending, waiting>>
     \/ /\ job.pc = "failed" /\ ~ job.stale
        /\ waiting' = "yes"
        /\ UNCHANGED <<pending, approved>>
     \/ /\ job.pc = "failed" /\ job.stale
        /\ Reload(waiting, FALSE)
        /\ UNCHANGED approved
  /\ UNCHANGED <<bitcoinVars, viewVars, status, cache, scanVars, disc, waiters,
                 notify, faults>>

-----------------------------------------------------------------------------
\* The request is followed until it is approved.
Open(A) == ~ approved /\ A /\ UNCHANGED deposit

Network == Mine \/ SyncCore \/ KyotoHeaders \/ KyotoFilters \/ LaterBlock
ChainUpdate == Connected \/ Reorganized \/ FiltersSynced
Discovery ==
  \/ DiscoverRequire \/ DiscoverLookup \/ DiscoverRecheck \/ FinishDiscovery
Fetch == \E w \in waiters : FetchDone(w)
Check == ConfirmDeposit \/ CheckStatus \/ FinishCheck \/ StartJob \/ HandleCompleted
Failure == RemoveRequest \/ Restart \/ DiscoveryTimesOut \/ CheckFails

Next ==
  Open(\/ Network \/ ChainUpdate \/ Discovery \/ Fetch \/ FinishScan
       \/ Check \/ Wakeup \/ UpsertRequest \/ Failure)

Spec == Init /\ [][Next]_vars

\* Bitcoin goes on, every worker ends, and the monitor's and the leader's loops
\* take what is ready.
FairSpec ==
  /\ Spec
  /\ WF_vars(Open(Mine)) /\ WF_vars(Open(SyncCore)) /\ WF_vars(Open(KyotoHeaders))
  /\ WF_vars(Open(KyotoFilters)) /\ WF_vars(Open(LaterBlock))
  /\ WF_vars(Open(ChainUpdate)) /\ WF_vars(Open(Discovery)) /\ WF_vars(Open(Fetch))
  /\ WF_vars(Open(FinishScan)) /\ WF_vars(Open(Check)) /\ WF_vars(Open(Wakeup))
  /\ WF_vars(Open(UpsertRequest))

-----------------------------------------------------------------------------
\* The state is well formed, and a scan is queued only for a block of the
\* monitor's chain.
TypeOK ==
  /\ {best, core, kyoto, tip} \subseteq Chains
  /\ status.st \in {"untracked", "unchecked", "absent", "inblock"}
  /\ queue \subseteq ToSet(tip)

\* An output recorded as absent is looked up again by nothing but the scan of a
\* block: if a block of the monitor's chain has it, that block is still queued.
\* That needs a network that does not return to a branch it left.
AbsentIsScanned ==
  synced /\ status = Absent /\ Carrier(tip) # NONE => Carrier(tip) \in queue

\* A recorded block is on the monitor's chain, or on one that an event will
\* bring; a block that was disconnected is never left in the tracker.
RecordedOnChain ==
  status.st = "inblock" =>
    \/ status.block \in ToSet(tip)
    \/ \E i \in DOMAIN events : status.block \in ToSet(events[i].chain)

\* A deposit is reported confirmed only while the block it was found in is on
\* the monitor's chain, at the threshold, whatever happened to the chain since
\* the check was started, if the network does not return to a branch it left.
ConfirmedIsDeep ==
  [][job.pc = "checked" /\ job'.pc = "confirmed" =>
       /\ job.block \in ToSet(tip)
       /\ Confirmations(job.block, tip) >= deposit.threshold]_vars

\* A deposit that stays on the best chain is approved in the end, with what
\* fails, is reorganized or restarts on the way.
EventuallyApproved == <>approved

=============================================================================
