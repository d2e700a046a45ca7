------------------------------- MODULE Finalize -------------------------------
(***************************************************************************)
(* How fully MPC-signed withdrawals get the guardian's half of the witness *)
(* and are finalized on chain: the leader's signing task, the proxy that   *)
(* makes the guardian idempotent by withdrawal id, the guardian's sequence *)
(* number, and each node's mirror of it (guardian_limiter.rs).             *)
(*                                                                         *)
(* The guardian advances when it signs, a mirror when the node applies the *)
(* event of the finalized withdrawal.  A mirror is therefore behind by     *)
(* what is in flight; an event lost to a re-bootstrap leaves it behind for *)
(* good, and a seed or a snap that already counts a withdrawal in flight   *)
(* leaves it ahead.  Nodes certify a finalize only at their own sequence   *)
(* number, so the mirrors have to come together again.                     *)
(*                                                                         *)
(* The bucket's tokens are left out: a bucket that does not hold an amount *)
(* refills, and a mirror's that does not is a fault.  A pause stands for   *)
(* all that stops finalizing, a pending reconfiguration included.          *)
(***************************************************************************)
EXTENDS Integers, Sequences, FiniteSets

CONSTANTS
  Nodes,
  Leaders,     \* the nodes that get turns as leader
  Quorums,     \* sets of nodes whose signatures make a certificate
  NumWids,     \* withdrawals 1 .. NumWids, in the order of their creation
  Window,      \* STALL_RECONCILE_TICKS
  MaxSeq,      \* bound of the model on the guardian's sequence number
  MaxFaults,   \* bound of the model on lost calls and events, restarts and pauses
  NONE

ASSUME FinalizeAssumption ==
  /\ {NumWids, Window, MaxSeq, MaxFaults} \subseteq Nat
  /\ Window > 0
  /\ Leaders \subseteq Nodes
  /\ Quorums \subseteq SUBSET Nodes
  /\ NONE \notin Nat

Wids == 1 .. NumWids

VARIABLES
  gseq,     \* the guardian's next_seq
  log,      \* the sequence numbers each withdrawal is logged under in S3
  orphans,  \* requests the proxy is forwarding for a task that is gone
  info,     \* the older next_seq that the proxy's GuardianInfoCache answers with
  chain,    \* the withdrawals finalized on chain, in order
  paused,
  applied,  \* how many events of the chain each node has applied or skipped
  seq,      \* next_seq of each node's mirror, NONE until it is seeded
  window,   \* guardian_seq_window
  pacing,   \* FinalizePacing
  read,     \* the read of GetGuardianInfo a node is waiting for
  task,     \* the node's signing task
  faults,
  resynced  \* history: nodes whose mirror was set from the guardian

guardVars == <<gseq, log, orphans, info>>
chainVars == <<chain, paused>>
nodeVars == <<applied, seq, window, pacing, read>>
vars == <<guardVars, chainVars, nodeVars, task, faults, resynced>>

Idle == [pc |-> "idle"]
NoRead == [seq |-> NONE, fresh |-> FALSE, refused |-> FALSE]
NoPacing == [seq |-> NONE, wid |-> NONE, unused |-> FALSE]

Init ==
  /\ gseq = 0 /\ log = [w \in Wids |-> {}] /\ orphans = {} /\ info = NONE
  /\ chain = <<>> /\ paused = FALSE
  /\ applied = [n \in Nodes |-> 0]
  /\ seq = [n \in Nodes |-> 0]
  /\ window = [n \in Nodes |-> <<>>]
  /\ pacing = [n \in Nodes |-> NoPacing]
  /\ read = [n \in Nodes |-> NoRead]
  /\ task = [n \in Nodes |-> Idle]
  /\ faults = 0 /\ resynced = {}

\* The withdrawals that are finalized in the node's view of the chain.
View(n) == {chain[i] : i \in 1 .. applied[n]}
Finalized == {chain[i] : i \in DOMAIN chain}

Fault == faults < MaxFaults /\ faults' = faults + 1

-----------------------------------------------------------------------------
(* The leader's signing task *)

\* Defer while the mirror is behind a number that the guardian consumed for
\* another withdrawal, unless the guardian was seen not to have consumed it.
ShouldDefer(n, w) ==
  LET p == pacing[n] IN
  /\ p.seq # NONE
  /\ seq[n] <= p.seq
  /\ w # p.wid
  /\ ~ p.unused

\* The oldest withdrawal that is not finalized in the node's view.
OldestUnsigned(n) == {w \in Wids \ View(n) : \A v \in Wids \ View(n) : w <= v}

\* The members sign a request whatever its number, unless the withdrawal is
\* finalized in their view.
RequestSigned(w) == \E Q \in Quorums : \A m \in Q : w \notin View(m)

\* One task at a time; nothing is sent while the bridge is paused.
StartFinalize(n) ==
  /\ n \in Leaders /\ task[n] = Idle
  /\ seq[n] # NONE
  /\ ~ paused
  /\ \E w \in OldestUnsigned(n) :
       /\ ~ ShouldDefer(n, w)
       /\ RequestSigned(w)
       /\ task' = [task EXCEPT ![n] = [pc |-> "lookup", wid |-> w, seq |-> seq[n]]]
  /\ UNCHANGED <<guardVars, chainVars, nodeVars, faults, resynced>>

\* The answer is recorded under the number that was requested, also when it
\* is a replay; an older number than the last one is not.
RecordFinalized(n) ==
  LET t == task[n] IN
  IF pacing[n].seq # NONE /\ t.seq < pacing[n].seq
  THEN UNCHANGED <<pacing, read>>
  ELSE /\ pacing' = [pacing EXCEPT ![n] = [seq |-> t.seq, wid |-> t.wid, unused |-> FALSE]]
       /\ read' = [read EXCEPT ![n].fresh = FALSE]

Logged(w) == log[w] # {}

\* The proxy answers a withdrawal that is in the log from the log.
Lookup(n) ==
  /\ task[n].pc = "lookup"
  /\ \/ /\ Logged(task[n].wid)
        /\ task' = [task EXCEPT ![n].pc = "certify"]
        /\ RecordFinalized(n)
     \/ /\ ~ Logged(task[n].wid)
        /\ task' = [task EXCEPT ![n].pc = "forward"]
        /\ UNCHANGED <<pacing, read>>
  /\ UNCHANGED <<guardVars, chainVars, applied, seq, window, faults, resynced>>

\* The enclave accepts exactly its next number, and logs before it answers.
Consume(w) ==
  /\ gseq' = gseq + 1
  /\ log' = [log EXCEPT ![w] = @ \cup {gseq}]

\* A mutant: a refusal of the guardian is taken for an answer.
ForwardIgnoringRefusal(n) ==
  /\ task[n].pc = "forward"
  /\ IF task[n].seq = gseq /\ gseq < MaxSeq
     THEN Consume(task[n].wid) /\ info' = NONE ELSE UNCHANGED <<gseq, log, info>>
  /\ task' = [task EXCEPT ![n].pc = "certify"]
  /\ RecordFinalized(n)
  /\ UNCHANGED <<orphans, chainVars, applied, seq, window, faults, resynced>>

\* An answer invalidates the proxy's copy of the guardian's state.  A refused
\* request is dropped, and a later turn asks again.
Forward(n) ==
  /\ task[n].pc = "forward"
  /\ \/ /\ task[n].seq = gseq
        /\ gseq < MaxSeq
        /\ Consume(task[n].wid)
        /\ info' = NONE
        /\ task' = [task EXCEPT ![n].pc = "certify"]
        /\ RecordFinalized(n)
     \/ /\ task[n].seq # gseq
        /\ task' = [task EXCEPT ![n] = Idle]
        /\ UNCHANGED <<gseq, log, info, pacing, read>>
  /\ UNCHANGED <<orphans, chainVars, applied, seq, window, faults, resynced>>

\* A request whose caller is gone is still carried out, and nothing invalidates
\* what the proxy may have cached before.
ForwardOrphan(r) ==
  /\ orphans' = orphans \ {r}
  /\ IF r.seq = gseq /\ gseq < MaxSeq
     THEN Consume(r.wid) /\ info' \in {info, IF info = NONE THEN gseq ELSE info}
     ELSE UNCHANGED <<gseq, log, info>>
  /\ UNCHANGED <<chainVars, nodeVars, task, faults, resynced>>

\* Members certify at their own number only.
Certifies(m, t) == t.wid \notin View(m) /\ seq[m] = t.seq

CollectFinalize(n) ==
  /\ task[n].pc = "certify"
  /\ task' = [task EXCEPT ![n] =
       IF \E Q \in Quorums : \A m \in Q : Certifies(m, task[n])
       THEN [pc |-> "submit", wid |-> task[n].wid] ELSE Idle]
  /\ UNCHANGED <<guardVars, chainVars, nodeVars, faults, resynced>>

\* finalize_withdrawal; the chain refuses one that is finalized already, and
\* any while it is paused.
SubmitFinalize(n) ==
  /\ task[n].pc = "submit"
  /\ IF task[n].wid \in Finalized \/ paused
     THEN UNCHANGED chain ELSE chain' = Append(chain, task[n].wid)
  /\ task' = [task EXCEPT ![n] = Idle]
  /\ UNCHANGED <<guardVars, paused, nodeVars, faults, resynced>>

-----------------------------------------------------------------------------
(* The mirrors *)

\* LocalLimiter::apply_consume at the limiter's own number; without a limiter
\* there is nothing to advance.
Advanced(s) == IF s = NONE THEN NONE ELSE s + 1

\* The event of a finalized withdrawal.  A mirror whose bucket does not hold the
\* amount, or is ahead in time, keeps its state.
ApplyConsume(n) ==
  /\ applied[n] < Len(chain)
  /\ applied' = [applied EXCEPT ![n] = @ + 1]
  /\ \/ /\ seq' = [seq EXCEPT ![n] = Advanced(@)]
        /\ UNCHANGED faults
     \/ /\ Fault
        /\ UNCHANGED seq
  /\ UNCHANGED <<guardVars, chainVars, window, pacing, read, task, resynced>>

\* The copy of the proxy has outlived its TTL.
InfoExpires ==
  /\ info # NONE
  /\ info' = NONE
  /\ UNCHANGED <<gseq, log, orphans, chainVars, nodeVars, task, faults, resynced>>

\* GetGuardianInfo.  Whether finalizing is refused is read before the call, and
\* forgets what was seen until then.
ReadGuardian(n) ==
  /\ read[n] = NoRead
  /\ read' = [read EXCEPT ![n] = [seq |-> IF info = NONE THEN gseq ELSE info,
                                       fresh |-> TRUE, refused |-> paused]]
  /\ window' = IF paused THEN [window EXCEPT ![n] = <<>>] ELSE window
  /\ UNCHANGED <<guardVars, chainVars, applied, seq, pacing, task, faults, resynced>>

\* A read that started before the last finalize tells nothing about pacing.
NotePacing(n) ==
  pacing' = IF read[n].fresh THEN [pacing EXCEPT ![n].unused =
             pacing[n].seq # NONE /\ read[n].seq <= pacing[n].seq] ELSE pacing

\* The first read of a process seeds the mirror.
SeedLimiter(n) ==
  /\ seq[n] = NONE
  /\ read[n] # NoRead
  /\ seq' = [seq EXCEPT ![n] = read[n].seq]
  /\ NotePacing(n)
  /\ read' = [read EXCEPT ![n] = NoRead]
  /\ resynced' = resynced \cup {n}
  /\ UNCHANGED <<guardVars, chainVars, applied, window, task, faults>>

\* A mutant: only a mirror that is behind.
StalledBehind(n) == Len(window[n]) = Window /\ seq[n] < Head(window[n])

\* The mirror did not reach in a whole window what the guardian had before it,
\* or is ahead of the guardian.
Stalled(n) ==
  /\ Len(window[n]) = Window
  /\ seq[n] < Head(window[n]) \/ seq[n] > read[n].seq

\* A mutant: one observation too many is kept.
PushedOnePast(w, s) == IF Len(w) > Window THEN Append(Tail(w), s) ELSE Append(w, s)

Pushed(w, s) == IF Len(w) >= Window THEN Append(Tail(w), s) ELSE Append(w, s)

\* A tick of the reconcile loop.
ReconcileLimiter(n) ==
  /\ seq[n] # NONE
  /\ read[n] # NoRead
  /\ NotePacing(n)
  /\ read' = [read EXCEPT ![n] = NoRead]
  /\ \/ /\ read[n].refused
        /\ UNCHANGED <<seq, window, resynced>>
     \/ /\ ~ read[n].refused /\ Stalled(n)
        /\ seq' = [seq EXCEPT ![n] = read[n].seq]
        /\ window' = [window EXCEPT ![n] = <<>>]
        /\ resynced' = resynced \cup {n}
     \/ /\ ~ read[n].refused /\ ~ Stalled(n)
        /\ window' = [window EXCEPT ![n] = Pushed(@, read[n].seq)]
        /\ UNCHANGED <<seq, resynced>>
  /\ UNCHANGED <<guardVars, chainVars, applied, task, faults>>

-----------------------------------------------------------------------------
(* Faults *)

Orphaned(n) ==
  orphans' = IF task[n].pc = "forward"
             THEN orphans \cup {[wid |-> task[n].wid, seq |-> task[n].seq]}
             ELSE orphans

\* A call fails or the task's timeout fires; the proxy goes on.
LoseTask(n) ==
  /\ Fault
  /\ task[n] # Idle
  /\ Orphaned(n)
  /\ task' = [task EXCEPT ![n] = Idle]
  /\ UNCHANGED <<gseq, log, info, chainVars, nodeVars, resynced>>

\* A restarted node reads the chain as it is and waits for a seed.
Restart(n) ==
  /\ Fault
  /\ Orphaned(n)
  /\ task' = [task EXCEPT ![n] = Idle]
  /\ applied' = [applied EXCEPT ![n] = Len(chain)]
  /\ seq' = [seq EXCEPT ![n] = NONE]
  /\ window' = [window EXCEPT ![n] = <<>>]
  /\ pacing' = [pacing EXCEPT ![n] = NoPacing]
  /\ read' = [read EXCEPT ![n] = NoRead]
  /\ UNCHANGED <<gseq, log, info, chainVars, resynced>>

\* A re-bootstrap installs the state without the events in between.
Rebootstrap(n) ==
  /\ Fault
  /\ applied[n] < Len(chain)
  /\ applied' = [applied EXCEPT ![n] = Len(chain)]
  /\ UNCHANGED <<guardVars, chainVars, seq, window, pacing, read, task, resynced>>

Pause ==
  /\ Fault
  /\ ~ paused
  /\ paused' = TRUE
  /\ UNCHANGED <<guardVars, chain, nodeVars, task, resynced>>

Unpause ==
  /\ paused
  /\ paused' = FALSE
  /\ UNCHANGED <<guardVars, chain, nodeVars, task, faults, resynced>>

-----------------------------------------------------------------------------
TaskStep(n) ==
  \/ StartFinalize(n) \/ Lookup(n) \/ Forward(n)
  \/ SubmitFinalize(n) \/ CollectFinalize(n)

MirrorStep(n) == ReadGuardian(n) \/ SeedLimiter(n) \/ ReconcileLimiter(n)

Next ==
  \/ \E n \in Nodes : \/ TaskStep(n) \/ MirrorStep(n) \/ ApplyConsume(n)
                      \/ LoseTask(n) \/ Restart(n) \/ Rebootstrap(n)
  \/ \E r \in orphans : ForwardOrphan(r)
  \/ InfoExpires \/ Pause \/ Unpause

Spec == Init /\ [][Next]_vars

\* The loops of a node run for ever, the watcher delivers, a request that was
\* forwarded ends, a copy expires, and a pause is lifted.
FairSpec ==
  /\ Spec
  /\ \A n \in Nodes : WF_vars(TaskStep(n)) /\ WF_vars(MirrorStep(n)) /\ WF_vars(ApplyConsume(n))
  /\ WF_vars(\E r \in orphans : ForwardOrphan(r))
  /\ WF_vars(InfoExpires) /\ WF_vars(Unpause)

-----------------------------------------------------------------------------
\* The state of the mirrors is well formed, and the window holds no more than
\* STALL_RECONCILE_TICKS observations.
TypeOK ==
  /\ gseq \in 0 .. MaxSeq
  /\ log \in [Wids -> SUBSET (0 .. MaxSeq)]
  /\ applied \in [Nodes -> 0 .. Len(chain)]
  /\ seq \in [Nodes -> Nat \cup {NONE}]
  /\ \A n \in Nodes : Len(window[n]) <= Window

\* A mirror runs ahead of the guardian only after it was seeded or snapped from
\* it: "which can only happen once lockstep is already lost"
\* (guardian_limiter.rs, LimiterStallTracker).  Events alone, however late or
\* lost, never take it there, since each follows the guardian's signature.
AheadOnlyAfterResync ==
  \A n \in Nodes : seq[n] # NONE /\ seq[n] > gseq => n \in resynced

\* Every withdrawal is finalized in the end, whatever a lost call, a restart, a
\* re-bootstrap or a pause did to the mirrors: the stall tracker brings them to
\* one number, and pacing does not hold a withdrawal back for good.
AllFinalized == <>(Finalized = Wids)

\* A withdrawal takes one sequence number of the guardian only: "When a node
\* retries a wid, the proxy must return the recorded response and must not ask
\* the enclave to sign again" (hashi-guardian-proxy, node/widlog.rs).
WidConsumedOnce == \A w \in Wids : Cardinality(log[w]) <= 1

=============================================================================
