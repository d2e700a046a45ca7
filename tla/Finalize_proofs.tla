--------------------------- MODULE Finalize_proofs ---------------------------
(***************************************************************************)
(* Where a mirror of the guardian's sequence number can be, proved for any *)
(* nodes, quorums, withdrawals and bounds.  The argument: a finalize is    *)
(* submitted only for a withdrawal that is in the guardian's log           *)
(* (Covered), the log gives no number to two withdrawals (Numbering), and  *)
(* the chain finalizes a withdrawal once (Once).  So there are no more     *)
(* events than numbers consumed, and a mirror that was never set from the  *)
(* guardian counts events only (Counted).                                  *)
(***************************************************************************)
EXTENDS Finalize, TLAPS, FiniteSetTheorems

Requests == [wid : Wids, seq : Nat]
Tasks ==
  {Idle} \cup [pc : {"lookup", "forward", "certify"}, wid : Wids, seq : Nat]
         \cup [pc : {"submit"}, wid : Wids]
Reads == {NoRead} \cup [seq : Nat, fresh : BOOLEAN, refused : BOOLEAN]

\* The types of all that a sequence number passes through.
Typing ==
  /\ TypeOK
  /\ chain \in Seq(Wids) /\ paused \in BOOLEAN
  /\ window \in [Nodes -> Seq(Nat)]
  /\ info \in Nat \cup {NONE}
  /\ read \in [Nodes -> Reads]
  /\ orphans \subseteq Requests
  /\ task \in [Nodes -> Tasks]

\* The guardian gives each of its numbers to one withdrawal.
Numbering ==
  \A v \in Wids : \A s \in log[v] :
    /\ s < gseq
    /\ \A w \in Wids : s \in log[w] => v = w

\* The chain finalizes a withdrawal once.
Once == \A i, j \in DOMAIN chain : chain[i] = chain[j] => i = j

\* What is finalized, or on its way to be, is in the guardian's log.
Covered ==
  /\ \A i \in DOMAIN chain : Logged(chain[i])
  /\ \A n \in Nodes : task[n].pc \in {"certify", "submit"} => Logged(task[n].wid)

\* A mirror that was not set from the guardian has counted events only.
Counted ==
  \A n \in Nodes : n \notin resynced /\ seq[n] # NONE => seq[n] <= applied[n]

\* The inductive invariant.
LockstepInv == Typing /\ Numbering /\ Once /\ Covered /\ Counted

-----------------------------------------------------------------------------
\* A window of at most STALL_RECONCILE_TICKS observations stays one when the
\* tracker records another (LimiterStallTracker::observe).
LEMMA PushedLength ==
  ASSUME NEW w \in Seq(Nat), NEW s \in Nat, Len(w) <= Window
  PROVE  Pushed(w, s) \in Seq(Nat) /\ Len(Pushed(w, s)) <= Window
<1>1. Window \in Nat /\ Window > 0 BY FinalizeAssumption
<1>2. CASE Len(w) >= Window
  <2>1. w # <<>> BY <1>1, <1>2
  <2>2. Tail(w) \in Seq(Nat) /\ Len(Tail(w)) = Len(w) - 1 BY <2>1
  <2> QED BY <1>1, <1>2, <2>2 DEF Pushed
<1>3. CASE ~ (Len(w) >= Window) BY <1>1, <1>3 DEF Pushed
<1> QED BY <1>2, <1>3

\* There are no more finalized withdrawals than numbers the guardian consumed:
\* a number of its own for every place of the chain.
LEMMA ChainWithinLog ==
  ASSUME LockstepInv
  PROVE  Len(chain) <= gseq
<1> DEFINE f == [i \in 1 .. Len(chain) |-> CHOOSE s \in log[chain[i]] : TRUE]
<1>0. gseq \in Nat /\ Len(chain) \in Nat /\ chain \in Seq(Wids) /\ MaxSeq \in Nat
  BY FinalizeAssumption DEF LockstepInv, Typing, TypeOK
<1>1. \A i \in 1 .. Len(chain) : chain[i] \in Wids /\ f[i] \in log[chain[i]]
  BY <1>0 DEF LockstepInv, Covered, Logged
<1>2. \A i \in 1 .. Len(chain) : f[i] \in 0 .. gseq - 1
  BY <1>0, <1>1 DEF LockstepInv, Typing, TypeOK, Numbering
<1>3. \A i, j \in 1 .. Len(chain) : f[i] = f[j] => i = j
  <2> SUFFICES ASSUME NEW i \in 1 .. Len(chain), NEW j \in 1 .. Len(chain), f[i] = f[j]
               PROVE  i = j
    OBVIOUS
  <2>1. chain[i] = chain[j] BY <1>1 DEF LockstepInv, Numbering
  <2> QED BY <1>0, <2>1 DEF LockstepInv, Once
<1>4. f \in Injection(1 .. Len(chain), 0 .. gseq - 1)
  <2> HIDE DEF f
  <2>1. f \in [1 .. Len(chain) -> 0 .. gseq - 1] BY <1>2 DEF f
  <2> QED BY <1>3, <2>1 DEF Injection, IsInjective
<1>5. /\ IsFiniteSet(0 .. gseq - 1)
      /\ Cardinality(0 .. gseq - 1) = gseq
      /\ Cardinality(1 .. Len(chain)) = Len(chain)
  <2>1. 0 \in Int /\ 1 \in Int /\ gseq - 1 \in Int /\ Len(chain) \in Int BY <1>0
  <2>2. /\ IsFiniteSet(0 .. gseq - 1)
        /\ Cardinality(0 .. gseq - 1) = IF 0 > gseq - 1 THEN 0 ELSE gseq - 1 - 0 + 1
    BY <2>1, FS_Interval
  <2>3. Cardinality(1 .. Len(chain)) = IF 1 > Len(chain) THEN 0 ELSE Len(chain) - 1 + 1
    BY <2>1, FS_Interval
  <2> QED BY <1>0, <2>2, <2>3
<1>6. Cardinality(1 .. Len(chain)) <= Cardinality(0 .. gseq - 1)
  <2> HIDE DEF f
  <2> QED BY <1>4, <1>5, FS_Injection
<1> QED BY <1>5, <1>6

\* The property follows from the invariant.
LEMMA LockstepImpliesAhead == LockstepInv => AheadOnlyAfterResync
<1> SUFFICES ASSUME LockstepInv, NEW n \in Nodes, seq[n] # NONE, n \notin resynced
             PROVE  ~ (seq[n] > gseq)
  BY DEF AheadOnlyAfterResync
<1>1. seq[n] \in Nat /\ applied[n] \in Nat /\ applied[n] <= Len(chain) /\ gseq \in Nat
      /\ Len(chain) \in Nat
  BY FinalizeAssumption DEF LockstepInv, Typing, TypeOK
<1>2. seq[n] <= applied[n] BY DEF LockstepInv, Counted
<1> QED BY <1>1, <1>2, ChainWithinLog

-----------------------------------------------------------------------------
(* Every step keeps the invariant. *)

\* What a step leaves alone, by the parts of the invariant that depend on it.
LEMMA StutterKeeps ==
  ASSUME LockstepInv,
         UNCHANGED <<gseq, log, orphans, info, chain, applied, seq, window, read, task,
                     resynced>>,
         paused' \in BOOLEAN
  PROVE  LockstepInv'
<1>1. Typing' BY DEF LockstepInv, Typing, TypeOK
<1>2. Numbering' /\ Once' /\ Counted' BY DEF LockstepInv, Numbering, Once, Counted
<1>3. Covered' BY DEF LockstepInv, Covered, Logged
<1> QED BY <1>1, <1>2, <1>3 DEF LockstepInv

\* Nothing is finalized, logged or seeded at the start.
LEMMA InitLockstep == Init => LockstepInv
<1> SUFFICES ASSUME Init PROVE LockstepInv OBVIOUS
<1>1. Typing
  <2>1. <<>> \in Seq(Wids) /\ <<>> \in Seq(Nat) /\ Len(<<>>) = 0 OBVIOUS
  <2>2. TypeOK BY <2>1, FinalizeAssumption DEF Init, TypeOK
  <2> QED BY <2>1, <2>2 DEF Init, Typing, Tasks, Reads
<1>2. Numbering /\ Once /\ Covered /\ Counted
  BY DEF Init, Numbering, Once, Covered, Counted, Idle
<1> QED BY <1>1, <1>2 DEF LockstepInv

\* A task that moves on, and nothing else, but what was noted of the answer.
LEMMA TaskKeeps ==
  ASSUME LockstepInv,
         UNCHANGED <<gseq, log, chain, applied, seq, window, info, resynced>>,
         paused' \in BOOLEAN, read' \in [Nodes -> Reads], orphans' \subseteq Requests,
         NEW n \in Nodes, NEW t \in Tasks, task' = [task EXCEPT ![n] = t],
         t.pc \in {"certify", "submit"} => Logged(t.wid)
  PROVE  LockstepInv'
<1>1. Typing' BY DEF LockstepInv, Typing, TypeOK
<1>2. Numbering' /\ Once' /\ Counted'
  BY DEF LockstepInv, Numbering, Once, Counted
<1>3. Covered' BY DEF LockstepInv, Typing, Covered, Logged
<1> QED BY <1>1, <1>2, <1>3 DEF LockstepInv

\* What RecordFinalized leaves of a pending read is a read.
LEMMA RecordTyped ==
  ASSUME read \in [Nodes -> Reads], NEW n \in Nodes, RecordFinalized(n)
  PROVE  read' \in [Nodes -> Reads]
<1>1. CASE UNCHANGED read BY <1>1
<1>2. CASE read' = [read EXCEPT ![n].fresh = FALSE]
  <2>1. [read[n] EXCEPT !.fresh = FALSE] \in Reads
    <3>1. read[n] \in Reads OBVIOUS
    <3>2. CASE read[n] = NoRead
      <4>1. [NoRead EXCEPT !.fresh = FALSE] = NoRead
        <5>1. NoRead = [x \in {"seq", "fresh", "refused"} |-> NoRead[x]] BY DEF NoRead
        <5>2. NoRead.fresh = FALSE BY DEF NoRead
        <5>3. [NoRead EXCEPT !.fresh = FALSE] = [NoRead EXCEPT !["fresh"] = NoRead["fresh"]]
          BY <5>2
        <5> QED BY <5>1, <5>3
      <4> QED BY <3>2, <4>1 DEF Reads
    <3>3. CASE read[n] \in [seq : Nat, fresh : BOOLEAN, refused : BOOLEAN]
      BY <3>3 DEF Reads
    <3> QED BY <3>1, <3>2, <3>3 DEF Reads
  <2> QED BY <1>2, <2>1
<1> QED BY <1>1, <1>2 DEF RecordFinalized

\* A leader that starts a request has consumed nothing.
LEMMA StartKeeps ==
  ASSUME LockstepInv, NEW n \in Nodes, StartFinalize(n)
  PROVE  LockstepInv'
<1>1. PICK w \in OldestUnsigned(n) :
        task' = [task EXCEPT ![n] = [pc |-> "lookup", wid |-> w, seq |-> seq[n]]]
  BY DEF StartFinalize
<1>2. w \in Wids /\ seq[n] \in Nat
  BY DEF OldestUnsigned, StartFinalize, LockstepInv, Typing, TypeOK
<1> DEFINE t == [pc |-> "lookup", wid |-> w, seq |-> seq[n]]
<1>3. t \in Tasks /\ t.pc = "lookup" BY <1>2 DEF Tasks
<1>4. UNCHANGED <<gseq, log, chain, applied, seq, window, info, resynced, read, orphans, paused>>
  BY DEF StartFinalize, guardVars, chainVars, nodeVars
<1>5. read \in [Nodes -> Reads] /\ orphans \subseteq Requests /\ paused \in BOOLEAN
  BY DEF LockstepInv, Typing
<1> HIDE DEF t
<1> QED BY <1>1, <1>3, <1>4, <1>5, TaskKeeps DEF t

\* The task of n, given its place.
LEMMA TaskAt ==
  ASSUME Typing, NEW n \in Nodes, task[n].pc \in {"lookup", "forward", "certify"}
  PROVE  /\ task[n] \in [pc : {"lookup", "forward", "certify"}, wid : Wids, seq : Nat]
         /\ \A p \in {"lookup", "forward", "certify"} :
              /\ [task[n] EXCEPT !.pc = p] \in Tasks
              /\ [task[n] EXCEPT !.pc = p].pc = p
              /\ [task[n] EXCEPT !.pc = p].wid = task[n].wid
<1>1. task[n] \in Tasks BY DEF Typing
<1>2. task[n] \in [pc : {"lookup", "forward", "certify"}, wid : Wids, seq : Nat]
  BY <1>1 DEF Tasks, Idle
<1> QED BY <1>2 DEF Tasks

\* A lookup finds a response that the guardian logged under its sequence
\* number.
LEMMA LookupKeeps ==
  ASSUME LockstepInv, NEW n \in Nodes, Lookup(n)
  PROVE  LockstepInv'
<1>0. Typing BY DEF LockstepInv
<1>1. task[n].pc = "lookup" BY DEF Lookup
<1>2. UNCHANGED <<gseq, log, chain, applied, seq, window, info, resynced, orphans, paused>>
  BY DEF Lookup, guardVars, chainVars
<1>3. /\ read \in [Nodes -> Reads] /\ orphans \subseteq Requests
      /\ task \in [Nodes -> Tasks] /\ paused \in BOOLEAN
  BY <1>0 DEF Typing
<1>4. read' \in [Nodes -> Reads] BY <1>3, RecordTyped DEF Lookup
<1>5. CASE Logged(task[n].wid) /\ task' = [task EXCEPT ![n].pc = "certify"]
  <2> DEFINE t == [task[n] EXCEPT !.pc = "certify"]
  <2>1. t \in Tasks /\ Logged(t.wid) BY <1>0, <1>1, <1>5, TaskAt
  <2>2. task' = [task EXCEPT ![n] = t] BY <1>3, <1>5
  <2> HIDE DEF t
  <2> QED BY <1>2, <1>3, <1>4, <2>1, <2>2, TaskKeeps
<1>6. CASE task' = [task EXCEPT ![n].pc = "forward"]
  <2> DEFINE t == [task[n] EXCEPT !.pc = "forward"]
  <2>1. t \in Tasks /\ t.pc = "forward" BY <1>0, <1>1, TaskAt
  <2>2. task' = [task EXCEPT ![n] = t] BY <1>3, <1>6
  <2> HIDE DEF t
  <2> QED BY <1>2, <1>3, <1>4, <2>1, <2>2, TaskKeeps
<1> QED BY <1>5, <1>6 DEF Lookup

\* The guardian's step: a new number, for a withdrawal that may have one already.
LEMMA ConsumeKeeps ==
  ASSUME LockstepInv, NEW w \in Wids, Consume(w), gseq < MaxSeq
  PROVE  /\ gseq' \in 0 .. MaxSeq /\ log' \in [Wids -> SUBSET (0 .. MaxSeq)]
         /\ Numbering'
         /\ log'[w] # {} /\ \A v \in Wids : log[v] # {} => log'[v] # {}
<1>0. /\ gseq \in 0 .. MaxSeq /\ MaxSeq \in Nat /\ log \in [Wids -> SUBSET (0 .. MaxSeq)]
      /\ gseq' = gseq + 1 /\ log' = [log EXCEPT ![w] = @ \cup {gseq}]
  BY FinalizeAssumption DEF LockstepInv, Typing, TypeOK, Consume
<1>1. \A v \in Wids : log'[v] = IF v = w THEN log[v] \cup {gseq} ELSE log[v] BY <1>0
<1>2. Numbering'
  <2> SUFFICES ASSUME NEW v \in Wids, NEW s \in log'[v]
               PROVE  s < gseq' /\ \A u \in Wids : s \in log'[u] => v = u
    BY DEF Numbering
  <2>1. s \in Nat /\ gseq \in Nat BY <1>0, <1>1
  <2>2. CASE s = gseq
    <3>1. \A u \in Wids : gseq \notin log[u] BY <2>1 DEF LockstepInv, Numbering
    <3> QED BY <1>0, <1>1, <2>1, <2>2, <3>1
  <2>3. CASE s # gseq
    <3>1. s \in log[v] BY <1>1, <2>3
    <3>2. s < gseq /\ \A u \in Wids : s \in log[u] => v = u BY <3>1 DEF LockstepInv, Numbering
    <3> QED BY <1>0, <1>1, <2>1, <2>3, <3>2
  <2> QED BY <2>2, <2>3
<1>3. log'[w] # {} /\ \A v \in Wids : log[v] # {} => log'[v] # {} BY <1>1
<1> QED BY <1>0, <1>2, <1>3

\* A request that is forwarded consumes the next sequence number of the
\* guardian.
LEMMA ForwardKeeps ==
  ASSUME LockstepInv, NEW n \in Nodes, Forward(n)
  PROVE  LockstepInv'
<1>0. Typing BY DEF LockstepInv
<1>1. task[n].pc = "forward" BY DEF Forward
<1>2. UNCHANGED <<chain, applied, seq, window, resynced, orphans, paused>> BY DEF Forward, chainVars
<1>3. /\ read \in [Nodes -> Reads] /\ orphans \subseteq Requests /\ task \in [Nodes -> Tasks]
      /\ paused \in BOOLEAN /\ chain \in Seq(Wids)
  BY <1>0 DEF Typing
<1>4. CASE /\ gseq < MaxSeq /\ Consume(task[n].wid) /\ info' = NONE
           /\ task' = [task EXCEPT ![n].pc = "certify"] /\ RecordFinalized(n)
  <2> DEFINE t == [task[n] EXCEPT !.pc = "certify"]
  <2>1. task[n].wid \in Wids /\ t \in Tasks /\ t.wid = task[n].wid BY <1>0, <1>1, TaskAt
  <2>2. task' = [task EXCEPT ![n] = t] BY <1>3, <1>4
  <2>3. read' \in [Nodes -> Reads] BY <1>3, <1>4, RecordTyped
  <2>4. /\ gseq' \in 0 .. MaxSeq /\ log' \in [Wids -> SUBSET (0 .. MaxSeq)]
        /\ Numbering'
        /\ log'[task[n].wid] # {} /\ \A v \in Wids : log[v] # {} => log'[v] # {}
    BY <1>4, <2>1, ConsumeKeeps
  <2> HIDE DEF t
  <2>5. Typing' BY <1>0, <1>2, <1>3, <1>4, <2>1, <2>2, <2>3, <2>4 DEF Typing, TypeOK
  <2>6. Covered'
    <3>1. \A i \in DOMAIN chain' : log'[chain'[i]] # {}
      BY <1>2, <1>3, <2>4 DEF LockstepInv, Covered, Logged
    <3>2. ASSUME NEW m \in Nodes, task'[m].pc \in {"certify", "submit"}
          PROVE  log'[task'[m].wid] # {}
      <4>1. CASE m = n BY <1>3, <2>1, <2>2, <2>4, <4>1
      <4>2. CASE m # n
        <5>1. task'[m] = task[m] /\ Logged(task[m].wid)
          BY <1>3, <2>2, <3>2, <4>2 DEF LockstepInv, Covered
        <5>2. task[m].wid \in Wids BY <1>3, <3>2, <5>1 DEF Tasks, Idle
        <5> QED BY <2>4, <5>1, <5>2 DEF Logged
      <4> QED BY <4>1, <4>2
    <3> QED BY <3>1, <3>2 DEF Covered, Logged
  <2>7. Once' /\ Counted' BY <1>2 DEF LockstepInv, Once, Counted
  <2> QED BY <2>4, <2>5, <2>6, <2>7 DEF LockstepInv
<1>5. CASE task' = [task EXCEPT ![n] = Idle] /\ UNCHANGED <<gseq, log, info, pacing, read>>
  <2>1. Idle \in Tasks /\ Idle.pc = "idle" BY DEF Tasks, Idle
  <2> QED BY <1>2, <1>3, <1>5, <2>1, TaskKeeps
<1> QED BY <1>4, <1>5 DEF Forward

\* A request that outlived its task.
LEMMA ForwardOrphanKeeps ==
  ASSUME LockstepInv, NEW r \in orphans, ForwardOrphan(r)
  PROVE  LockstepInv'
<1>0. Typing BY DEF LockstepInv
<1>1. r.wid \in Wids BY <1>0 DEF Typing, Requests
<1>2. /\ UNCHANGED <<chain, applied, seq, window, read, task, resynced, paused>>
      /\ orphans' \subseteq Requests
  BY <1>0 DEF ForwardOrphan, chainVars, nodeVars, Typing
<1>3. CASE gseq < MaxSeq /\ Consume(r.wid) /\ info' \in {info, IF info = NONE THEN gseq ELSE info}
  <2>1. /\ gseq' \in 0 .. MaxSeq /\ log' \in [Wids -> SUBSET (0 .. MaxSeq)]
        /\ Numbering'
        /\ \A v \in Wids : log[v] # {} => log'[v] # {}
    BY <1>1, <1>3, ConsumeKeeps
  <2>2. info' \in Nat \cup {NONE} BY <1>0, <1>3, FinalizeAssumption DEF Typing, TypeOK
  <2>3. Typing' BY <1>0, <1>2, <2>1, <2>2 DEF Typing, TypeOK
  <2>4. Covered'
    <3>1. \A i \in DOMAIN chain : chain[i] \in Wids BY <1>0 DEF Typing
    <3>2. \A m \in Nodes : task[m].pc \in {"certify", "submit"} => task[m].wid \in Wids
      <4> SUFFICES ASSUME NEW m \in Nodes, task[m].pc \in {"certify", "submit"}
                   PROVE  task[m].wid \in Wids
        OBVIOUS
      <4>1. task[m] \in Tasks BY <1>0 DEF Typing
      <4> QED BY <4>1 DEF Tasks, Idle
    <3> QED BY <1>2, <2>1, <3>1, <3>2 DEF LockstepInv, Covered, Logged
  <2>5. Once' /\ Counted' BY <1>2 DEF LockstepInv, Once, Counted
  <2> QED BY <2>1, <2>3, <2>4, <2>5 DEF LockstepInv
<1>4. CASE UNCHANGED <<gseq, log, info>>
  <2>1. Typing' BY <1>0, <1>2, <1>4 DEF Typing, TypeOK
  <2>2. Numbering' /\ Once' /\ Counted' BY <1>2, <1>4 DEF LockstepInv, Numbering, Once, Counted
  <2>3. Covered' BY <1>2, <1>4 DEF LockstepInv, Covered, Logged
  <2> QED BY <2>1, <2>2, <2>3 DEF LockstepInv
<1> QED BY <1>3, <1>4 DEF ForwardOrphan

\* A certificate is collected for the sequence number of the response.
LEMMA CollectKeeps ==
  ASSUME LockstepInv, NEW n \in Nodes, CollectFinalize(n)
  PROVE  LockstepInv'
<1>0. Typing BY DEF LockstepInv
<1>1. task[n].pc = "certify" BY DEF CollectFinalize
<1>2. /\ UNCHANGED <<gseq, log, chain, applied, seq, window, info, resynced, read, orphans, paused>>
      /\ read \in [Nodes -> Reads] /\ orphans \subseteq Requests /\ paused \in BOOLEAN
  BY <1>0 DEF CollectFinalize, guardVars, chainVars, nodeVars, Typing
<1>3. task[n].wid \in Wids /\ Logged(task[n].wid)
  BY <1>0, <1>1, TaskAt DEF LockstepInv, Covered
<1> DEFINE t == [pc |-> "submit", wid |-> task[n].wid]
<1>4. t \in Tasks /\ t.wid = task[n].wid /\ Idle \in Tasks /\ Idle.pc = "idle"
  BY <1>3 DEF Tasks, Idle
<1>5. task' = [task EXCEPT ![n] = t] \/ task' = [task EXCEPT ![n] = Idle]
  BY DEF CollectFinalize
<1> HIDE DEF t
<1>6. CASE task' = [task EXCEPT ![n] = t] BY <1>2, <1>3, <1>4, <1>6, TaskKeeps
<1>7. CASE task' = [task EXCEPT ![n] = Idle] BY <1>2, <1>4, <1>7, TaskKeeps
<1> QED BY <1>5, <1>6, <1>7

\* A finalization on chain is of a request that the guardian has counted.
LEMMA SubmitKeeps ==
  ASSUME LockstepInv, NEW n \in Nodes, SubmitFinalize(n)
  PROVE  LockstepInv'
<1>0. Typing BY DEF LockstepInv
<1>1. task[n].pc = "submit" BY DEF SubmitFinalize
<1>2. /\ UNCHANGED <<gseq, log, applied, seq, window, info, resynced, read, orphans, paused>>
      /\ task' = [task EXCEPT ![n] = Idle]
      /\ read \in [Nodes -> Reads] /\ orphans \subseteq Requests /\ paused \in BOOLEAN
      /\ task \in [Nodes -> Tasks] /\ chain \in Seq(Wids)
  BY <1>0 DEF SubmitFinalize, guardVars, nodeVars, Typing
<1>3. Idle \in Tasks /\ Idle.pc = "idle" BY DEF Tasks, Idle
<1>4. CASE UNCHANGED chain BY <1>2, <1>3, <1>4, TaskKeeps
<1>5. CASE task[n].wid \notin Finalized /\ chain' = Append(chain, task[n].wid)
  <2>1. task[n].wid \in Wids /\ Logged(task[n].wid)
    <3>1. task[n] \in Tasks BY <1>2
    <3> QED BY <1>1, <3>1 DEF Tasks, Idle, LockstepInv, Covered
  <2>2. /\ chain' \in Seq(Wids) /\ Len(chain') = Len(chain) + 1
        /\ \A i \in 1 .. Len(chain) : chain'[i] = chain[i]
        /\ chain'[Len(chain) + 1] = task[n].wid
    BY <1>2, <1>5, <2>1
  <2>3. DOMAIN chain = 1 .. Len(chain) /\ DOMAIN chain' = 1 .. Len(chain) + 1
        /\ Len(chain) \in Nat
    BY <1>2, <2>2
  <2>4. applied' \in [Nodes -> 0 .. Len(chain')]
    <3>1. applied \in [Nodes -> 0 .. Len(chain)] BY <1>0 DEF Typing, TypeOK
    <3>2. 0 .. Len(chain) \subseteq 0 .. Len(chain') BY <2>2, <2>3
    <3> QED BY <1>2, <3>1, <3>2
  <2>5. Typing' BY <1>0, <1>2, <1>3, <2>2, <2>4 DEF Typing, TypeOK
  <2>6. Once'
    <3>1. \A i \in 1 .. Len(chain) : chain[i] # task[n].wid BY <1>5, <2>3 DEF Finalized
    <3> QED BY <2>2, <2>3, <3>1 DEF LockstepInv, Once
  <2>7. Covered'
    <3>1. \A i \in DOMAIN chain' : log[chain'[i]] # {}
      BY <2>1, <2>2, <2>3 DEF LockstepInv, Covered, Logged
    <3>2. \A m \in Nodes : task'[m].pc \in {"certify", "submit"} => log[task'[m].wid] # {}
      BY <1>2, <1>3 DEF LockstepInv, Covered, Logged
    <3> QED BY <1>2, <3>1, <3>2 DEF Covered, Logged
  <2>8. Numbering' /\ Counted' BY <1>2 DEF LockstepInv, Numbering, Counted
  <2> QED BY <2>5, <2>6, <2>7, <2>8 DEF LockstepInv
<1> QED BY <1>4, <1>5 DEF SubmitFinalize

-----------------------------------------------------------------------------
\* A step that touches the mirrors alone.
LEMMA MirrorKeeps ==
  ASSUME LockstepInv, UNCHANGED <<gseq, log, orphans, chain, task>>, paused' \in BOOLEAN,
         info' \in Nat \cup {NONE},
         applied' \in [Nodes -> 0 .. Len(chain)],
         seq' \in [Nodes -> Nat \cup {NONE}],
         window' \in [Nodes -> Seq(Nat)], \A n \in Nodes : Len(window'[n]) <= Window,
         read' \in [Nodes -> Reads],
         Counted'
  PROVE  LockstepInv'
<1>1. Typing' BY DEF LockstepInv, Typing, TypeOK
<1>2. Numbering' /\ Once' BY DEF LockstepInv, Numbering, Once
<1>3. Covered' BY DEF LockstepInv, Covered, Logged
<1> QED BY <1>1, <1>2, <1>3 DEF LockstepInv

\* What the mirrors are, unprimed.
LEMMA MirrorTypes ==
  ASSUME LockstepInv
  PROVE  /\ info \in Nat \cup {NONE} /\ gseq \in Nat /\ paused \in BOOLEAN
         /\ applied \in [Nodes -> 0 .. Len(chain)] /\ Len(chain) \in Nat
         /\ seq \in [Nodes -> Nat \cup {NONE}]
         /\ window \in [Nodes -> Seq(Nat)] /\ \A n \in Nodes : Len(window[n]) <= Window
         /\ read \in [Nodes -> Reads]
         /\ Counted
BY FinalizeAssumption DEF LockstepInv, Typing, TypeOK

\* A mirror that applies a finalization counts it once.
LEMMA ApplyKeeps ==
  ASSUME LockstepInv, NEW n \in Nodes, ApplyConsume(n)
  PROVE  LockstepInv'
<1>1. /\ UNCHANGED <<gseq, log, orphans, info, chain, paused, task, window, read, resynced>>
      /\ applied[n] < Len(chain) /\ applied' = [applied EXCEPT ![n] = @ + 1]
      /\ \/ seq' = [seq EXCEPT ![n] = IF @ = NONE THEN NONE ELSE @ + 1]
         \/ UNCHANGED seq
  BY DEF ApplyConsume, Advanced, guardVars, chainVars
<1>2. applied' \in [Nodes -> 0 .. Len(chain)] BY <1>1, MirrorTypes
<1>3. seq' \in [Nodes -> Nat \cup {NONE}]
  <2>1. (IF seq[n] = NONE THEN NONE ELSE seq[n] + 1) \in Nat \cup {NONE} BY MirrorTypes
  <2> QED BY <1>1, <2>1, MirrorTypes
<1>4. Counted'
  <2> SUFFICES ASSUME NEW m \in Nodes, m \notin resynced, seq'[m] # NONE
               PROVE  seq'[m] <= applied'[m]
    BY <1>1 DEF Counted
  <2>1. /\ seq[m] # NONE /\ seq[m] \in Nat /\ applied[m] \in Nat /\ seq[m] <= applied[m]
    BY <1>1, FinalizeAssumption, MirrorTypes DEF Counted
  <2>2. /\ applied'[m] = IF m = n THEN applied[m] + 1 ELSE applied[m]
        /\ seq'[m] \in {seq[m], IF m = n THEN seq[m] + 1 ELSE seq[m]}
    BY <1>1, <2>1, MirrorTypes
  <2> QED BY <2>1, <2>2
<1> QED BY <1>1, <1>2, <1>3, <1>4, MirrorTypes, MirrorKeeps

\* A reading of the guardian is not ahead of it.
LEMMA ReadKeeps ==
  ASSUME LockstepInv, NEW n \in Nodes, ReadGuardian(n)
  PROVE  LockstepInv'
<1> DEFINE r == [seq |-> IF info = NONE THEN gseq ELSE info, fresh |-> TRUE, refused |-> paused]
<1>1. /\ UNCHANGED <<gseq, log, orphans, info, chain, paused, task, applied, seq, resynced>>
      /\ read' = [read EXCEPT ![n] = r]
      /\ window' = IF paused THEN [window EXCEPT ![n] = <<>>] ELSE window
  BY DEF ReadGuardian, guardVars, chainVars
<1>2. r \in Reads BY MirrorTypes DEF Reads
<1>3. read' \in [Nodes -> Reads]
  <2> HIDE DEF r
  <2> QED BY <1>1, <1>2, MirrorTypes
<1>4. window' \in [Nodes -> Seq(Nat)] /\ \A m \in Nodes : Len(window'[m]) <= Window
  <2>1. <<>> \in Seq(Nat) /\ Len(<<>>) <= Window BY FinalizeAssumption
  <2> QED BY <1>1, <2>1, MirrorTypes
<1>5. Counted' BY <1>1, MirrorTypes DEF Counted
<1> HIDE DEF r
<1> QED BY <1>1, <1>3, <1>4, <1>5, MirrorTypes, MirrorKeeps

\* What a node that is waiting for a read was answered is a number.
LEMMA ReadIsNumber ==
  ASSUME LockstepInv, NEW n \in Nodes, read[n] # NoRead
  PROVE  read[n].seq \in Nat
<1>1. read[n] \in Reads BY MirrorTypes
<1> QED BY <1>1 DEF Reads

\* A mirror is seeded with what was read of the guardian, which is recorded.
LEMMA SeedKeeps ==
  ASSUME LockstepInv, NEW n \in Nodes, SeedLimiter(n)
  PROVE  LockstepInv'
<1>1. /\ UNCHANGED <<gseq, log, orphans, info, chain, paused, task, applied, window>>
      /\ read[n] # NoRead
      /\ seq' = [seq EXCEPT ![n] = read[n].seq]
      /\ read' = [read EXCEPT ![n] = NoRead]
      /\ resynced' = resynced \cup {n}
  BY DEF SeedLimiter, guardVars, chainVars
<1>2. read[n].seq \in Nat BY <1>1, ReadIsNumber
<1>3. seq' \in [Nodes -> Nat \cup {NONE}] BY <1>1, <1>2, MirrorTypes
<1>4. read' \in [Nodes -> Reads] BY <1>1, MirrorTypes DEF Reads
<1>5. Counted' BY <1>1, MirrorTypes DEF Counted
<1> QED BY <1>1, <1>3, <1>4, <1>5, MirrorTypes, MirrorKeeps

\* Reconciliation snaps a stalled mirror to what was read of the guardian, which
\* is recorded.
LEMMA ReconcileKeeps ==
  ASSUME LockstepInv, NEW n \in Nodes, ReconcileLimiter(n)
  PROVE  LockstepInv'
<1>1. /\ UNCHANGED <<gseq, log, orphans, info, chain, paused, task, applied>>
      /\ read[n] # NoRead
      /\ read' = [read EXCEPT ![n] = NoRead]
  BY DEF ReconcileLimiter, guardVars, chainVars
<1>2. read[n].seq \in Nat BY <1>1, ReadIsNumber
<1>3. read' \in [Nodes -> Reads] BY <1>1, MirrorTypes DEF Reads
<1>4. CASE UNCHANGED <<seq, window, resynced>>
  <2>1. Counted' BY <1>1, <1>4, MirrorTypes DEF Counted
  <2> QED BY <1>1, <1>3, <1>4, <2>1, MirrorTypes, MirrorKeeps
<1>5. CASE /\ seq' = [seq EXCEPT ![n] = read[n].seq]
           /\ window' = [window EXCEPT ![n] = <<>>]
           /\ resynced' = resynced \cup {n}
  <2>1. seq' \in [Nodes -> Nat \cup {NONE}] BY <1>2, <1>5, MirrorTypes
  <2>2. window' \in [Nodes -> Seq(Nat)] /\ \A m \in Nodes : Len(window'[m]) <= Window
    <3>1. <<>> \in Seq(Nat) /\ Len(<<>>) <= Window BY FinalizeAssumption
    <3> QED BY <1>5, <3>1, MirrorTypes
  <2>3. Counted' BY <1>1, <1>5, MirrorTypes DEF Counted
  <2> QED BY <1>1, <1>3, <2>1, <2>2, <2>3, MirrorTypes, MirrorKeeps
<1>6. CASE /\ window' = [window EXCEPT ![n] = Pushed(@, read[n].seq)]
           /\ UNCHANGED <<seq, resynced>>
  <2>1. window[n] \in Seq(Nat) /\ Len(window[n]) <= Window BY MirrorTypes
  <2>2. Pushed(window[n], read[n].seq) \in Seq(Nat) /\ Len(Pushed(window[n], read[n].seq)) <= Window
    BY <1>2, <2>1, PushedLength
  <2>3. window' \in [Nodes -> Seq(Nat)] /\ \A m \in Nodes : Len(window'[m]) <= Window
    BY <1>6, <2>2, MirrorTypes
  <2>4. Counted' BY <1>1, <1>6, MirrorTypes DEF Counted
  <2> QED BY <1>1, <1>3, <1>6, <2>3, <2>4, MirrorTypes, MirrorKeeps
<1> QED BY <1>4, <1>5, <1>6 DEF ReconcileLimiter

-----------------------------------------------------------------------------
\* What a lost task leaves behind is a request.
LEMMA OrphanedTyped ==
  ASSUME Typing, NEW n \in Nodes, Orphaned(n)
  PROVE  orphans' \subseteq Requests
<1>1. CASE task[n].pc = "forward"
  <2>1. task[n].wid \in Wids /\ task[n].seq \in Nat BY <1>1, TaskAt
  <2>2. [wid |-> task[n].wid, seq |-> task[n].seq] \in Requests BY <2>1 DEF Requests
  <2> QED BY <2>2 DEF Orphaned, Typing
<1>2. CASE task[n].pc # "forward" BY <1>2 DEF Orphaned, Typing
<1> QED BY <1>1, <1>2

\* A task that is lost leaves the chain and the log as they are.
LEMMA LoseTaskKeeps ==
  ASSUME LockstepInv, NEW n \in Nodes, LoseTask(n)
  PROVE  LockstepInv'
<1>1. /\ UNCHANGED <<gseq, log, chain, applied, seq, window, info, resynced, read, paused>>
      /\ task' = [task EXCEPT ![n] = Idle]
      /\ paused \in BOOLEAN /\ read \in [Nodes -> Reads]
  BY DEF LoseTask, chainVars, nodeVars, LockstepInv, Typing
<1>2. orphans' \subseteq Requests BY OrphanedTyped DEF LoseTask, LockstepInv
<1>3. Idle \in Tasks /\ Idle.pc = "idle" BY DEF Tasks, Idle
<1> QED BY <1>1, <1>2, <1>3, TaskKeeps

\* A restart clears the mirror along with the task.
LEMMA RestartKeeps ==
  ASSUME LockstepInv, NEW n \in Nodes, Restart(n)
  PROVE  LockstepInv'
<1>1. /\ UNCHANGED <<gseq, log, chain, info, resynced, paused>>
      /\ task' = [task EXCEPT ![n] = Idle]
      /\ applied' = [applied EXCEPT ![n] = Len(chain)]
      /\ seq' = [seq EXCEPT ![n] = NONE]
      /\ window' = [window EXCEPT ![n] = <<>>]
      /\ read' = [read EXCEPT ![n] = NoRead]
  BY DEF Restart, chainVars
<1>2. orphans' \subseteq Requests BY OrphanedTyped DEF Restart, LockstepInv
<1>3. Idle \in Tasks /\ Idle.pc = "idle" /\ NoRead \in Reads BY DEF Tasks, Idle, Reads
<1>4. <<>> \in Seq(Nat) /\ Len(<<>>) <= Window BY FinalizeAssumption
<1>5. /\ task \in [Nodes -> Tasks] /\ chain \in Seq(Wids)
      /\ gseq \in 0 .. MaxSeq /\ log \in [Wids -> SUBSET (0 .. MaxSeq)]
  BY DEF LockstepInv, Typing, TypeOK
<1>6. Typing'
  <2>1. applied' \in [Nodes -> 0 .. Len(chain)] /\ seq' \in [Nodes -> Nat \cup {NONE}]
    BY <1>1, MirrorTypes
  <2>2. window' \in [Nodes -> Seq(Nat)] /\ \A m \in Nodes : Len(window'[m]) <= Window
    BY <1>1, <1>4, MirrorTypes
  <2>3. read' \in [Nodes -> Reads] /\ task' \in [Nodes -> Tasks]
    BY <1>1, <1>3, <1>5, MirrorTypes
  <2>4. info' \in Nat \cup {NONE} /\ paused' \in BOOLEAN BY <1>1, MirrorTypes
  <2> QED BY <1>1, <1>2, <1>5, <2>1, <2>2, <2>3, <2>4 DEF Typing, TypeOK
<1>7. Numbering' /\ Once' BY <1>1 DEF LockstepInv, Numbering, Once
<1>8. Covered'
  <2>1. \A m \in Nodes : task'[m].pc \in {"certify", "submit"} => log[task'[m].wid] # {}
    BY <1>1, <1>3, <1>5 DEF LockstepInv, Covered, Logged
  <2> QED BY <1>1, <2>1 DEF LockstepInv, Covered, Logged
<1>9. Counted' BY <1>1, MirrorTypes DEF Counted
<1> QED BY <1>6, <1>7, <1>8, <1>9 DEF LockstepInv

\* A node that re-bootstraps sees the whole chain and moves no number.
LEMMA RebootstrapKeeps ==
  ASSUME LockstepInv, NEW n \in Nodes, Rebootstrap(n)
  PROVE  LockstepInv'
<1>1. /\ UNCHANGED <<gseq, log, orphans, info, chain, paused, task, seq, window, read, resynced>>
      /\ applied[n] < Len(chain) /\ applied' = [applied EXCEPT ![n] = Len(chain)]
  BY DEF Rebootstrap, guardVars, chainVars
<1>2. applied' \in [Nodes -> 0 .. Len(chain)] BY <1>1, MirrorTypes
<1>3. Counted'
  <2> SUFFICES ASSUME NEW m \in Nodes, m \notin resynced, seq[m] # NONE
               PROVE  seq[m] <= applied'[m]
    BY <1>1 DEF Counted
  <2>1. seq[m] \in Nat /\ applied[m] \in Nat /\ seq[m] <= applied[m] BY MirrorTypes DEF Counted
  <2> QED BY <1>1, <2>1, MirrorTypes
<1> QED BY <1>1, <1>2, <1>3, MirrorTypes, MirrorKeeps

\* InfoExpires, Pause and Unpause.
LEMMA OtherKeeps ==
  ASSUME LockstepInv, InfoExpires \/ Pause \/ Unpause
  PROVE  LockstepInv'
<1>1. CASE InfoExpires
  <2>1. /\ UNCHANGED <<gseq, log, orphans, chain, paused, task, applied, seq, window, read, resynced>>
        /\ info' = NONE
    BY <1>1 DEF InfoExpires, chainVars, nodeVars
  <2>2. Counted' BY <2>1, MirrorTypes DEF Counted
  <2> QED BY <2>1, <2>2, MirrorTypes, MirrorKeeps
<1>2. CASE Pause \/ Unpause
  <2>1. /\ UNCHANGED <<gseq, log, orphans, info, chain, applied, seq, window, read, task, resynced>>
        /\ paused' \in BOOLEAN
    BY <1>2 DEF Pause, Unpause, guardVars, nodeVars
  <2> QED BY <2>1, StutterKeeps
<1> QED BY <1>1, <1>2

-----------------------------------------------------------------------------
\* The invariant holds in every reachable state.
THEOREM LockstepHolds == Spec => []LockstepInv
<1>1. Init => LockstepInv BY InitLockstep
<1>2. LockstepInv /\ [Next]_vars => LockstepInv'
  <2> SUFFICES ASSUME LockstepInv, [Next]_vars PROVE LockstepInv' OBVIOUS
  <2>1. CASE UNCHANGED vars
    <3>1. /\ UNCHANGED <<gseq, log, orphans, info, chain, applied, seq, window, read, task, resynced>>
          /\ UNCHANGED paused /\ paused \in BOOLEAN
      BY <2>1 DEF vars, guardVars, chainVars, nodeVars, LockstepInv, Typing
    <3> QED BY <3>1, StutterKeeps
  <2>2. ASSUME NEW n \in Nodes, TaskStep(n) PROVE LockstepInv'
    BY <2>2, StartKeeps, LookupKeeps, ForwardKeeps, CollectKeeps, SubmitKeeps DEF TaskStep
  <2>3. ASSUME NEW n \in Nodes, MirrorStep(n) \/ ApplyConsume(n) PROVE LockstepInv'
    BY <2>3, ReadKeeps, SeedKeeps, ReconcileKeeps, ApplyKeeps DEF MirrorStep
  <2>4. ASSUME NEW n \in Nodes, LoseTask(n) \/ Restart(n) \/ Rebootstrap(n) PROVE LockstepInv'
    BY <2>4, LoseTaskKeeps, RestartKeeps, RebootstrapKeeps
  <2>5. ASSUME NEW r \in orphans, ForwardOrphan(r) PROVE LockstepInv'
    BY <2>5, ForwardOrphanKeeps
  <2>6. CASE InfoExpires \/ Pause \/ Unpause BY <2>6, OtherKeeps
  <2> QED BY <2>1, <2>2, <2>3, <2>4, <2>5, <2>6 DEF Next
<1> QED BY <1>1, <1>2, PTL DEF Spec

\* The state of the guardian and of the mirrors is well formed, and no window
\* grows past STALL_RECONCILE_TICKS, for any nodes and bounds.
THEOREM TypeCorrect == Spec => []TypeOK
<1>1. LockstepInv => TypeOK BY DEF LockstepInv, Typing
<1> QED BY <1>1, LockstepHolds, PTL

\* However late or lost the events, a mirror gets ahead of the guardian only by
\* a seed or a snap (guardian_limiter.rs, LimiterStallTracker).
THEOREM MirrorNeverAhead == Spec => []AheadOnlyAfterResync
BY LockstepHolds, LockstepImpliesAhead, PTL

=============================================================================
