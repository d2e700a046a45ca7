------------------------------ MODULE Presigs ------------------------------
(***************************************************************************)
(* The presignatures of one epoch.  Every node deals nonces, derives each  *)
(* batch's dealer set from the certificates on chain, has it sealed, and   *)
(* signs withdrawals from its own copy of the pool (mpc/service.rs,        *)
(* mpc/signing.rs, mpc/presig_seal.rs, core/cert_submission.move).  Nodes  *)
(* read the chain through a mirror that lags, fail, and restart with an    *)
(* empty memory.  An index of the pool stands for the message the chain    *)
(* assigned it to, which never changes (Withdraw!NonceUnique).             *)
(***************************************************************************)
EXTENDS Integers, FiniteSets, SequencesExt, Totals

CONSTANTS
  Nodes,         \* the committee; every member deals and signs
  Weight,        \* a member's reduced weight: its shares
  Power,         \* its weight in the committee
  Floor,         \* required_nonce_weight: total weight less max_faulty
  Threshold,     \* t: shares that make a signature
  Certifies,     \* certificate_threshold of the committee
  Window,        \* nonce_accumulation_window_ms; 0: no window
  Divisor,       \* PRESIG_REFILL_DIVISOR
  MaxBatch,      \* bound on batch indices
  MaxIndex,      \* bound on allocated presignatures
  MaxTime,       \* bound on the chain's clock
  MaxFaults,     \* bound on crashes, failed rounds and lost dealings
  NONE

\* Weight reduction may leave a member without shares.  required_nonce_weight is
\* never zero and at least t.
ASSUME PresigsAssumption ==
  /\ IsFiniteSet(Nodes)
  /\ {Window, MaxBatch, MaxIndex, MaxTime, MaxFaults} \subseteq Nat
  /\ Weight \in [Nodes -> Nat] /\ Power \in [Nodes -> Nat]
  /\ {Floor, Threshold, Certifies, Divisor} \subseteq Nat \ {0}
  /\ Threshold <= Floor
  /\ NONE \notin Nat

Batches == 0 .. MaxBatch
Indices == 0 .. MaxIndex - 1

VARIABLES
  clock,     \* the chain's clock
  certs,     \* a batch's certificates on chain, in order, with their timestamps
  seals,     \* a batch's sealed dealer set, or NONE
  pool,      \* SigningPoolState.batches; empty: no signing manager
  next,      \* SigningPoolState.next_batch
  cached,    \* keys of partial_signing_outputs
  want,      \* the refill request in the watch channel that is not yet taken
  job,       \* what the node's MPC loop is at
  stored,    \* presig_dealer_set_signatures: the dealer set signed per batch
  endorsed,  \* every such signature ever given out
  used,      \* every nonce share ever used, and the index it was used for
  faults

vars == <<clock, certs, seals, pool, next, cached, want, job, stored, endorsed, used, faults>>
chainVars == <<clock, certs, seals, endorsed, used>>
poolVars == <<pool, next, cached, want>>

-----------------------------------------------------------------------------
(* What a node reads of the chain.                                         *)

Dealers(cs) == [i \in DOMAIN cs |-> cs[i].dealer]

\* The members of S hold so many shares.
WeightOf(S) == Total(Weight, S)

\* What a handler may find of a batch in its node's mirror.  A mirror applies
\* certificates and the clock in order; how far it is, is open at every read.
Views(k) ==
  {v \in {[clock |-> t, certs |-> SubSeq(certs[k], 1, m)] :
            t \in 0 .. clock, m \in 0 .. Len(certs[k])} :
     /\ \A i \in DOMAIN v.certs : v.certs[i].at <= v.clock
     /\ \A i \in DOMAIN certs[k] \ DOMAIN v.certs : certs[k][i].at >= v.clock}

\* What a mirror may show of the withdrawals.  An index is allocated
\* at any time, its signature recorded at any time after enough nodes signed.
Cursors == 0 .. MaxIndex
Signed == {i \in Indices : WeightOf({u.node : u \in {w \in used : w.index = i}}) >= Threshold}
Pendings(c) == {(0 .. c - 1) \ done : done \in SUBSET Signed}

-----------------------------------------------------------------------------
(* The dealer set of a batch.                                              *)

\* The first m certificates carry enough weight.
FloorBy(cs, m) == WeightOf({cs[i].dealer : i \in 1 .. m}) >= Floor

FloorReached(cs) == FloorBy(cs, Len(cs))

\* The stamp of the certificate that reaches the floor.
CrossedAt(cs) == cs[CHOOSE i \in DOMAIN cs : FloorBy(cs, i) /\ ~FloorBy(cs, i - 1)].at

\* NonceCollectionWindow::record: the certificate that reaches the floor opens
\* the window, or closes the set if there is no window or no time to count from.
CutoffOf(cs) ==
  LET at == CrossedAt(cs)
  IN IF Window = 0 \/ at = 0 THEN NONE ELSE at + Window

\* try_admit of the i-th certificate: without a cutoff until the floor is reached.
Admits(cs, cutoff, i) == IF cutoff = NONE THEN ~FloorBy(cs, i - 1) ELSE cs[i].at <= cutoff

\* avid_admitted_nonce_dealers, by the places of their certificates: a dealer
\* without shares is passed over.  avid_admission gives every node the same
\* answer about a certificate and is left out.
Admitted(cs, cutoff) ==
  Restrict(Dealers(cs),
           {i \in DOMAIN cs : Weight[cs[i].dealer] > 0 /\ Admits(cs, cutoff, i)})

\* Mutant: a mirror at the cutoff counts as past it.
PastCutoffReached(v, cutoff) == cutoff # NONE => v.clock >= cutoff

\* wait_mirror_past_timestamp_ms: all that is stamped at or before the cutoff is
\* in the mirror.  Without a cutoff there is nothing to wait for.
PastCutoff(v, cutoff) == cutoff # NONE => v.clock > cutoff

\* fetch_final_nonce_certs: a read above the floor fixes the cutoff, and a read
\* after the mirror went past it the certificates.  Nothing the node does comes
\* between the two reads, so they are one step at the second.
DealerSets(k) ==
  {Admitted(v.certs, CutoffOf(v.certs)) :
     v \in {w \in Views(k) : FloorReached(w.certs) /\ PastCutoff(w, CutoffOf(w.certs))}}

\* presig_count, with one presignature for a unit of weight.
Size(dealers) == WeightOf(ToSet(dealers)) - (Threshold - 1)

-----------------------------------------------------------------------------
(* The pool of a signing manager.                                          *)

Batch(k, start, dealers, left) ==
  [batch |-> k, start |-> start, set |-> dealers, left |-> left]

FullBatch(k, start, dealers) == Batch(k, start, dealers, 0 .. Size(dealers) - 1)

End(b) == b.start + Size(b.set)

\* PresigBatch::contains
Covering(p, index) == {b \in DOMAIN p : p[b].start <= index /\ index < End(p[b])}

\* A staged batch is installed when an index past the pool is asked for and it
\* carries the very next number.
Installs(n, index) ==
  /\ Covering(pool[n], index) = {}
  /\ next[n] # NONE
  /\ next[n].batch = Last(pool[n]).batch + 1

PoolFor(n, index) ==
  IF Installs(n, index)
  THEN Append(pool[n], FullBatch(next[n].batch, End(Last(pool[n])), next[n].set))
  ELSE pool[n]

\* available_presig_end_index: with a staged batch only if it is the very next.
AvailableEnd(n) ==
  IF next[n] # NONE /\ next[n].batch = Last(pool[n]).batch + 1
  THEN End(Last(pool[n])) + Size(next[n].set) ELSE End(Last(pool[n]))

\* What stays staged: a batch with an old number is dropped.
StagedAfter(n, index) ==
  IF Covering(pool[n], index) = {} /\ next[n] # NONE
     /\ next[n].batch <= Last(pool[n]).batch + 1
  THEN NONE ELSE next[n]

\* Fully consumed batches go, from the front; the last one stays.
Pruned(p) ==
  SubSeq(p, CHOOSE i \in DOMAIN p :
              /\ i = Len(p) \/ p[i].left # {}
              /\ \A j \in 1 .. i - 1 : p[j].left = {}, Len(p))

\* request_refill of the batch after p's last.  It replaces a request that was not
\* taken; one past the bound is not kept.
Request(p) == IF Last(p).batch < MaxBatch THEN Last(p).batch + 1 ELSE NONE

\* Taking a presignature asks for the next batch when few are left.
WantAfterTake(n, p) ==
  IF Cardinality(Last(p).left) <= Size(Last(p).set) \div Divisor
  THEN Request(p) ELSE want[n]

-----------------------------------------------------------------------------
Idle == [mode |-> "idle", batch |-> 0, dealt |-> FALSE, sizes |-> <<>>, done |-> {}, kept |-> <<>>]

\* A round of the protocol for batch k, to make the manager or to refill its pool.
Fresh(mode, k) == [Idle EXCEPT !.mode = mode, !.batch = k]

Init ==
  /\ clock = 0
  /\ certs = [k \in Batches |-> <<>>]
  /\ seals = [k \in Batches |-> NONE]
  /\ pool = [n \in Nodes |-> <<>>]
  /\ next = [n \in Nodes |-> NONE]
  /\ cached = [n \in Nodes |-> {}]
  /\ want = [n \in Nodes |-> NONE]
  /\ job = [n \in Nodes |-> Fresh("first", 0)]
  /\ stored = [n \in Nodes |-> [k \in Batches |-> NONE]]
  /\ endorsed = {}
  /\ used = {}
  /\ faults = 0

-----------------------------------------------------------------------------
(* The chain.                                                              *)

\* The chain's clock moves.
Tick ==
  /\ clock < MaxTime
  /\ clock' = clock + 1
  /\ UNCHANGED <<certs, seals, poolVars, job, stored, endorsed, used, faults>>

\* submit_presig_dealer_set, with the signatures collect() gathered; a bucket is
\* sealed once.
SubmitPresigDealerSet(k, dealers) ==
  /\ seals[k] = NONE
  /\ certs[k] # <<>>
  /\ Total(Power, {e.node : e \in {f \in endorsed : f.batch = k /\ f.set = dealers}}) >= Certifies
  /\ seals' = [seals EXCEPT ![k] = dealers]
  /\ UNCHANGED <<clock, certs, poolVars, job, stored, endorsed, used, faults>>

-----------------------------------------------------------------------------
(* A round of the MPC loop that builds or rebuilds a batch.                *)

SetJob(n, j) == job' = [job EXCEPT ![n] = j]

\* The chain keeps a dealer's first certificate of a batch.
SubmitCert(n, k) ==
  /\ n \notin ToSet(Dealers(certs[k]))
  /\ certs' = [certs EXCEPT ![k] = Append(@, [dealer |-> n, at |-> clock])]

BelowFloor(k) == {v \in Views(k) : ~FloorReached(v.certs)}

\* run_nonce_dealer_phase: deal unless the mirror shows enough or the node has no
\* shares; a dealing that fails is only logged.
Deal(n) ==
  LET j == job[n]
  IN /\ j.mode \in {"first", "refill"} /\ ~j.dealt
     /\ SetJob(n, [j EXCEPT !.dealt = TRUE])
     /\ \/ BelowFloor(j.batch) # {} /\ Weight[n] > 0 /\ SubmitCert(n, j.batch)
        \/ UNCHANGED certs
     /\ UNCHANGED <<clock, seals, poolVars, stored, endorsed, used, faults>>

\* presig_seal::start: the first dealer set of a batch is signed, no other.
Endorse(n, k, dealers) ==
  IF stored[n][k] = NONE
  THEN /\ stored' = [stored EXCEPT ![n][k] = dealers]
       /\ endorsed' = endorsed \cup {[node |-> n, batch |-> k, set |-> dealers]}
  ELSE UNCHANGED <<stored, endorsed>>

\* The party phase may fail, for its own reasons, after the set was signed.
PartyFails(n) ==
  /\ faults < MaxFaults
  /\ faults' = faults + 1
  /\ job' \in {[job EXCEPT ![n] = Idle], [job EXCEPT ![n] = Fresh(job[n].mode, job[n].batch)]}
  /\ UNCHANGED <<pool, next>>

\* prepare_signing: the first batch makes the signing manager.
InstallFirst(n) ==
  /\ job[n].mode = "first" /\ job[n].dealt
  /\ \E set \in DealerSets(0) :
       /\ Endorse(n, 0, set)
       /\ \/ /\ pool' = [pool EXCEPT ![n] = <<FullBatch(0, 0, set)>>]
             /\ SetJob(n, Idle)
             /\ UNCHANGED <<next, faults>>
          \/ PartyFails(n)
  /\ UNCHANGED <<clock, certs, seals, used, cached, want>>

\* refill_presignatures: a request for another batch than the next, or for the
\* one that is staged, is skipped (refill_skip_reason).
TakeRefill(n) ==
  /\ job[n] = Idle /\ want[n] # NONE
  /\ want' = [want EXCEPT ![n] = NONE]
  /\ IF /\ pool[n] # <<>>
        /\ want[n] = Last(pool[n]).batch + 1
        /\ next[n] # NONE => next[n].batch # want[n]
     THEN SetJob(n, Fresh("refill", want[n]))
     ELSE UNCHANGED job
  /\ UNCHANGED <<chainVars, pool, next, cached, stored, faults>>

\* A leader whose commit will allocate past what is installed and staged asks too.
TriggerRefill(n) ==
  /\ pool[n] # <<>>
  /\ AvailableEnd(n) < MaxIndex
  /\ want' = [want EXCEPT ![n] = Request(pool[n])]
  /\ UNCHANGED <<chainVars, pool, next, cached, job, stored, faults>>

\* set_next_batch: a batch that is not newer than the pool is discarded.
Stage(n) ==
  /\ job[n].mode = "refill" /\ job[n].dealt
  /\ \E set \in DealerSets(job[n].batch) :
       /\ Endorse(n, job[n].batch, set)
       /\ \/ /\ IF job[n].batch > Last(pool[n]).batch
                THEN next' = [next EXCEPT ![n] = [batch |-> job[n].batch, set |-> set]]
                ELSE UNCHANGED next
             /\ SetJob(n, Idle)
             /\ UNCHANGED <<pool, faults>>
          \/ PartyFails(n)
  /\ UNCHANGED <<clock, certs, seals, used, cached, want>>

-----------------------------------------------------------------------------
(* Recovery of the pool from the certificates.                             *)

\* Where the m-th of consecutive batches ends.
EndOf(sizes, m) == Total(sizes, 1 .. m)

\* nonce_batch_size_from_certs: a batch and a size it may be read with, or none.
Sized == UNION {{<<k, Size(set)>> : set \in DealerSets(k)} : k \in Batches}
MayEndAt(k) == k \in Batches => BelowFloor(k) # {}

\* The batches the walk of recover_presigning_state may size: it goes on while
\* the cursor is not inside the last one.
Walks(cursor, sized) ==
  {sizes \in UNION {[1 .. m -> {s[2] : s \in sized}] : m \in 0 .. MaxBatch + 1} :
     /\ \A i \in DOMAIN sizes : <<i - 1, sizes[i]>> \in sized
     /\ \A i \in 1 .. Len(sizes) - 1 : EndOf(sizes, i) <= cursor}

\* The batches from the first with a pending index on are rebuilt, the last one
\* at least.
FirstKept(sizes, pending) ==
  LET holds == {i \in DOMAIN sizes :
                  \E p \in pending : /\ EndOf(sizes, i - 1) <= p
                                     /\ p < EndOf(sizes, i)}
  IN IF holds = {} THEN Len(sizes) ELSE Min(holds)

NoManager(n) == job[n] = Idle /\ pool[n] = <<>>

\* sync_if_stale and the walk, which ends with the batch that holds the cursor
\* (WalkStep::Last) or before one below the floor (Stop).  The walk only reads, so
\* it is one step at its end.
Recover(n) ==
  /\ NoManager(n)
  /\ \E sized \in {Sized}, c \in Cursors :
     \E sizes \in Walks(c, sized) \ {<<>>}, pending \in Pendings(c) :
       /\ c < EndOf(sizes, Len(sizes)) \/ (c = EndOf(sizes, Len(sizes)) /\ MayEndAt(Len(sizes)))
       /\ SetJob(n, [Idle EXCEPT !.mode = "rebuild", !.batch = FirstKept(sizes, pending) - 1,
                                 !.sizes = sizes, !.done = (0 .. c - 1) \ pending])
  /\ UNCHANGED <<chainVars, poolVars, stored, faults>>

\* repair_missing_batch: the cursor is past a batch below the floor
\* (WalkStep::Missing), and the node deals into it unless it has.
RepairMissingBatch(n) ==
  /\ NoManager(n)
  /\ \E sized \in {Sized}, c \in Cursors : \E sizes \in Walks(c, sized) :
       /\ EndOf(sizes, Len(sizes)) < c
       /\ Len(sizes) \in Batches
       /\ BelowFloor(Len(sizes)) # {}
       /\ Weight[n] > 0
       /\ SubmitCert(n, Len(sizes))
  /\ UNCHANGED <<clock, seals, endorsed, used, poolVars, job, stored, faults>>

\* rebuild_signing_manager: when there is nothing to recover, or recovery failed
\* for any other reason, and the mirror's cursor is zero, the first batch is
\* generated.  Which cursor a mirror shows is open at every read, so it may be zero.
FallBack(n) ==
  /\ NoManager(n)
  /\ SetJob(n, Fresh("first", 0))
  /\ UNCHANGED <<chainVars, poolVars, stored, faults>>

\* recover_presignatures_from_certs for the next batch that is kept.
RebuildBatch(n) ==
  LET j == job[n]
  IN /\ j.mode = "rebuild" /\ j.batch < Len(j.sizes)
     /\ \E set \in DealerSets(j.batch) :
          /\ Size(set) = j.sizes[j.batch + 1]
          /\ Endorse(n, j.batch, set)
          /\ SetJob(n, [j EXCEPT !.kept = Append(@, set), !.batch = @ + 1])
     /\ UNCHANGED <<clock, certs, seals, used, poolVars, faults>>

\* Mutant: the boundaries are not skipped like the batches.
RecoveredPoolUnskipped(j) ==
  [i \in DOMAIN j.kept |->
     LET k == Len(j.sizes) - Len(j.kept) + i - 1
         start == EndOf(j.sizes, i - 1)
     IN Batch(k, start, j.kept[i],
              {pos \in 0 .. j.sizes[k + 1] - 1 : start + pos \notin j.done})]

\* SigningManager::new_recovered: of what was allocated only pending indices are
\* enabled.  That all of them are covered is checked and cannot fail, since the
\* walk ends at or past the cursor.
RecoveredPool(j) ==
  [i \in DOMAIN j.kept |->
     LET k == Len(j.sizes) - Len(j.kept) + i - 1
         start == EndOf(j.sizes, k)
     IN Batch(k, start, j.kept[i],
              {pos \in 0 .. j.sizes[k + 1] - 1 : start + pos \notin j.done})]

\* The cursor must still be inside what was recovered; otherwise recovery starts
\* over.
InstallRecovered(n) ==
  LET j == job[n]
  IN /\ j.mode = "rebuild" /\ j.batch = Len(j.sizes)
     /\ SetJob(n, Idle)
     /\ \/ pool' = [pool EXCEPT ![n] = RecoveredPool(j)]
        \/ MaxIndex > EndOf(j.sizes, Len(j.sizes)) /\ UNCHANGED pool
     /\ UNCHANGED <<chainVars, next, cached, want, stored, faults>>

-----------------------------------------------------------------------------
(* Signing.                                                                *)

\* prepare_local_partial_signatures for a pending index the mirror shows.
Sign(n, index) ==
  /\ pool[n] # <<>>
  /\ index \in Indices \ cached[n]
  /\ next' = [next EXCEPT ![n] = StagedAfter(n, index)]
  /\ \E p \in {PoolFor(n, index)} : \E covering \in {Covering(p, index)} :
       \/ \* not covered: ask for the batch that is missing
          /\ covering = {}
          /\ want' = [want EXCEPT ![n] = Request(p)]
          /\ pool' = [pool EXCEPT ![n] = p]
          /\ UNCHANGED <<cached, used>>
       \/ \* consumed before, sealed over other dealers, or no seal in the mirror yet
          /\ covering # {}
          /\ pool' = [pool EXCEPT ![n] = p]
          /\ UNCHANGED <<want, cached, used>>
       \/ \E b \in covering :
            LET pos == index - p[b].start
                rest == [p EXCEPT ![b].left = @ \ {pos}]
            IN /\ seals[p[b].batch] = p[b].set /\ pos \in p[b].left
               /\ pool' = [pool EXCEPT ![n] = Pruned(rest)]
               /\ want' = [want EXCEPT ![n] = WantAfterTake(n, rest)]
               /\ cached' = [cached EXCEPT ![n] = @ \cup {index}]
               /\ used' = used \cup
                    {[node |-> n, batch |-> p[b].batch, set |-> p[b].set, pos |-> pos,
                      index |-> index]}
  /\ UNCHANGED <<clock, certs, seals, endorsed, job, stored, faults>>

-----------------------------------------------------------------------------
(* Faults.                                                                 *)

\* A round fails: a timeout, dealers skipped for local reasons, a read error.
\* It is tried again or given up.
Fail(n) ==
  /\ job[n] # Idle /\ faults < MaxFaults
  /\ faults' = faults + 1
  /\ \/ SetJob(n, Idle)
     \/ job[n].mode # "rebuild" /\ SetJob(n, Fresh(job[n].mode, job[n].batch))
  /\ UNCHANGED <<chainVars, poolVars, stored>>

Restart(n) ==
  /\ faults < MaxFaults
  /\ faults' = faults + 1
  /\ pool' = [pool EXCEPT ![n] = <<>>]
  /\ next' = [next EXCEPT ![n] = NONE]
  /\ cached' = [cached EXCEPT ![n] = {}]
  /\ want' = [want EXCEPT ![n] = NONE]
  /\ stored' = [stored EXCEPT ![n] = [k \in Batches |-> NONE]]
  /\ SetJob(n, Idle)
  /\ UNCHANGED chainVars

-----------------------------------------------------------------------------
ChainStep ==
  \/ Tick
  \/ \E e \in endorsed : SubmitPresigDealerSet(e.batch, e.set)

Round(n) ==
  \/ Deal(n) \/ InstallFirst(n)
  \/ TriggerRefill(n) \/ TakeRefill(n) \/ Stage(n)

Recovery(n) ==
  \/ Recover(n) \/ RepairMissingBatch(n) \/ FallBack(n)
  \/ RebuildBatch(n) \/ InstallRecovered(n)

Next ==
  \/ ChainStep
  \/ \E n \in Nodes :
       \/ Round(n) \/ Recovery(n) \/ Fail(n) \/ Restart(n)
       \/ \E i \in Indices : Sign(n, i)

Spec == Init /\ [][Next]_vars

-----------------------------------------------------------------------------
(* Properties.                                                             *)

\* A nonce is used for one message and a message is signed with one nonce, by
\* every node and across every restart: two messages under one nonce reveal a
\* node's key share, and shares of different nonces do not make a signature.
NonceBinding ==
  \A u, v \in used :
    u.index = v.index <=> (u.batch = v.batch /\ u.pos = v.pos /\ u.set = v.set)

\* Every batch that a node has installed or staged has the dealers that every
\* other node derives for it and that its seal names, and begins at the same
\* index, however far the mirrors lagged when each was built.
BatchesAgree ==
  LET built == UNION {ToSet(pool[n]) : n \in Nodes}
      sets(k) == {b.set : b \in {c \in built : c.batch = k}}
                 \cup {next[n].set : n \in {m \in Nodes : next[m] # NONE /\ next[m].batch = k}}
                 \cup {e.set : e \in {f \in endorsed : f.batch = k}}
  IN /\ \A k \in Batches : Cardinality(sets(k)) <= 1
     /\ \A b, c \in built : b.batch = c.batch => b.start = c.start
=============================================================================
