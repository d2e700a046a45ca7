--------------------------- MODULE Presigs_proofs ---------------------------
(***************************************************************************)
(* Proofs about Presigs: for any committee, any number of batches and any  *)
(* lag of the mirrors, all nodes build a batch from one dealer set and at  *)
(* one first index, and a nonce is used for one message.                   *)
(***************************************************************************)
EXTENDS Presigs, Totals_proofs, SequenceTheorems

-----------------------------------------------------------------------------
(* The inductive invariant.                                                *)

\* The certificates of a batch carry timestamps of the chain, which do not
\* decrease.
CertsInv ==
  /\ clock \in Nat
  /\ certs \in [Batches -> Seq([dealer : Nodes, at : Nat])]
  /\ \A k \in Batches : \A i \in DOMAIN certs[k] :
       /\ certs[k][i].at <= clock
       /\ \A h \in 1 .. i : certs[k][h].at <= certs[k][i].at

\* The window of a batch, if it has one, has closed, and with it the set of its
\* dealers.
Closed(k) ==
  /\ FloorReached(certs[k])
  /\ CutoffOf(certs[k]) # NONE => clock > CutoffOf(certs[k])
SetOf(k) == Admitted(certs[k], CutoffOf(certs[k]))

\* The sizes of the batches, and the index a batch starts at once all before it
\* have closed.
SizeOf == [k \in Batches |-> Size(SetOf(k))]
StartOf(k) == Total(SizeOf, 0 .. k - 1)
ClosedUpTo(k) == \A h \in 0 .. k : Closed(h)

\* A dealer set is the dealers at some positions of the certificates.
DealerSet == UNION {[D -> Nodes] : D \in SUBSET Nat}
BatchType == [batch : Batches, start : Nat, set : DealerSet, left : SUBSET Int]

JobType ==
  [mode : {"idle", "first", "refill", "rebuild"}, batch : Nat, dealt : BOOLEAN,
   sizes : Seq(Nat), done : SUBSET Int, kept : Seq(DealerSet)]

PoolType ==
  /\ pool \in [Nodes -> Seq(BatchType)]
  /\ next \in [Nodes -> [batch : Batches, set : DealerSet] \cup {NONE}]
  /\ want \in [Nodes -> Batches \cup {NONE}]
  /\ job \in [Nodes -> JobType]

\* A batch of a pool holds the batch's one dealer set and starts at its index.
WellBuilt(b) ==
  ClosedUpTo(b.batch) /\ b.set = SetOf(b.batch) /\ b.start = StartOf(b.batch)

\* A set that was derived for a batch is the batch's one dealer set.
Derived(x) == x.batch \in Batches /\ Closed(x.batch) /\ x.set = SetOf(x.batch)

\* What a node has sized and rebuilt so far.
JobInv(j) ==
  /\ j.mode \in {"first", "refill"} => j.batch \in Batches
  /\ j.mode = "rebuild" =>
       /\ Len(j.kept) <= j.batch /\ j.batch <= Len(j.sizes) /\ Len(j.sizes) <= MaxBatch + 1
       /\ \A i \in DOMAIN j.sizes : Closed(i - 1) /\ j.sizes[i] = SizeOf[i - 1]
       /\ \A i \in DOMAIN j.kept : j.kept[i] = SetOf(j.batch - Len(j.kept) + i - 1)

\* A nonce was used for the index it has in the one layout of the epoch.
UsedWell(u) ==
  /\ u.batch \in Batches /\ ClosedUpTo(u.batch)
  /\ u.set = SetOf(u.batch)
  /\ u.pos \in 0 .. SizeOf[u.batch] - 1
  /\ u.index = StartOf(u.batch) + u.pos

BuiltInv ==
  /\ \A n \in Nodes :
       /\ \A i \in DOMAIN pool[n] : WellBuilt(pool[n][i])
       /\ next[n] # NONE => Derived(next[n])
       /\ JobInv(job[n])
  /\ \A e \in endorsed : Derived(e)
  /\ \A u \in used : UsedWell(u)

PresigInv == CertsInv /\ PoolType /\ BuiltInv

-----------------------------------------------------------------------------
(* The floor and the cutoff.                                               *)

Cert == [dealer : Nodes, at : Nat]

\* The first of the certificates ds are the certificates cs.
Starts(cs, ds) == Len(cs) <= Len(ds) /\ \A i \in 1 .. Len(cs) : cs[i] = ds[i]

\* A set of naturals has a least element.
LEMMA LeastExists ==
  ASSUME NEW S \in SUBSET Nat, S # {}
  PROVE  \E i \in S : \A h \in S : i <= h
<1>1. IsWellFoundedOn(OpToRel(<, Nat), Nat) BY NatLessThanWellFounded
<1>2. PICK i \in S : \A h \in S : ~(<<h, i>> \in OpToRel(<, Nat)) BY <1>1, WFMin
<1>3. ASSUME NEW h \in S, h < i PROVE FALSE
  <2>1. <<h, i>> \in OpToRel(<, Nat) BY <1>3 DEF OpToRel
  <2> QED BY <1>2, <2>1
<1>4. ASSUME NEW h \in S PROVE i <= h BY <1>3, <1>4
<1> QED BY <1>4

\* The parameters are numbers; the window may be zero.
LEMMA Parameters ==
  /\ Floor \in Nat /\ Floor > 0 /\ Threshold \in Nat /\ Threshold > 0 /\ Threshold <= Floor
  /\ Window \in Nat /\ NONE \notin Nat /\ MaxBatch \in Nat /\ MaxIndex \in Nat
<1>1. Floor \in Nat \ {0} /\ Threshold \in Nat \ {0} /\ Window \in Nat BY PresigsAssumption
<1> QED BY <1>1, PresigsAssumption

\* The weight of a set of members is a natural number, and grows with the set.
LEMMA WeightFacts ==
  ASSUME NEW T \in SUBSET Nodes
  PROVE  WeightOf(T) \in Nat /\ \A S \in SUBSET T : WeightOf(S) <= WeightOf(T)
<1>1. IsFiniteSet(T) BY PresigsAssumption, FS_Subset
<1>2. \A x \in T : Weight[x] \in Nat BY PresigsAssumption
<1>3. WeightOf(T) \in Nat BY <1>1, <1>2, TotalType DEF WeightOf
<1>4. \A S \in SUBSET T : WeightOf(S) <= WeightOf(T) BY <1>1, <1>2, TotalMonotone DEF WeightOf
<1> QED BY <1>3, <1>4

\* Members without shares do not count.
LEMMA WeightOfShares ==
  ASSUME NEW T \in SUBSET Nodes
  PROVE  WeightOf(T) = WeightOf({x \in T : Weight[x] > 0})
<1> DEFINE P == {x \in T : Weight[x] > 0}
<1>1. \A x \in T : Weight[x] \in Nat BY PresigsAssumption
<1>2. \A p : p \in Units(Weight, T) <=> p \in Units(Weight, P)
  <2>1. \A x \in T : \A i \in 1 .. Weight[x] : x \in P BY <1>1
  <2>2. \A p : p \in Units(Weight, T) <=> \E x \in T : \E i \in 1 .. Weight[x] : p = <<x, i>>
    BY UnitsMembers
  <2>3. \A p : p \in Units(Weight, P) <=> \E x \in P : \E i \in 1 .. Weight[x] : p = <<x, i>>
    BY UnitsMembers
  <2> QED BY <2>1, <2>2, <2>3
<1> HIDE DEF P
<1>3. Units(Weight, T) = Units(Weight, P) BY <1>2
<1> QED BY <1>3 DEF WeightOf, Total, P

\* No certificate reaches the floor alone by being absent, and more of them do
\* not fall below it.
LEMMA FloorMonotone ==
  ASSUME NEW cs \in Seq(Cert)
  PROVE  /\ ~FloorBy(cs, 0)
         /\ \A m \in 0 .. Len(cs) : \A i \in 0 .. m : FloorBy(cs, i) => FloorBy(cs, m)
<1>1. ~FloorBy(cs, 0)
  <2>1. {cs[i].dealer : i \in 1 .. 0} = {} OBVIOUS
  <2>2. WeightOf({}) = 0 BY TotalEmpty DEF WeightOf
  <2>3. ~(0 >= Floor) BY Parameters
  <2> QED BY <2>1, <2>2, <2>3, Zenon DEF FloorBy
<1>2. ASSUME NEW m \in 0 .. Len(cs), NEW i \in 0 .. m, FloorBy(cs, i)
      PROVE  FloorBy(cs, m)
  <2> DEFINE D(q) == {cs[h].dealer : h \in 1 .. q}
  <2>0. \A h \in 1 .. m : cs[h] \in Cert OBVIOUS
  <2>1. D(m) \in SUBSET Nodes BY <2>0 DEF Cert
  <2>2. D(i) \in SUBSET D(m) OBVIOUS
  <2>3. WeightOf(D(i)) <= WeightOf(D(m)) /\ WeightOf(D(m)) \in Nat BY <2>1, <2>2, WeightFacts
  <2>4. WeightOf(D(i)) \in Nat BY <2>1, <2>2, WeightFacts
  <2>5. WeightOf(D(i)) >= Floor BY <1>2 DEF FloorBy
  <2>6. WeightOf(D(m)) >= Floor BY <2>3, <2>4, <2>5, Parameters
  <2> QED BY <2>6 DEF FloorBy
<1> QED BY <1>1, <1>2

\* The certificate that reaches the floor: there is one, and only one.
LEMMA Crossing ==
  ASSUME NEW cs \in Seq(Cert), NEW m \in 0 .. Len(cs), FloorBy(cs, m)
  PROVE  \E i \in 1 .. m : /\ FloorBy(cs, i) /\ ~FloorBy(cs, i - 1)
                           /\ \A h \in DOMAIN cs : FloorBy(cs, h) /\ ~FloorBy(cs, h - 1) => h = i
<1> DEFINE S == {i \in 0 .. m : FloorBy(cs, i)}
<1>1. PICK i \in S : \A h \in S : i <= h
  <2>1. S \in SUBSET Nat /\ S # {} OBVIOUS
  <2> QED BY <2>1, LeastExists
<1>2. i \in 1 .. m BY <1>1, FloorMonotone
<1>3. ~FloorBy(cs, i - 1)
  <2>1. i - 1 \in 0 .. m BY <1>2
  <2>2. ~(i <= i - 1) BY <1>2
  <2> QED BY <1>1, <2>1, <2>2
<1>4. ASSUME NEW h \in DOMAIN cs, FloorBy(cs, h), ~FloorBy(cs, h - 1), h # i
      PROVE  FALSE
  <2>1. CASE h < i
    <3>1. h \in S BY <1>2, <1>4, <2>1
    <3> QED BY <1>1, <1>2, <2>1, <3>1
  <2>2. CASE i < h
    <3>1. h - 1 \in 0 .. Len(cs) /\ i \in 0 .. h - 1 BY <1>2, <2>2
    <3>2. FloorBy(cs, i) BY <1>1
    <3> QED BY <3>1, <3>2, <1>4, FloorMonotone
  <2> QED BY <2>1, <2>2, <1>2, <1>4
<1> QED BY <1>1, <1>2, <1>3, <1>4

\* A mirror that has seen the floor knows the cutoff of the whole bucket, and
\* whether it has one.
LEMMA SameCutoff ==
  ASSUME NEW cs \in Seq(Cert), NEW ds \in Seq(Cert), Starts(cs, ds), FloorReached(cs)
  PROVE  /\ FloorReached(ds)
         /\ CutoffOf(cs) = CutoffOf(ds)
         /\ CutoffOf(cs) \in Nat \cup {NONE}
         /\ \A q \in 0 .. Len(cs) : FloorBy(cs, q) <=> FloorBy(ds, q)
         /\ \A i \in DOMAIN ds \ DOMAIN cs : FloorBy(ds, i - 1)
         /\ \E i \in 1 .. Len(cs) : /\ FloorBy(cs, i)
                                    /\ \A h \in 0 .. i - 1 : ~FloorBy(cs, h)
                                    /\ CutoffOf(cs) # NONE => cs[i].at <= CutoffOf(cs)
<1>0. Len(cs) \in Nat /\ Len(ds) \in Nat /\ Len(cs) <= Len(ds) BY DEF Starts
<1>1. ASSUME NEW q \in 0 .. Len(cs) PROVE FloorBy(cs, q) <=> FloorBy(ds, q)
  <2>1. {cs[h].dealer : h \in 1 .. q} = {ds[h].dealer : h \in 1 .. q} BY <1>0 DEF Starts
  <2> QED BY <2>1 DEF FloorBy
<1>2. PICK i \in 1 .. Len(cs) :
        /\ FloorBy(cs, i) /\ ~FloorBy(cs, i - 1)
        /\ \A h \in DOMAIN cs : FloorBy(cs, h) /\ ~FloorBy(cs, h - 1) => h = i
  <2>1. Len(cs) \in 0 .. Len(cs) /\ FloorBy(cs, Len(cs)) BY <1>0 DEF FloorReached
  <2> QED BY <2>1, Crossing
<1>3. FloorBy(ds, i) /\ ~FloorBy(ds, i - 1) BY <1>1, <1>2, <1>0
<1>4. FloorReached(ds) BY <1>3, <1>0, <1>2, FloorMonotone DEF FloorReached
<1>5. \A h \in DOMAIN ds : FloorBy(ds, h) /\ ~FloorBy(ds, h - 1) => h = i
  <2>1. PICK e \in 1 .. Len(ds) :
        \A h \in DOMAIN ds : FloorBy(ds, h) /\ ~FloorBy(ds, h - 1) => h = e
    BY Crossing, <1>0, <1>4 DEF FloorReached
  <2>2. i \in DOMAIN ds BY <1>0
  <2> QED BY <2>1, <2>2, <1>3
<1>6. (CHOOSE h \in DOMAIN cs : FloorBy(cs, h) /\ ~FloorBy(cs, h - 1)) = i
  <2>1. i \in DOMAIN cs OBVIOUS
  <2> QED BY <1>2, <2>1
<1>7. (CHOOSE h \in DOMAIN ds : FloorBy(ds, h) /\ ~FloorBy(ds, h - 1)) = i
  <2>1. i \in DOMAIN ds BY <1>0
  <2> QED BY <1>3, <1>5, <2>1
<1>8. CrossedAt(cs) = cs[i].at BY <1>6 DEF CrossedAt
<1>9. CrossedAt(ds) = ds[i].at BY <1>7 DEF CrossedAt
<1>10. cs[i] = ds[i] /\ cs[i].at \in Nat
  <2>1. cs[i] \in Cert OBVIOUS
  <2> QED BY <2>1 DEF Starts, Cert
<1>11. Window \in Nat BY Parameters
<1>12. CutoffOf(cs) = CutoffOf(ds) BY <1>8, <1>9, <1>10 DEF CutoffOf
<1>13. CutoffOf(cs) \in Nat \cup {NONE} /\ (CutoffOf(cs) # NONE => cs[i].at <= CutoffOf(cs))
  BY <1>8, <1>10, <1>11 DEF CutoffOf
<1>14. ASSUME NEW h \in 0 .. i - 1, FloorBy(cs, h) PROVE FALSE
  <2>1. i - 1 \in 0 .. Len(cs) /\ h \in 0 .. i - 1 BY <1>0
  <2> QED BY <2>1, <1>14, <1>2, FloorMonotone
<1>15. ASSUME NEW h \in DOMAIN ds \ DOMAIN cs PROVE FloorBy(ds, h - 1)
  <2>1. DOMAIN ds = 1 .. Len(ds) /\ DOMAIN cs = 1 .. Len(cs) OBVIOUS
  <2>2. h - 1 \in 0 .. Len(ds) /\ i \in 0 .. h - 1 BY <2>1, <1>0, <1>15
  <2> QED BY <2>2, <1>3, FloorMonotone
<1> QED BY <1>1, <1>2, <1>4, <1>12, <1>13, <1>14, <1>15

-----------------------------------------------------------------------------
(* One dealer set for a batch.                                             *)

\* The certificates of a bucket are certificates.
LEMMA BucketType ==
  ASSUME CertsInv, NEW k \in Batches
  PROVE  certs[k] \in Seq(Cert)
BY DEF CertsInv, Cert

\* Certificates that come past the cutoff, or without one past the floor, do not
\* change who is admitted.
LEMMA SameAdmitted ==
  ASSUME NEW cs \in Seq(Cert), NEW ds \in Seq(Cert), Starts(cs, ds), FloorReached(cs),
         CutoffOf(ds) # NONE => \A i \in DOMAIN ds \ DOMAIN cs : ds[i].at > CutoffOf(ds)
  PROVE  Admitted(cs, CutoffOf(cs)) = Admitted(ds, CutoffOf(ds))
<1> DEFINE c == CutoffOf(ds)
           A(es) == {i \in DOMAIN es : Weight[es[i].dealer] > 0 /\ Admits(es, c, i)}
<1>1. /\ CutoffOf(cs) = c /\ c \in Nat \cup {NONE}
      /\ \A q \in 0 .. Len(cs) : FloorBy(cs, q) <=> FloorBy(ds, q)
      /\ \A i \in DOMAIN ds \ DOMAIN cs : FloorBy(ds, i - 1)
  BY SameCutoff
<1>2. /\ DOMAIN cs = 1 .. Len(cs) /\ DOMAIN ds = 1 .. Len(ds) /\ Len(cs) \in Nat /\ Len(ds) \in Nat
      /\ Len(cs) <= Len(ds) /\ \A i \in 1 .. Len(cs) : cs[i] = ds[i]
  BY DEF Starts
<1>3. \A i \in DOMAIN ds : ds[i].at \in Nat
  <2>1. \A i \in DOMAIN ds : ds[i] \in Cert OBVIOUS
  <2> QED BY <2>1 DEF Cert
<1>4. c # NONE => \A i \in DOMAIN ds \ DOMAIN cs : ds[i].at > c OBVIOUS
<1> HIDE DEF c
<1>5. ASSUME NEW i \in DOMAIN cs PROVE Admits(cs, c, i) <=> Admits(ds, c, i)
  <2>1. i - 1 \in 0 .. Len(cs) /\ cs[i] = ds[i] BY <1>2
  <2> QED BY <2>1, <1>1 DEF Admits
<1>6. ASSUME NEW i \in DOMAIN ds \ DOMAIN cs PROVE ~Admits(ds, c, i)
  <2>1. CASE c = NONE BY <2>1, <1>1, <1>6 DEF Admits
  <2>2. CASE c # NONE
    <3>1. c \in Nat /\ ds[i].at > c /\ ds[i].at \in Nat BY <2>2, <1>1, <1>3, <1>4, <1>6
    <3> QED BY <2>2, <3>1 DEF Admits
  <2> QED BY <2>1, <2>2
<1>7. A(cs) = A(ds)
  <2>1. \A i \in DOMAIN cs : i \in DOMAIN ds /\ cs[i] = ds[i] BY <1>2
  <2> QED BY <2>1, <1>5, <1>6
<1>8. \A i \in A(ds) : Dealers(cs)[i] = Dealers(ds)[i]
  <2>1. \A i \in A(ds) : i \in DOMAIN cs /\ i \in DOMAIN ds BY <1>7
  <2> QED BY <2>1, <1>2 DEF Dealers
<1> DEFINE D == A(ds)
<1>9. Admitted(cs, c) = Restrict(Dealers(cs), D) BY <1>7 DEF Admitted
<1>10. Admitted(ds, c) = Restrict(Dealers(ds), D) BY DEF Admitted
<1> HIDE DEF D
<1>11. \A i \in D : Dealers(cs)[i] = Dealers(ds)[i] BY <1>8 DEF D
<1>12. Restrict(Dealers(cs), D) = Restrict(Dealers(ds), D) BY <1>11 DEF Restrict
<1> QED BY <1>1, <1>9, <1>10, <1>12 DEF c

\* Whatever a mirror strictly past the cutoff shows of a bucket, the dealer set
\* derived from it is the one of the whole bucket, whose window has closed.
LEMMA ViewsAgree ==
  ASSUME CertsInv, NEW k \in Batches, NEW set \in DealerSets(k)
  PROVE  Closed(k) /\ set = SetOf(k)
<1> DEFINE ds == certs[k]
<1>0. ds \in Seq(Cert) BY BucketType
<1>1. PICK v \in Views(k) : /\ FloorReached(v.certs)
                            /\ CutoffOf(v.certs) # NONE => v.clock > CutoffOf(v.certs)
                            /\ set = Admitted(v.certs, CutoffOf(v.certs))
  BY DEF DealerSets, PastCutoff
<1>2. PICK t \in 0 .. clock : \E m \in 0 .. Len(ds) : v = [clock |-> t, certs |-> SubSeq(ds, 1, m)]
  BY <1>1 DEF Views
<1>3. PICK m \in 0 .. Len(ds) : v = [clock |-> t, certs |-> SubSeq(ds, 1, m)] BY <1>2
<1> DEFINE cs == SubSeq(ds, 1, m)
<1>4. /\ cs \in Seq(Cert) /\ Len(cs) = m /\ Len(ds) \in Nat
      /\ \A i \in 1 .. m : cs[i] = ds[i]
      /\ DOMAIN cs = 1 .. m /\ DOMAIN ds = 1 .. Len(ds)
  BY <1>0, <1>3
<1>5. v.certs = cs /\ v.clock = t /\ t \in Int /\ t <= clock /\ clock \in Nat
  BY <1>3, <1>2 DEF CertsInv
<1>6. \A i \in DOMAIN ds \ DOMAIN cs : ds[i].at >= t
  BY <1>1, <1>5 DEF Views
<1> HIDE DEF cs, ds
<1>7. Starts(cs, ds) BY <1>4 DEF Starts
<1>8. FloorReached(ds) /\ CutoffOf(cs) = CutoffOf(ds) /\ CutoffOf(cs) \in Nat \cup {NONE}
  BY <1>0, <1>1, <1>4, <1>5, <1>7, SameCutoff
<1>9. Closed(k)
  <2>1. CutoffOf(ds) # NONE => clock > CutoffOf(ds) BY <1>1, <1>5, <1>8
  <2> QED BY <2>1, <1>8 DEF Closed, ds
<1>10. \A i \in DOMAIN ds : ds[i].at \in Nat
  <2>1. \A i \in DOMAIN ds : ds[i] \in Cert BY <1>0
  <2> QED BY <2>1 DEF Cert
<1>11. CutoffOf(ds) # NONE => \A i \in DOMAIN ds \ DOMAIN cs : ds[i].at > CutoffOf(ds)
  BY <1>1, <1>5, <1>6, <1>8, <1>10
<1>13. Admitted(cs, CutoffOf(cs)) = Admitted(ds, CutoffOf(ds))
  BY <1>0, <1>1, <1>4, <1>5, <1>7, <1>11, SameAdmitted
<1>14. set = SetOf(k) BY <1>1, <1>5, <1>13 DEF SetOf, ds
<1> QED BY <1>9, <1>14

\* A closed batch has at least one presignature.
LEMMA ClosedSize ==
  ASSUME CertsInv, NEW k \in Batches, Closed(k)
  PROVE  SetOf(k) \in DealerSet /\ SizeOf[k] = Size(SetOf(k)) /\ SizeOf[k] \in Nat \ {0}
<1> DEFINE ds == certs[k]
           c == CutoffOf(ds)
           D == {i \in DOMAIN ds : Weight[ds[i].dealer] > 0 /\ Admits(ds, c, i)}
<1>0. ds \in Seq(Cert) /\ Len(ds) \in Nat /\ DOMAIN ds = 1 .. Len(ds) BY BucketType
<1>1. FloorReached(ds) BY DEF Closed
<1>2. Starts(ds, ds) BY <1>0 DEF Starts
<1> HIDE DEF ds
<1>3. PICK m \in 1 .. Len(ds) :
        /\ FloorBy(ds, m)
        /\ \A h \in 0 .. m - 1 : ~FloorBy(ds, h)
        /\ c # NONE => ds[m].at <= c
  BY <1>0, <1>1, <1>2, SameCutoff
<1>4. c \in Nat \cup {NONE} BY <1>0, <1>1, <1>2, SameCutoff
<1> HIDE DEF c
<1>5. \A i \in DOMAIN ds : ds[i].dealer \in Nodes /\ ds[i].at \in Nat
  <2>1. \A i \in DOMAIN ds : ds[i] \in Cert BY <1>0
  <2> QED BY <2>1 DEF Cert
<1>6. SetOf(k) = [i \in D |-> ds[i].dealer]
  BY DEF SetOf, Admitted, Restrict, Dealers, ds, c
<1>7. D \in SUBSET Nat BY <1>0
<1>8. SetOf(k) \in [D -> Nodes] BY <1>5, <1>6
<1>9. SetOf(k) \in DealerSet BY <1>7, <1>8 DEF DealerSet
<1>10. ASSUME NEW i \in 1 .. m, Weight[ds[i].dealer] > 0 PROVE i \in D
  <2>0. m \in DOMAIN ds /\ i \in DOMAIN ds BY <1>0
  <2>1. \A h \in 1 .. m : ds[h].at <= ds[m].at BY <1>0 DEF CertsInv, ds
  <2>2. i - 1 \in 0 .. m - 1 OBVIOUS
  <2>3. Admits(ds, c, i)
    <3>1. CASE c = NONE
      <4>1. ~FloorBy(ds, i - 1) BY <2>2, <1>3
      <4> QED BY <3>1, <4>1 DEF Admits
    <3>2. CASE c # NONE
      <4>1. ds[m].at <= c /\ c \in Nat BY <3>2, <1>3, <1>4
      <4>2. ds[i].at \in Nat /\ ds[m].at \in Nat BY <2>0, <1>5
      <4>3. ds[i].at <= ds[m].at BY <2>1
      <4>4. ds[i].at <= c BY <4>1, <4>2, <4>3
      <4> QED BY <3>2, <4>4 DEF Admits
    <3> QED BY <3>1, <3>2
  <2> QED BY <2>0, <2>3, <1>10
<1>11. ToSet(SetOf(k)) \in SUBSET Nodes BY <1>8 DEF ToSet
<1> DEFINE F == {ds[i].dealer : i \in 1 .. m}
           P == {x \in F : Weight[x] > 0}
<1>12. P \in SUBSET ToSet(SetOf(k)) /\ F \in SUBSET Nodes
  <2>1. ASSUME NEW x \in P PROVE x \in ToSet(SetOf(k))
    <3>1. PICK i \in 1 .. m : x = ds[i].dealer BY <2>1
    <3>2. i \in D BY <3>1, <2>1, <1>10
    <3> QED BY <3>1, <3>2, <1>6 DEF ToSet
  <2>2. \A i \in 1 .. m : i \in DOMAIN ds BY <1>0
  <2> QED BY <2>1, <2>2, <1>5
<1>13. WeightOf(F) = WeightOf(P) BY <1>12, WeightOfShares
<1>14. WeightOf(F) >= Floor BY <1>3 DEF FloorBy
<1>15. WeightOf(ToSet(SetOf(k))) \in Nat /\ WeightOf(ToSet(SetOf(k))) >= Floor
  <2>1. /\ WeightOf(ToSet(SetOf(k))) \in Nat
        /\ WeightOf(P) <= WeightOf(ToSet(SetOf(k)))
    BY <1>11, <1>12, WeightFacts
  <2>2. WeightOf(P) \in Nat BY <1>12, WeightFacts
  <2> QED BY <2>1, <2>2, <1>13, <1>14, Parameters
<1>16. Size(SetOf(k)) \in Nat \ {0} BY <1>15, Parameters DEF Size
<1>17. SizeOf[k] = Size(SetOf(k)) BY DEF SizeOf
<1> QED BY <1>9, <1>16, <1>17

-----------------------------------------------------------------------------
(* The layout of the epoch's indices.                                      *)

\* The first index of a batch whose predecessors have closed is a number, and the
\* next batch starts where it ends.
LEMMA StartFacts ==
  ASSUME CertsInv, NEW k \in 0 .. MaxBatch + 1, \A h \in 0 .. k - 1 : Closed(h)
  PROVE  /\ StartOf(k) \in Nat
         /\ k = 0 => StartOf(k) = 0
         /\ \A h \in 0 .. k - 1 :
              /\ StartOf(h) \in Nat /\ StartOf(h + 1) = StartOf(h) + SizeOf[h]
              /\ StartOf(h) + SizeOf[h] <= StartOf(k)
<1>0. k \in Nat /\ MaxBatch \in Nat BY Parameters
<1>1. \A h \in 0 .. k - 1 : h \in Batches BY <1>0 DEF Batches
<1>2. \A h \in 0 .. k - 1 : SizeOf[h] \in Nat BY <1>1, ClosedSize
<1>3. ASSUME NEW q \in 0 .. k PROVE StartOf(q) \in Nat /\ StartOf(q) <= StartOf(k)
  <2>1. IsFiniteSet(0 .. k - 1) /\ 0 .. q - 1 \subseteq 0 .. k - 1 BY <1>0, FS_Interval
  <2>2. IsFiniteSet(0 .. q - 1) BY <1>0, FS_Interval
  <2>3. Total(SizeOf, 0 .. q - 1) <= Total(SizeOf, 0 .. k - 1) BY <1>2, <2>1, TotalMonotone
  <2>4. Total(SizeOf, 0 .. q - 1) \in Nat BY <1>2, <2>1, <2>2, TotalType
  <2> QED BY <2>3, <2>4 DEF StartOf
<1>4. ASSUME NEW h \in 0 .. k - 1 PROVE StartOf(h + 1) = StartOf(h) + SizeOf[h]
  <2> DEFINE A == 0 .. h - 1
             B == {h}
  <2>0. h \in Nat /\ h - 1 \in Int BY <1>0
  <2>1. IsFiniteSet(A) /\ IsFiniteSet(B)
    <3>1. IsFiniteSet(A) BY <2>0, FS_Interval
    <3>2. IsFiniteSet(B) BY FS_Singleton
    <3> QED BY <3>1, <3>2
  <2>2. A \cap B = {} /\ 0 .. (h + 1) - 1 = A \cup B BY <1>0
  <2>3. \A x \in A \cup B : SizeOf[x] \in Nat BY <1>2, <1>0
  <2>4. Total(SizeOf, B) = SizeOf[h] BY <2>3, TotalOne
  <2> HIDE DEF A, B
  <2>5. Total(SizeOf, A \cup B) = Total(SizeOf, A) + Total(SizeOf, B) BY <2>1, <2>2, <2>3, TotalUnion
  <2> QED BY <2>2, <2>4, <2>5 DEF StartOf, A
<1>5. k = 0 => StartOf(k) = 0
  <2>1. 0 .. 0 - 1 = {} OBVIOUS
  <2> QED BY <2>1, TotalEmpty DEF StartOf
<1>6. k \in 0 .. k /\ \A h \in 0 .. k - 1 : h \in 0 .. k /\ h + 1 \in 0 .. k BY <1>0
<1> QED BY <1>3, <1>4, <1>5, <1>6

-----------------------------------------------------------------------------
(* What a step does to the chain.                                          *)

\* A step lets the clock advance and adds at most one certificate, stamped with
\* the clock.
ChainMoves ==
  /\ clock' \in Nat /\ clock <= clock'
  /\ \/ certs' = certs
     \/ \E n \in Nodes : \E k \in Batches :
          certs' = [certs EXCEPT ![k] = Append(@, [dealer |-> n, at |-> clock])]

\* Timestamps stay in order.
LEMMA MovesCerts ==
  ASSUME CertsInv, ChainMoves
  PROVE  CertsInv' /\ \A k \in Batches : /\ Starts(certs[k], certs'[k])
                                         /\ \A i \in DOMAIN certs'[k] \ DOMAIN certs[k] :
                                              certs'[k][i].at = clock
<1>0. \A k \in Batches : certs[k] \in Seq(Cert) /\ Len(certs[k]) \in Nat BY BucketType
<1>1. CASE certs' = certs
  <2>1. \A k \in Batches : \A i \in DOMAIN certs[k] : certs[k][i].at \in Nat
    <3>1. \A k \in Batches : \A i \in DOMAIN certs[k] : certs[k][i] \in Cert BY <1>0
    <3> QED BY <3>1 DEF Cert
  <2>2. \A k \in Batches : \A i \in DOMAIN certs[k] : certs[k][i].at <= clock'
    BY <2>1 DEF CertsInv, ChainMoves
  <2>3. CertsInv' BY <1>1, <2>2 DEF CertsInv, ChainMoves
  <2> QED BY <2>3, <1>0, <1>1 DEF Starts
<1>2. ASSUME NEW n \in Nodes, NEW k \in Batches,
             certs' = [certs EXCEPT ![k] = Append(@, [dealer |-> n, at |-> clock])]
      PROVE  CertsInv' /\ \A q \in Batches : /\ Starts(certs[q], certs'[q])
                                             /\ \A i \in DOMAIN certs'[q] \ DOMAIN certs[q] :
                                                  certs'[q][i].at = clock
  <2> DEFINE c == [dealer |-> n, at |-> clock]
  <2>1. c \in Cert /\ c.at = clock /\ clock \in Nat BY DEF CertsInv, Cert
  <2> HIDE DEF c
  <2>2. certs' \in [Batches -> Seq(Cert)]
    <3>1. \A q \in Batches : certs[q] \in Seq(Cert) BY BucketType
    <3> QED BY <1>2, <2>1, <3>1 DEF CertsInv, c
  <2>3. \A q \in Batches : q # k => certs'[q] = certs[q] BY <1>2 DEF CertsInv
  <2>4. certs'[k] = Append(certs[k], c) BY <1>2 DEF CertsInv, c
  <2>5. certs[k] \in Seq(Cert) BY BucketType
  <2>6. /\ Len(certs[k]) \in Nat /\ Len(certs'[k]) = Len(certs[k]) + 1
        /\ DOMAIN certs[k] = 1 .. Len(certs[k]) /\ DOMAIN certs'[k] = 1 .. Len(certs[k]) + 1
        /\ \A i \in 1 .. Len(certs[k]) : certs'[k][i] = certs[k][i]
        /\ certs'[k][Len(certs[k]) + 1] = c
    BY <2>1, <2>4, <2>5
  <2>7. \A i \in DOMAIN certs[k] : certs[k][i].at \in Nat
    <3>1. \A i \in DOMAIN certs[k] : certs[k][i] \in Cert BY <2>5
    <3> QED BY <3>1 DEF Cert
  <2>8. ASSUME NEW q \in Batches, NEW i \in DOMAIN certs'[q]
        PROVE  /\ certs'[q][i].at <= clock'
               /\ \A h \in 1 .. i : certs'[q][h].at <= certs'[q][i].at
    <3>1. CASE q # k
      <4>1. certs[q] \in Seq(Cert) /\ certs'[q] = certs[q] BY <2>3, <3>1, BucketType
      <4>2. certs[q][i].at \in Nat
        <5>1. certs[q][i] \in Cert BY <4>1
        <5> QED BY <5>1 DEF Cert
      <4> QED BY <4>1, <4>2, <2>1 DEF CertsInv, ChainMoves
    <3>2. CASE q = k /\ i \in DOMAIN certs[k]
      <4>1. i \in 1 .. Len(certs[k]) /\ \A h \in 1 .. i : h \in 1 .. Len(certs[k]) BY <3>2, <2>6
      <4>2. certs[k][i].at <= clock /\ \A h \in 1 .. i : certs[k][h].at <= certs[k][i].at
        BY <3>2 DEF CertsInv
      <4>3. certs[k][i].at <= clock' BY <4>1, <4>2, <2>1, <2>6, <2>7 DEF ChainMoves
      <4> QED BY <3>2, <4>1, <4>2, <4>3, <2>6
    <3>3. CASE q = k /\ i = Len(certs[k]) + 1
      <4>1. certs'[q][i].at = clock BY <3>3, <2>1, <2>6
      <4>2. \A h \in 1 .. Len(certs[k]) : certs[k][h].at <= clock BY <2>6 DEF CertsInv
      <4>3. ASSUME NEW h \in 1 .. i PROVE certs'[q][h].at <= clock
        <5>1. CASE h = i BY <5>1, <4>1, <2>1
        <5>2. CASE h \in 1 .. Len(certs[k]) BY <5>2, <4>2, <2>6, <3>3
        <5> QED BY <5>1, <5>2, <3>3, <2>6
      <4> QED BY <4>1, <4>3, <2>1 DEF ChainMoves
    <3> QED BY <3>1, <3>2, <3>3, <2>6
  <2>9. CertsInv' BY <2>2, <2>8 DEF CertsInv, ChainMoves, Cert
  <2>10. \A q \in Batches : Starts(certs[q], certs'[q])
    <3>1. Starts(certs[k], certs'[k]) BY <2>6 DEF Starts
    <3>2. \A q \in Batches : Starts(certs[q], certs[q])
      <4>1. \A q \in Batches : Len(certs[q]) \in Nat BY BucketType
      <4> QED BY <4>1 DEF Starts
    <3> QED BY <2>3, <3>1, <3>2
  <2>11. \A q \in Batches : \A i \in DOMAIN certs'[q] \ DOMAIN certs[q] : certs'[q][i].at = clock
    BY <2>1, <2>3, <2>6
  <2> QED BY <2>9, <2>10, <2>11
<1> QED BY <1>1, <1>2 DEF ChainMoves

\* A batch that has closed keeps its dealer set: a certificate that comes later
\* is stamped past the cutoff.
LEMMA ClosedStays ==
  ASSUME CertsInv, ChainMoves, NEW k \in Batches, Closed(k)
  PROVE  Closed(k)' /\ SetOf(k)' = SetOf(k) /\ SizeOf'[k] = SizeOf[k]
<1> DEFINE cs == certs[k]
           ds == certs'[k]
           c == CutoffOf(cs)
<1>1. cs \in Seq(Cert) BY BucketType
<1>2. CertsInv' BY MovesCerts
<1>3. ds \in Seq(Cert) BY <1>2 DEF CertsInv, Cert
<1>4. Starts(cs, ds) /\ \A i \in DOMAIN ds \ DOMAIN cs : ds[i].at = clock BY MovesCerts
<1>5. FloorReached(cs) BY DEF Closed
<1> HIDE DEF cs, ds
<1>6. FloorReached(ds) /\ CutoffOf(ds) = c /\ c \in Nat \cup {NONE}
  BY <1>1, <1>3, <1>4, <1>5, SameCutoff
<1> HIDE DEF c
<1>7. (c # NONE => clock > c) /\ clock \in Nat BY DEF Closed, CertsInv, c, cs
<1>8. c # NONE => clock' > c BY <1>6, <1>7 DEF ChainMoves
<1>9. Closed(k)' BY <1>6, <1>8 DEF Closed, ds
<1>12. Admitted(cs, c) = Admitted(ds, c)
  <2>1. c # NONE => \A i \in DOMAIN ds \ DOMAIN cs : ds[i].at > c BY <1>4, <1>6, <1>7
  <2> QED BY <2>1, <1>1, <1>3, <1>4, <1>5, <1>6, SameAdmitted DEF c
<1>13. SetOf(k)' = SetOf(k) BY <1>6, <1>12 DEF SetOf, cs, ds, c
<1>14. SizeOf'[k] = SizeOf[k] BY <1>13 DEF SizeOf
<1> QED BY <1>9, <1>13, <1>14

\* The first index of a batch never moves.
LEMMA StartStays ==
  ASSUME CertsInv, ChainMoves, NEW k \in Batches, ClosedUpTo(k)
  PROVE  ClosedUpTo(k)' /\ StartOf(k)' = StartOf(k)
<1>0. k \in Nat /\ MaxBatch \in Nat BY Parameters DEF Batches
<1>1. \A h \in 0 .. k : h \in Batches /\ Closed(h) BY <1>0 DEF ClosedUpTo, Batches
<1>2. \A h \in 0 .. k : Closed(h)' /\ SizeOf'[h] = SizeOf[h] BY <1>1, ClosedStays
<1>3. ClosedUpTo(k)' BY <1>2 DEF ClosedUpTo
<1>4. \A h \in 0 .. k - 1 : SizeOf'[h] = SizeOf[h] BY <1>0, <1>2
<1>5. Total(SizeOf', 0 .. k - 1) = Total(SizeOf, 0 .. k - 1) BY <1>4, TotalSame
<1> QED BY <1>3, <1>5 DEF StartOf

\* What was built stays well built while the chain moves on.
LEMMA BuiltStays ==
  ASSUME CertsInv, ChainMoves
  PROVE  /\ \A b : b.batch \in Batches /\ WellBuilt(b) => WellBuilt(b)'
         /\ \A x : Derived(x) => Derived(x)'
         /\ \A u : UsedWell(u) => UsedWell(u)'
         /\ \A j \in JobType : JobInv(j) => JobInv(j)'
<1>1. ASSUME NEW b, b.batch \in Batches, WellBuilt(b) PROVE WellBuilt(b)'
  <2>1. Closed(b.batch)
    <3>1. b.batch \in 0 .. b.batch BY <1>1, Parameters DEF Batches
    <3> QED BY <1>1, <3>1 DEF WellBuilt, ClosedUpTo
  <2> QED BY <1>1, <2>1, ClosedStays, StartStays DEF WellBuilt
<1>2. ASSUME NEW x, Derived(x) PROVE Derived(x)' BY <1>2, ClosedStays DEF Derived
<1>3. ASSUME NEW u, UsedWell(u) PROVE UsedWell(u)'
  <2>1. Closed(u.batch)
    <3>1. u.batch \in 0 .. u.batch BY <1>3, Parameters DEF Batches, UsedWell
    <3> QED BY <1>3, <3>1 DEF UsedWell, ClosedUpTo
  <2> QED BY <1>3, <2>1, ClosedStays, StartStays DEF UsedWell
<1>4. ASSUME NEW j \in JobType, JobInv(j) PROVE JobInv(j)'
  <2>1. CASE j.mode # "rebuild" BY <1>4, <2>1 DEF JobInv
  <2>2. CASE j.mode = "rebuild"
    <3>1. /\ j.batch \in Nat /\ Len(j.sizes) \in Nat /\ Len(j.kept) \in Nat
          /\ DOMAIN j.sizes = 1 .. Len(j.sizes) /\ DOMAIN j.kept = 1 .. Len(j.kept)
      BY DEF JobType
    <3>2. /\ Len(j.kept) <= j.batch /\ j.batch <= Len(j.sizes) /\ Len(j.sizes) <= MaxBatch + 1
          /\ \A i \in DOMAIN j.sizes : Closed(i - 1) /\ j.sizes[i] = SizeOf[i - 1]
          /\ \A i \in DOMAIN j.kept : j.kept[i] = SetOf(j.batch - Len(j.kept) + i - 1)
      BY <1>4, <2>2 DEF JobInv
    <3>3. \A i \in DOMAIN j.sizes : i - 1 \in Batches BY <3>1, <3>2, Parameters DEF Batches
    <3>4. \A i \in DOMAIN j.sizes : Closed(i - 1)' /\ j.sizes[i] = SizeOf'[i - 1]
      BY <3>2, <3>3, ClosedStays
    <3>5. ASSUME NEW i \in DOMAIN j.kept
          PROVE  j.kept[i] = SetOf(j.batch - Len(j.kept) + i - 1)'
      <4> DEFINE q == j.batch - Len(j.kept) + i - 1
      <4>1. q + 1 \in DOMAIN j.sizes /\ (q + 1) - 1 = q BY <3>1, <3>2
      <4>2. q \in Batches /\ Closed(q) BY <3>2, <3>3, <4>1
      <4>3. SetOf(q)' = SetOf(q) BY <4>2, ClosedStays
      <4>4. j.kept[i] = SetOf(q) BY <3>2
      <4> QED BY <4>3, <4>4, Zenon
    <3> QED BY <2>2, <3>2, <3>4, <3>5 DEF JobInv
  <2> QED BY <2>1, <2>2
<1> QED BY <1>1, <1>2, <1>3, <1>4

\* A step of node n leaves the other nodes alone.
OthersKept(n) ==
  \A q \in Nodes \ {n} : pool'[q] = pool[q] /\ next'[q] = next[q] /\ job'[q] = job[q]

\* What node n holds after the step is well built.
BuiltAt(n) ==
  /\ \A i \in DOMAIN pool'[n] : WellBuilt(pool'[n][i])
  /\ next'[n] # NONE => Derived(next'[n])
  /\ JobInv(job'[n])

\* What is endorsed and used is well built.
HistoryWell == (\A e \in endorsed' : Derived(e)) /\ (\A u \in used' : UsedWell(u))

\* To preserve the invariant it is enough to build well: the chain's moves change
\* nothing of it.
LEMMA BuiltFrame ==
  ASSUME PresigInv, ChainMoves, PoolType', HistoryWell, \A n \in Nodes : BuiltAt(n)
  PROVE  PresigInv'
<1> USE DEF PresigInv
<1>1. CertsInv' BY MovesCerts
<1>2. ASSUME NEW q \in Nodes
      PROVE  /\ \A i \in DOMAIN pool'[q] : WellBuilt(pool'[q][i])
             /\ next'[q] # NONE => Derived(next'[q])
             /\ JobInv(job'[q])
  BY DEF BuiltAt
<1>3. ASSUME NEW q \in Nodes
      PROVE  (/\ \A i \in DOMAIN pool[q] : WellBuilt(pool[q][i])
              /\ next[q] # NONE => Derived(next[q])
              /\ JobInv(job[q]))'
  <2>1. \A i \in DOMAIN pool'[q] : pool'[q][i].batch \in Batches
    <3>1. pool'[q] \in Seq(BatchType) BY DEF PoolType
    <3>2. \A i \in DOMAIN pool'[q] : pool'[q][i] \in BatchType BY <3>1
    <3> QED BY <3>2 DEF BatchType
  <2>2. (\A i \in DOMAIN pool[q] : WellBuilt(pool[q][i]))'
    <3>1. \A b : b.batch \in Batches /\ WellBuilt(b) => WellBuilt(b)' BY BuiltStays
    <3> QED BY <1>2, <2>1, <3>1
  <2>3. (next[q] # NONE => Derived(next[q]))'
    <3>1. \A x : Derived(x) => Derived(x)' BY BuiltStays
    <3> QED BY <1>2, <3>1
  <2>4. (JobInv(job[q]))'
    <3>1. \A j \in JobType : JobInv(j) => JobInv(j)' BY BuiltStays
    <3>2. job'[q] \in JobType BY DEF PoolType
    <3> QED BY <1>2, <3>1, <3>2
  <2> QED BY <2>2, <2>3, <2>4
<1>4. \A e \in endorsed' : Derived(e)' BY BuiltStays DEF HistoryWell
<1>5. \A u \in used' : UsedWell(u)' BY BuiltStays DEF HistoryWell
<1>6. BuiltInv' BY <1>3, <1>4, <1>5 DEF BuiltInv
<1> QED BY <1>1, <1>6

\* And it is enough to build well on the node that moves.
LEMMA NodeFrame ==
  ASSUME PresigInv, ChainMoves, PoolType', HistoryWell,
         NEW n \in Nodes, OthersKept(n), BuiltAt(n)
  PROVE  PresigInv'
<1>1. ASSUME NEW q \in Nodes, q # n PROVE BuiltAt(q)
  BY <1>1 DEF OthersKept, BuiltAt, PresigInv, BuiltInv
<1>2. \A q \in Nodes : BuiltAt(q) BY <1>1
<1> QED BY <1>2, BuiltFrame

\* Steps that do not touch the certificates.
LEMMA StillChain ==
  ASSUME PresigInv, UNCHANGED <<clock, certs>>
  PROVE  ChainMoves
BY DEF PresigInv, CertsInv, ChainMoves

\* The histories are kept.
LEMMA StillHistory ==
  ASSUME PresigInv, UNCHANGED <<endorsed, used>>
  PROVE  HistoryWell
BY DEF PresigInv, BuiltInv, HistoryWell

\* A certificate that is submitted is a move of the chain.
LEMMA SubmitMoves ==
  ASSUME PresigInv, NEW n \in Nodes, NEW k \in Batches, SubmitCert(n, k), UNCHANGED clock
  PROVE  ChainMoves
<1>1. clock' \in Nat /\ clock <= clock' BY DEF PresigInv, CertsInv
<1>2. certs' = [certs EXCEPT ![k] = Append(@, [dealer |-> n, at |-> clock])] BY DEF SubmitCert
<1> QED BY <1>1, <1>2, Zenon DEF ChainMoves

\* An idle loop, and a round that begins.
LEMMA FreshJob ==
  /\ Idle \in JobType /\ JobInv(Idle)
  /\ \A k \in Batches : \A mode \in {"first", "refill"} :
       Fresh(mode, k) \in JobType /\ JobInv(Fresh(mode, k))
<1>1. Idle \in JobType /\ JobInv(Idle) BY DEF Idle, JobType, JobInv
<1>2. ASSUME NEW k \in Batches, NEW mode \in {"first", "refill"}
      PROVE  Fresh(mode, k) \in JobType /\ JobInv(Fresh(mode, k))
  <2>1. k \in Nat BY Parameters DEF Batches
  <2> DEFINE f == [Idle EXCEPT !.mode = mode, !.batch = k]
  <2>2. f \in JobType /\ f.mode = mode /\ f.batch = k BY <1>1, <2>1 DEF JobType
  <2>3. Fresh(mode, k) = f BY DEF Fresh
  <2> HIDE DEF f
  <2> QED BY <2>2, <2>3 DEF JobInv
<1> QED BY <1>1, <1>2

\* The clock and the seals.
LEMMA ChainStepKeeps ==
  ASSUME PresigInv, ChainStep
  PROVE  PresigInv'
<1>1. ChainMoves /\ UNCHANGED <<pool, next, want, job, endorsed, used>>
  <2>1. CASE Tick BY <2>1 DEF Tick, poolVars, ChainMoves, PresigInv, CertsInv
  <2>2. ASSUME NEW e \in endorsed, SubmitPresigDealerSet(e.batch, e.set)
        PROVE  ChainMoves /\ UNCHANGED <<pool, next, want, job, endorsed, used>>
    BY <2>2, StillChain DEF SubmitPresigDealerSet, poolVars
  <2> QED BY <2>1, <2>2 DEF ChainStep
<1>2. PoolType' BY <1>1 DEF PresigInv, PoolType
<1>3. HistoryWell BY <1>1, StillHistory
<1>4. \A n \in Nodes : BuiltAt(n) BY <1>1 DEF BuiltAt, PresigInv, BuiltInv
<1> QED BY <1>1, <1>2, <1>3, <1>4, BuiltFrame

\* Only the node's loop changes, to a job that is sound.
LEMMA JobFrame ==
  ASSUME PresigInv, ChainMoves, NEW n \in Nodes, UNCHANGED <<pool, next, endorsed, used>>,
         want' \in [Nodes -> Batches \cup {NONE}],
         NEW j \in JobType, JobInv(j), job' = [job EXCEPT ![n] = j]
  PROVE  PresigInv'
<1>1. PoolType' BY DEF PresigInv, PoolType
<1>2. HistoryWell BY StillHistory
<1>3. OthersKept(n) BY DEF OthersKept, PresigInv, PoolType
<1>4. BuiltAt(n) BY DEF BuiltAt, PresigInv, BuiltInv, PoolType
<1> QED BY <1>1, <1>2, <1>3, <1>4, NodeFrame

\* Dealing.
LEMMA DealKeeps ==
  ASSUME PresigInv, NEW n \in Nodes, Deal(n)
  PROVE  PresigInv'
<1> DEFINE j == job[n]
           d == [j EXCEPT !.dealt = TRUE]
<1>1. j \in JobType /\ JobInv(j) BY DEF PresigInv, PoolType, BuiltInv
<1>2. j.batch \in Batches BY <1>1 DEF Deal, JobInv
<1>3. d \in JobType /\ JobInv(d) BY <1>1, <1>2 DEF JobType, JobInv, Deal
<1>4. UNCHANGED <<clock, pool, next, want, endorsed, used>> BY DEF Deal, poolVars
<1>5. ChainMoves
  <2>1. CASE SubmitCert(n, j.batch) BY <2>1, <1>2, <1>4, SubmitMoves
  <2>2. CASE UNCHANGED certs BY <2>2, <1>4, StillChain
  <2> QED BY <2>1, <2>2 DEF Deal
<1>6. job' = [job EXCEPT ![n] = d] BY DEF Deal, SetJob
<1>7. want' \in [Nodes -> Batches \cup {NONE}] BY <1>4 DEF PresigInv, PoolType
<1> HIDE DEF d
<1> QED BY <1>3, <1>4, <1>5, <1>6, <1>7, JobFrame

\* A dealer set is signed only after its window closed.
LEMMA EndorseWell ==
  ASSUME PresigInv, NEW n \in Nodes, NEW k \in Batches, NEW set \in DealerSets(k),
         Endorse(n, k, set), UNCHANGED used
  PROVE  HistoryWell
<1>1. Closed(k) /\ set = SetOf(k) BY ViewsAgree DEF PresigInv
<1>2. Derived([node |-> n, batch |-> k, set |-> set]) BY <1>1 DEF Derived
<1>3. \A e \in endorsed' : Derived(e) BY <1>2 DEF Endorse, PresigInv, BuiltInv
<1> QED BY <1>3 DEF HistoryWell, PresigInv, BuiltInv

\* A party phase that fails leaves an idle loop or the round it began with.
LEMMA FailsWell ==
  ASSUME PresigInv, NEW n \in Nodes, job[n].mode \in {"first", "refill"}, PartyFails(n)
  PROVE  \E j \in JobType : JobInv(j) /\ job' = [job EXCEPT ![n] = j] /\ UNCHANGED <<pool, next>>
<1>1. job[n].batch \in Batches BY DEF PresigInv, BuiltInv, JobInv
<1>2. CASE job' = [job EXCEPT ![n] = Idle] BY <1>2, FreshJob DEF PartyFails
<1>3. CASE job' = [job EXCEPT ![n] = Fresh(job[n].mode, job[n].batch)]
  BY <1>1, <1>3, FreshJob DEF PartyFails
<1> QED BY <1>2, <1>3 DEF PartyFails

\* The first batch starts at index zero.
LEMMA InstallFirstKeeps ==
  ASSUME PresigInv, NEW n \in Nodes, InstallFirst(n)
  PROVE  PresigInv'
<1>0. 0 \in Batches BY Parameters DEF Batches
<1>1. UNCHANGED <<clock, certs, used, want>> /\ job[n].mode \in {"first", "refill"} BY DEF InstallFirst
<1>2. PICK set \in DealerSets(0) :
        /\ Endorse(n, 0, set)
        /\ \/ /\ pool' = [pool EXCEPT ![n] = <<FullBatch(0, 0, set)>>]
              /\ SetJob(n, Idle)
              /\ UNCHANGED <<next, faults>>
           \/ PartyFails(n)
  BY DEF InstallFirst
<1>3. ChainMoves BY <1>1, StillChain
<1>4. HistoryWell BY <1>0, <1>1, <1>2, EndorseWell
<1>5. CASE PartyFails(n)
  <2>1. PICK j \in JobType : JobInv(j) /\ job' = [job EXCEPT ![n] = j] /\ UNCHANGED <<pool, next>>
    BY <1>1, <1>5, FailsWell
  <2>2. PoolType' BY <1>1, <2>1 DEF PresigInv, PoolType
  <2>3. OthersKept(n) BY <2>1 DEF OthersKept, PresigInv, PoolType
  <2>4. BuiltAt(n) BY <2>1 DEF BuiltAt, PresigInv, BuiltInv, PoolType
  <2> QED BY <1>3, <1>4, <2>2, <2>3, <2>4, NodeFrame
<1>6. CASE /\ pool' = [pool EXCEPT ![n] = <<FullBatch(0, 0, set)>>]
           /\ SetJob(n, Idle)
           /\ UNCHANGED <<next, faults>>
  <2> DEFINE b == FullBatch(0, 0, set)
  <2>1. Closed(0) /\ set = SetOf(0) BY <1>0, <1>2, ViewsAgree DEF PresigInv
  <2>2. set \in DealerSet BY <1>0, <2>1, ClosedSize DEF PresigInv
  <2>3. b \in BatchType /\ b.batch = 0 /\ b.set = set /\ b.start = 0
    BY <1>0, <2>2 DEF BatchType, FullBatch, Batch
  <2> HIDE DEF b
  <2>4. ClosedUpTo(0) BY <2>1 DEF ClosedUpTo
  <2>5. StartOf(0) = 0
    <3>1. 0 \in 0 .. MaxBatch + 1 /\ \A h \in 0 .. 0 - 1 : Closed(h) BY Parameters
    <3> QED BY <3>1, StartFacts DEF PresigInv
  <2>6. WellBuilt(b) BY <2>1, <2>3, <2>4, <2>5 DEF WellBuilt
  <2>7. <<b>> \in Seq(BatchType) /\ DOMAIN <<b>> = {1} /\ <<b>>[1] = b BY <2>3
  <2>8. job' = [job EXCEPT ![n] = Idle] /\ pool' = [pool EXCEPT ![n] = <<b>>] BY <1>6 DEF SetJob, b
  <2>9. PoolType' BY <1>1, <1>6, <2>7, <2>8, FreshJob DEF PresigInv, PoolType
  <2>10. OthersKept(n) BY <1>6, <2>8 DEF OthersKept, PresigInv, PoolType
  <2>11. BuiltAt(n)
    <3>1. pool'[n] = <<b>> /\ job'[n] = Idle /\ next'[n] = next[n] BY <1>6, <2>8 DEF PresigInv, PoolType
    <3> QED BY <3>1, <2>6, <2>7, FreshJob DEF BuiltAt, PresigInv, BuiltInv
  <2> QED BY <1>3, <1>4, <2>9, <2>10, <2>11, NodeFrame
<1> QED BY <1>2, <1>5, <1>6

\* The last batch of a pool that is not empty.
LEMMA LastBatch ==
  ASSUME NEW p \in Seq(BatchType), p # <<>>
  PROVE  /\ Len(p) \in DOMAIN p /\ Last(p) = p[Len(p)] /\ Last(p) \in BatchType
         /\ Last(p).batch \in Batches /\ Request(p) \in Batches \cup {NONE}
<1>1. Len(p) \in DOMAIN p /\ Last(p) = p[Len(p)] /\ Last(p) \in BatchType BY DEF Last
<1>2. Last(p).batch \in Batches BY <1>1 DEF BatchType
<1>3. Request(p) \in Batches \cup {NONE} BY <1>2, Parameters DEF Request, Batches
<1> QED BY <1>1, <1>2, <1>3

\* A refill is asked for.
LEMMA TriggerRefillKeeps ==
  ASSUME PresigInv, NEW n \in Nodes, TriggerRefill(n)
  PROVE  PresigInv'
<1>1. UNCHANGED <<clock, certs, endorsed, used, pool, next, job>> BY DEF TriggerRefill, chainVars
<1>2. pool[n] \in Seq(BatchType) /\ pool[n] # <<>> BY DEF TriggerRefill, PresigInv, PoolType
<1>3. Request(pool[n]) \in Batches \cup {NONE} BY <1>2, LastBatch
<1>4. want' \in [Nodes -> Batches \cup {NONE}] BY <1>3 DEF TriggerRefill, PresigInv, PoolType
<1>5. PoolType' BY <1>1, <1>4 DEF PresigInv, PoolType
<1>6. \A q \in Nodes : BuiltAt(q) BY <1>1 DEF BuiltAt, PresigInv, BuiltInv
<1> QED BY <1>1, <1>5, <1>6, StillChain, StillHistory, BuiltFrame

\* A refill is begun or skipped.
LEMMA TakeRefillKeeps ==
  ASSUME PresigInv, NEW n \in Nodes, TakeRefill(n)
  PROVE  PresigInv'
<1>1. UNCHANGED <<clock, certs, endorsed, used, pool, next>> BY DEF TakeRefill, chainVars
<1>2. want[n] \in Batches BY DEF TakeRefill, PresigInv, PoolType
<1>3. want' \in [Nodes -> Batches \cup {NONE}] BY DEF TakeRefill, PresigInv, PoolType
<1>4. CASE job' = [job EXCEPT ![n] = Fresh("refill", want[n])]
  <2>1. Fresh("refill", want[n]) \in JobType /\ JobInv(Fresh("refill", want[n])) BY <1>2, FreshJob
  <2> QED BY <1>1, <1>3, <1>4, <2>1, StillChain, JobFrame
<1>5. CASE UNCHANGED job
  <2>1. job[n] \in JobType /\ JobInv(job[n]) /\ job' = [job EXCEPT ![n] = job[n]]
    BY <1>5 DEF PresigInv, PoolType, BuiltInv
  <2> QED BY <1>1, <1>3, <2>1, StillChain, JobFrame
<1> QED BY <1>4, <1>5 DEF TakeRefill, SetJob

\* The next batch is staged.
LEMMA StageKeeps ==
  ASSUME PresigInv, NEW n \in Nodes, Stage(n)
  PROVE  PresigInv'
<1> DEFINE k == job[n].batch
<1>1. UNCHANGED <<clock, certs, used, want>> /\ job[n].mode \in {"first", "refill"} BY DEF Stage
<1>0. k \in Batches BY <1>1 DEF PresigInv, BuiltInv, JobInv
<1>2. PICK set \in DealerSets(k) :
        /\ Endorse(n, k, set)
        /\ \/ /\ \/ next' = [next EXCEPT ![n] = [batch |-> k, set |-> set]]
                 \/ UNCHANGED next
              /\ SetJob(n, Idle)
              /\ UNCHANGED <<pool, faults>>
           \/ PartyFails(n)
  BY DEF Stage
<1> HIDE DEF k
<1>3. ChainMoves BY <1>1, StillChain
<1>4. HistoryWell BY <1>0, <1>1, <1>2, EndorseWell
<1>5. CASE PartyFails(n)
  <2>1. PICK j \in JobType : JobInv(j) /\ job' = [job EXCEPT ![n] = j] /\ UNCHANGED <<pool, next>>
    BY <1>1, <1>5, FailsWell
  <2>2. PoolType' BY <1>1, <2>1 DEF PresigInv, PoolType
  <2>3. OthersKept(n) BY <2>1 DEF OthersKept, PresigInv, PoolType
  <2>4. BuiltAt(n) BY <2>1 DEF BuiltAt, PresigInv, BuiltInv, PoolType
  <2> QED BY <1>3, <1>4, <2>2, <2>3, <2>4, NodeFrame
<1>6. CASE /\ \/ next' = [next EXCEPT ![n] = [batch |-> k, set |-> set]]
              \/ UNCHANGED next
           /\ SetJob(n, Idle)
           /\ UNCHANGED <<pool, faults>>
  <2> DEFINE x == [batch |-> k, set |-> set]
  <2>1. Closed(k) /\ set = SetOf(k) BY <1>0, <1>2, ViewsAgree DEF PresigInv
  <2>2. set \in DealerSet BY <1>0, <2>1, ClosedSize DEF PresigInv
  <2>3. x \in [batch : Batches, set : DealerSet] /\ Derived(x) BY <1>0, <2>1, <2>2 DEF Derived
  <2>4. next' = [next EXCEPT ![n] = x] \/ next' = next BY <1>6
  <2> HIDE DEF x
  <2>5. job' = [job EXCEPT ![n] = Idle] BY <1>6 DEF SetJob
  <2>6. PoolType' BY <1>1, <1>6, <2>3, <2>4, <2>5, FreshJob DEF PresigInv, PoolType
  <2>7. OthersKept(n) BY <1>6, <2>4, <2>5 DEF OthersKept, PresigInv, PoolType
  <2>8. BuiltAt(n)
    <3>1. pool'[n] = pool[n] /\ job'[n] = Idle /\ (next'[n] = next[n] \/ next'[n] = x)
      BY <1>6, <2>4, <2>5 DEF PresigInv, PoolType
    <3> QED BY <3>1, <2>3, FreshJob DEF BuiltAt, PresigInv, BuiltInv
  <2> QED BY <1>3, <1>4, <2>6, <2>7, <2>8, NodeFrame
<1> QED BY <1>2, <1>5, <1>6

-----------------------------------------------------------------------------
(* Recovery.                                                               *)

\* What a walk over the chain finds are the sizes of closed batches, from the
\* first one on.
LEMMA WalkWell ==
  ASSUME PresigInv, NEW c, NEW sizes \in Walks(c, Sized)
  PROVE  /\ sizes \in Seq(Nat) /\ Len(sizes) <= MaxBatch + 1
         /\ \A i \in DOMAIN sizes : i - 1 \in Batches /\ Closed(i - 1) /\ sizes[i] = SizeOf[i - 1]
<1>1. PICK m \in 0 .. MaxBatch + 1 : sizes \in [1 .. m -> {s[2] : s \in Sized}] BY DEF Walks
<1>2. m \in Nat /\ DOMAIN sizes = 1 .. m BY <1>1, Parameters
<1>3. ASSUME NEW i \in DOMAIN sizes
      PROVE  i - 1 \in Batches /\ Closed(i - 1) /\ sizes[i] = SizeOf[i - 1]
  <2>1. <<i - 1, sizes[i]>> \in Sized BY DEF Walks
  <2>2. PICK k \in Batches : \E set \in DealerSets(k) : <<i - 1, sizes[i]>> = <<k, Size(set)>>
    BY <2>1 DEF Sized
  <2>3. PICK set \in DealerSets(k) : <<i - 1, sizes[i]>> = <<k, Size(set)>> BY <2>2
  <2>4. i - 1 = k /\ sizes[i] = Size(set) BY <2>3
  <2>5. Closed(k) /\ set = SetOf(k) BY ViewsAgree DEF PresigInv
  <2> QED BY <2>4, <2>5 DEF SizeOf
<1>4. \A i \in DOMAIN sizes : sizes[i] \in Nat BY <1>3, ClosedSize DEF PresigInv
<1>5. sizes \in [1 .. m -> Nat] BY <1>1, <1>2, <1>4
<1>6. sizes \in Seq(Nat) /\ Len(sizes) = m BY <1>2, <1>5
<1> QED BY <1>1, <1>3, <1>6, Parameters

\* Some batch of a walk is the first that is kept.
LEMMA FirstKeptType ==
  ASSUME NEW sizes \in Seq(Nat), sizes # <<>>, NEW pending
  PROVE  FirstKept(sizes, pending) \in 1 .. Len(sizes)
<1> DEFINE holds == {i \in DOMAIN sizes : \E p \in pending : /\ EndOf(sizes, i - 1) <= p
                                                             /\ p < EndOf(sizes, i)}
<1>1. Len(sizes) \in Nat /\ Len(sizes) \in 1 .. Len(sizes) /\ DOMAIN sizes = 1 .. Len(sizes) OBVIOUS
<1>2. holds \in SUBSET Nat /\ holds \subseteq 1 .. Len(sizes) BY <1>1
<1>3. FirstKept(sizes, pending) = IF holds = {} THEN Len(sizes) ELSE Min(holds) BY DEF FirstKept
<1> HIDE DEF holds
<1>4. CASE holds # {}
  <2>1. \E i \in holds : \A h \in holds : i <= h BY <1>2, <1>4, LeastExists
  <2>2. Min(holds) \in holds BY <2>1 DEF Min
  <2> QED BY <1>2, <1>3, <1>4, <2>2
<1> QED BY <1>1, <1>3, <1>4

\* A walk ends and the batches from some one on will be rebuilt.
LEMMA RecoverKeeps ==
  ASSUME PresigInv, NEW n \in Nodes, Recover(n)
  PROVE  PresigInv'
<1>1. UNCHANGED <<clock, certs, endorsed, used, pool, next, want>> BY DEF Recover, chainVars, poolVars
<1>2. PICK c \in Cursors : \E sizes \in Walks(c, Sized) \ {<<>>} : \E pending \in Pendings(c) :
        SetJob(n, [Idle EXCEPT !.mode = "rebuild", !.batch = FirstKept(sizes, pending) - 1,
                               !.sizes = sizes, !.done = (0 .. c - 1) \ pending])
  BY DEF Recover
<1>3. PICK sizes \in Walks(c, Sized) \ {<<>>} : \E pending \in Pendings(c) :
        SetJob(n, [Idle EXCEPT !.mode = "rebuild", !.batch = FirstKept(sizes, pending) - 1,
                               !.sizes = sizes, !.done = (0 .. c - 1) \ pending])
  BY <1>2
<1>4. PICK pending \in Pendings(c) :
        SetJob(n, [Idle EXCEPT !.mode = "rebuild", !.batch = FirstKept(sizes, pending) - 1,
                               !.sizes = sizes, !.done = (0 .. c - 1) \ pending])
  BY <1>3
<1> DEFINE first == FirstKept(sizes, pending) - 1
           done == (0 .. c - 1) \ pending
           j == [Idle EXCEPT !.mode = "rebuild", !.batch = first, !.sizes = sizes, !.done = done]
<1>5. /\ sizes \in Seq(Nat) /\ Len(sizes) <= MaxBatch + 1 /\ sizes # <<>>
      /\ \A i \in DOMAIN sizes : Closed(i - 1) /\ sizes[i] = SizeOf[i - 1]
  BY <1>3, WalkWell
<1>6. first \in Nat /\ first <= Len(sizes)
  <2>1. FirstKept(sizes, pending) \in 1 .. Len(sizes) BY <1>5, FirstKeptType
  <2> QED BY <2>1, <1>5
<1>7. done \in SUBSET Int OBVIOUS
<1> HIDE DEF first, done
<1>8. /\ j \in JobType /\ j.mode = "rebuild" /\ j.batch = first /\ j.sizes = sizes /\ j.kept = <<>>
  <2>1. Idle \in JobType /\ Idle.kept = <<>> BY FreshJob DEF Idle
  <2> QED BY <1>5, <1>6, <1>7, <2>1 DEF JobType
<1>9. job' = [job EXCEPT ![n] = j] BY <1>4 DEF SetJob, first, done
<1> HIDE DEF j
<1>10. JobInv(j)
  <2>1. Len(j.kept) = 0 /\ DOMAIN j.kept = {} BY <1>8
  <2> QED BY <1>5, <1>6, <1>8, <2>1 DEF JobInv
<1>11. want' \in [Nodes -> Batches \cup {NONE}] BY <1>1 DEF PresigInv, PoolType
<1> QED BY <1>1, <1>8, <1>9, <1>10, <1>11, StillChain, JobFrame

\* A node deals into a batch that is missing.
LEMMA RepairKeeps ==
  ASSUME PresigInv, NEW n \in Nodes, RepairMissingBatch(n)
  PROVE  PresigInv'
<1>1. UNCHANGED <<clock, pool, next, want, job, endorsed, used>> BY DEF RepairMissingBatch, poolVars
<1>2. PICK k \in Batches : SubmitCert(n, k) BY DEF RepairMissingBatch
<1>3. ChainMoves BY <1>1, <1>2, SubmitMoves
<1>4. PoolType' BY <1>1 DEF PresigInv, PoolType
<1>5. \A q \in Nodes : BuiltAt(q) BY <1>1 DEF BuiltAt, PresigInv, BuiltInv
<1> QED BY <1>1, <1>3, <1>4, <1>5, StillHistory, BuiltFrame

\* The first batch is generated again.
LEMMA FallBackKeeps ==
  ASSUME PresigInv, NEW n \in Nodes, FallBack(n)
  PROVE  PresigInv'
<1>1. UNCHANGED <<clock, certs, endorsed, used, pool, next, want>> BY DEF FallBack, chainVars, poolVars
<1>2. 0 \in Batches BY Parameters DEF Batches
<1>3. Fresh("first", 0) \in JobType /\ JobInv(Fresh("first", 0)) BY <1>2, FreshJob
<1>4. job' = [job EXCEPT ![n] = Fresh("first", 0)] BY DEF FallBack, SetJob
<1>5. want' \in [Nodes -> Batches \cup {NONE}] BY <1>1 DEF PresigInv, PoolType
<1> QED BY <1>1, <1>3, <1>4, <1>5, StillChain, JobFrame

\* One more batch is rebuilt, from the set it was built from before.
LEMMA RebuildBatchKeeps ==
  ASSUME PresigInv, NEW n \in Nodes, RebuildBatch(n)
  PROVE  PresigInv'
<1> DEFINE j == job[n]
<1>1. UNCHANGED <<clock, certs, used, pool, next, want>> BY DEF RebuildBatch, poolVars
<1>2. j \in JobType /\ JobInv(j) /\ j.mode = "rebuild" /\ j.batch < Len(j.sizes)
  BY DEF RebuildBatch, PresigInv, PoolType, BuiltInv
<1>3. PICK set \in DealerSets(j.batch) :
        /\ Endorse(n, j.batch, set)
        /\ job' = [job EXCEPT ![n] = [j EXCEPT !.kept = Append(@, set), !.batch = @ + 1]]
  BY DEF RebuildBatch, SetJob
<1> DEFINE d == [j EXCEPT !.kept = Append(@, set), !.batch = @ + 1]
<1> HIDE DEF j
<1>4. /\ j.batch \in Nat /\ Len(j.sizes) \in Nat /\ Len(j.kept) \in Nat /\ j.kept \in Seq(DealerSet)
      /\ DOMAIN j.sizes = 1 .. Len(j.sizes) /\ DOMAIN j.kept = 1 .. Len(j.kept)
  BY <1>2 DEF JobType
<1>5. /\ Len(j.kept) <= j.batch /\ j.batch <= Len(j.sizes) /\ Len(j.sizes) <= MaxBatch + 1
      /\ \A i \in DOMAIN j.sizes : Closed(i - 1) /\ j.sizes[i] = SizeOf[i - 1]
      /\ \A i \in DOMAIN j.kept : j.kept[i] = SetOf(j.batch - Len(j.kept) + i - 1)
  BY <1>2 DEF JobInv
<1>6. j.batch \in Batches BY <1>2, <1>4, <1>5, Parameters DEF Batches
<1>7. Closed(j.batch) /\ set = SetOf(j.batch) BY <1>6, ViewsAgree DEF PresigInv
<1>8. set \in DealerSet BY <1>6, <1>7, ClosedSize DEF PresigInv
<1>9. HistoryWell BY <1>1, <1>3, <1>6, EndorseWell
<1>10. /\ d \in JobType /\ d.mode = "rebuild" /\ d.batch = j.batch + 1 /\ d.sizes = j.sizes
       /\ d.kept = Append(j.kept, set)
  <2> DEFINE more == Append(j.kept, set)
             up == j.batch + 1
  <2>1. more \in Seq(DealerSet) /\ up \in Nat BY <1>4, <1>8
  <2>2. d = [j EXCEPT !.kept = more, !.batch = up] OBVIOUS
  <2> HIDE DEF more, up, d
  <2>3. /\ d \in JobType /\ d.mode = "rebuild" /\ d.batch = up /\ d.sizes = j.sizes
        /\ d.kept = more
    BY <1>2, <2>1, <2>2 DEF JobType
  <2> QED BY <2>3 DEF more, up
<1> HIDE DEF d
<1>11. JobInv(d)
  <2>1. /\ Len(d.kept) = Len(j.kept) + 1 /\ DOMAIN d.kept = 1 .. Len(j.kept) + 1
        /\ \A i \in 1 .. Len(j.kept) : d.kept[i] = j.kept[i]
        /\ d.kept[Len(j.kept) + 1] = set
    BY <1>4, <1>8, <1>10
  <2>2. ASSUME NEW i \in DOMAIN d.kept
        PROVE  d.kept[i] = SetOf(d.batch - Len(d.kept) + i - 1)
    <3>1. CASE i = Len(j.kept) + 1
      <4>0. Len(d.kept) = i /\ d.batch = j.batch + 1 BY <3>1, <1>10, <2>1
      <4>1. d.batch - Len(d.kept) + i - 1 = j.batch
        <5>1. ASSUME NEW q \in Nat, NEW x \in Nat PROVE x + 1 - q + q - 1 = x
          OBVIOUS
        <5>2. i \in Nat /\ j.batch \in Nat BY <3>1, <1>4
        <5>3. j.batch + 1 - i + i - 1 = j.batch BY <5>1, <5>2
        <5> QED BY <4>0, <5>2, <5>3
      <4>2. d.kept[i] = SetOf(j.batch) BY <3>1, <2>1, <1>7
      <4> QED BY <4>1, <4>2
    <3>2. CASE i \in 1 .. Len(j.kept)
      <4>1. d.batch - Len(d.kept) + i - 1 = j.batch - Len(j.kept) + i - 1
        BY <3>2, <1>4, <1>10, <2>1
      <4>2. d.kept[i] = SetOf(j.batch - Len(j.kept) + i - 1) BY <3>2, <2>1, <1>4, <1>5
      <4> QED BY <4>1, <4>2
    <3> QED BY <3>1, <3>2, <2>1, <1>4
  <2>3. Len(d.kept) <= d.batch /\ d.batch <= Len(d.sizes) BY <1>2, <1>4, <1>5, <1>10, <2>1
  <2> QED BY <1>5, <1>10, <2>2, <2>3 DEF JobInv
<1>12. job' = [job EXCEPT ![n] = d] BY <1>3 DEF d
<1>13. PoolType' BY <1>1, <1>10, <1>12 DEF PresigInv, PoolType
<1>14. OthersKept(n) BY <1>1, <1>12 DEF OthersKept, PresigInv, PoolType
<1>15. BuiltAt(n)
  <2>1. job'[n] = d BY <1>12 DEF PresigInv, PoolType
  <2> QED BY <1>1, <1>11, <2>1 DEF BuiltAt, PresigInv, BuiltInv
<1> QED BY <1>1, <1>9, <1>13, <1>14, <1>15, StillChain, NodeFrame

\* The sum of the sizes a walk found is the first index of the batch after them.
LEMMA EndIsStart ==
  ASSUME CertsInv, NEW sizes \in Seq(Nat), Len(sizes) <= MaxBatch + 1,
         \A i \in DOMAIN sizes : Closed(i - 1) /\ sizes[i] = SizeOf[i - 1],
         NEW k \in 0 .. Len(sizes)
  PROVE  EndOf(sizes, k) = StartOf(k)
<1> DEFINE S == 1 .. k
           T == 0 .. k - 1
           h == [x \in S |-> x - 1]
<1>0. k \in Nat /\ DOMAIN sizes = 1 .. Len(sizes) /\ Len(sizes) \in Nat OBVIOUS
<1>1. h \in [S -> T] BY <1>0
<1>2. \A x, y \in S : h[x] = h[y] => x = y BY <1>0
<1>3. \A z \in T : \E x \in S : h[x] = z
  <2>1. ASSUME NEW z \in T PROVE z + 1 \in S /\ h[z + 1] = z BY <1>0
  <2> QED BY <2>1
<1>4. IsFiniteSet(S) BY <1>0, FS_Interval
<1>5. \A x \in S : sizes[x] \in Nat /\ sizes[x] = SizeOf[h[x]]
  <2>1. \A x \in S : x \in DOMAIN sizes /\ h[x] = x - 1 BY <1>0
  <2> HIDE DEF S, T, h
  <2> QED BY <2>1
<1> HIDE DEF S, T, h
<1>6. Total(sizes, S) = Total(SizeOf, T) BY <1>1, <1>2, <1>3, <1>4, <1>5, TotalRename
<1> QED BY <1>6 DEF EndOf, StartOf, S, T

\* A recovered pool is what a node that never failed would hold.
LEMMA RecoveredPoolWell ==
  ASSUME PresigInv, NEW j \in JobType, JobInv(j), j.mode = "rebuild", j.batch = Len(j.sizes)
  PROVE  /\ RecoveredPool(j) \in Seq(BatchType)
         /\ \A i \in DOMAIN RecoveredPool(j) : WellBuilt(RecoveredPool(j)[i])
<1> DEFINE p == RecoveredPool(j)
           K(i) == Len(j.sizes) - Len(j.kept) + i - 1
           left(i) == {pos \in 0 .. j.sizes[K(i) + 1] - 1 : EndOf(j.sizes, K(i)) + pos \notin j.done}
           b(i) == Batch(K(i), EndOf(j.sizes, K(i)), j.kept[i], left(i))
<1>1. /\ Len(j.sizes) \in Nat /\ Len(j.kept) \in Nat
      /\ j.sizes \in Seq(Nat) /\ j.kept \in Seq(DealerSet)
      /\ DOMAIN j.sizes = 1 .. Len(j.sizes) /\ DOMAIN j.kept = 1 .. Len(j.kept)
  BY DEF JobType
<1>2. /\ Len(j.kept) <= Len(j.sizes) /\ Len(j.sizes) <= MaxBatch + 1
      /\ \A i \in DOMAIN j.sizes : Closed(i - 1) /\ j.sizes[i] = SizeOf[i - 1]
      /\ \A i \in DOMAIN j.kept : j.kept[i] = SetOf(j.batch - Len(j.kept) + i - 1)
  BY DEF JobInv
<1>3. p = [i \in DOMAIN j.kept |-> b(i)] BY DEF RecoveredPool
<1>4. ASSUME NEW i \in DOMAIN j.kept PROVE b(i) \in BatchType /\ WellBuilt(b(i))
  <2> DEFINE k == K(i)
             s == Len(j.sizes)
             l == Len(j.kept)
  <2>0. i \in 1 .. l /\ l \in Nat /\ s \in Nat /\ l <= s /\ s <= MaxBatch + 1 /\ MaxBatch \in Nat
    BY <1>1, <1>2, Parameters
  <2>1. k \in 0 .. s - 1 /\ k \in 0 .. s /\ k \in Batches
    <3> HIDE DEF s, l
    <3>1. s - l + i - 1 \in 0 .. s - 1 BY <2>0
    <3>2. s - l + i - 1 \in 0 .. s /\ s - l + i - 1 \in 0 .. MaxBatch BY <2>0, <3>1
    <3> QED BY <3>1, <3>2 DEF Batches, s, l
  <2>2. j.kept[i] = SetOf(k) /\ j.kept[i] \in DealerSet
    <3>1. j.kept[i] = SetOf(j.batch - Len(j.kept) + i - 1) BY <1>2
    <3>2. j.kept[i] \in DealerSet BY <1>1
    <3>3. j.batch - Len(j.kept) + i - 1 = k OBVIOUS
    <3> QED BY <3>1, <3>2, <3>3, Zenon
  <2>3. left(i) \in SUBSET Int
    <3> DEFINE top == j.sizes[K(i) + 1] - 1
               end == EndOf(j.sizes, K(i))
    <3>1. left(i) = {pos \in 0 .. top : end + pos \notin j.done} OBVIOUS
    <3> HIDE DEF top, end, left
    <3> QED BY <3>1
  <2>4. ClosedUpTo(k)
    <3>1. ASSUME NEW h \in 0 .. k PROVE Closed(h)
      <4> HIDE DEF k, K
      <4>1. h + 1 \in DOMAIN j.sizes /\ (h + 1) - 1 = h BY <1>1, <2>1
      <4> QED BY <1>2, <4>1
    <3> QED BY <3>1 DEF ClosedUpTo
  <2> HIDE DEF k, left, s, l
  <2>5. EndOf(j.sizes, k) = StartOf(k) BY <1>1, <1>2, <2>1, EndIsStart DEF PresigInv, s
  <2>6. StartOf(k) \in Nat
    <3>1. k \in 0 .. MaxBatch + 1 /\ \A h \in 0 .. k - 1 : Closed(h)
      BY <2>1, <2>4, Parameters DEF Batches, ClosedUpTo
    <3> QED BY <3>1, StartFacts DEF PresigInv
  <2> DEFINE e == Batch(k, EndOf(j.sizes, k), j.kept[i], left(i))
  <2>7. e \in BatchType /\ e.batch = k /\ e.start = StartOf(k) /\ e.set = SetOf(k)
    BY <2>1, <2>2, <2>3, <2>5, <2>6 DEF BatchType, Batch
  <2>8. e = b(i) BY DEF k
  <2> HIDE DEF e, b
  <2>9. WellBuilt(e) BY <2>4, <2>7 DEF WellBuilt
  <2> QED BY <2>7, <2>8, <2>9
<1> HIDE DEF b, p
<1>5. p \in [1 .. Len(j.kept) -> BatchType] BY <1>1, <1>3, <1>4
<1>6. p \in Seq(BatchType) BY <1>1, <1>5
<1>7. \A i \in DOMAIN p : WellBuilt(p[i]) BY <1>3, <1>4
<1> QED BY <1>6, <1>7 DEF p

\* A recovered pool is installed, or recovery starts over.
LEMMA InstallRecoveredKeeps ==
  ASSUME PresigInv, NEW n \in Nodes, InstallRecovered(n)
  PROVE  PresigInv'
<1> DEFINE p == RecoveredPool(job[n])
<1>1. UNCHANGED <<clock, certs, endorsed, used, next, want>> BY DEF InstallRecovered, chainVars
<1>2. /\ job[n] \in JobType /\ JobInv(job[n]) /\ job[n].mode = "rebuild"
      /\ job[n].batch = Len(job[n].sizes)
  BY DEF InstallRecovered, PresigInv, PoolType, BuiltInv
<1>3. p \in Seq(BatchType) /\ \A i \in DOMAIN p : WellBuilt(p[i]) BY <1>2, RecoveredPoolWell
<1>4. job' = [job EXCEPT ![n] = Idle] /\ (pool' = [pool EXCEPT ![n] = p] \/ pool' = pool)
  BY DEF InstallRecovered, SetJob
<1> HIDE DEF p
<1>5. PoolType' BY <1>1, <1>3, <1>4, FreshJob DEF PresigInv, PoolType
<1>6. OthersKept(n) BY <1>1, <1>4 DEF OthersKept, PresigInv, PoolType
<1>7. BuiltAt(n)
  <2>1. job'[n] = Idle /\ next'[n] = next[n] /\ (pool'[n] = p \/ pool'[n] = pool[n])
    BY <1>1, <1>4 DEF PresigInv, PoolType
  <2> QED BY <1>3, <2>1, FreshJob DEF BuiltAt, PresigInv, BuiltInv
<1> QED BY <1>1, <1>5, <1>6, <1>7, StillChain, StillHistory, NodeFrame

\* A round fails and is tried again or given up.
LEMMA FailKeeps ==
  ASSUME PresigInv, NEW n \in Nodes, Fail(n)
  PROVE  PresigInv'
<1>1. UNCHANGED <<clock, certs, endorsed, used, pool, next, want>> BY DEF Fail, chainVars, poolVars
<1>2. want' \in [Nodes -> Batches \cup {NONE}] BY <1>1 DEF PresigInv, PoolType
<1>3. job[n] \in JobType /\ JobInv(job[n]) BY DEF PresigInv, PoolType, BuiltInv
<1>4. \E j \in JobType : JobInv(j) /\ job' = [job EXCEPT ![n] = j]
  <2>1. CASE job[n].mode = "idle" /\ job' = [job EXCEPT ![n] = Fresh(job[n].mode, job[n].batch)]
    <3> DEFINE f == [Idle EXCEPT !.mode = "idle", !.batch = job[n].batch]
    <3>1. f \in JobType /\ f.mode = "idle" BY <1>3, FreshJob DEF JobType
    <3>2. job' = [job EXCEPT ![n] = f] BY <2>1 DEF Fresh
    <3> HIDE DEF f
    <3>3. JobInv(f) BY <3>1 DEF JobInv
    <3> QED BY <3>1, <3>2, <3>3
  <2>2. CASE /\ job[n].mode \in {"first", "refill"}
             /\ job' = [job EXCEPT ![n] = Fresh(job[n].mode, job[n].batch)]
    BY <1>3, <2>2, FreshJob DEF JobInv
  <2>3. CASE job' = [job EXCEPT ![n] = Idle] BY <2>3, FreshJob
  <2>4. job[n].mode \in {"idle", "first", "refill", "rebuild"} BY <1>3 DEF JobType
  <2> QED BY <2>1, <2>2, <2>3, <2>4 DEF Fail, SetJob
<1> QED BY <1>1, <1>2, <1>4, StillChain, JobFrame

\* A node restarts with an empty memory.
LEMMA RestartKeeps ==
  ASSUME PresigInv, NEW n \in Nodes, Restart(n)
  PROVE  PresigInv'
<1>1. UNCHANGED <<clock, certs, endorsed, used>> BY DEF Restart, chainVars
<1>2. PoolType' BY FreshJob DEF Restart, SetJob, PresigInv, PoolType
<1>3. OthersKept(n) BY DEF Restart, SetJob, OthersKept, PresigInv, PoolType
<1>4. BuiltAt(n)
  <2>1. pool'[n] = <<>> /\ next'[n] = NONE /\ job'[n] = Idle
    BY DEF Restart, SetJob, PresigInv, PoolType
  <2> QED BY <2>1, FreshJob DEF BuiltAt
<1> QED BY <1>1, <1>2, <1>3, <1>4, StillChain, StillHistory, NodeFrame

-----------------------------------------------------------------------------
(* Signing.                                                                *)

\* The pool after a staged batch was installed or not.
LEMMA PoolForWell ==
  ASSUME PresigInv, NEW n \in Nodes, pool[n] # <<>>, NEW index
  PROVE  /\ PoolFor(n, index) \in Seq(BatchType) /\ PoolFor(n, index) # <<>>
         /\ \A i \in DOMAIN PoolFor(n, index) : WellBuilt(PoolFor(n, index)[i])
<1> DEFINE p == pool[n]
           l == Last(p)
           x == next[n]
           e == FullBatch(x.batch, End(l), x.set)
<1>1. p \in Seq(BatchType) /\ \A i \in DOMAIN p : WellBuilt(p[i]) BY DEF PresigInv, PoolType, BuiltInv
<1>2. CASE ~Installs(n, index) BY <1>1, <1>2 DEF PoolFor
<1>3. CASE Installs(n, index)
  <2>1. /\ l \in BatchType /\ l.batch \in Batches /\ WellBuilt(l) BY <1>1, LastBatch
  <2>2. x # NONE /\ x.batch = l.batch + 1 BY <1>3 DEF Installs
  <2>3. Derived(x) /\ x \in [batch : Batches, set : DealerSet]
    BY <2>2 DEF PresigInv, BuiltInv, PoolType
  <2>4. PoolFor(n, index) = Append(p, e) BY <1>3 DEF PoolFor
  <2> DEFINE k == l.batch
  <2>5. k \in Nat /\ k + 1 \in Batches /\ k + 1 <= MaxBatch /\ MaxBatch \in Nat
    BY <2>1, <2>2, <2>3, Parameters DEF Batches
  <2>6. Closed(k + 1) /\ x.set = SetOf(k + 1) BY <2>2, <2>3 DEF Derived
  <2>7. ClosedUpTo(k) /\ l.set = SetOf(k) /\ l.start = StartOf(k) BY <2>1 DEF WellBuilt
  <2> HIDE DEF k, l
  <2>8. ClosedUpTo(k + 1)
    <3>1. \A h \in 0 .. k + 1 : h \in 0 .. k \/ h = k + 1 BY <2>5
    <3> QED BY <3>1, <2>6, <2>7 DEF ClosedUpTo
  <2>9. Closed(k) /\ SizeOf[k] = Size(SetOf(k))
    <3>1. k \in 0 .. k /\ k \in Batches BY <2>5, <2>1 DEF k
    <3> QED BY <3>1, <2>7, ClosedSize DEF ClosedUpTo, PresigInv
  <2>10. StartOf(k + 1) = StartOf(k) + SizeOf[k] /\ StartOf(k + 1) \in Nat
    <3>1. k + 1 \in 0 .. MaxBatch + 1 /\ k \in 0 .. (k + 1) - 1 BY <2>5
    <3>2. \A h \in 0 .. (k + 1) - 1 : Closed(h) BY <2>5, <2>7 DEF ClosedUpTo
    <3> QED BY <3>1, <3>2, StartFacts DEF PresigInv
  <2>11. End(l) = StartOf(k + 1) BY <2>7, <2>9, <2>10 DEF End
  <2>12. e \in BatchType /\ e.batch = k + 1 /\ e.start = StartOf(k + 1) /\ e.set = SetOf(k + 1)
    <3>1. e = Batch(k + 1, End(l), x.set, 0 .. Size(x.set) - 1) BY <2>2 DEF FullBatch, k
    <3>2. 0 .. Size(x.set) - 1 \in SUBSET Int OBVIOUS
    <3>3. x.set \in DealerSet BY <2>3
    <3> HIDE DEF e, x
    <3> QED BY <3>1, <3>2, <3>3, <2>5, <2>6, <2>10, <2>11 DEF BatchType, Batch
  <2> HIDE DEF e
  <2>13. WellBuilt(e) BY <2>8, <2>12 DEF WellBuilt
  <2> HIDE DEF p
  <2>14. /\ Append(p, e) \in Seq(BatchType) /\ Append(p, e) # <<>>
         /\ \A i \in DOMAIN Append(p, e) : Append(p, e)[i] = e \/ (i \in DOMAIN p /\ Append(p, e)[i] = p[i])
    BY <1>1, <2>12
  <2> QED BY <1>1, <2>4, <2>13, <2>14
<1> QED BY <1>2, <1>3

\* Dropping consumed batches from the front drops nothing else.
LEMMA PrunedWell ==
  ASSUME NEW p \in Seq(BatchType), p # <<>>
  PROVE  /\ Pruned(p) \in Seq(BatchType) /\ Pruned(p) # <<>>
         /\ \A i \in DOMAIN Pruned(p) : \E h \in DOMAIN p : Pruned(p)[i] = p[h]
<1> DEFINE S == {i \in DOMAIN p : i = Len(p) \/ p[i].left # {}}
           P(i) == (i = Len(p) \/ p[i].left # {}) /\ \A h \in 1 .. i - 1 : p[h].left = {}
           c == CHOOSE i \in DOMAIN p : P(i)
<1>0. Len(p) \in Nat /\ Len(p) \in DOMAIN p /\ DOMAIN p = 1 .. Len(p) OBVIOUS
<1>1. PICK i \in S : \A h \in S : i <= h
  <2>1. S \in SUBSET Nat /\ S # {} BY <1>0
  <2> QED BY <2>1, LeastExists
<1>2. P(i)
  <2>1. ASSUME NEW h \in 1 .. i - 1, p[h].left # {} PROVE FALSE
    <3>0. i \in DOMAIN p BY <1>1
    <3>1. h \in DOMAIN p /\ ~(i <= h) BY <1>0, <3>0
    <3>2. h \in S BY <2>1, <3>1
    <3> QED BY <1>1, <3>1, <3>2
  <2> QED BY <1>1, <2>1
<1>3. c \in DOMAIN p
  <2>1. i \in DOMAIN p BY <1>1
  <2> HIDE DEF P
  <2> QED BY <1>2, <2>1
<1>4. Pruned(p) = SubSeq(p, c, Len(p)) BY DEF Pruned
<1> HIDE DEF c
<1>5. c \in 1 .. Len(p) BY <1>0, <1>3
<1>6. /\ SubSeq(p, c, Len(p)) \in Seq(BatchType)
      /\ Len(SubSeq(p, c, Len(p))) = Len(p) - c + 1
      /\ \A h \in 1 .. Len(p) - c + 1 : SubSeq(p, c, Len(p))[h] = p[c + h - 1]
  BY <1>0, <1>5
<1> DEFINE q == SubSeq(p, c, Len(p))
<1> HIDE DEF q
<1>7. q \in Seq(BatchType) /\ Len(q) = Len(p) - c + 1 /\ DOMAIN q = 1 .. Len(p) - c + 1
  BY <1>6 DEF q
<1>8. q # <<>> BY <1>0, <1>5, <1>7
<1>9. ASSUME NEW h \in DOMAIN q PROVE \E g \in DOMAIN p : q[h] = p[g]
  <2>1. c + h - 1 \in DOMAIN p BY <1>0, <1>5, <1>7
  <2>2. q[h] = p[c + h - 1] BY <1>6, <1>7 DEF q
  <2> QED BY <2>1, <2>2
<1> QED BY <1>4, <1>7, <1>8, <1>9 DEF q

\* A node signs, or finds that it cannot.
LEMMA SignKeeps ==
  ASSUME PresigInv, NEW n \in Nodes, NEW index \in Indices, Sign(n, index)
  PROVE  PresigInv'
<1> DEFINE p == PoolFor(n, index)
           well(q) == /\ q \in Seq(BatchType) /\ q # <<>>
                      /\ \A i \in DOMAIN q : WellBuilt(q[i])
           keeps == /\ \E q : well(q) /\ pool' = [pool EXCEPT ![n] = q]
                    /\ want' \in [Nodes -> Batches \cup {NONE}]
                    /\ \A u \in used' : UsedWell(u)
<1>1. UNCHANGED <<clock, certs, endorsed, job>> /\ pool[n] # <<>> /\ index \in Int
  BY DEF Sign, Indices
<1>2. well(p) BY <1>1, PoolForWell
<1>3. next' = [next EXCEPT ![n] = next[n]] \/ next' = [next EXCEPT ![n] = NONE]
  BY DEF Sign, StagedAfter
<1>4. want \in [Nodes -> Batches \cup {NONE}] /\ \A u \in used : UsedWell(u)
  BY DEF PresigInv, PoolType, BuiltInv
<1> HIDE DEF p
<1>5. ASSUME want' = [want EXCEPT ![n] = Request(p)],
             pool' = [pool EXCEPT ![n] = p], UNCHANGED <<cached, used>>
      PROVE  keeps
  <2>1. Request(p) \in Batches \cup {NONE} BY <1>2, LastBatch
  <2>2. want' \in [Nodes -> Batches \cup {NONE}] BY <1>4, <1>5, <2>1
  <2> HIDE DEF well
  <2> QED BY <1>2, <1>4, <1>5, <2>2
<1>6. ASSUME pool' = [pool EXCEPT ![n] = p], UNCHANGED <<want, cached, used>>
      PROVE  keeps
  <2> HIDE DEF well
  <2> QED BY <1>2, <1>4, <1>6
<1>7. ASSUME NEW b \in Covering(p, index),
             pool' = [pool EXCEPT ![n] = Pruned([p EXCEPT ![b].left = @ \ {index - p[b].start}])],
             want' = [want EXCEPT ![n] = WantAfterTake(n, [p EXCEPT ![b].left = @ \ {index - p[b].start}])],
             used' = used \cup {[node |-> n, batch |-> p[b].batch, set |-> p[b].set,
                                 pos |-> index - p[b].start, index |-> index]}
      PROVE  keeps
  <2> DEFINE pos == index - p[b].start
             rest == [p EXCEPT ![b].left = @ \ {pos}]
             u == [node |-> n, batch |-> p[b].batch, set |-> p[b].set, pos |-> pos, index |-> index]
  <2>1. b \in DOMAIN p /\ p[b].start <= index /\ index < End(p[b]) BY DEF Covering
  <2>2. p[b] \in BatchType /\ WellBuilt(p[b]) BY <1>2, <2>1
  <2>3. pos \in Int BY <1>1, <2>2 DEF BatchType
  <2> HIDE DEF pos
  <2>4. rest \in Seq(BatchType) /\ DOMAIN rest = DOMAIN p
    <3>1. [p[b] EXCEPT !.left = @ \ {pos}] \in BatchType BY <2>2 DEF BatchType
    <3>2. rest = [p EXCEPT ![b] = [p[b] EXCEPT !.left = @ \ {pos}]] BY <1>2, <2>1
    <3> QED BY <1>2, <2>1, <3>1, <3>2
  <2>5. ASSUME NEW i \in DOMAIN p
        PROVE  rest[i].batch = p[i].batch /\ rest[i].set = p[i].set /\ rest[i].start = p[i].start
    <3>1. p[i] \in BatchType BY <1>2
    <3>2. CASE i # b BY <3>2, <1>2
    <3>3. CASE i = b
      <4>1. rest[i] = [p[b] EXCEPT !.left = @ \ {pos}] BY <3>3, <1>2, <2>1
      <4> QED BY <3>1, <3>3, <4>1 DEF BatchType
    <3> QED BY <3>2, <3>3
  <2> HIDE DEF rest
  <2>6. \A i \in DOMAIN rest : WellBuilt(rest[i]) BY <1>2, <2>4, <2>5 DEF WellBuilt
  <2>7. rest # <<>> BY <1>2, <2>4, <2>1
  <2>8. well(Pruned(rest)) BY <2>4, <2>6, <2>7, PrunedWell
  <2>9. WantAfterTake(n, rest) \in Batches \cup {NONE}
    BY <1>4, <2>4, <2>7, LastBatch DEF WantAfterTake
  <2>10. UsedWell(u)
    <3> DEFINE k == p[b].batch
    <3>1. k \in Batches /\ ClosedUpTo(k) /\ p[b].set = SetOf(k) /\ p[b].start = StartOf(k)
          /\ p[b].start \in Nat
      BY <2>2 DEF WellBuilt, BatchType
    <3>2. k \in 0 .. k BY <3>1, Parameters DEF Batches
    <3>3. SizeOf[k] = Size(SetOf(k)) /\ SizeOf[k] \in Nat
      BY <3>1, <3>2, ClosedSize DEF ClosedUpTo, PresigInv
    <3>4. End(p[b]) = StartOf(k) + SizeOf[k] BY <3>1, <3>3 DEF End
    <3>5. pos \in 0 .. SizeOf[k] - 1 /\ index = StartOf(k) + pos
      BY <1>1, <2>1, <3>1, <3>3, <3>4 DEF pos
    <3>6. u.batch = k /\ u.set = SetOf(k) /\ u.pos = pos /\ u.index = index BY <3>1
    <3> HIDE DEF k, u
    <3> QED BY <3>1, <3>5, <3>6 DEF UsedWell
  <2>11. pool' = [pool EXCEPT ![n] = Pruned(rest)] /\ want' = [want EXCEPT ![n] = WantAfterTake(n, rest)]
         /\ used' = used \cup {u}
    BY <1>7 DEF rest, pos
  <2> HIDE DEF u, well
  <2>12. want' \in [Nodes -> Batches \cup {NONE}] BY <1>4, <2>9, <2>11
  <2> QED BY <1>4, <2>8, <2>10, <2>11, <2>12
<1>8. keeps
  <2> HIDE DEF keeps, well
  <2> QED BY <1>5, <1>6, <1>7 DEF Sign, p
<1>9. PICK q : well(q) /\ pool' = [pool EXCEPT ![n] = q] BY <1>8
<1>10. PoolType' BY <1>1, <1>3, <1>8, <1>9 DEF PresigInv, PoolType
<1>11. OthersKept(n) BY <1>1, <1>3, <1>9 DEF OthersKept, PresigInv, PoolType
<1>12. BuiltAt(n)
  <2>1. pool'[n] = q /\ job'[n] = job[n] /\ (next'[n] = next[n] \/ next'[n] = NONE)
    BY <1>1, <1>3, <1>9 DEF PresigInv, PoolType
  <2> QED BY <1>9, <2>1 DEF BuiltAt, PresigInv, BuiltInv
<1>13. HistoryWell BY <1>1, <1>8 DEF HistoryWell, PresigInv, BuiltInv
<1> QED BY <1>1, <1>10, <1>11, <1>12, <1>13, StillChain, NodeFrame

-----------------------------------------------------------------------------
(* The theorems.                                                           *)

\* At first no batch has a certificate and no node a pool.
LEMMA InitPresig == Init => PresigInv
<1> SUFFICES ASSUME Init PROVE PresigInv OBVIOUS
<1>1. 0 \in Batches BY Parameters DEF Batches
<1>2. CertsInv BY DEF Init, CertsInv
<1>3. Fresh("first", 0) \in JobType /\ JobInv(Fresh("first", 0)) BY <1>1, FreshJob
<1>4. PoolType BY <1>3 DEF Init, PoolType
<1>5. BuiltInv BY <1>3 DEF Init, BuiltInv
<1> QED BY <1>2, <1>4, <1>5 DEF PresigInv

\* Every step keeps what was built well built.
LEMMA StepPresig == PresigInv /\ [Next]_vars => PresigInv'
<1> SUFFICES ASSUME PresigInv, [Next]_vars PROVE PresigInv' OBVIOUS
<1>1. CASE UNCHANGED vars
  <2>1. UNCHANGED <<clock, certs, pool, next, want, job, endorsed, used>> BY <1>1 DEF vars
  <2>2. PoolType' BY <2>1 DEF PresigInv, PoolType
  <2>3. \A n \in Nodes : BuiltAt(n) BY <2>1 DEF BuiltAt, PresigInv, BuiltInv
  <2> QED BY <2>1, <2>2, <2>3, StillChain, StillHistory, BuiltFrame
<1>2. CASE ChainStep BY <1>2, ChainStepKeeps
<1>3. ASSUME NEW n \in Nodes, Round(n) PROVE PresigInv'
  BY <1>3, DealKeeps, InstallFirstKeeps, TriggerRefillKeeps, TakeRefillKeeps, StageKeeps DEF Round
<1>4. ASSUME NEW n \in Nodes, Recovery(n) PROVE PresigInv'
  BY <1>4, RecoverKeeps, RepairKeeps, FallBackKeeps, RebuildBatchKeeps, InstallRecoveredKeeps
     DEF Recovery
<1>5. ASSUME NEW n \in Nodes, Fail(n) \/ Restart(n) PROVE PresigInv' BY <1>5, FailKeeps, RestartKeeps
<1>6. ASSUME NEW n \in Nodes, NEW i \in Indices, Sign(n, i) PROVE PresigInv' BY <1>6, SignKeeps
<1> QED BY <1>1, <1>2, <1>3, <1>4, <1>5, <1>6 DEF Next

\* The layout of the epoch: every pool, staged batch, endorsement and used nonce
\* is that of the one sequence of dealer sets the certificates determine
\* (fetch_final_nonce_certs, recover_presigning_state, set_next_batch).
THEOREM PresigHolds == Spec => []PresigInv
BY InitPresig, StepPresig, PTL DEF Spec

\* All nodes, and every seal that can be made, have one dealer set and one first
\* index for a batch, for any committee, any number of batches, any lag of the
\* mirrors and any crashes.
THEOREM BatchesAgreeHolds == Spec => []BatchesAgree
<1>1. ASSUME PresigInv PROVE BatchesAgree
  <2> DEFINE built == UNION {ToSet(pool[n]) : n \in Nodes}
             sets(k) == {b.set : b \in {c \in built : c.batch = k}}
                 \cup {next[n].set : n \in {m \in Nodes : next[m] # NONE /\ next[m].batch = k}}
                 \cup {e.set : e \in {f \in endorsed : f.batch = k}}
  <2>1. ASSUME NEW b \in built PROVE WellBuilt(b)
    <3>1. PICK n \in Nodes : b \in ToSet(pool[n]) OBVIOUS
    <3>2. PICK i \in DOMAIN pool[n] : b = pool[n][i] BY <3>1 DEF ToSet
    <3> QED BY <1>1, <3>2 DEF PresigInv, BuiltInv
  <2>2. ASSUME NEW k \in Batches PROVE Cardinality(sets(k)) <= 1
    <3>1. \A s \in sets(k) : s = SetOf(k)
      BY <1>1, <2>1 DEF PresigInv, BuiltInv, Derived, WellBuilt
    <3> DEFINE one == {SetOf(k)}
    <3>2. IsFiniteSet(one) /\ Cardinality(one) = 1 BY FS_Singleton
    <3> HIDE DEF sets
    <3>3. sets(k) \in SUBSET one BY <3>1
    <3> HIDE DEF one
    <3>4. Cardinality(sets(k)) <= Cardinality(one) BY <3>2, <3>3, FS_Subset
    <3> QED BY <3>2, <3>4
  <2>3. \A b, c \in built : b.batch = c.batch => b.start = c.start BY <2>1 DEF WellBuilt
  <2> QED BY <2>2, <2>3 DEF BatchesAgree
<1> QED BY <1>1, PresigHolds, PTL

\* Indices and nonces correspond one to one over all nodes and restarts.
THEOREM NonceBindingHolds == Spec => []NonceBinding
<1>1. ASSUME PresigInv PROVE NonceBinding
  <2>1. ASSUME NEW u \in used, NEW v \in used, u.batch < v.batch
        PROVE  u.index < v.index
    <3>1. UsedWell(u) /\ UsedWell(v) BY <1>1 DEF PresigInv, BuiltInv
    <3> DEFINE h == u.batch
               k == v.batch
    <3>2. h \in Nat /\ k \in Nat /\ k <= MaxBatch /\ h < k BY <2>1, <3>1, Parameters DEF UsedWell, Batches
    <3> HIDE DEF h, k
    <3>3. k \in 0 .. MaxBatch + 1 /\ h \in 0 .. k - 1 BY <3>2, Parameters
    <3>4. \A g \in 0 .. k - 1 : Closed(g) BY <3>1, <3>2 DEF UsedWell, ClosedUpTo, k
    <3>5. StartOf(h) \in Nat /\ StartOf(h) + SizeOf[h] <= StartOf(k) /\ StartOf(k) \in Nat
      BY <1>1, <3>3, <3>4, StartFacts DEF PresigInv
    <3>6. h \in Batches /\ Closed(h) BY <3>1, <3>3, <3>4 DEF UsedWell, h
    <3>7. SizeOf[h] \in Nat BY <1>1, <3>6, ClosedSize DEF PresigInv
    <3>8. u.pos \in 0 .. SizeOf[h] - 1 /\ u.index = StartOf(h) + u.pos BY <3>1 DEF UsedWell, h
    <3>9. v.pos \in Nat /\ v.index = StartOf(k) + v.pos BY <3>1 DEF UsedWell, k
    <3> QED BY <3>5, <3>7, <3>8, <3>9
  <2>2. ASSUME NEW u \in used PROVE u.batch \in Int /\ u.index \in Int /\ u.pos \in Int /\ UsedWell(u)
    <3>1. UsedWell(u) BY <1>1 DEF PresigInv, BuiltInv
    <3> DEFINE k == u.batch
    <3>2. k \in Nat /\ k \in 0 .. MaxBatch + 1 /\ ClosedUpTo(k) BY <3>1, Parameters DEF UsedWell, Batches
    <3> HIDE DEF k
    <3>3. \A g \in 0 .. k - 1 : Closed(g) BY <3>2 DEF ClosedUpTo
    <3>4. StartOf(k) \in Nat BY <1>1, <3>2, <3>3, StartFacts DEF PresigInv
    <3> QED BY <3>1, <3>2, <3>4 DEF UsedWell, k
  <2>3. ASSUME NEW u \in used, NEW v \in used
        PROVE  u.index = v.index <=> (u.batch = v.batch /\ u.pos = v.pos /\ u.set = v.set)
    <3>1. CASE u.batch # v.batch
      <4>1. u.batch < v.batch \/ v.batch < u.batch BY <2>2, <3>1
      <4>2. u.index < v.index \/ v.index < u.index BY <2>1, <4>1
      <4> QED BY <2>2, <3>1, <4>2
    <3>2. CASE u.batch = v.batch
      <4> DEFINE k == u.batch
      <4>1. u.set = SetOf(k) /\ u.index = StartOf(k) + u.pos BY <2>2 DEF UsedWell
      <4>2. v.set = SetOf(k) /\ v.index = StartOf(k) + v.pos BY <2>2, <3>2 DEF UsedWell
      <4>3. StartOf(k) \in Nat
        <5> HIDE DEF k
        <5>1. k \in 0 .. MaxBatch + 1 /\ \A g \in 0 .. k - 1 : Closed(g)
          <6>1. k \in Nat /\ k <= MaxBatch /\ ClosedUpTo(k) BY <2>2, Parameters DEF k, UsedWell, Batches
          <6> QED BY <6>1, Parameters DEF ClosedUpTo
        <5> QED BY <1>1, <5>1, StartFacts DEF PresigInv
      <4> HIDE DEF k
      <4> QED BY <2>2, <3>2, <4>1, <4>2, <4>3
    <3> QED BY <3>1, <3>2
  <2> QED BY <2>3 DEF NonceBinding
<1> QED BY <1>1, PresigHolds, PTL

=============================================================================
