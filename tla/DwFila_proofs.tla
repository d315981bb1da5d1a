---------------------------- MODULE DwFila_proofs ----------------------------
(***************************************************************************)
(* Proofs about DwFila: the ring of pointers is never broken, whatever the *)
(* number of nodes and the order of the calls.                             *)
(***************************************************************************)
EXTENDS DwFila, FilaOrder_proofs

(***************************************************************************)
(* The three invariants together are inductive: RingLinked alone does not  *)
(* say that a node that follows itself is the only one, which is what      *)
(* dwh_fila_zap takes for granted when it sets hash->fila to null.         *)
(***************************************************************************)
Ring == TypeOK /\ RingLinked /\ RingWhole

LEMMA InitRing == Init => Ring
  BY FilaAssumption DEF Init, Ring, TypeOK, RingLinked, RingWhole

\* A node that is its own successor is alone.
LEMMA SelfLoopIsAlone ==
  ASSUME Ring, NEW f \in live, next[f] = f, f = head
  PROVE  live = {f}
<1>1. {f} \in SUBSET live
  OBVIOUS
<1>2. head \in {f} /\ \A g \in {f} : next[g] \in {f}
  OBVIOUS
<1>3. QED
  BY <1>1, <1>2 DEF Ring, RingWhole

\* dwh_fila_new keeps the ring.
LEMMA NewRing ==
  ASSUME Ring, NEW f \in Fila, New(f)
  PROVE  Ring'
<1> USE FilaAssumption DEF Ring, TypeOK
<1>1. TypeOK'
  BY DEF New, NextPut, LastPut
<1>2. RingLinked'
  <2>1. CASE head = Null
    <3>1. live = {}
      BY <2>1 DEF RingWhole
    <3>2. QED
      BY <2>1, <3>1 DEF New, RingLinked
  <2>2. CASE head # Null
    BY <2>2 DEF New, NextPut, LastPut, RingLinked
  <2>3. QED
    BY <2>1, <2>2
<1>3. RingWhole'
  <2>1. (head = Null <=> live = {})'
    BY DEF New
  <2>2. ASSUME NEW S \in SUBSET live', head' \in S,
               \A g \in S : next'[g] \in S
        PROVE  S = live'
    <3>1. CASE head = Null
      <4>1. live = {}
        BY <3>1 DEF RingWhole
      <4>2. QED
        BY <2>2, <4>1 DEF New
    <3>2. CASE head # Null
      <4>1. f \in S /\ f \notin live
        BY <2>2 DEF New
      <4>2. next'[f] = head
        BY <3>2 DEF New, NextPut, RingLinked
      <4>3. head \in S \ {f}
        BY <2>2, <3>2, <4>1, <4>2
      <4>4. \A g \in S \ {f} : next[g] \in S \ {f}
        <5>1. TAKE g \in S \ {f}
        <5>2. g \in live
          BY <2>2 DEF New
        <5>3. next[g] \in live
          BY <5>2 DEF RingLinked
        <5>4. CASE g = last[head]
          <6>1. next[g] = head
            BY <3>2, <5>4 DEF RingLinked
          <6>2. QED
            BY <6>1, <4>3
        <5>5. CASE g # last[head]
          <6>1. next'[g] = next[g]
            BY <3>2, <5>5, <5>2, <4>1 DEF New, NextPut
          <6>2. QED
            BY <6>1, <2>2, <5>3, <4>1
        <5>6. QED
          BY <5>4, <5>5
      <4>5. S \ {f} \in SUBSET live
        BY <2>2 DEF New
      <4>6. S \ {f} = live
        BY <4>3, <4>4, <4>5 DEF RingWhole
      <4>7. QED
        BY <4>6, <4>1 DEF New
    <3>3. QED
      BY <3>1, <3>2
  <2>3. QED
    BY <2>1, <2>2 DEF RingWhole
<1>4. QED
  BY <1>1, <1>2, <1>3

\* dwh_fila_zap keeps the ring.
LEMMA ZapRing ==
  ASSUME Ring, NEW f, Zap(f)
  PROVE  Ring'
<1> USE FilaAssumption DEF Ring, TypeOK
<1>0. f \in live /\ live' = live \ {f}
  BY DEF Zap
<1>1. next[f] = f <=> live = {f}
  <2>1. ASSUME next[f] = f PROVE live = {f}
    <3>1. DEFINE S == live \ {f}
    <3>2. CASE f = head
      BY <1>0, <2>1, <3>2, SelfLoopIsAlone
    <3>3. CASE f # head
      <4>1. head \in S
        BY <1>0, <3>3 DEF RingWhole
      <4>2. \A g \in S : next[g] \in S
        BY <2>1, <1>0 DEF RingLinked
      <4>3. S = live
        BY <4>1, <4>2 DEF RingWhole
      <4>4. QED
        BY <4>3, <1>0
    <3>4. QED
      BY <3>2, <3>3
  <2>2. ASSUME live = {f} PROVE next[f] = f
    BY <2>2, <1>0 DEF RingLinked
  <2>3. QED
    BY <2>1, <2>2
<1>2. TypeOK'
  BY <1>0, <1>1 DEF Zap, NextCut, LastCut, HeadCut, RingLinked
<1>3. RingLinked'
  BY <1>0, <1>1 DEF Zap, NextCut, LastCut, RingLinked
<1>4. RingWhole'
  <2>1. (head = Null <=> live = {})'
    BY <1>0, <1>1 DEF Zap, HeadCut, RingLinked, RingWhole
  <2>2. ASSUME NEW S \in SUBSET live', head' \in S,
               \A g \in S : next'[g] \in S
        PROVE  S = live'
    <3>1. live # {f}
      BY <1>0, <2>2
    <3>2. next[f] # f /\ last[f] # f /\ next[f] \in live /\ last[f] \in live
      BY <1>0, <1>1, <3>1 DEF RingLinked
    <3>3. \A g \in S : g # last[f] => next[g] \in S
      BY <2>2, <1>0 DEF Zap, NextCut
    <3>4. next'[last[f]] = next[f]
      BY <1>0, <3>2 DEF Zap, NextCut
    <3>5. CASE last[f] \in S \/ f = head
      <4>1. next[f] \in S
        BY <3>4, <3>5, <2>2, <3>2, <1>0 DEF Zap, HeadCut
      <4>2. \A g \in S \union {f} : next[g] \in S \union {f}
        BY <4>1, <3>3, <1>0 DEF RingLinked
      <4>3. head \in S \union {f}
        BY <2>2 DEF Zap, HeadCut
      <4>4. S \union {f} \in SUBSET live
        BY <2>2, <1>0
      <4>5. S \union {f} = live
        BY <4>2, <4>3, <4>4 DEF RingWhole
      <4>6. QED
        BY <4>5, <1>0, <2>2
    <3>6. CASE last[f] \notin S /\ f # head
      <4>1. \A g \in S : next[g] \in S
        BY <3>3, <3>6
      <4>2. head \in S
        BY <2>2, <3>6 DEF Zap, HeadCut
      <4>3. S = live
        BY <4>1, <4>2, <2>2, <1>0 DEF RingWhole
      <4>4. QED
        BY <4>3, <1>0
    <3>7. QED
      BY <3>5, <3>6
  <2>3. QED
    BY <2>1, <2>2 DEF RingWhole
<1>5. QED
  BY <1>2, <1>3, <1>4

\* dwh_fila_fetch keeps the ring.
LEMMA FetchRing ==
  ASSUME Ring, NEW f, Fetch(f)
  PROVE  Ring'
<1> USE FilaAssumption DEF Ring, TypeOK
<1> DEFINE tail == LastCut(f)[head]
<1>0. f \in live /\ f # head /\ head \in live /\ live' = live /\ head' = f
  BY DEF Fetch, RingWhole
<1>1. /\ next[f] \in live /\ last[f] \in live
      /\ next[f] # f /\ last[f] # f
  <2>1. next[f] \in live /\ last[f] \in live /\ next[last[f]] = f
    BY <1>0 DEF RingLinked
  <2>2. next[f] # f
    <3>1. SUFFICES ASSUME next[f] = f PROVE FALSE
      OBVIOUS
    <3>2. \A g \in live \ {f} : next[g] \in live \ {f}
      BY <1>0, <3>1 DEF RingLinked
    <3>3. live \ {f} \in SUBSET live /\ head \in live \ {f}
      BY <1>0
    <3>4. live \ {f} = live
      BY <3>2, <3>3 DEF RingWhole
    <3>5. QED
      BY <3>4, <1>0
  <2>3. QED
    BY <2>1, <2>2
<1>2. /\ tail = IF next[f] = head THEN last[f] ELSE last[head]
      /\ tail \in live /\ tail # f
  BY <1>0, <1>1 DEF LastCut, RingLinked
<1>3. /\ next' \in [Fila -> Fila \union {Null}]
      /\ last' \in [Fila -> Fila \union {Null}]
  BY <1>0, <1>1, <1>2 DEF Fetch, NextCut, LastCut, NextPut, LastPut
<1>4. \A g \in live :
        next'[g] = IF g = tail THEN f
                   ELSE IF g = f THEN head
                   ELSE IF g = last[f] THEN next[f] ELSE next[g]
  BY <1>0, <1>1, <1>2 DEF Fetch, NextCut, NextPut
<1>5. \A g \in live :
        last'[g] = IF g = head THEN f
                   ELSE IF g = f THEN tail
                   ELSE IF g = next[f] THEN last[f] ELSE last[g]
  BY <1>0, <1>1, <1>2 DEF Fetch, LastCut, LastPut
<1>6. TypeOK'
  BY <1>0, <1>3
<1>7. RingLinked'
  <2>1. SUFFICES ASSUME NEW g \in live
                 PROVE  /\ next'[g] \in live /\ last'[g] \in live
                        /\ last'[next'[g]] = g /\ next'[last'[g]] = g
    BY <1>0 DEF RingLinked
  <2>2. next'[g] \in live /\ last'[g] \in live
    BY <1>0, <1>1, <1>2, <1>4, <1>5 DEF RingLinked
  <2>3. last'[next'[g]] = g
    BY <1>0, <1>1, <1>2, <1>4, <1>5, <2>2 DEF RingLinked
  <2>4. next'[last'[g]] = g
    BY <1>0, <1>1, <1>2, <1>4, <1>5, <2>2 DEF RingLinked
  <2>5. QED
    BY <2>2, <2>3, <2>4
<1>8. RingWhole'
  <2>1. (head = Null <=> live = {})'
    BY <1>0
  <2>2. ASSUME NEW S \in SUBSET live, f \in S, \A g \in S : next'[g] \in S
        PROVE  S = live
    <3>1. head \in S
      BY <2>2, <1>0, <1>2, <1>4
    <3>2. \A g \in S : g # f /\ g # last[f] => next[g] \in S
      BY <2>2, <3>1, <1>0, <1>1, <1>2, <1>4 DEF RingLinked
    <3>3. CASE last[f] \in S \/ next[f] = head
      <4>1. next[f] \in S
        <5>1. CASE next[f] = head
          BY <5>1, <3>1
        <5>2. CASE next[f] # head
          <6>1. last[f] # last[head]
            BY <1>0, <5>2 DEF RingLinked
          <6>2. next'[last[f]] = next[f]
            BY <6>1, <5>2, <1>1, <1>2, <1>4
          <6>3. QED
            BY <6>2, <3>3, <5>2, <2>2
        <5>3. QED
          BY <5>1, <5>2
      <4>2. \A g \in S : next[g] \in S
        BY <4>1, <3>2, <2>2, <1>0 DEF RingLinked
      <4>3. QED
        BY <4>2, <3>1 DEF RingWhole
    <3>4. CASE last[f] \notin S
      <4>1. \A g \in S \ {f} : next[g] \in S \ {f}
        BY <3>2, <3>4, <1>0 DEF RingLinked
      <4>2. S \ {f} \in SUBSET live /\ head \in S \ {f}
        BY <3>1, <1>0
      <4>3. S \ {f} = live
        BY <4>1, <4>2 DEF RingWhole
      <4>4. QED
        BY <4>3, <1>0
    <3>5. QED
      BY <3>3, <3>4
  <2>3. QED
    BY <2>1, <2>2, <1>0 DEF RingWhole
<1>9. QED
  BY <1>6, <1>7, <1>8

\* Every step keeps the ring: one case per call, as Evict is a zap.
LEMMA StepRing == Ring /\ [Next]_vars => Ring'
<1> SUFFICES ASSUME Ring, [Next]_vars
             PROVE  Ring'
  OBVIOUS
<1>1. ASSUME NEW f \in Fila, New(f)
      PROVE  Ring'
  BY <1>1, NewRing
<1>2. ASSUME NEW f \in Fila, Fetch(f)
      PROVE  Ring'
  BY <1>2, FetchRing
<1>3. ASSUME NEW f \in Fila, Zap(f)
      PROVE  Ring'
  BY <1>3, ZapRing
<1>4. CASE Evict
  BY <1>4, ZapRing DEF Evict
<1>5. CASE UNCHANGED vars
  BY <1>5 DEF vars, Ring, TypeOK, RingLinked, RingWhole
<1>6. QED
  BY <1>1, <1>2, <1>3, <1>4, <1>5 DEF Next

(***************************************************************************)
(* The pointers of the ring agree and reach every allocated node, in every *)
(* reachable state and for every number of nodes.                          *)
(***************************************************************************)
THEOREM RingInvariant == Spec => [](TypeOK /\ RingLinked /\ RingWhole)
<1>1. Spec => []Ring
  BY InitRing, StepRing, PTL DEF Spec
<1>2. Ring => TypeOK /\ RingLinked /\ RingWhole
  BY DEF Ring
<1>3. QED
  BY <1>1, <1>2, PTL

-----------------------------------------------------------------------------
(***************************************************************************)
(* The refinement.  q represents the ring when it lists the allocated      *)
(* nodes once each, from head on, and next leads from each to the one      *)
(* behind it and from the last one to the first.                           *)
(***************************************************************************)
Follows(q, nx) ==
  \A i \in 1..Len(q) : nx[q[i]] = IF i = Len(q) THEN q[1] ELSE q[i + 1]

Represents(q) ==
  /\ q \in Seq(Fila)
  /\ NoDuplicate(q)
  /\ ToSet(q) = live
  /\ Follows(q, next)
  /\ head = IF q = << >> THEN Null ELSE q[1]

\* A sequence that represents the ring has one item for each node.
LEMMA RepresentsLen ==
  ASSUME NEW q \in Seq(Fila), NoDuplicate(q), ToSet(q) = live
  PROVE  Cardinality(live) = Len(q)
<1>1. q \in [1..Len(q) -> live]
  <2>1. DOMAIN q = 1..Len(q) /\ q = [i \in 1..Len(q) |-> q[i]]
    OBVIOUS
  <2>2. \A i \in 1..Len(q) : q[i] \in live
    BY DEF ToSet
  <2> QED BY <2>1, <2>2
<1>2. q \in Injection(1..Len(q), live)
  BY <1>1 DEF Injection, IsInjective, NoDuplicate
<1>3. q \in Surjection(1..Len(q), live)
  BY <1>1 DEF Surjection, ToSet
<1>4. Len(q) \in Nat
  OBVIOUS
<1>5. IsFiniteSet(1..Len(q)) /\ Cardinality(1..Len(q)) = Len(q)
  <2> DEFINE k == Len(q)
  <2>1. k \in Nat /\ 1 \in Int /\ k \in Int
    BY <1>4
  <2> HIDE DEF k
  <2>2. IsFiniteSet(1..k) /\ Cardinality(1..k) = IF 1 > k THEN 0 ELSE k - 1 + 1
    BY <2>1, FS_Interval
  <2>3. (IF 1 > k THEN 0 ELSE k - 1 + 1) = k
    BY <2>1
  <2>4. IsFiniteSet(1..k) /\ Cardinality(1..k) = k
    BY <2>2, <2>3
  <2> QED BY <2>4 DEF k
<1>6. ExistsBijection(1..Len(q), live)
  BY <1>2, <1>3 DEF Bijection, ExistsBijection
<1> QED BY <1>5, <1>6, FS_Bijection

(***************************************************************************)
(* Such a sequence is the only one, and is what Order computes: of two     *)
(* walks that differ, the least step at which they do has no reason to.    *)
(***************************************************************************)
LEMMA OrderIs ==
  ASSUME NEW q, Represents(q)
  PROVE  Order = q
<1> DEFINE n == Cardinality(live)
           Walk(w) == w = [i \in 1..n |-> IF i = 1 THEN head ELSE next[w[i - 1]]]
<1>1. q \in Seq(Fila) /\ n = Len(q) /\ Len(q) \in Nat
  BY RepresentsLen DEF Represents
<1>2. Order = CHOOSE w : Walk(w)
  BY DEF Order
<1>3. Walk(q)
  <2>1. ASSUME NEW i \in 1..n PROVE q[i] = IF i = 1 THEN head ELSE next[q[i - 1]]
    <3>1. CASE i = 1
      BY <1>1, <3>1 DEF Represents
    <3>2. CASE i # 1
      <4>1. i - 1 \in 1..Len(q) /\ i - 1 # Len(q) /\ (i - 1) + 1 = i
        BY <1>1, <3>2
      <4> QED BY <3>2, <4>1 DEF Represents, Follows
    <3> QED BY <3>1, <3>2
  <2>2. DOMAIN q = 1..n
    BY <1>1
  <2> QED BY <1>1, <2>1, <2>2
<1>4. ASSUME NEW w, Walk(w) PROVE w = q
  <2>1. DOMAIN w = 1..n /\ DOMAIN q = 1..n
    BY <1>3, <1>4
  <2> DEFINE Differ == {i \in 1..n : w[i] # q[i]}
  <2>2. Differ = {}
    <3>1. SUFFICES ASSUME Differ # {} PROVE FALSE
      OBVIOUS
    <3>2. Differ \in SUBSET Nat
      OBVIOUS
    <3> HIDE DEF Walk
    <3>3. PICK i \in Differ : \A j \in Differ : i <= j
      BY <3>1, <3>2, LeastNatural
    <3>4. i \in 1..n /\ w[i] # q[i]
      OBVIOUS
    <3>5. w[i] = (IF i = 1 THEN head ELSE next[w[i - 1]])
      BY <1>4, <3>4 DEF Walk
    <3>6. q[i] = (IF i = 1 THEN head ELSE next[q[i - 1]])
      BY <1>3, <3>4 DEF Walk
    <3>7. CASE i = 1
      BY <3>4, <3>5, <3>6, <3>7
    <3>8. CASE i # 1
      <4>1. i - 1 \in 1..n /\ ~ (i <= i - 1)
        BY <1>1, <3>4, <3>8
      <4>2. i - 1 \notin Differ
        BY <3>3, <4>1
      <4> QED BY <3>4, <3>5, <3>6, <3>8, <4>1, <4>2
    <3> QED BY <3>7, <3>8
  <2>3. w = [i \in 1..n |-> w[i]] /\ q = [i \in 1..n |-> q[i]]
    BY <1>3, <1>4
  <2> HIDE DEF Walk
  <2> QED BY <2>2, <2>3
<1> HIDE DEF Walk
<1> QED BY <1>2, <1>3, <1>4

\* The pointers after a node is cut, and after one is put in front.
LEMMA CutFollows ==
  ASSUME NEW q \in Seq(Fila), NoDuplicate(q), NEW at \in 1..Len(q),
         NEW nx \in [Fila -> Fila \union {Null}], Follows(q, nx),
         NEW before \in 1..Len(q), before = IF at = 1 THEN Len(q) ELSE at - 1
  PROVE  Follows(Unlinked(q, q[at]), [nx EXCEPT ![q[before]] = nx[q[at]]])
<1> DEFINE u  == Unlinked(q, q[at])
           nn == [nx EXCEPT ![q[before]] = nx[q[at]]]
           n  == Len(q)
<1>1. /\ u \in Seq(Fila) /\ Len(u) = n - 1
      /\ \A i \in 1..(n - 1) : u[i] = IF i < at THEN q[i] ELSE q[i + 1]
  BY UnlinkedItems
<1>2. n \in Nat /\ at \in 1..n /\ before \in 1..n
  OBVIOUS
<1>3. ASSUME NEW i \in 1..n
      PROVE  nn[q[i]] = IF i = before THEN nx[q[at]] ELSE nx[q[i]]
  <2>1. q[i] \in Fila /\ q[before] \in Fila
    BY <1>2
  <2>2. q[i] = q[before] <=> i = before
    BY DEF NoDuplicate
  <2> QED BY <2>1, <2>2
<1>4. \A i \in 1..n : nx[q[i]] = IF i = n THEN q[1] ELSE q[i + 1]
  BY DEF Follows
<1> HIDE DEF u, nn, n
<1>5. ASSUME NEW i \in 1..(n - 1)
      PROVE  nn[u[i]] = IF i = n - 1 THEN u[1] ELSE u[i + 1]
  <2>0. before = IF at = 1 THEN n ELSE at - 1
    BY DEF n
  <2>1. CASE i + 1 < at
    <3>1. u[i] = q[i] /\ i \in 1..n /\ i # before /\ i # n /\ i # n - 1
      BY <1>1, <1>2, <2>0, <2>1
    <3>2. u[i + 1] = q[i + 1]
      BY <1>1, <1>2, <2>1
    <3> QED BY <1>3, <1>4, <3>1, <3>2
  <2>2. CASE i + 1 = at
    <3>1. u[i] = q[i] /\ i \in 1..n /\ i = before
      BY <1>1, <1>2, <2>0, <2>2
    <3>2. nn[u[i]] = IF at = n THEN q[1] ELSE q[at + 1]
      BY <1>2, <1>3, <1>4, <3>1
    <3>3. CASE i = n - 1
      <4>1. at = n /\ 1 \in 1..(n - 1) /\ 1 < at
        BY <1>2, <2>2, <3>3
      <4>2. u[1] = q[1]
        BY <1>1, <4>1
      <4> QED BY <3>2, <3>3, <4>1, <4>2
    <3>4. CASE i # n - 1
      <4>1. at # n /\ i + 1 \in 1..(n - 1) /\ ~ (i + 1 < at)
        BY <1>2, <2>2, <3>4
      <4>2. u[i + 1] = q[at + 1]
        BY <1>1, <2>2, <4>1
      <4> QED BY <3>2, <3>4, <4>1, <4>2
    <3> QED BY <3>3, <3>4
  <2>3. CASE i >= at
    <3>1. u[i] = q[i + 1] /\ i + 1 \in 1..n
      BY <1>1, <1>2, <2>3
    <3>2. CASE i # n - 1
      <4>1. i + 1 # before /\ i + 1 # n
        BY <1>2, <2>0, <2>3, <3>2
      <4>2. nn[q[i + 1]] = q[(i + 1) + 1]
        BY <1>3, <1>4, <3>1, <4>1
      <4>3. i + 1 \in 1..(n - 1) /\ ~ (i + 1 < at)
        BY <1>2, <2>3, <3>2
      <4>4. u[i + 1] = q[(i + 1) + 1]
        BY <1>1, <4>3
      <4> QED BY <3>1, <3>2, <4>2, <4>4
    <3>3. CASE i = n - 1 /\ at = 1
      <4>1. i + 1 = before /\ at # n /\ 1 \in 1..(n - 1) /\ ~ (1 < at)
        BY <1>2, <2>0, <3>3
      <4>2. nn[q[i + 1]] = q[at + 1]
        BY <1>2, <1>3, <1>4, <3>1, <4>1
      <4>3. u[1] = q[1 + 1]
        BY <1>1, <4>1
      <4> QED BY <3>1, <3>3, <4>2, <4>3
    <3>4. CASE i = n - 1 /\ at # 1
      <4>1. i + 1 = n /\ n # before /\ 1 \in 1..(n - 1) /\ 1 < at
        BY <1>2, <2>0, <2>3, <3>4
      <4>2. nn[q[i + 1]] = q[1]
        BY <1>3, <1>4, <3>1, <4>1
      <4>3. u[1] = q[1]
        BY <1>1, <4>1
      <4> QED BY <3>1, <3>4, <4>2, <4>3
    <3> QED BY <3>2, <3>3, <3>4
  <2> QED BY <1>2, <2>1, <2>2, <2>3
<1>6. Len(u) = n - 1
  BY <1>1
<1>7. \A i \in 1..Len(u) : nn[u[i]] = IF i = Len(u) THEN u[1] ELSE u[i + 1]
  BY <1>5, <1>6
<1> QED BY <1>7 DEF Follows, u, nn

LEMMA PutFollows ==
  ASSUME NEW q \in Seq(Fila), q # << >>, NoDuplicate(q),
         NEW f \in Fila, f \notin ToSet(q),
         NEW nx \in [Fila -> Fila \union {Null}], Follows(q, nx)
  PROVE  Follows(AtFront(q, f), [nx EXCEPT ![f] = q[1], ![q[Len(q)]] = f])
<1> DEFINE p  == AtFront(q, f)
           nn == [nx EXCEPT ![f] = q[1], ![q[Len(q)]] = f]
           n  == Len(q)
<1>1. /\ p \in Seq(Fila) /\ Len(p) = n + 1 /\ p[1] = f
      /\ \A i \in 2..(n + 1) : p[i] = q[i - 1]
  BY AtFrontItems
<1>2. n \in Nat \ {0}
  OBVIOUS
<1>3. \A i \in 1..n : nx[q[i]] = IF i = n THEN q[1] ELSE q[i + 1]
  BY DEF Follows
<1>4. \A i \in 1..n : q[i] # f /\ q[i] \in Fila
  BY DEF ToSet
<1>5. \A i \in 1..n : i # n => q[i] # q[n]
  BY <1>2 DEF NoDuplicate
<1>6. nn[f] = q[1] /\ nn[q[n]] = f
  BY <1>2, <1>4
<1>7. \A i \in 1..n : i # n => nn[q[i]] = nx[q[i]]
  BY <1>4, <1>5
<1> HIDE DEF p, nn, n
<1>8. ASSUME NEW i \in 1..(n + 1)
      PROVE  nn[p[i]] = IF i = n + 1 THEN p[1] ELSE p[i + 1]
  <2>1. CASE i = 1
    <3>1. i # n + 1 /\ 2 \in 2..(n + 1)
      BY <1>2, <2>1
    <3>2. p[2] = q[2 - 1]
      BY <1>1, <3>1
    <3> QED BY <1>1, <1>6, <2>1, <3>1, <3>2
  <2>2. CASE i # 1 /\ i # n + 1
    <3>1. i \in 2..(n + 1) /\ i + 1 \in 2..(n + 1)
          /\ i - 1 \in 1..n /\ i - 1 # n
          /\ (i + 1) - 1 = (i - 1) + 1
      BY <1>2, <2>2
    <3>2. p[i] = q[i - 1] /\ p[i + 1] = q[(i - 1) + 1]
      BY <1>1, <3>1
    <3>3. nn[q[i - 1]] = q[(i - 1) + 1]
      BY <1>3, <1>7, <3>1
    <3> QED BY <2>2, <3>2, <3>3
  <2>3. CASE i = n + 1
    <3>1. i \in 2..(n + 1) /\ i - 1 = n
      BY <1>2, <2>3
    <3>2. p[i] = q[n]
      BY <1>1, <3>1
    <3> QED BY <1>1, <1>6, <2>3, <3>2
  <2> QED BY <2>1, <2>2, <2>3
<1>9. \A i \in 1..Len(p) : nn[p[i]] = IF i = Len(p) THEN p[1] ELSE p[i + 1]
  BY <1>1, <1>8
<1> QED BY <1>9 DEF Follows, p, nn, n

\* last is the other way round.
LEMMA Behind ==
  ASSUME Ring, NEW q, Represents(q), NEW at \in 1..Len(q)
  PROVE  \E before \in 1..Len(q) :
           /\ before = IF at = 1 THEN Len(q) ELSE at - 1
           /\ last[q[at]] = q[before]
<1> DEFINE before == IF at = 1 THEN Len(q) ELSE at - 1
<1>1. q \in Seq(Fila) /\ Len(q) \in Nat
  BY DEF Represents
<1>2. /\ before \in 1..Len(q)
      /\ (IF before = Len(q) THEN 1 ELSE before + 1) = at
  BY <1>1
<1>3. next[q[before]] = q[at]
  BY <1>2 DEF Represents, Follows
<1>4. q[before] \in live
  BY <1>2 DEF Represents, ToSet
<1> QED BY <1>2, <1>3, <1>4 DEF Ring, RingLinked

-----------------------------------------------------------------------------
(***************************************************************************)
(* The calls: each does to the sequence what FilaQueue says.               *)
(***************************************************************************)
LEMMA RepresentsNext ==
  ASSUME NEW q \in Seq(Fila), NoDuplicate(q), ToSet(q) = live',
         Follows(q, next'), head' = IF q = << >> THEN Null ELSE q[1]
  PROVE  Represents(q)'
BY DEF Represents, Follows

\* q with f in front, and what its first item is.
LEMMA InFront ==
  ASSUME NEW q \in Seq(Fila), NEW f \in Fila, f \notin ToSet(q), NoDuplicate(q)
  PROVE  /\ AtFront(q, f) \in Seq(Fila) /\ AtFront(q, f) # << >>
         /\ NoDuplicate(AtFront(q, f))
         /\ ToSet(AtFront(q, f)) = ToSet(q) \union {f}
         /\ AtFront(q, f)[1] = f /\ Len(AtFront(q, f)) = Len(q) + 1
<1>1. AtFront(q, f)[1] = f /\ Len(AtFront(q, f)) = Len(q) + 1
  BY AtFrontItems
<1>2. /\ AtFront(q, f) \in Seq(Fila) /\ AtFront(q, f) # << >>
      /\ NoDuplicate(AtFront(q, f))
      /\ ToSet(AtFront(q, f)) = ToSet(q) \union {f}
  BY AtFrontOK
<1> QED BY <1>1, <1>2

LEMMA NewOrder ==
  ASSUME Ring, NEW q, Represents(q), NEW f \in Fila, New(f)
  PROVE  Represents(AtFront(q, f))'
<1> DEFINE p == AtFront(q, f)
<1>1. /\ q \in Seq(Fila) /\ NoDuplicate(q) /\ ToSet(q) = live
      /\ f \notin ToSet(q) /\ live' = live \union {f} /\ head' = f
  BY DEF Represents, New
<1>2. /\ p \in Seq(Fila) /\ p # << >> /\ NoDuplicate(p)
      /\ ToSet(p) = ToSet(q) \union {f} /\ p[1] = f /\ Len(p) = Len(q) + 1
  BY <1>1, InFront
<1>3. Follows(p, next')
  <2>1. CASE q = << >>
    <3>1. next' = [next EXCEPT ![f] = f] /\ next \in [Fila -> Fila \union {Null}]
      BY <2>1 DEF Represents, New, Ring, TypeOK
    <3>2. Len(p) = 1
      BY <1>2, <2>1
    <3> HIDE DEF p
    <3>3. \A i \in 1..Len(p) : i = 1 /\ i = Len(p)
      BY <3>2
    <3>4. next'[p[1]] = p[1]
      BY <1>2, <3>1
    <3> QED BY <3>3, <3>4 DEF Follows
  <2>2. CASE q # << >>
    <3>1. head = q[1] /\ head \in live /\ head # Null
      BY <1>1, <2>2, FilaAssumption DEF Represents, ToSet
    <3>2. PICK before \in 1..Len(q) : before = Len(q) /\ last[q[1]] = q[before]
      <4>1. 1 \in 1..Len(q)
        BY <1>1, <2>2
      <4> QED BY <4>1, Behind
    <3>3. next' = [next EXCEPT ![f] = q[1], ![q[Len(q)]] = f]
      BY <3>1, <3>2 DEF New, NextPut
    <3> QED BY <1>1, <2>2, <3>3, PutFollows DEF Represents, Ring, TypeOK
  <2> QED BY <2>1, <2>2
<1> QED BY <1>1, <1>2, <1>3, RepresentsNext

LEMMA ZapOrder ==
  ASSUME Ring, NEW q, Represents(q), NEW f, Zap(f)
  PROVE  Represents(Unlinked(q, f))'
<1> DEFINE u == Unlinked(q, f)
<1>1. /\ q \in Seq(Fila) /\ NoDuplicate(q) /\ ToSet(q) = live
      /\ f \in ToSet(q) /\ live' = live \ {f} /\ Len(q) \in Nat
  BY DEF Represents, Zap
<1>2. PICK at \in 1..Len(q) : q[at] = f
  BY <1>1 DEF ToSet
<1>3. PICK before \in 1..Len(q) :
        before = (IF at = 1 THEN Len(q) ELSE at - 1) /\ last[f] = q[before]
  BY <1>2, Behind
<1>4. u \in Seq(Fila) /\ NoDuplicate(u) /\ ToSet(u) = ToSet(q) \ {f}
  BY <1>1, UnlinkedOK
<1>5. Follows(u, next')
  <2>1. next' = [next EXCEPT ![q[before]] = next[q[at]]]
    BY <1>2, <1>3 DEF Zap, NextCut
  <2> QED BY <1>1, <1>2, <1>3, <2>1, CutFollows DEF Represents, Ring, TypeOK
<1>6. head' = IF u = << >> THEN Null ELSE u[1]
  <2>1. /\ Len(u) = Len(q) - 1
        /\ \A i \in 1..(Len(q) - 1) : u[i] = IF i < at THEN q[i] ELSE q[i + 1]
    BY <1>1, <1>2, UnlinkedItems
  <2>2. head = q[1] /\ head' = HeadCut(f)
    BY <1>1, <1>2 DEF Represents, Zap
  <2>3. next[f] = IF at = Len(q) THEN q[1] ELSE q[at + 1]
    BY <1>2 DEF Represents, Follows
  <2>4. head = f <=> at = 1
    BY <1>1, <1>2, <2>2 DEF NoDuplicate
  <2>5. u = << >> <=> Len(q) = 1
    BY <1>1, <1>2, <1>4, <2>1
  <2>6. CASE at # 1
    <3>1. 1 \in 1..(Len(q) - 1) /\ 1 < at
      BY <1>1, <1>2, <2>6
    <3> QED BY <2>1, <2>2, <2>4, <2>5, <2>6, <3>1 DEF HeadCut
  <2>7. CASE at = 1 /\ Len(q) = 1
    BY <1>2, <2>2, <2>3, <2>4, <2>5, <2>7 DEF HeadCut
  <2>8. CASE at = 1 /\ Len(q) # 1
    <3>1. 1 \in 1..(Len(q) - 1) /\ ~ (1 < at) /\ at # Len(q) /\ at + 1 \in 1..Len(q)
      BY <1>1, <1>2, <2>8
    <3>2. u[1] = q[1 + 1] /\ next[f] = q[1 + 1]
      BY <2>1, <2>3, <2>8, <3>1
    <3>3. next[f] # f
      BY <1>1, <1>2, <2>8, <3>1, <3>2 DEF NoDuplicate
    <3> QED BY <2>2, <2>4, <2>5, <2>8, <3>2, <3>3 DEF HeadCut
  <2> QED BY <2>6, <2>7, <2>8
<1> QED BY <1>1, <1>4, <1>5, <1>6, RepresentsNext

LEMMA FetchOrder ==
  ASSUME Ring, NEW q, Represents(q), NEW f, Fetch(f)
  PROVE  Represents(MovedToFront(q, f))'
<1> DEFINE u == Unlinked(q, f)
           p == AtFront(u, f)
<1>1. /\ q \in Seq(Fila) /\ NoDuplicate(q) /\ ToSet(q) = live
      /\ f \in ToSet(q) /\ f \in Fila /\ live' = live /\ head' = f
      /\ f # head /\ Len(q) \in Nat
  BY DEF Represents, Fetch, Ring, TypeOK
<1>2. PICK at \in 1..Len(q) : q[at] = f
  BY <1>1 DEF ToSet
<1>3. PICK before \in 1..Len(q) :
        before = (IF at = 1 THEN Len(q) ELSE at - 1) /\ last[f] = q[before]
  BY <1>2, Behind
<1>4. head = q[1] /\ at # 1
  BY <1>1, <1>2 DEF Represents
<1>5. /\ u \in Seq(Fila) /\ NoDuplicate(u) /\ ToSet(u) = ToSet(q) \ {f}
      /\ Len(u) = Len(q) - 1
      /\ \A i \in 1..(Len(q) - 1) : u[i] = IF i < at THEN q[i] ELSE q[i + 1]
  BY <1>1, <1>2, UnlinkedOK, UnlinkedItems
<1> DEFINE nx == [next EXCEPT ![q[before]] = next[q[at]]]
<1>6. nx = NextCut(f) /\ nx \in [Fila -> Fila \union {Null}] /\ Follows(u, nx)
  <2>1. next[q[at]] \in Fila
    BY <1>1, <1>2 DEF Ring, TypeOK, RingLinked
  <2>2. Follows(u, nx)
    BY <1>1, <1>2, <1>3, CutFollows DEF Represents, Ring, TypeOK
  <2> QED BY <1>2, <1>3, <2>1, <2>2 DEF NextCut, Ring, TypeOK
<1> HIDE DEF nx
<1>7. u # << >> /\ head = u[1]
  <2>1. 1 \in 1..(Len(q) - 1) /\ 1 < at
    BY <1>1, <1>2, <1>4
  <2> HIDE DEF u
  <2> QED BY <1>4, <1>5, <2>1
<1>8. LastCut(f)[head] = u[Len(u)]
  <2>1. PICK end \in 1..Len(q) : end = Len(q) /\ last[q[1]] = q[end]
    <3>1. 1 \in 1..Len(q)
      BY <1>1, <1>2
    <3> QED BY <3>1, Behind
  <2>2. LastCut(f) = [last EXCEPT ![next[f]] = last[f]]
    BY DEF LastCut
  <2>3. next[f] = IF at = Len(q) THEN q[1] ELSE q[at + 1]
    BY <1>2 DEF Represents, Follows
  <2>4. head \in Fila /\ last \in [Fila -> Fila \union {Null}]
    BY <1>1, <1>2, <1>4 DEF Ring, TypeOK
  <2>5. Len(q) - 1 \in 1..(Len(q) - 1)
    BY <1>1, <1>2, <1>4
  <2>6. CASE at = Len(q)
    <3>1. next[f] = head /\ before = Len(q) - 1 /\ Len(q) - 1 < at
      BY <1>2, <1>3, <1>4, <2>3, <2>6
    <3>2. LastCut(f)[head] = q[Len(q) - 1]
      BY <1>3, <2>2, <2>4, <3>1
    <3>3. u[Len(q) - 1] = q[Len(q) - 1]
      BY <1>5, <2>5, <3>1
    <3> QED BY <1>5, <3>2, <3>3
  <2>7. CASE at # Len(q)
    <3>1. at + 1 \in 1..Len(q) /\ at + 1 # 1 /\ ~ (Len(q) - 1 < at) /\ 1 \in 1..Len(q)
          /\ (Len(q) - 1) + 1 = Len(q)
      BY <1>1, <1>2, <2>7
    <3>2. next[f] # head
      <4>1. next[f] = q[at + 1]
        BY <2>3, <2>7
      <4>2. q[at + 1] # q[1]
        BY <1>1, <3>1 DEF NoDuplicate
      <4> QED BY <1>4, <4>1, <4>2
    <3>3. LastCut(f)[head] = q[Len(q)]
      BY <1>4, <2>1, <2>2, <2>4, <3>2
    <3>4. u[Len(q) - 1] = q[Len(q)]
      BY <1>5, <2>5, <3>1
    <3> QED BY <1>5, <3>3, <3>4
  <2> QED BY <2>6, <2>7
<1> HIDE DEF u
<1>9. f \notin ToSet(u)
  BY <1>5
<1>10. /\ p \in Seq(Fila) /\ p # << >> /\ NoDuplicate(p)
       /\ ToSet(p) = ToSet(u) \union {f} /\ p[1] = f
  BY <1>1, <1>5, <1>9, InFront
<1>11. Follows(p, next')
  <2>1. next' = [nx EXCEPT ![f] = u[1], ![u[Len(u)]] = f]
    BY <1>6, <1>7, <1>8 DEF Fetch, NextPut
  <2> QED BY <1>1, <1>5, <1>6, <1>7, <1>9, <2>1, PutFollows
<1>12. MovedToFront(q, f) = p
  BY DEF MovedToFront, u
<1> HIDE DEF p
<1> QED BY <1>1, <1>5, <1>10, <1>11, <1>12, RepresentsNext

\* The node that a full hash gives up is the last one of the sequence.
LEMMA EvictOrder ==
  ASSUME Ring, NEW q, Represents(q), Evict
  PROVE  q # << >> /\ Represents(Front(q))'
<1>1. q \in Seq(Fila) /\ NoDuplicate(q) /\ q # << >> /\ head = q[1]
  BY DEF Represents, Evict
<1>2. last[head] = q[Len(q)]
  <2>1. 1 \in 1..Len(q)
    BY <1>1
  <2> QED BY <1>1, <2>1, Behind
<1>3. Unlinked(q, q[Len(q)]) = Front(q)
  <2> DEFINE u == Unlinked(q, q[Len(q)])
  <2>1. /\ u \in Seq(Fila) /\ Len(u) = Len(q) - 1
        /\ \A i \in 1..(Len(q) - 1) : u[i] = IF i < Len(q) THEN q[i] ELSE q[i + 1]
    BY <1>1, UnlinkedItems
  <2>2. Front(q) \in Seq(Fila) /\ Len(Front(q)) = Len(q) - 1
        /\ \A i \in 1..(Len(q) - 1) : Front(q)[i] = q[i]
    <3>1. Front(q) = SubSeq(q, 1, Len(q) - 1)
      BY DEF Front
    <3>2. Len(q) - 1 \in Nat /\ Len(q) \in Nat /\ 1 \in Int
      BY <1>1
    <3>3. \A i \in 1..(Len(q) - 1) : q[i] \in Fila
      BY <1>1
    <3> DEFINE m == Len(q) - 1
    <3>4. SubSeq(q, 1, m) \in Seq(Fila) /\ Len(SubSeq(q, 1, m)) = m
          /\ \A i \in 1..m : SubSeq(q, 1, m)[i] = q[i]
      <4>1. m \in Nat /\ 1 \in Int /\ m \in Int /\ \A i \in 1..m : q[i] \in Fila
        BY <3>2, <3>3
      <4> HIDE DEF m
      <4>2. /\ SubSeq(q, 1, m) \in Seq(Fila)
            /\ Len(SubSeq(q, 1, m)) = IF 1 <= m THEN m - 1 + 1 ELSE 0
            /\ \A i \in 1..(m - 1 + 1) : SubSeq(q, 1, m)[i] = q[1 + i - 1]
        BY <4>1, SubSeqProperties
      <4>3. m - 1 + 1 = m /\ (IF 1 <= m THEN m - 1 + 1 ELSE 0) = m
        BY <4>1
      <4>4. \A i \in 1..m : 1 + i - 1 = i
        OBVIOUS
      <4> QED BY <4>2, <4>3, <4>4
    <3> QED BY <3>1, <3>4  <2> HIDE DEF u
  <2>3. \A i \in 1..Len(u) : u[i] = Front(q)[i]
    BY <1>1, <2>1, <2>2
  <2>4. u = Front(q)
    BY <2>1, <2>2, <2>3, SeqEqual
  <2> QED BY <2>4 DEF u
<1>4. Zap(q[Len(q)])
  BY <1>2 DEF Evict
<1> QED BY <1>1, <1>3, <1>4, ZapOrder

-----------------------------------------------------------------------------
LEMMA OrderOf == \A q : Represents(q) => Order = q
  BY OrderIs

LEMMA OrderNext == (\A q : Represents(q) => Order = q)'
  BY OrderOf, PTL

Ordered == Ring /\ \E q : Represents(q)

LEMMA InitOrdered == Init => Ordered /\ Abstract!Init
<1> SUFFICES ASSUME Init PROVE Ordered /\ Abstract!Init
  OBVIOUS
<1>1. Represents(<< >>)
  BY DEF Init, Represents, Follows, NoDuplicate, ToSet
<1> QED BY <1>1, InitRing, OrderOf DEF Ordered, Abstract!Init

\* Each call of DwFila is the call of FilaQueue of the same name.
Calls ==
  /\ Evict => Abstract!Evict
  /\ \A f \in Fila : /\ New(f) => Abstract!New(f)
                     /\ Fetch(f) => Abstract!Fetch(f)
                     /\ Zap(f) => Abstract!Zap(f)

LEMMA StepOrdered ==
  ASSUME Ordered, [Next]_vars
  PROVE  Ordered' /\ Calls /\ [Abstract!Next]_Order
<1>1. PICK q : Represents(q)
  BY DEF Ordered
<1>2. Order = q /\ q \in Seq(Fila) /\ ToSet(q) = live
  BY <1>1, OrderOf DEF Represents
<1>3. ASSUME NEW p, Represents(p)' PROVE Order' = p /\ Ordered'
  <2>1. Ring'
    BY StepRing DEF Ordered
  <2> QED BY <1>3, <2>1, OrderNext DEF Ordered
<1>4. Ring
  BY DEF Ordered
<1>5. ASSUME NEW f \in Fila, New(f)
      PROVE  Abstract!New(f) /\ Ordered'
  <2>1. Represents(AtFront(q, f))'
    BY <1>1, <1>4, <1>5, NewOrder
  <2>2. Order' = AtFront(q, f) /\ Ordered'
    BY <1>3, <2>1
  <2>3. f \notin ToSet(q)
    BY <1>2, <1>5 DEF New
  <2>4. AtFront(q, f) = Abstract!AtFront(q, f)
    BY DEF AtFront, Abstract!AtFront
  <2>5. Abstract!ToSet(q) = ToSet(q)
    BY DEF ToSet, Abstract!ToSet
  <2> QED BY <1>2, <2>2, <2>3, <2>4, <2>5 DEF Abstract!New
<1>6. ASSUME NEW f \in Fila, Fetch(f)
      PROVE  Abstract!Fetch(f) /\ Ordered'
  <2>1. Represents(MovedToFront(q, f))'
    BY <1>1, <1>4, <1>6, FetchOrder
  <2>2. Order' = MovedToFront(q, f) /\ Ordered'
    BY <1>3, <2>1
  <2>3. f \in ToSet(q)
    BY <1>2, <1>6 DEF Fetch
  <2>4. MovedToFront(q, f) = Abstract!MovedToFront(q, f)
    BY DEF MovedToFront, Abstract!MovedToFront, AtFront, Abstract!AtFront,
           Unlinked, Abstract!Unlinked
  <2>5. Abstract!ToSet(q) = ToSet(q)
    BY DEF ToSet, Abstract!ToSet
  <2> QED BY <1>2, <2>2, <2>3, <2>4, <2>5 DEF Abstract!Fetch
<1>7. ASSUME NEW f \in Fila, Zap(f)
      PROVE  Abstract!Zap(f) /\ Ordered'
  <2>1. Represents(Unlinked(q, f))'
    BY <1>1, <1>4, <1>7, ZapOrder
  <2>2. Order' = Unlinked(q, f) /\ Ordered'
    BY <1>3, <2>1
  <2>3. f \in ToSet(q)
    BY <1>2, <1>7 DEF Zap
  <2>4. Unlinked(q, f) = Abstract!Unlinked(q, f)
    BY DEF Unlinked, Abstract!Unlinked
  <2>5. Abstract!ToSet(q) = ToSet(q)
    BY DEF ToSet, Abstract!ToSet
  <2> QED BY <1>2, <2>2, <2>3, <2>4, <2>5 DEF Abstract!Zap
<1>8. ASSUME Evict
      PROVE  Abstract!Evict /\ Ordered'
  <2>1. q # << >> /\ Represents(Front(q))'
    BY <1>1, <1>4, <1>8, EvictOrder
  <2>2. Order' = Front(q) /\ Ordered'
    BY <1>3, <2>1
  <2>3. Front(q) = Abstract!Front(q)
    BY DEF Front, Abstract!Front
  <2> QED BY <1>2, <2>1, <2>2, <2>3 DEF Abstract!Evict
<1>9. Calls
  BY <1>5, <1>6, <1>7, <1>8 DEF Calls
<1>10. CASE Next
  <2>1. ASSUME NEW f \in Fila, New(f) \/ Fetch(f) \/ Zap(f)
        PROVE  Ordered' /\ Abstract!Next
    <3>1. Ordered' /\ (Abstract!New(f) \/ Abstract!Fetch(f) \/ Abstract!Zap(f))
      BY <1>5, <1>6, <1>7, <2>1
    <3> QED BY <3>1 DEF Abstract!Next
  <2>2. ASSUME Evict PROVE Ordered' /\ Abstract!Next
    <3>1. Ordered' /\ Abstract!Evict
      BY <1>8, <2>2
    <3> QED BY <3>1 DEF Abstract!Next
  <2>3. Ordered' /\ Abstract!Next
    BY <1>10, <2>1, <2>2 DEF Next
  <2> QED BY <1>9, <2>3
<1>11. CASE UNCHANGED vars
  <2>1. Represents(q)'
    BY <1>1, <1>11 DEF vars, Represents, Follows
  <2>2. Order' = Order /\ Ordered'
    BY <1>2, <1>3, <2>1
  <2> QED BY <1>9, <2>2
<1> QED BY <1>10, <1>11

(***************************************************************************)
(* The ring of pointers is the queue of last use, call by call and for any *)
(* number of nodes: the one that a full hash gives up, hash->fila->last,   *)
(* is the least recently used.                                             *)
(***************************************************************************)
THEOREM RefinementTheorem == Spec => RefinesQueue
<1>1. Ordered /\ [Next]_vars => Ordered' /\ [Abstract!Next]_Order
  BY StepOrdered
<1>2. Ordered /\ [Next]_vars =>
      [ /\ Evict => Abstract!Evict
        /\ \A f \in Fila : /\ New(f) => Abstract!New(f)
                           /\ Fetch(f) => Abstract!Fetch(f)
                           /\ Zap(f) => Abstract!Zap(f) ]_vars
  BY StepOrdered DEF Calls
<1> QED BY <1>1, <1>2, InitOrdered, PTL DEF Spec, RefinesQueue, Abstract!Spec

=============================================================================
