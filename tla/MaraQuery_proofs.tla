-------------------------- MODULE MaraQuery_proofs --------------------------
(***************************************************************************)
(* Proofs about MaraQuery, for any zones with any files in any order, any  *)
(* settings and any queries: what the big hash is like while zone files    *)
(* are read and while queries are answered from it.                        *)
(***************************************************************************)
EXTENDS MaraQuery, FilaOrder_proofs, FunctionTheorems

-----------------------------------------------------------------------------
(***************************************************************************)
(* Sequences.                                                              *)
(***************************************************************************)
\* InsertAt 2: the new item goes behind the first one.
LEMMA InsertIs ==
  ASSUME NEW s, IsSeq(s), s # << >>, NEW x
  PROVE  /\ IsSeq(InsertAt(s, 2, x)) /\ InsertAt(s, 2, x) # << >>
         /\ InsertAt(s, 2, x)[1] = s[1]
         /\ Range(InsertAt(s, 2, x)) = Range(s) \union {x}
<1> DEFINE n == Len(s)
           a == SubSeq(s, 1, 1)
           b == SubSeq(s, 2, n)
           c == a \o <<x>>
           t == InsertAt(s, 2, x)
<1>1. n \in Nat /\ n > 0 /\ DOMAIN s = 1..n
  BY SeqRange DEF IsSeq
<1>2. t = c \o b
  BY DEF InsertAt
<1>3. n \in 0..n /\ 1 \in 0..n /\ 1 <= 1 + 1 /\ 2 <= n + 1
      /\ 1 \in Nat \ {0} /\ 2 \in Nat \ {0}
  <2> HIDE DEF n
  <2> QED BY <1>1
<1>4. /\ IsSeq(a) /\ Len(a) = 1 /\ a[1] = s[1]
      /\ \A y : y \in Range(a) <=> y = s[1]
  <2>0. Part(a, s, 1, 1)
    BY <1>3, SubSeqIs, Zenon
  <2>1. /\ IsSeq(a) /\ Len(a) = 1 - 1 + 1
        /\ \A i \in 1..(1 - 1 + 1) : a[i] = s[i + 1 - 1]
        /\ \A y : y \in Range(a) <=> \E i \in 1..1 : s[i] = y
    BY <2>0, Zenon DEF Part
  <2> HIDE DEF a
  <2>2. Len(a) = 1 /\ 1 \in 1..(1 - 1 + 1) /\ 1 + 1 - 1 = 1 /\ 1..1 = {1}
    BY <2>1
  <2>3. a[1] = s[1 + 1 - 1]
    BY <2>1, <2>2, Zenon
  <2> QED BY <2>1, <2>2, <2>3, Zenon
<1>5. IsSeq(b) /\ \A y : y \in Range(b) <=> \E i \in 2..n : s[i] = y
  <2>1. Part(b, s, 2, n)
    BY <1>3, SubSeqIs, Zenon
  <2> QED BY <2>1, Zenon DEF Part
<1> HIDE DEF n, a, b, t
<1>6. IsSeq(c) /\ Len(c) = 2 /\ c[1] = s[1] /\ c # << >>
      /\ Range(c) = Range(a) \union {x}
  <2>1. IsSeq(<<x>>) /\ Len(<<x>>) = 1 /\ Range(<<x>>) = {x}
    BY OneIs
  <2>2. /\ IsSeq(c) /\ Len(c) = Len(a) + Len(<<x>>)
        /\ \A i \in 1..Len(a) : c[i] = a[i]
        /\ Range(c) = Range(a) \union Range(<<x>>)
    <3>1. Joined(a \o <<x>>, a, <<x>>)
      BY <1>4, <2>1, ConcatIs, Zenon
    <3> QED BY <3>1, Zenon DEF Joined
  <2> HIDE DEF c
  <2>3. Len(c) = 2 /\ c[1] = a[1]
    <3>1. Len(c) = 1 + 1
      BY <1>4, <2>1, <2>2, Zenon
    <3> QED BY <1>4, <2>2, <3>1
  <2>4. c # << >>
    <3>1. Len(<< >>) = 0
      OBVIOUS
    <3> QED BY <2>3, <3>1
  <2> QED BY <1>4, <2>1, <2>2, <2>3, <2>4, Zenon
<1> HIDE DEF c
<1>7. /\ IsSeq(t) /\ Len(t) = Len(c) + Len(b)
      /\ \A i \in 1..Len(c) : t[i] = c[i]
      /\ Range(t) = Range(c) \union Range(b)
  <2>1. Joined(c \o b, c, b)
    BY <1>5, <1>6, ConcatIs, Zenon
  <2> QED BY <1>2, <2>1, Zenon DEF Joined
<1>8. t[1] = s[1] /\ t # << >>
  <2>1. Len(b) \in Nat
    BY <1>5, SeqRange DEF IsSeq
  <2>2. Len(t) > 0
    BY <1>6, <1>7, <2>1
  <2>3. 1 \in 1..Len(c)
    BY <1>6
  <2>4. Len(<< >>) = 0
    OBVIOUS
  <2> QED BY <1>6, <1>7, <2>2, <2>3, <2>4
<1>9. ASSUME NEW y PROVE y \in Range(s) <=> y \in Range(a) \union Range(b)
  <2>1. 1..n = {1} \union 2..n
    BY <1>1
  <2>2. y \in Range(s) <=> \E i \in 1..n : s[i] = y
    BY <1>1, Zenon DEF Range
  <2> QED BY <1>4, <1>5, <2>1, <2>2, Zenon
<1> QED BY <1>6, <1>7, <1>8, <1>9 DEF t

\* RemoveAt: an item of a sequence without duplicates leaves.
LEMMA RemovedIs ==
  ASSUME NEW s, IsSeq(s), NEW at \in DOMAIN s,
         \A i, j \in DOMAIN s : s[i] = s[j] => i = j
  PROVE  /\ IsSeq(RemoveAt(s, at))
         /\ Range(RemoveAt(s, at)) = Range(s) \ {s[at]}
         /\ \A i, j \in DOMAIN RemoveAt(s, at) :
              RemoveAt(s, at)[i] = RemoveAt(s, at)[j] => i = j
<1> DEFINE n == Len(s)
           a == SubSeq(s, 1, at - 1)
           b == SubSeq(s, at + 1, n)
           t == RemoveAt(s, at)
<1>1. /\ n \in Nat /\ DOMAIN s = 1..n /\ at \in 1..n
      /\ n \in 0..n /\ at - 1 \in 0..n /\ at + 1 \in Nat \ {0}
      /\ 1 \in Nat \ {0} /\ 1 <= at - 1 + 1 /\ at + 1 <= n + 1
  <2>1. n \in Nat /\ DOMAIN s = 1..n
    BY SeqRange DEF IsSeq
  <2> HIDE DEF n
  <2> QED BY <2>1
<1>2. t = a \o b
  BY DEF RemoveAt
<1>3. /\ IsSeq(a) /\ Len(a) = at - 1 /\ \A i \in 1..(at - 1) : a[i] = s[i]
      /\ \A y : y \in Range(a) <=> \E i \in 1..(at - 1) : s[i] = y
  <2>1. /\ IsSeq(a) /\ Len(a) = at - 1 - 1 + 1
        /\ \A i \in 1..(at - 1 - 1 + 1) : a[i] = s[i + 1 - 1]
        /\ \A y : y \in Range(a) <=> \E i \in 1..(at - 1) : s[i] = y
    <3>1. Part(a, s, 1, at - 1)
      BY <1>1, SubSeqIs, Zenon
    <3> QED BY <3>1, Zenon DEF Part
  <2> HIDE DEF a
  <2>2. at - 1 - 1 + 1 = at - 1 /\ \A i \in 1..(at - 1) : i + 1 - 1 = i
    BY <1>1
  <2> QED BY <2>1, <2>2, Zenon
<1>4. /\ IsSeq(b) /\ Len(b) = n - at
      /\ \A i \in 1..(n - at) : b[i] = s[i + at]
      /\ \A y : y \in Range(b) <=> \E i \in (at + 1)..n : s[i] = y
  <2>1. /\ IsSeq(b) /\ Len(b) = n - (at + 1) + 1
        /\ \A i \in 1..(n - (at + 1) + 1) : b[i] = s[i + (at + 1) - 1]
        /\ \A y : y \in Range(b) <=> \E i \in (at + 1)..n : s[i] = y
    <3>1. Part(b, s, at + 1, n)
      BY <1>1, SubSeqIs, Zenon
    <3> QED BY <3>1, Zenon DEF Part
  <2> HIDE DEF b, n
  <2>2. /\ n - (at + 1) + 1 = n - at
        /\ \A i \in 1..(n - at) : i + (at + 1) - 1 = i + at
    BY <1>1
  <2> QED BY <2>1, <2>2, Zenon
<1> HIDE DEF n, a, b, t
<1>5. /\ IsSeq(t) /\ Len(t) = at - 1 + (n - at)
      /\ \A i \in 1..(at - 1) : t[i] = s[i]
      /\ \A i \in 1..(n - at) : t[i + (at - 1)] = s[i + at]
      /\ Range(t) = Range(a) \union Range(b)
  <2>1. /\ IsSeq(t) /\ Len(t) = Len(a) + Len(b)
        /\ \A i \in 1..Len(a) : t[i] = a[i]
        /\ \A i \in 1..Len(b) : t[i + Len(a)] = b[i]
        /\ Range(t) = Range(a) \union Range(b)
    <3>1. Joined(a \o b, a, b)
      BY <1>3, <1>4, ConcatIs, Zenon
    <3> QED BY <1>2, <3>1, Zenon DEF Joined
  <2> QED BY <1>3, <1>4, <2>1, Zenon
<1> DEFINE from(i) == IF i < at THEN i ELSE i + 1
<1>7. DOMAIN t = 1..(n - 1)
  <2>1. DOMAIN t = 1..Len(t)
    BY <1>5, SeqRange DEF IsSeq
  <2>2. at - 1 + (n - at) = n - 1
    BY <1>1
  <2> QED BY <1>5, <2>1, <2>2
<1>6. Range(t) = Range(s) \ {s[at]}
  <2>1. ASSUME NEW y
        PROVE  y \in Range(t) <=> \E i \in 1..n : i # at /\ s[i] = y
    <3>1. 1..n \ {at} = 1..(at - 1) \union (at + 1)..n
      BY <1>1
    <3> QED BY <1>3, <1>4, <1>5, <3>1, Zenon
  <2>2. ASSUME NEW y PROVE y \in Range(s) <=> \E i \in 1..n : s[i] = y
    BY <1>1, Zenon DEF Range
  <2>3. \A i \in 1..n : i # at <=> s[i] # s[at]
    BY <1>1, Zenon
  <2> QED BY <2>1, <2>2, <2>3
<1>8. ASSUME NEW i \in 1..(n - 1)
      PROVE  from(i) \in DOMAIN s /\ t[i] = s[from(i)]
  <2>1. CASE i < at
    <3>1. i \in 1..(at - 1) /\ i \in 1..n
      BY <1>1, <2>1
    <3> QED BY <1>1, <1>5, <2>1, <3>1, Zenon
  <2>2. CASE ~ (i < at)
    <3>1. /\ i - (at - 1) \in 1..(n - at) /\ i - (at - 1) + (at - 1) = i
          /\ i - (at - 1) + at = i + 1 /\ i + 1 \in 1..n
      BY <1>1, <2>2
    <3>2. t[i - (at - 1) + (at - 1)] = s[i - (at - 1) + at]
      BY <1>5, <3>1, Zenon
    <3> QED BY <1>1, <2>2, <3>1, <3>2, Zenon
  <2> QED BY <2>1, <2>2
<1>9. ASSUME NEW i \in DOMAIN t, NEW j \in DOMAIN t, t[i] = t[j] PROVE i = j
  <2>1. from(i) = from(j)
    <3> HIDE DEF from
    <3> QED BY <1>7, <1>8, <1>9, Zenon
  <2>2. i \in Nat /\ j \in Nat /\ at \in Nat
    BY <1>1, <1>7
  <2> QED BY <2>1, <2>2
<1> QED BY <1>5, <1>6, <1>9 DEF t

\* The first item goes to the end.
LEMMA TurnedIs ==
  ASSUME NEW s, IsSeq(s), s # << >>
  PROVE  /\ IsSeq(Append(Tail(s), Head(s))) /\ Append(Tail(s), Head(s)) # << >>
         /\ Range(Append(Tail(s), Head(s))) = Range(s)
<1> DEFINE n == Len(s)
           u == Tail(s)
           t == Append(u, Head(s))
<1>1. n \in Nat /\ n > 0 /\ DOMAIN s = 1..n
  BY SeqRange DEF IsSeq
<1>2. /\ u \in Seq(Range(s)) /\ Len(u) = n - 1 /\ Head(s) = s[1]
      /\ \A i \in 1..(n - 1) : u[i] = s[i + 1]
  BY DEF IsSeq
<1>3. IsSeq(u) /\ DOMAIN u = 1..(n - 1)
  BY <1>2, SeqRange
<1> HIDE DEF n, u
<1>4. IsSeq(t) /\ Len(t) = n - 1 + 1 /\ Range(t) = Range(u) \union {s[1]}
  BY <1>2, <1>3, AppendIs
<1>5. Range(s) = Range(u) \union {s[1]}
  <2>1. 1 \in 1..n
    BY <1>1
  <2>2. ASSUME NEW y \in Range(s) PROVE y \in Range(u) \union {s[1]}
    <3>1. PICK i \in 1..n : s[i] = y
      BY <1>1, <2>2 DEF Range
    <3>2. CASE i > 1
      <4>1. i - 1 \in 1..(n - 1) /\ i - 1 + 1 = i
        BY <1>1, <3>2
      <4> QED BY <1>2, <1>3, <3>1, <4>1 DEF Range
    <3> QED BY <1>1, <3>1, <3>2
  <2>3. ASSUME NEW y \in Range(u) PROVE y \in Range(s)
    BY <1>2, <2>3, SeqRange
  <2> QED BY <1>1, <2>1, <2>2, <2>3 DEF Range
<1>6. t # << >>
  <2>1. Len(<< >>) = 0
    OBVIOUS
  <2> QED BY <1>1, <1>4, <2>1
<1> QED BY <1>4, <1>5, <1>6 DEF t, u

-----------------------------------------------------------------------------
(***************************************************************************)
(* The big hash.  The chain of a key has objects of its name and its type, *)
(* that are all authoritative or none; the ANY list of a name has one      *)
(* object of each chain of the name; a pointer to NS records is to the     *)
(* head of their chain.                                                    *)
(***************************************************************************)
ChainOK(d, k) ==
  /\ k = <<k[1], k[2]>>
  /\ IsSeq(d.list[k]) /\ d.list[k] # << >>
  /\ \A o \in Range(d.list[k]) :
       /\ o \in DOMAIN d.rr /\ d.rr[o].name = k[1] /\ d.rr[o].type = k[2]
       /\ d.rr[o].auth = d.rr[d.list[k][1]].auth /\ d.rr[o].auth \in BOOLEAN

AnyOK(d, n) ==
  /\ IsSeq(d.any[n])
  /\ \A h \in Range(d.any[n]) :
       /\ h \in DOMAIN d.rr /\ d.rr[h].name = n
       /\ <<n, d.rr[h].type>> \in DOMAIN d.list
       /\ h \in Range(d.list[<<n, d.rr[h].type>>])
  /\ \A i, j \in DOMAIN d.any[n] :
       d.rr[d.any[n][i]].type = d.rr[d.any[n][j]].type => i = j

\* The chain of k is in the ANY list of its name.
Listed(d, k) ==
  k[1] \in DOMAIN d.any /\ \E h \in Range(d.any[k[1]]) : d.rr[h].type = k[2]

\* The NS records that the chain of k goes on to are the head of a chain.
PointerOK(d, k) ==
  d.ns[k] # 0 =>
    /\ d.ns[k] \in DOMAIN d.rr
    /\ <<d.rr[d.ns[k]].name, "NS">> \in DOMAIN d.list
    /\ d.list[<<d.rr[d.ns[k]].name, "NS">>][1] = d.ns[k]

Fielded(d) ==
  \A o \in DOMAIN d.rr : DOMAIN d.rr[o] = {"name", "type", "to", "auth", "ip"}

DbOK(d) ==
  /\ DOMAIN d = {"rr", "list", "ns", "any"}
  /\ IsSeq(d.rr) /\ DOMAIN d.ns = DOMAIN d.list
  /\ Fielded(d)
  /\ \A k \in DOMAIN d.list : ChainOK(d, k) /\ Listed(d, k) /\ PointerOK(d, k)
  /\ \A n \in DOMAIN d.any : AnyOK(d, n)

\* While files are read nothing is rotated: the objects in the ANY lists
\* are still the heads of their chains.
HeadsOK(d) ==
  \A n \in DOMAIN d.any :
    \A h \in Range(d.any[n]) : d.list[<<n, d.rr[h].type>>][1] = h

\* Some chain goes on to the NS records of the zone.
Pointing(d, zone) ==
  \E k \in DOMAIN d.ns : d.ns[k] # 0 /\ d.rr[d.ns[k]].name = zone

NewId(d) == Len(d.rr) + 1
NewObject(r, auth) ==
  [name |-> r.name, type |-> r.type, to |-> r.to, auth |-> auth, ip |-> 0]

\* One object more.
OneMore(d, e, r, auth) ==
  /\ DOMAIN e = {"rr", "list", "ns", "any"}
  /\ IsSeq(e.rr) /\ DOMAIN e.rr = DOMAIN d.rr \union {NewId(d)}
  /\ NewId(d) \notin DOMAIN d.rr /\ NewId(d) # 0
  /\ \A o \in DOMAIN d.rr : e.rr[o] = d.rr[o]
  /\ e.rr[NewId(d)] = NewObject(r, auth)

LEMMA OneMoreFielded ==
  ASSUME NEW d, NEW e, NEW r, NEW auth, OneMore(d, e, r, auth), Fielded(d)
  PROVE  Fielded(e)
BY DEF OneMore, Fielded, NewObject

LEMMA OneMoreIs ==
  ASSUME NEW d, NEW e, NEW r, NEW auth, IsSeq(d.rr),
         DOMAIN e = {"rr", "list", "ns", "any"},
         e.rr = Append(d.rr, NewObject(r, auth))
  PROVE  OneMore(d, e, r, auth)
<1> DEFINE s == d.rr
           n == Len(d.rr)
           x == NewObject(r, auth)
           t == Append(s, x)
<1>1. n \in Nat /\ DOMAIN s = 1..n
  BY SeqRange DEF IsSeq
<1>2. /\ IsSeq(t) /\ Len(t) = n + 1
      /\ \A i \in 1..n : t[i] = s[i]
      /\ t[n + 1] = x
  BY AppendIs
<1> HIDE DEF t, n, s, x
<1>3. DOMAIN t = 1..(n + 1)
  BY <1>2, SeqRange DEF IsSeq
<1>4. DOMAIN t = DOMAIN s \union {n + 1} /\ n + 1 \notin DOMAIN s /\ n + 1 # 0
  BY <1>1, <1>3
<1> QED BY <1>1, <1>2, <1>4 DEF t, n, s, x, OneMore, NewId

\* g is f but for x, where it is v.
Updated(g, f, x, v) ==
  /\ DOMAIN g = DOMAIN f \union {x} /\ g[x] = v
  /\ \A y \in DOMAIN f : y # x => g[y] = f[y]

LEMMA WithIs ==
  ASSUME NEW f, NEW x, NEW v
  PROVE  Updated(With(f, x, v), f, x, v)
BY DEF Updated, With

\* A new entry.
LEMMA PutIs ==
  ASSUME NEW d, IsSeq(d.rr), NEW zone, NEW r, NEW auth, NEW e,
         e = Put(d, zone, r, auth)
  PROVE  /\ OneMore(d, e, r, auth)
         /\ Updated(e.list, d.list, <<r.name, r.type>>, <<NewId(d)>>)
         /\ Updated(e.ns, d.ns, <<r.name, r.type>>,
                    IF r.type = "NS" \/ Chain(d, zone, "NS") = << >> THEN 0
                    ELSE Chain(d, zone, "NS")[1])
         /\ Updated(e.any, d.any, r.name,
                    Append(At(d.any, r.name), NewId(d)))
<1> DEFINE k0 == <<r.name, r.type>>
           zoneNs == Chain(d, zone, "NS")
           p == IF r.type = "NS" \/ zoneNs = << >> THEN 0 ELSE zoneNs[1]
<1>1. /\ DOMAIN e = {"rr", "list", "ns", "any"}
      /\ e.rr = Append(d.rr, NewObject(r, auth))
      /\ e.list = With(d.list, k0, <<NewId(d)>>)
      /\ e.ns = With(d.ns, k0, p)
      /\ e.any = With(d.any, r.name, Append(At(d.any, r.name), NewId(d)))
  BY DEF Put, NewObject, NewId
<1>2. OneMore(d, e, r, auth)
  BY <1>1, OneMoreIs
<1> HIDE DEF k0, p
<1> QED BY <1>1, <1>2, WithIs, Zenon DEF k0, p

\* One more record of a chain, that keeps its head.
Longer(d, e, k) ==
  /\ e.ns = d.ns /\ e.any = d.any /\ DOMAIN e.list = DOMAIN d.list
  /\ \A j \in DOMAIN d.list : j # k => e.list[j] = d.list[j]
  /\ IsSeq(e.list[k]) /\ e.list[k] # << >>
  /\ Range(e.list[k]) = Range(d.list[k]) \union {NewId(d)}
  /\ e.list[k][1] = d.list[k][1]

LEMMA AddRrIs ==
  ASSUME NEW d, DbOK(d), NEW r, NEW auth, NEW e,
         <<r.name, r.type>> \in DOMAIN d.list, e = AddRr(d, r, auth)
  PROVE  OneMore(d, e, r, auth) /\ Longer(d, e, <<r.name, r.type>>)
<1> DEFINE k0 == <<r.name, r.type>>
           c == d.list[k0]
           new == IF r.type = "NS" THEN InsertAt(c, 2, NewId(d))
                                   ELSE Append(c, NewId(d))
<1>1. DOMAIN d = {"rr", "list", "ns", "any"} /\ IsSeq(d.rr) /\ ChainOK(d, k0)
  BY DEF DbOK
<1>2. /\ DOMAIN e = {"rr", "list", "ns", "any"}
      /\ e.rr = Append(d.rr, NewObject(r, auth))
      /\ e.ns = d.ns /\ e.any = d.any
      /\ e.list = [d.list EXCEPT ![k0] = new]
  BY <1>1 DEF AddRr, NewObject, NewId
<1>3. OneMore(d, e, r, auth)
  BY <1>1, <1>2, OneMoreIs
<1>4. IsSeq(c) /\ c # << >>
  BY <1>1 DEF ChainOK
<1> HIDE DEF c
<1>5. IsSeq(new) /\ new # << >> /\ new[1] = c[1]
      /\ Range(new) = Range(c) \union {NewId(d)}
  <2>1. CASE r.type = "NS"
    BY <1>4, <2>1, InsertIs
  <2>2. CASE r.type # "NS"
    <3> DEFINE u == Append(c, NewId(d))
    <3>1. /\ IsSeq(u) /\ Len(u) = Len(c) + 1
          /\ \A i \in 1..Len(c) : u[i] = c[i]
          /\ Range(u) = Range(c) \union {NewId(d)}
      BY <1>4, AppendIs
    <3>2. Len(c) \in Nat /\ Len(c) > 0
      BY <1>4, SeqRange DEF IsSeq
    <3>3. new = u
      BY <2>2
    <3> HIDE DEF u
    <3>4. u[1] = c[1] /\ u # << >>
      <4>1. 1 \in 1..Len(c) /\ Len(u) # 0
        BY <3>1, <3>2
      <4>2. Len(<< >>) = 0
        OBVIOUS
      <4> QED BY <3>1, <4>1, <4>2
    <3> HIDE DEF new
    <3> QED BY <3>1, <3>3, <3>4
  <2> QED BY <2>1, <2>2
<1> HIDE DEF new, k0
<1>6. /\ e.list[k0] = new /\ DOMAIN e.list = DOMAIN d.list
      /\ \A j \in DOMAIN d.list : j # k0 => e.list[j] = d.list[j]
  <2>1. k0 \in DOMAIN d.list
    BY DEF k0
  <2> QED BY <1>2, <2>1
<1>7. Longer(d, e, k0)
  BY <1>2, <1>5, <1>6 DEF c, Longer
<1> QED BY <1>3, <1>7 DEF k0

\* Authoritative data replaces glue: what Undef takes away.
LEMMA UndefIs ==
  ASSUME NEW d, DbOK(d), HeadsOK(d), NEW name, NEW type,
         <<name, type>> \in DOMAIN d.list, NEW e, e = Undef(d, name, type)
  PROVE  /\ DOMAIN e = {"rr", "list", "ns", "any"} /\ e.rr = d.rr
         /\ DOMAIN e.list = DOMAIN d.list \ {<<name, type>>}
         /\ \A k \in DOMAIN e.list : e.list[k] = d.list[k]
         /\ DOMAIN e.ns = DOMAIN d.ns \ {<<name, type>>}
         /\ \A k \in DOMAIN e.ns : e.ns[k] = d.ns[k]
         /\ DOMAIN e.any = DOMAIN d.any
         /\ \A n \in DOMAIN d.any : n # name => e.any[n] = d.any[n]
         /\ name \in DOMAIN d.any /\ IsSeq(e.any[name])
         /\ Range(e.any[name]) =
              {h \in Range(d.any[name]) : d.rr[h].type # type}
         /\ \A i, j \in DOMAIN e.any[name] :
              e.any[name][i] = e.any[name][j] => i = j
<1> DEFINE k0 == <<name, type>>
           a == d.any[name]
           head == d.list[k0][1]
           its == CHOOSE i \in DOMAIN a : a[i] = head
<1>1. /\ DOMAIN d = {"rr", "list", "ns", "any"}
      /\ Listed(d, k0)
  BY DEF DbOK
<1>2. /\ name \in DOMAIN d.any
      /\ \E h \in Range(a) : d.rr[h].type = type
  BY <1>1 DEF Listed
<1>3. AnyOK(d, name)
  BY <1>2 DEF DbOK
<1>4. /\ IsSeq(a)
      /\ \A i, j \in DOMAIN a : d.rr[a[i]].type = d.rr[a[j]].type => i = j
  BY <1>3 DEF AnyOK
<1>5. PICK at \in DOMAIN a : d.rr[a[at]].type = type
  BY <1>2 DEF Range
<1>6. a[at] = head
  <2>1. a[at] \in Range(a)
    BY <1>5 DEF Range
  <2> QED BY <1>2, <1>5, <2>1 DEF HeadsOK
<1>7. /\ DOMAIN e = {"rr", "list", "ns", "any"} /\ e.rr = d.rr
      /\ DOMAIN e.list = DOMAIN d.list \ {k0}
      /\ \A k \in DOMAIN e.list : e.list[k] = d.list[k]
      /\ DOMAIN e.ns = DOMAIN d.ns \ {k0}
      /\ \A k \in DOMAIN e.ns : e.ns[k] = d.ns[k]
      /\ DOMAIN e.any = DOMAIN d.any
      /\ \A n \in DOMAIN d.any : n # name => e.any[n] = d.any[n]
      /\ e.any[name] = RemoveAt(a, its)
  <2> DEFINE list == Restrict(d.list, DOMAIN d.list \ {k0})
             ns == Restrict(d.ns, DOMAIN d.ns \ {k0})
  <2>1. Chain(d, name, type)[1] = head
    BY DEF Chain, At
  <2>2. /\ DOMAIN e = {"rr", "list", "ns", "any"} /\ e.rr = d.rr
        /\ e.list = list /\ e.ns = ns
        /\ e.any = [d.any EXCEPT ![name] =
                      LET at1 == CHOOSE i \in DOMAIN a : a[i] = head
                      IN RemoveAt(a, at1)]
    <3> HIDE DEF list, ns
    <3> QED BY <1>1, <1>2, <2>1 DEF Undef, list, ns
  <2> QED BY <1>2, <2>2 DEF Restrict
<1>8. its \in DOMAIN a /\ a[its] = head
  BY <1>5, <1>6
<1>9. \A i, j \in DOMAIN a : a[i] = a[j] => i = j
  BY <1>4
<1> HIDE DEF a, its, head, k0
<1>10. its = at
  BY <1>5, <1>6, <1>8, <1>9
<1>11. /\ IsSeq(e.any[name])
       /\ Range(e.any[name]) = Range(a) \ {head}
       /\ \A i, j \in DOMAIN e.any[name] :
            e.any[name][i] = e.any[name][j] => i = j
  BY <1>4, <1>7, <1>8, <1>9, RemovedIs
<1>12. \A h \in Range(a) : h # head <=> d.rr[h].type # type
  BY <1>4, <1>5, <1>6 DEF Range
<1> QED BY <1>2, <1>7, <1>11, <1>12 DEF a, k0

-----------------------------------------------------------------------------
(***************************************************************************)
(* What one more record does to the big hash.                              *)
(***************************************************************************)
\* No object changes, no chain goes away, and no authoritative object leaves
\* its chain.
Grows(d, e) ==
  /\ \A o \in DOMAIN d.rr :
       /\ o \in DOMAIN e.rr
       /\ e.rr[o].name = d.rr[o].name /\ e.rr[o].type = d.rr[o].type
       /\ e.rr[o].to = d.rr[o].to /\ e.rr[o].auth = d.rr[o].auth
  /\ \A k \in DOMAIN d.list :
       /\ k \in DOMAIN e.list
       /\ \A o \in Range(d.list[k]) : d.rr[o].auth => o \in Range(e.list[k])

LEMMA GrowsFurther ==
  ASSUME NEW d, NEW e, NEW f, DbOK(d), Grows(d, e), Grows(e, f)
  PROVE  Grows(d, f)
<1>1. ASSUME NEW o \in DOMAIN d.rr
      PROVE  /\ o \in DOMAIN f.rr
             /\ f.rr[o].name = d.rr[o].name /\ f.rr[o].type = d.rr[o].type
             /\ f.rr[o].to = d.rr[o].to /\ f.rr[o].auth = d.rr[o].auth
  BY DEF Grows
<1>2. ASSUME NEW k \in DOMAIN d.list, NEW o \in Range(d.list[k]), d.rr[o].auth
      PROVE  o \in Range(f.list[k])
  <2>1. o \in DOMAIN d.rr
    BY DEF DbOK, ChainOK
  <2>2. o \in Range(e.list[k]) /\ e.rr[o].auth /\ k \in DOMAIN e.list
    BY <1>2, <2>1 DEF Grows
  <2> QED BY <2>2 DEF Grows
<1>3. \A k \in DOMAIN d.list : k \in DOMAIN f.list
  BY DEF Grows
<1> QED BY <1>1, <1>2, <1>3 DEF Grows

\* The chain of an authoritative record has it.
Bears(d, r) ==
  \E o \in Range(Chain(d, r.name, r.type)) : d.rr[o].to = r.to /\ d.rr[o].auth

LEMMA ChainIs ==
  ASSUME NEW d, DbOK(d), NEW name, NEW type
  PROVE  /\ <<name, type>> \in DOMAIN d.list =>
              /\ Chain(d, name, type) = d.list[<<name, type>>]
              /\ Chain(d, name, type) # << >>
              /\ d.list[<<name, type>>][1] \in Range(d.list[<<name, type>>])
              /\ d.list[<<name, type>>][1] \in DOMAIN d.rr
         /\ <<name, type>> \notin DOMAIN d.list => Chain(d, name, type) = << >>
<1>1. <<name, type>> \notin DOMAIN d.list => Chain(d, name, type) = << >>
  BY DEF Chain, At
<1>2. ASSUME <<name, type>> \in DOMAIN d.list
      PROVE  /\ Chain(d, name, type) = d.list[<<name, type>>]
             /\ Chain(d, name, type) # << >>
             /\ d.list[<<name, type>>][1] \in Range(d.list[<<name, type>>])
             /\ d.list[<<name, type>>][1] \in DOMAIN d.rr
  <2> DEFINE c == d.list[<<name, type>>]
  <2>1. ChainOK(d, <<name, type>>)
    BY <1>2 DEF DbOK
  <2>2. IsSeq(c) /\ c # << >> /\ \A o \in Range(c) : o \in DOMAIN d.rr
    BY <2>1 DEF ChainOK
  <2>3. c[1] \in Range(c)
    <3> HIDE DEF c
    <3> QED BY <2>2, SeqRange DEF IsSeq
  <2> QED BY <1>2, <2>2, <2>3 DEF Chain, At
<1> QED BY <1>1, <1>2

LEMMA BearsStill ==
  ASSUME NEW d, NEW e, NEW r, DbOK(d), DbOK(e), Grows(d, e), Bears(d, r)
  PROVE  Bears(e, r)
<1> DEFINE k == <<r.name, r.type>>
<1>1. PICK o \in Range(Chain(d, r.name, r.type)) :
        d.rr[o].to = r.to /\ d.rr[o].auth
  BY DEF Bears
<1>2. k \in DOMAIN d.list /\ Chain(d, r.name, r.type) = d.list[k]
  <2>1. CASE k \notin DOMAIN d.list
    <3>1. o \in Range(<< >>)
      BY <1>1, <2>1, ChainIs
    <3> QED BY <3>1 DEF Range
  <2> QED BY <2>1, ChainIs
<1>3. o \in Range(d.list[k]) /\ o \in DOMAIN d.rr
  BY <1>1, <1>2 DEF DbOK, ChainOK
<1>4. k \in DOMAIN e.list /\ o \in Range(e.list[k])
      /\ e.rr[o].to = r.to /\ e.rr[o].auth
  BY <1>1, <1>2, <1>3 DEF Grows
<1>5. Chain(e, r.name, r.type) = e.list[k]
  BY <1>4, ChainIs
<1> QED BY <1>4, <1>5 DEF Bears

\* What the chain of a record that a zone has authority over is like.
LEMMA BearsAll ==
  ASSUME NEW d, NEW r, DbOK(d), Bears(d, r)
  PROVE  \A o \in Range(Chain(d, r.name, r.type)) : d.rr[o].auth
<1> DEFINE k == <<r.name, r.type>>
<1>1. PICK o \in Range(Chain(d, r.name, r.type)) : d.rr[o].auth
  BY DEF Bears
<1>2. k \in DOMAIN d.list /\ Chain(d, r.name, r.type) = d.list[k]
  <2>1. CASE k \notin DOMAIN d.list
    <3>1. o \in Range(<< >>)
      BY <1>1, <2>1, ChainIs
    <3> QED BY <3>1 DEF Range
  <2> QED BY <2>1, ChainIs
<1>3. ChainOK(d, k)
  BY <1>2 DEF DbOK
<1> QED BY <1>1, <1>2, <1>3 DEF ChainOK

\* One more record for the hash that was d and is e.
StepOK(d, e, z, r) ==
  /\ DbOK(e) /\ HeadsOK(e) /\ Grows(d, e)
  /\ \A y : Pointing(e, y) => Pointing(d, y) \/ (y = z /\ r.type # "NS")
  /\ \A o \in DOMAIN e.rr : o \notin DOMAIN d.rr =>
       e.rr[o] = NewObject(r, HasAuthority(z, r))
  /\ <<r.name, r.type>> \in DOMAIN e.list
  /\ HasAuthority(z, r) => Bears(e, r)

LEMMA UndefOK ==
  ASSUME NEW d, DbOK(d), HeadsOK(d), NEW name, NEW type,
         <<name, type>> \in DOMAIN d.list, NEW e, e = Undef(d, name, type),
         type = "NS" => ~ Pointing(d, name)
  PROVE  DbOK(e) /\ HeadsOK(e)
<1> DEFINE k0 == <<name, type>>
<1> USE UndefIs
<1>1. /\ DOMAIN e = {"rr", "list", "ns", "any"} /\ e.rr = d.rr
      /\ IsSeq(e.rr) /\ DOMAIN e.ns = DOMAIN e.list /\ Fielded(e)
  <2>1. IsSeq(d.rr) /\ DOMAIN d.ns = DOMAIN d.list /\ Fielded(d)
    BY DEF DbOK
  <2>2. /\ DOMAIN e = {"rr", "list", "ns", "any"} /\ e.rr = d.rr
        /\ DOMAIN e.list = DOMAIN d.list \ {k0}
        /\ DOMAIN e.ns = DOMAIN d.ns \ {k0}
    OBVIOUS
  <2> QED BY ONLY <2>1, <2>2 DEF Fielded
<1>2. ASSUME NEW k \in DOMAIN e.list
      PROVE  /\ ChainOK(e, k) /\ Listed(e, k) /\ PointerOK(e, k)
             /\ k \in DOMAIN d.list /\ k # k0
  <2>1. /\ k \in DOMAIN d.list /\ k # k0 /\ e.list[k] = d.list[k]
        /\ ChainOK(d, k) /\ Listed(d, k) /\ PointerOK(d, k)
    BY DEF DbOK
  <2>2. ChainOK(e, k)
    BY <1>1, <2>1 DEF ChainOK
  <2>3. Listed(e, k)
    <3>1. PICK h \in Range(d.any[k[1]]) : d.rr[h].type = k[2]
      BY <2>1 DEF Listed
    <3>2. h \in Range(e.any[k[1]])
      <4>1. CASE k[1] = name
        <5>1. k[2] # type
          BY <2>1, <4>1 DEF ChainOK
        <5> QED BY <3>1, <4>1, <5>1
      <4>2. CASE k[1] # name
        BY <2>1, <3>1, <4>2 DEF Listed
      <4> QED BY <4>1, <4>2
    <3> QED BY <1>1, <2>1, <3>1, <3>2 DEF Listed
  <2>4. PointerOK(e, k)
    <3> SUFFICES ASSUME e.ns[k] # 0
                 PROVE  PointerOK(e, k)
      BY DEF PointerOK
    <3> DEFINE p == d.ns[k]
    <3>1. e.ns[k] = p /\ p # 0 /\ k \in DOMAIN d.ns
      BY <1>1
    <3>2. /\ p \in DOMAIN d.rr
          /\ <<d.rr[p].name, "NS">> \in DOMAIN d.list
          /\ d.list[<<d.rr[p].name, "NS">>][1] = p
      BY <2>1, <3>1 DEF PointerOK
    <3>3. <<d.rr[p].name, "NS">> # k0
      <4>1. Pointing(d, d.rr[p].name)
        BY <3>1 DEF Pointing
      <4> QED BY <4>1
    <3> HIDE DEF p
    <3> QED BY <1>1, <3>1, <3>2, <3>3 DEF PointerOK
  <2> QED BY <2>1, <2>2, <2>3, <2>4
<1>3. ASSUME NEW n \in DOMAIN e.any
      PROVE  /\ AnyOK(e, n)
             /\ \A h \in Range(e.any[n]) : e.list[<<n, e.rr[h].type>>][1] = h
  <2>1. n \in DOMAIN d.any /\ AnyOK(d, n)
    BY DEF DbOK
  <2>2. \A h \in Range(d.any[n]) : d.list[<<n, d.rr[h].type>>][1] = h
    BY <2>1 DEF HeadsOK
  <2>3. IsSeq(e.any[n]) /\ Range(e.any[n]) \subseteq Range(d.any[n])
    BY <2>1 DEF AnyOK
  <2>4. ASSUME NEW h \in Range(e.any[n])
        PROVE  /\ h \in DOMAIN e.rr /\ e.rr[h].name = n
               /\ <<n, e.rr[h].type>> \in DOMAIN e.list
               /\ h \in Range(e.list[<<n, e.rr[h].type>>])
               /\ e.list[<<n, e.rr[h].type>>][1] = h
    <3>1. <<n, d.rr[h].type>> # k0
      BY <2>4
    <3>2. /\ h \in DOMAIN d.rr /\ d.rr[h].name = n
          /\ <<n, d.rr[h].type>> \in DOMAIN d.list
          /\ h \in Range(d.list[<<n, d.rr[h].type>>])
          /\ d.list[<<n, d.rr[h].type>>][1] = h
      BY <2>1, <2>2, <2>3, <2>4 DEF AnyOK
    <3> QED BY <1>1, <3>1, <3>2
  <2>5. ASSUME NEW i \in DOMAIN e.any[n], NEW j \in DOMAIN e.any[n],
               e.rr[e.any[n][i]].type = e.rr[e.any[n][j]].type
        PROVE  i = j
    <3>1. CASE n # name
      BY <1>1, <2>1, <2>5, <3>1 DEF AnyOK
    <3>2. CASE n = name
      <4>1. e.any[n][i] \in Range(d.any[n]) /\ e.any[n][j] \in Range(d.any[n])
        BY <2>3 DEF Range
      <4>2. e.any[n][i] = e.any[n][j]
        <5>1. PICK x \in DOMAIN d.any[n] : d.any[n][x] = e.any[n][i]
          BY <4>1 DEF Range
        <5>2. PICK y \in DOMAIN d.any[n] : d.any[n][y] = e.any[n][j]
          BY <4>1 DEF Range
        <5>3. x = y
          BY <1>1, <2>1, <2>5, <5>1, <5>2 DEF AnyOK
        <5> QED BY <5>1, <5>2, <5>3
      <4> QED BY <3>2, <4>2
    <3> QED BY <3>1, <3>2
  <2> QED BY <2>3, <2>4, <2>5 DEF AnyOK
<1> QED BY <1>1, <1>2, <1>3 DEF DbOK, HeadsOK

LEMMA PutOK ==
  ASSUME NEW d, DbOK(d), HeadsOK(d), NEW zone, NEW r, NEW auth \in BOOLEAN,
         <<r.name, r.type>> \notin DOMAIN d.list,
         NEW e, e = Put(d, zone, r, auth)
  PROVE  /\ DbOK(e) /\ HeadsOK(e)
         /\ OneMore(d, e, r, auth)
         /\ Updated(e.list, d.list, <<r.name, r.type>>, <<NewId(d)>>)
         /\ \A y : Pointing(e, y) =>
                     Pointing(d, y) \/ (y = zone /\ r.type # "NS")
<1> DEFINE k0 == <<r.name, r.type>>
           id == NewId(d)
           zoneNs == Chain(d, zone, "NS")
           p == IF r.type = "NS" \/ zoneNs = << >> THEN 0 ELSE zoneNs[1]
           old == At(d.any, r.name)
<1>1. IsSeq(d.rr) /\ DOMAIN d.ns = DOMAIN d.list
  BY DEF DbOK
<1>2. /\ OneMore(d, e, r, auth)
      /\ Updated(e.list, d.list, k0, <<id>>)
      /\ Updated(e.ns, d.ns, k0, p)
      /\ Updated(e.any, d.any, r.name, Append(old, id))
  BY <1>1, PutIs
<1>3. /\ DOMAIN e = {"rr", "list", "ns", "any"} /\ IsSeq(e.rr)
      /\ DOMAIN e.rr = DOMAIN d.rr \union {id}
      /\ id \notin DOMAIN d.rr /\ id # 0
      /\ \A o \in DOMAIN d.rr : e.rr[o] = d.rr[o]
      /\ e.rr[id] = NewObject(r, auth)
  BY <1>2 DEF OneMore
<1>4. /\ DOMAIN e.list = DOMAIN d.list \union {k0} /\ e.list[k0] = <<id>>
      /\ \A k \in DOMAIN d.list : e.list[k] = d.list[k]
      /\ DOMAIN e.ns = DOMAIN e.list /\ e.ns[k0] = p
      /\ \A k \in DOMAIN d.list : e.ns[k] = d.ns[k]
  BY <1>1, <1>2 DEF Updated
<1>5. /\ DOMAIN e.any = DOMAIN d.any \union {r.name}
      /\ e.any[r.name] = Append(old, id)
      /\ \A n \in DOMAIN d.any : n # r.name => e.any[n] = d.any[n]
  BY <1>2 DEF Updated
<1>6. /\ IsSeq(old) /\ DOMAIN old = 1..Len(old) /\ Len(old) \in Nat
      /\ \A h \in Range(old) :
           /\ h \in DOMAIN d.rr /\ d.rr[h].name = r.name
           /\ <<r.name, d.rr[h].type>> \in DOMAIN d.list
           /\ h \in Range(d.list[<<r.name, d.rr[h].type>>])
           /\ d.list[<<r.name, d.rr[h].type>>][1] = h
      /\ \A i, j \in DOMAIN old :
           d.rr[old[i]].type = d.rr[old[j]].type => i = j
      /\ r.name \in DOMAIN d.any => old = d.any[r.name]
  <2>1. CASE r.name \in DOMAIN d.any
    <3>1. old = d.any[r.name] /\ AnyOK(d, r.name)
      BY <2>1 DEF At, DbOK
    <3>2. \A h \in Range(d.any[r.name]) :
            d.list[<<r.name, d.rr[h].type>>][1] = h
      BY <2>1 DEF HeadsOK
    <3>3. DOMAIN old = 1..Len(old) /\ Len(old) \in Nat
      BY <3>1, SeqRange DEF AnyOK, IsSeq
    <3> QED BY <3>1, <3>2, <3>3 DEF AnyOK
  <2>2. CASE r.name \notin DOMAIN d.any
    <3>1. old = << >>
      BY <2>2 DEF At
    <3> QED BY <2>2, <3>1, EmptyIs
  <2> QED BY <2>1, <2>2
<1>7. /\ IsSeq(e.any[r.name])
      /\ Range(e.any[r.name]) = Range(old) \union {id}
      /\ DOMAIN e.any[r.name] = 1..(Len(old) + 1)
      /\ \A i \in 1..Len(old) : e.any[r.name][i] = old[i]
      /\ e.any[r.name][Len(old) + 1] = id
  <2> DEFINE t == Append(old, id)
  <2>1. /\ IsSeq(t) /\ Len(t) = Len(old) + 1
        /\ \A i \in 1..Len(old) : t[i] = old[i]
        /\ t[Len(old) + 1] = id /\ Range(t) = Range(old) \union {id}
    BY <1>6, AppendIs
  <2> HIDE DEF t, old, id
  <2>2. DOMAIN t = 1..(Len(old) + 1)
    BY <2>1, SeqRange DEF IsSeq
  <2> QED BY <1>5, <2>1, <2>2 DEF t
<1>8. /\ e.rr[id].name = r.name /\ e.rr[id].type = r.type
      /\ e.rr[id].auth = auth
  BY <1>3 DEF NewObject
<1> HIDE DEF id, old
<1>9. ASSUME NEW k \in DOMAIN d.list
      PROVE  /\ k # k0 /\ ChainOK(d, k) /\ Listed(d, k) /\ PointerOK(d, k)
             /\ ChainOK(e, k) /\ Listed(e, k) /\ PointerOK(e, k)
  <2>1. /\ k # k0 /\ ChainOK(d, k) /\ Listed(d, k) /\ PointerOK(d, k)
        /\ e.list[k] = d.list[k] /\ e.ns[k] = d.ns[k]
    BY <1>4 DEF DbOK
  <2>2. ChainOK(e, k)
    <3>1. d.list[k][1] \in DOMAIN d.rr
      BY <2>1, SeqRange DEF ChainOK, IsSeq
    <3> QED BY <1>3, <2>1, <3>1 DEF ChainOK
  <2>3. Listed(e, k)
    <3>1. PICK h \in Range(d.any[k[1]]) : d.rr[h].type = k[2]
      BY <2>1 DEF Listed
    <3>2. k[1] \in DOMAIN d.any /\ AnyOK(d, k[1])
      BY <2>1 DEF Listed, DbOK
    <3>3. h \in DOMAIN d.rr
      BY <3>1, <3>2 DEF AnyOK
    <3>4. h \in Range(e.any[k[1]])
      <4>1. CASE k[1] = r.name
        BY <1>6, <1>7, <3>1, <3>2, <4>1
      <4>2. CASE k[1] # r.name
        BY <1>5, <3>1, <3>2, <4>2
      <4> QED BY <4>1, <4>2
    <3> QED BY <1>3, <1>5, <3>1, <3>2, <3>3, <3>4 DEF Listed
  <2>4. PointerOK(e, k)
    <3> HIDE DEF k0
    <3> QED BY <1>3, <1>4, <2>1 DEF PointerOK
  <2> QED BY <2>1, <2>2, <2>3, <2>4
<1>10. p # 0 => /\ r.type # "NS" /\ p \in DOMAIN d.rr /\ d.rr[p].name = zone
                /\ <<zone, "NS">> \in DOMAIN d.list
                /\ d.list[<<zone, "NS">>][1] = p
  <2> SUFFICES ASSUME p # 0
               PROVE  /\ r.type # "NS" /\ p \in DOMAIN d.rr
                      /\ d.rr[p].name = zone
                      /\ <<zone, "NS">> \in DOMAIN d.list
                      /\ d.list[<<zone, "NS">>][1] = p
    OBVIOUS
  <2>1. r.type # "NS" /\ zoneNs # << >> /\ p = zoneNs[1]
    OBVIOUS
  <2> HIDE DEF p
  <2>2. <<zone, "NS">> \in DOMAIN d.list /\ zoneNs = d.list[<<zone, "NS">>]
        /\ p \in Range(d.list[<<zone, "NS">>])
    BY <2>1, ChainIs
  <2>3. ChainOK(d, <<zone, "NS">>)
    BY <2>2 DEF DbOK
  <2> QED BY <2>1, <2>2, <2>3 DEF ChainOK
<1> HIDE DEF p
<1>11. ChainOK(e, k0) /\ Listed(e, k0) /\ PointerOK(e, k0)
  <2>1. k0[1] = r.name /\ k0[2] = r.type /\ k0 = <<k0[1], k0[2]>>
    OBVIOUS
  <2>2. IsSeq(<<id>>) /\ Len(<<id>>) = 1 /\ <<id>>[1] = id
        /\ Range(<<id>>) = {id}
    BY OneIs
  <2>3. <<id>> # << >>
    OBVIOUS
  <2> HIDE DEF k0
  <2>4. ChainOK(e, k0)
    BY <1>3, <1>4, <1>8, <2>1, <2>2, <2>3 DEF ChainOK
  <2>5. Listed(e, k0)
    BY <1>5, <1>7, <1>8, <2>1 DEF Listed
  <2>6. PointerOK(e, k0)
    BY <1>3, <1>4, <1>10 DEF PointerOK
  <2> QED BY <2>4, <2>5, <2>6
<1>12. ASSUME NEW n \in DOMAIN e.any
       PROVE  /\ AnyOK(e, n)
              /\ \A h \in Range(e.any[n]) : e.list[<<n, e.rr[h].type>>][1] = h
  <2>1. CASE n # r.name
    <3>1. n \in DOMAIN d.any /\ AnyOK(d, n) /\ e.any[n] = d.any[n]
          /\ \A h \in Range(d.any[n]) : d.list[<<n, d.rr[h].type>>][1] = h
      BY <1>5, <2>1 DEF DbOK, HeadsOK
    <3> HIDE DEF k0
    <3>2. \A h \in Range(e.any[n]) :
            /\ h \in DOMAIN d.rr /\ e.rr[h] = d.rr[h] /\ d.rr[h].name = n
            /\ <<n, d.rr[h].type>> \in DOMAIN d.list
            /\ h \in Range(d.list[<<n, d.rr[h].type>>])
      BY <1>3, <3>1 DEF AnyOK
    <3>3. ASSUME NEW h \in Range(e.any[n])
          PROVE  /\ h \in DOMAIN e.rr /\ e.rr[h].name = n
                 /\ <<n, e.rr[h].type>> \in DOMAIN e.list
                 /\ h \in Range(e.list[<<n, e.rr[h].type>>])
                 /\ e.list[<<n, e.rr[h].type>>][1] = h
      <4> DEFINE k == <<n, d.rr[h].type>>
      <4>1. /\ h \in DOMAIN d.rr /\ e.rr[h] = d.rr[h] /\ d.rr[h].name = n
            /\ k \in DOMAIN d.list /\ h \in Range(d.list[k])
            /\ d.list[k][1] = h
        BY <3>1, <3>2
      <4>2. h \in DOMAIN e.rr
        BY <1>3, <4>1
      <4>3. <<n, e.rr[h].type>> = k
        BY <4>1
      <4> HIDE DEF k
      <4>4. k \in DOMAIN e.list /\ e.list[k] = d.list[k]
        BY <1>4, <4>1
      <4> QED BY <4>1, <4>2, <4>3, <4>4
    <3>4. \A i, j \in DOMAIN e.any[n] :
            e.rr[e.any[n][i]].type = e.rr[e.any[n][j]].type => i = j
      <4>1. \A i \in DOMAIN e.any[n] : e.rr[e.any[n][i]] = d.rr[e.any[n][i]]
        BY <3>2 DEF Range
      <4> QED BY <3>1, <4>1 DEF AnyOK
    <3> QED BY <3>1, <3>3, <3>4 DEF AnyOK
  <2>2. CASE n = r.name
    <3> HIDE DEF k0
    <3>1. ASSUME NEW h \in Range(old)
          PROVE  /\ h \in DOMAIN e.rr /\ e.rr[h] = d.rr[h] /\ e.rr[h].name = n
                 /\ e.rr[h].type # r.type
                 /\ <<n, e.rr[h].type>> \in DOMAIN e.list
                 /\ h \in Range(e.list[<<n, e.rr[h].type>>])
                 /\ e.list[<<n, e.rr[h].type>>][1] = h
      <4> DEFINE k == <<n, d.rr[h].type>>
      <4>1. /\ h \in DOMAIN d.rr /\ d.rr[h].name = n
            /\ k \in DOMAIN d.list /\ h \in Range(d.list[k])
            /\ d.list[k][1] = h
        BY <1>6, <2>2
      <4>2. h \in DOMAIN e.rr /\ e.rr[h] = d.rr[h]
        BY <1>3, <4>1
      <4>3. <<n, e.rr[h].type>> = k
        BY <4>2
      <4>4. e.rr[h].type # r.type
        BY <2>2, <4>1, <4>2 DEF k0
      <4> HIDE DEF k
      <4>5. k \in DOMAIN e.list /\ e.list[k] = d.list[k]
        BY <1>4, <4>1
      <4> QED BY <4>1, <4>2, <4>3, <4>4, <4>5
    <3>2. /\ id \in DOMAIN e.rr /\ e.rr[id].name = n
          /\ <<n, e.rr[id].type>> \in DOMAIN e.list
          /\ id \in Range(e.list[<<n, e.rr[id].type>>])
          /\ e.list[<<n, e.rr[id].type>>][1] = id
      <4>1. <<id>>[1] = id /\ Range(<<id>>) = {id}
        BY OneIs
      <4> QED BY <1>3, <1>4, <1>8, <2>2, <4>1 DEF k0
    <3>3. \A h \in Range(e.any[n]) :
            /\ h \in DOMAIN e.rr /\ e.rr[h].name = n
            /\ <<n, e.rr[h].type>> \in DOMAIN e.list
            /\ h \in Range(e.list[<<n, e.rr[h].type>>])
            /\ e.list[<<n, e.rr[h].type>>][1] = h
      BY <1>7, <2>2, <3>1, <3>2
    <3>4. ASSUME NEW i \in DOMAIN e.any[n], NEW j \in DOMAIN e.any[n],
                 e.rr[e.any[n][i]].type = e.rr[e.any[n][j]].type
          PROVE  i = j
      <4> DEFINE m == Len(old)
      <4>1. m \in Nat /\ i \in 1..(m + 1) /\ j \in 1..(m + 1)
        BY <1>6, <1>7, <2>2
      <4>2. \A x \in 1..m : /\ e.any[n][x] = old[x] /\ old[x] \in Range(old)
                            /\ e.rr[old[x]] = d.rr[old[x]]
                            /\ e.rr[old[x]].type # r.type
        <5>1. \A x \in 1..m : old[x] \in Range(old)
          BY <1>6 DEF Range
        <5> QED BY <1>7, <2>2, <3>1, <5>1
      <4>3. e.any[n][m + 1] = id /\ e.rr[id].type = r.type
        BY <1>7, <1>8, <2>2
      <4>4. \A x, y \in 1..m : d.rr[old[x]].type = d.rr[old[y]].type => x = y
        BY <1>6
      <4> HIDE DEF m
      <4>5. CASE i \in 1..m /\ j \in 1..m
        BY <3>4, <4>2, <4>4, <4>5
      <4>6. CASE i = m + 1
        <5>1. j \notin 1..m
          BY <3>4, <4>2, <4>3, <4>6
        <5> QED BY <4>1, <4>6, <5>1
      <4>7. CASE j = m + 1
        <5>1. i \notin 1..m
          BY <3>4, <4>2, <4>3, <4>7
        <5> QED BY <4>1, <4>7, <5>1
      <4> QED BY <4>1, <4>5, <4>6, <4>7
    <3> QED BY <1>7, <2>2, <3>3, <3>4 DEF AnyOK
  <2> QED BY <2>1, <2>2
<1>13. ASSUME NEW y, Pointing(e, y)
       PROVE  Pointing(d, y) \/ (y = zone /\ r.type # "NS")
  <2>1. PICK k \in DOMAIN e.ns : e.ns[k] # 0 /\ e.rr[e.ns[k]].name = y
    BY <1>13 DEF Pointing
  <2>2. CASE k \in DOMAIN d.list
    <3>1. d.ns[k] # 0 /\ e.ns[k] = d.ns[k] /\ k \in DOMAIN d.ns
      BY <1>1, <1>4, <2>1, <2>2
    <3>2. d.ns[k] \in DOMAIN d.rr
      BY <1>9, <2>2, <3>1 DEF PointerOK
    <3> QED BY <1>3, <2>1, <3>1, <3>2 DEF Pointing
  <2>3. CASE k = k0
    BY <1>3, <1>4, <1>10, <2>1, <2>3
  <2> QED BY <1>4, <2>1, <2>2, <2>3
<1>14. DbOK(e) /\ HeadsOK(e)
  <2>1. \A k \in DOMAIN e.list : ChainOK(e, k) /\ Listed(e, k) /\ PointerOK(e, k)
    BY <1>4, <1>9, <1>11
  <2>2. Fielded(e)
    BY <1>2, OneMoreFielded DEF DbOK
  <2>3. DbOK(e)
    BY <1>3, <1>4, <1>12, <2>1, <2>2 DEF DbOK
  <2> QED BY <1>12, <2>3 DEF HeadsOK
<1> QED BY <1>2, <1>13, <1>14 DEF k0, id

LEMMA AddRrOK ==
  ASSUME NEW d, DbOK(d), HeadsOK(d), NEW r, NEW auth,
         <<r.name, r.type>> \in DOMAIN d.list,
         d.rr[d.list[<<r.name, r.type>>][1]].auth = auth,
         NEW e, e = AddRr(d, r, auth)
  PROVE  /\ DbOK(e) /\ HeadsOK(e) /\ Grows(d, e)
         /\ OneMore(d, e, r, auth)
         /\ NewId(d) \in Range(e.list[<<r.name, r.type>>])
         /\ DOMAIN e.list = DOMAIN d.list
         /\ \A y : Pointing(e, y) => Pointing(d, y)
<1> DEFINE k0 == <<r.name, r.type>>
           id == NewId(d)
<1>1. /\ OneMore(d, e, r, auth) /\ e.ns = d.ns /\ e.any = d.any
      /\ DOMAIN e.list = DOMAIN d.list
      /\ \A k \in DOMAIN d.list : k # k0 => e.list[k] = d.list[k]
      /\ IsSeq(e.list[k0]) /\ e.list[k0] # << >>
      /\ Range(e.list[k0]) = Range(d.list[k0]) \union {id}
      /\ e.list[k0][1] = d.list[k0][1]
  <2>1. OneMore(d, e, r, auth) /\ Longer(d, e, k0)
    BY AddRrIs
  <2> QED BY <2>1 DEF Longer
<1>2. /\ DOMAIN e = {"rr", "list", "ns", "any"} /\ IsSeq(e.rr)
      /\ DOMAIN e.rr = DOMAIN d.rr \union {id}
      /\ id \notin DOMAIN d.rr /\ id # 0
      /\ \A o \in DOMAIN d.rr : e.rr[o] = d.rr[o]
      /\ e.rr[id].name = r.name /\ e.rr[id].type = r.type
      /\ e.rr[id].auth = auth
  BY <1>1 DEF OneMore, NewObject
<1> HIDE DEF id
<1>3. ASSUME NEW k \in DOMAIN d.list
      PROVE  /\ ChainOK(e, k) /\ Listed(e, k) /\ PointerOK(e, k)
             /\ Range(d.list[k]) \subseteq Range(e.list[k])
             /\ e.list[k][1] = d.list[k][1]
  <2>1. ChainOK(d, k) /\ Listed(d, k) /\ PointerOK(d, k)
    BY DEF DbOK
  <2>2. d.list[k][1] \in DOMAIN d.rr
    BY <2>1, SeqRange DEF ChainOK, IsSeq
  <2>3. Range(d.list[k]) \subseteq Range(e.list[k])
        /\ e.list[k][1] = d.list[k][1]
    BY <1>1
  <2>4. ChainOK(e, k)
    <3>1. CASE k # k0
      BY <1>1, <1>2, <2>1, <2>2, <3>1 DEF ChainOK
    <3>2. CASE k = k0
      <4>1. k[1] = r.name /\ k[2] = r.type
        BY <3>2
      <4>2. d.rr[d.list[k][1]].auth = auth
        BY <3>2
      <4>3. d.rr[d.list[k][1]].auth \in BOOLEAN
        BY <2>1, SeqRange DEF ChainOK, IsSeq
      <4> HIDE DEF k0
      <4> QED BY <1>1, <1>2, <2>1, <2>2, <2>3, <3>2, <4>1, <4>2, <4>3 DEF ChainOK
    <3> QED BY <3>1, <3>2
  <2>5. Listed(e, k)
    <3>1. PICK h \in Range(d.any[k[1]]) : d.rr[h].type = k[2]
      BY <2>1 DEF Listed
    <3>2. h \in DOMAIN d.rr /\ k[1] \in DOMAIN d.any
      BY <2>1, <3>1 DEF Listed, DbOK, AnyOK
    <3> QED BY <1>1, <1>2, <3>1, <3>2 DEF Listed
  <2>6. PointerOK(e, k)
    <3> SUFFICES ASSUME d.ns[k] # 0 PROVE PointerOK(e, k)
      BY <1>1 DEF PointerOK
    <3> DEFINE p == d.ns[k]
               q == <<d.rr[p].name, "NS">>
    <3>1. p \in DOMAIN d.rr /\ q \in DOMAIN d.list /\ d.list[q][1] = p
      BY <2>1 DEF PointerOK
    <3>2. q \in DOMAIN e.list /\ e.list[q][1] = p
      <4> HIDE DEF k0, q
      <4> QED BY <1>1, <3>1
    <3>3. e.rr[p] = d.rr[p] /\ p \in DOMAIN e.rr /\ e.ns[k] = p
      BY <1>1, <1>2, <3>1
    <3> QED BY <3>2, <3>3 DEF PointerOK
  <2> QED BY <2>3, <2>4, <2>5, <2>6
<1>4. ASSUME NEW n \in DOMAIN d.any
      PROVE  /\ AnyOK(e, n)
             /\ \A h \in Range(e.any[n]) : e.list[<<n, e.rr[h].type>>][1] = h
  <2>1. AnyOK(d, n) /\ e.any[n] = d.any[n]
        /\ \A h \in Range(d.any[n]) : d.list[<<n, d.rr[h].type>>][1] = h
    BY <1>1 DEF DbOK, HeadsOK
  <2>2. ASSUME NEW h \in Range(d.any[n])
        PROVE  /\ h \in DOMAIN e.rr /\ e.rr[h].name = n
               /\ e.rr[h] = d.rr[h]
               /\ <<n, e.rr[h].type>> \in DOMAIN e.list
               /\ h \in Range(e.list[<<n, e.rr[h].type>>])
               /\ e.list[<<n, e.rr[h].type>>][1] = h
    <3> DEFINE k == <<n, d.rr[h].type>>
    <3>1. /\ h \in DOMAIN d.rr /\ d.rr[h].name = n
          /\ k \in DOMAIN d.list /\ h \in Range(d.list[k])
          /\ d.list[k][1] = h
      BY <2>1 DEF AnyOK
    <3>2. h \in DOMAIN e.rr /\ e.rr[h] = d.rr[h]
      BY <1>2, <3>1
    <3>3. <<n, e.rr[h].type>> = k
      BY <3>2
    <3> HIDE DEF k
    <3>4. k \in DOMAIN e.list /\ e.list[k][1] = h /\ h \in Range(e.list[k])
      BY <1>1, <1>3, <3>1
    <3> QED BY <3>1, <3>2, <3>3, <3>4
  <2>3. \A i \in DOMAIN d.any[n] : e.rr[d.any[n][i]] = d.rr[d.any[n][i]]
    BY <2>2 DEF Range
  <2> QED BY <2>1, <2>2, <2>3 DEF AnyOK
<1>5. DbOK(e) /\ HeadsOK(e)
  <2>1. Fielded(e)
    BY <1>1, OneMoreFielded DEF DbOK
  <2>2. DbOK(e)
    BY <1>1, <1>2, <1>3, <1>4, <2>1 DEF DbOK
  <2> QED BY <1>1, <1>4, <2>2 DEF HeadsOK
<1>6. Grows(d, e)
  BY <1>1, <1>2, <1>3 DEF Grows
<1>7. ASSUME NEW y, Pointing(e, y) PROVE Pointing(d, y)
  <2>1. PICK k \in DOMAIN d.ns : d.ns[k] # 0 /\ e.rr[d.ns[k]].name = y
    BY <1>1, <1>7 DEF Pointing
  <2>2. d.ns[k] \in DOMAIN d.rr
    BY <2>1 DEF DbOK, PointerOK
  <2> QED BY <1>2, <2>1, <2>2 DEF Pointing
<1> QED BY <1>1, <1>5, <1>6, <1>7 DEF id

\* One record of a zone: authoritative data replaces glue, which adds to no
\* chain that has authority.
LEMMA AddRrToBighashOK ==
  ASSUME NEW d, DbOK(d), HeadsOK(d), NEW z, NEW r,
         r.type = "NS" /\ r.name = z => ~ Pointing(d, z),
         NEW e, e = AddRrToBighash(d, z, r)
  PROVE  StepOK(d, e, z, r)
<1> DEFINE k0 == <<r.name, r.type>>
           chain == Chain(d, r.name, r.type)
           auth == HasAuthority(z, r)
           id == NewId(d)
<1>1. auth \in BOOLEAN
  BY DEF HasAuthority
<1>2. /\ k0 \in DOMAIN d.list => chain = d.list[k0] /\ chain # << >>
                                 /\ chain[1] \in Range(chain)
                                 /\ chain[1] \in DOMAIN d.rr
      /\ k0 \notin DOMAIN d.list => chain = << >>
  BY ChainIs
<1>3. k0 \in DOMAIN d.list => ChainOK(d, k0)
  BY DEF DbOK
<1>4. k0 \in DOMAIN d.list => d.rr[chain[1]].auth \in BOOLEAN
  BY <1>2, <1>3 DEF ChainOK
<1>5. ASSUME DbOK(e), OneMore(d, e, r, auth), k0 \in DOMAIN e.list,
             id \in Range(e.list[k0])
      PROVE  /\ \A o \in DOMAIN e.rr : o \notin DOMAIN d.rr =>
                  e.rr[o] = NewObject(r, HasAuthority(z, r))
             /\ HasAuthority(z, r) => Bears(e, r)
  <2>1. /\ DOMAIN e.rr = DOMAIN d.rr \union {id}
        /\ e.rr[id] = NewObject(r, auth)
    BY <1>5 DEF OneMore
  <2>2. e.rr[id].to = r.to /\ e.rr[id].auth = auth
    BY <2>1 DEF NewObject
  <2>3. Chain(e, r.name, r.type) = e.list[k0]
    BY <1>5, ChainIs
  <2> QED BY <1>5, <2>1, <2>2, <2>3 DEF Bears
<1> HIDE DEF chain, auth
<1>6. CASE k0 \notin DOMAIN d.list
  <2>1. e = Put(d, z, r, auth)
    BY <1>2, <1>6 DEF AddRrToBighash, chain, auth
  <2>2. /\ DbOK(e) /\ HeadsOK(e) /\ OneMore(d, e, r, auth)
        /\ Updated(e.list, d.list, k0, <<id>>)
        /\ \A y : Pointing(e, y) => Pointing(d, y) \/ (y = z /\ r.type # "NS")
    BY <1>1, <1>6, <2>1, PutOK
  <2>3. /\ k0 \in DOMAIN e.list /\ id \in Range(e.list[k0])
        /\ \A k \in DOMAIN d.list : k \in DOMAIN e.list /\ e.list[k] = d.list[k]
    BY <1>6, <2>2, OneIs DEF Updated
  <2>4. Grows(d, e)
    <3> HIDE DEF k0
    <3> QED BY <2>2, <2>3 DEF Grows, OneMore
  <2> QED BY <1>5, <2>2, <2>3, <2>4 DEF StepOK
<1>7. CASE k0 \in DOMAIN d.list /\ d.rr[chain[1]].auth = auth
  <2>1. e = AddRr(d, r, auth)
    BY <1>2, <1>7 DEF AddRrToBighash, chain, auth
  <2>2. /\ DbOK(e) /\ HeadsOK(e) /\ Grows(d, e) /\ OneMore(d, e, r, auth)
        /\ id \in Range(e.list[k0]) /\ DOMAIN e.list = DOMAIN d.list
        /\ \A y : Pointing(e, y) => Pointing(d, y)
    BY <1>2, <1>7, <2>1, AddRrOK
  <2> QED BY <1>5, <1>7, <2>2 DEF StepOK
<1>8. CASE k0 \in DOMAIN d.list /\ ~ d.rr[chain[1]].auth /\ auth
  <2> DEFINE u == Undef(d, r.name, r.type)
  <2>1. e = Put(u, z, r, auth)
    BY <1>2, <1>4, <1>8 DEF AddRrToBighash, chain, auth
  <2>2. r.type = "NS" => r.name = z
    BY <1>8 DEF auth, HasAuthority
  <2>3. /\ u.rr = d.rr /\ DOMAIN u.list = DOMAIN d.list \ {k0}
        /\ \A k \in DOMAIN u.list : u.list[k] = d.list[k]
        /\ DOMAIN u.ns = DOMAIN d.ns \ {k0}
        /\ \A k \in DOMAIN u.ns : u.ns[k] = d.ns[k]
    BY <1>8, UndefIs
  <2>4. DbOK(u) /\ HeadsOK(u)
    BY <1>8, <2>2, UndefOK
  <2> HIDE DEF u
  <2>5. /\ DbOK(e) /\ HeadsOK(e) /\ OneMore(u, e, r, auth)
        /\ Updated(e.list, u.list, k0, <<NewId(u)>>)
        /\ \A y : Pointing(e, y) => Pointing(u, y) \/ (y = z /\ r.type # "NS")
    <3>1. k0 \notin DOMAIN u.list
      BY <2>3
    <3> QED BY <1>1, <2>1, <2>4, <3>1, PutOK
  <2>6. OneMore(d, e, r, auth) /\ NewId(u) = id
    BY <2>3, <2>5 DEF OneMore, NewId
  <2>7. \A y : Pointing(u, y) => Pointing(d, y)
    BY <2>3 DEF Pointing
  <2>8. /\ DOMAIN e.list = DOMAIN u.list \union {k0} /\ e.list[k0] = <<id>>
        /\ \A k \in DOMAIN u.list : k # k0 => e.list[k] = u.list[k]
    BY <2>5, <2>6 DEF Updated
  <2>9. k0 \in DOMAIN e.list /\ id \in Range(e.list[k0])
    BY <2>8, OneIs
  <2>10. Grows(d, e)
    <3>1. ASSUME NEW o \in Range(d.list[k0]) PROVE ~ d.rr[o].auth
      BY <1>2, <1>3, <1>8 DEF ChainOK
    <3> HIDE DEF k0
    <3>2. ASSUME NEW k \in DOMAIN d.list
          PROVE  /\ k \in DOMAIN e.list
                 /\ \A o \in Range(d.list[k]) :
                      d.rr[o].auth => o \in Range(e.list[k])
      <4>1. CASE k = k0
        BY <2>8, <3>1, <4>1
      <4>2. CASE k # k0
        BY <2>3, <2>8, <4>2
      <4> QED BY <4>1, <4>2
    <3> QED BY <2>6, <3>2 DEF Grows, OneMore
  <2> QED BY <1>5, <2>5, <2>6, <2>7, <2>9, <2>10 DEF StepOK
<1>9. CASE /\ k0 \in DOMAIN d.list
           /\ d.rr[chain[1]].auth # auth /\ ~ (~ d.rr[chain[1]].auth /\ auth)
  <2>1. e = d
    BY <1>2, <1>9 DEF AddRrToBighash, chain, auth
  <2>2. ~ auth
    BY <1>1, <1>4, <1>9
  <2>3. Grows(d, d)
    BY DEF Grows
  <2> QED BY <1>9, <2>1, <2>2, <2>3 DEF StepOK, auth
<1> QED BY <1>6, <1>7, <1>8, <1>9

\* The records of a set, one after the other.
StepsOK(d, e, z, S) ==
  /\ DbOK(e) /\ HeadsOK(e) /\ Grows(d, e)
  /\ \A y : Pointing(e, y) =>
              Pointing(d, y) \/ (y = z /\ \E r \in S : r.type # "NS")
  /\ \A o \in DOMAIN e.rr : o \notin DOMAIN d.rr =>
       \E r \in S : /\ e.rr[o].name = r.name /\ e.rr[o].type = r.type
                    /\ e.rr[o].auth = HasAuthority(z, r)
  /\ \A r \in S : /\ <<r.name, r.type>> \in DOMAIN e.list
                  /\ HasAuthority(z, r) => Bears(e, r)

LEMMA NoStep ==
  ASSUME NEW d, DbOK(d), HeadsOK(d), NEW z
  PROVE  StepsOK(d, d, z, {})
BY DEF StepsOK, Grows

LEMMA OneStep ==
  ASSUME NEW d, NEW e, NEW z, NEW r, StepOK(d, e, z, r)
  PROVE  StepsOK(d, e, z, {r})
BY DEF StepOK, StepsOK, NewObject

LEMMA MoreSteps ==
  ASSUME NEW d, NEW e, NEW f, NEW z, NEW S, NEW T, DbOK(d),
         StepsOK(d, e, z, S), StepsOK(e, f, z, T)
  PROVE  StepsOK(d, f, z, S \union T)
<1>1. DbOK(e) /\ DbOK(f) /\ HeadsOK(f) /\ Grows(d, e) /\ Grows(e, f)
  BY DEF StepsOK
<1>2. Grows(d, f)
  BY <1>1, GrowsFurther
<1>3. ASSUME NEW y, Pointing(f, y)
      PROVE  Pointing(d, y) \/ (y = z /\ \E r \in S \union T : r.type # "NS")
  BY <1>3 DEF StepsOK
<1>4. ASSUME NEW o \in DOMAIN f.rr, o \notin DOMAIN d.rr
      PROVE  \E r \in S \union T :
               /\ f.rr[o].name = r.name /\ f.rr[o].type = r.type
               /\ f.rr[o].auth = HasAuthority(z, r)
  <2>1. CASE o \in DOMAIN e.rr
    <3>1. PICK r \in S : /\ e.rr[o].name = r.name /\ e.rr[o].type = r.type
                         /\ e.rr[o].auth = HasAuthority(z, r)
      BY <1>4, <2>1 DEF StepsOK
    <3>2. /\ f.rr[o].name = e.rr[o].name /\ f.rr[o].type = e.rr[o].type
          /\ f.rr[o].auth = e.rr[o].auth
      BY <1>1, <2>1 DEF Grows
    <3> QED BY <3>1, <3>2
  <2>2. CASE o \notin DOMAIN e.rr
    <3>1. PICK r \in T : /\ f.rr[o].name = r.name /\ f.rr[o].type = r.type
                         /\ f.rr[o].auth = HasAuthority(z, r)
      BY <2>2 DEF StepsOK
    <3> QED BY <3>1
  <2> QED BY <2>1, <2>2
<1>5. ASSUME NEW r \in S \union T
      PROVE  /\ <<r.name, r.type>> \in DOMAIN f.list
             /\ HasAuthority(z, r) => Bears(f, r)
  <2>1. CASE r \in T
    BY <2>1 DEF StepsOK
  <2>2. CASE r \in S
    <3>1. /\ <<r.name, r.type>> \in DOMAIN e.list
          /\ HasAuthority(z, r) => Bears(e, r)
      BY <2>2 DEF StepsOK
    <3>2. <<r.name, r.type>> \in DOMAIN f.list
      BY <1>1, <3>1 DEF Grows
    <3>3. HasAuthority(z, r) => Bears(f, r)
      BY <1>1, <3>1, BearsStill
    <3> QED BY <3>2, <3>3
  <2> QED BY <2>1, <2>2
<1> QED BY <1>1, <1>2, <1>3, <1>4, <1>5 DEF StepsOK

\* What was added up to each record: the function of AddAll exists.
AddsUp(f, n, d, z, records) ==
  f = [i \in 0..n |-> IF i = 0 THEN d
                      ELSE AddRrToBighash(f[i - 1], z, records[i])]

LEMMA AddsUpExists ==
  ASSUME NEW n \in Nat, NEW d, NEW z, NEW records
  PROVE  \E f : AddsUp(f, n, d, z, records)
<1> DEFINE T == {k \in Nat : ~ \E f : AddsUp(f, k, d, z, records)}
<1>1. SUFFICES ASSUME T # {} PROVE FALSE
  OBVIOUS
<1>2. PICK k \in T : \A j \in T : k <= j
  <2>1. T \in SUBSET Nat
    OBVIOUS
  <2> HIDE DEF T
  <2> QED BY <1>1, <2>1, LeastNatural
<1>3. k # 0
  <2> DEFINE f == [i \in 0..0 |-> d]
  <2>1. f = [i \in 0..0 |-> IF i = 0 THEN d
                            ELSE AddRrToBighash(f[i - 1], z, records[i])]
    OBVIOUS
  <2> HIDE DEF f
  <2>2. AddsUp(f, 0, d, z, records)
    BY <2>1 DEF AddsUp
  <2> QED BY <2>2
<1>4. k \in Nat /\ k - 1 \in Nat /\ k - 1 \notin T
  BY <1>2, <1>3
<1>5. PICK f : AddsUp(f, k - 1, d, z, records)
  BY <1>4
<1> HIDE DEF T
<1> DEFINE last == AddRrToBighash(f[k - 1], z, records[k])
           g == [i \in 0..k |-> IF i = k THEN last ELSE f[i]]
<1>6. \A i \in 0..(k - 1) :
        f[i] = IF i = 0 THEN d ELSE AddRrToBighash(f[i - 1], z, records[i])
  BY <1>5 DEF AddsUp
<1>7. ASSUME NEW i \in 0..k
      PROVE  g[i] = IF i = 0 THEN d ELSE AddRrToBighash(g[i - 1], z, records[i])
  <2>1. CASE i = k
    <3>1. k - 1 \in 0..k /\ k - 1 # k /\ k \in 0..k
      BY <1>4
    <3>2. g[k - 1] = f[k - 1] /\ g[k] = last
      <4> HIDE DEF last
      <4> QED BY <3>1
    <3> HIDE DEF g
    <3> QED BY <1>3, <2>1, <3>2
  <2>2. CASE i # k
    <3>1. i \in 0..(k - 1) /\ (i # 0 => i - 1 \in 0..k /\ i - 1 # k)
      BY <1>4, <2>2
    <3>2. g[i] = f[i] /\ (i # 0 => g[i - 1] = f[i - 1])
      BY <2>2, <3>1
    <3> HIDE DEF g
    <3> QED BY <1>6, <3>1, <3>2
  <2> QED BY <2>1, <2>2
<1>8. g = [i \in 0..k |-> IF i = 0 THEN d
                          ELSE AddRrToBighash(g[i - 1], z, records[i])]
  <2> DEFINE h == [i \in 0..k |-> IF i = 0 THEN d
                          ELSE AddRrToBighash(g[i - 1], z, records[i])]
  <2>1. g = [i \in 0..k |-> g[i]]
    OBVIOUS
  <2> HIDE DEF g
  <2> QED BY <1>7, <2>1
<1> HIDE DEF g
<1>9. AddsUp(g, k, d, z, records)
  BY <1>8 DEF AddsUp
<1> QED BY <1>2, <1>9 DEF T

\* Records of one type; NS records before anything points to any.
LEMMA AddAllOK ==
  ASSUME NEW d, DbOK(d), HeadsOK(d), NEW z, NEW records, IsSeq(records),
         NEW type, \A r \in Range(records) : r.type = type,
         type = "NS" => ~ Pointing(d, z),
         NEW e, e = AddAll(d, z, records)
  PROVE  StepsOK(d, e, z, Range(records))
<1> DEFINE n == Len(records)
           Adds(f) == f = [i \in 0..n |-> IF i = 0 THEN d
                              ELSE AddRrToBighash(f[i - 1], z, records[i])]
           added == CHOOSE f : Adds(f)
           upto(i) == {records[j] : j \in 1..i}
           T == {i \in 0..n : ~ StepsOK(d, added[i], z, upto(i))}
<1>1. n \in Nat /\ DOMAIN records = 1..n
  BY SeqRange DEF IsSeq
<1>2. Adds(added)
  <2>1. \E f : Adds(f)
    <3>1. \E f : AddsUp(f, n, d, z, records)
      BY <1>1, AddsUpExists
    <3>2. \A f : AddsUp(f, n, d, z, records) => Adds(f)
      BY DEF AddsUp
    <3> HIDE DEF Adds
    <3> QED BY <3>1, <3>2
  <2> HIDE DEF Adds
  <2> QED BY <2>1
<1>3. e = added[n]
  BY DEF AddAll
<1> HIDE DEF added
<1>4. /\ added[0] = d
      /\ \A i \in 1..n :
           added[i] = AddRrToBighash(added[i - 1], z, records[i])
  <2>1. \A i \in 0..n : added[i] = IF i = 0 THEN d
                              ELSE AddRrToBighash(added[i - 1], z, records[i])
    BY <1>2
  <2> HIDE DEF n
  <2>2. \A i \in 1..n : i # 0 /\ i \in 0..n
    BY <1>1
  <2> QED BY <1>1, <2>1, <2>2
<1> HIDE DEF n, Adds
<1>5. T = {}
  <2>1. SUFFICES ASSUME T # {} PROVE FALSE
    OBVIOUS
  <2>2. PICK k \in T : \A j \in T : k <= j
    <3>1. T \in SUBSET Nat
      BY <1>1
    <3> HIDE DEF T
    <3> QED BY <2>1, <3>1, LeastNatural
  <2>3. k # 0
    <3>1. upto(0) = {}
      OBVIOUS
    <3>2. StepsOK(d, added[0], z, upto(0))
      BY <1>4, <3>1, NoStep
    <3> QED BY <3>2
  <2>4. k \in 1..n /\ k - 1 \in 0..n /\ k - 1 \notin T
    <3>1. k \in 0..n
      BY <2>2
    <3>2. \A j \in T : k <= j
      BY <2>2
    <3> HIDE DEF T
    <3>3. k - 1 \in 0..n /\ ~ (k <= k - 1) /\ k \in 1..n
      BY <1>1, <2>3, <3>1
    <3> QED BY <3>2, <3>3
  <2>5. StepsOK(d, added[k - 1], z, upto(k - 1))
    BY <2>4
  <2> DEFINE b == added[k - 1]
             r == records[k]
  <2>6. r.type = type /\ \A s \in upto(k - 1) : s.type = type
    <3>1. \A i \in 1..n : records[i] \in Range(records)
      BY <1>1 DEF Range
    <3>2. \A i \in 1..(k - 1) : i \in 1..n
      BY <1>1, <2>4
    <3> QED BY <2>4, <3>1, <3>2
  <2>7. upto(k) = upto(k - 1) \union {r}
    <3>1. 1..k = 1..(k - 1) \union {k}
      BY <1>1, <2>4
    <3> QED BY <3>1
  <2> HIDE DEF b, r, upto, T
  <2>8. DbOK(b) /\ HeadsOK(b) /\ StepsOK(d, b, z, upto(k - 1))
    BY <2>5 DEF b, StepsOK
  <2>9. r.type = "NS" => ~ Pointing(b, z)
    BY <2>6, <2>8 DEF StepsOK
  <2>10. added[k] = AddRrToBighash(b, z, r)
    BY <1>4, <2>4 DEF b, r
  <2>11. StepOK(b, added[k], z, r)
    BY <2>8, <2>9, <2>10, AddRrToBighashOK
  <2>12. StepsOK(b, added[k], z, {r})
    BY <2>11, OneStep
  <2>13. StepsOK(d, added[k], z, upto(k))
    BY <2>7, <2>8, <2>12, MoreSteps
  <2> QED BY <2>2, <2>13 DEF T
<1>6. upto(n) = Range(records)
  BY <1>1 DEF Range
<1>7. n \in 0..n
  BY <1>1
<1> HIDE DEF upto
<1> QED BY <1>3, <1>5, <1>6, <1>7

-----------------------------------------------------------------------------
(***************************************************************************)
(* What the files of the zones do to the big hash.                         *)
(***************************************************************************)
NsOf(z) == Range(SynthNs(z)) \union Range(SynthA(z))

LEMMA SynthesizeNsOK ==
  ASSUME NEW d, DbOK(d), HeadsOK(d), NEW z, ~ Pointing(d, z),
         NEW e, e = SynthesizeNs(d, z)
  PROVE  StepsOK(d, e, z, NsOf(z))
<1> DEFINE n == Len(SynthIp)
           ns == SynthNs(z)
           as == SynthA(z)
           u == AddAll(d, z, ns)
<1>1. SynthIp \in Seq(Range(SynthIp))
  BY ZoneAssumption DEF ZoneAssumption
<1>2. n \in Nat
  BY <1>1
<1> HIDE DEF n
<1>3. IsSeq(ns) /\ \A r \in Range(ns) : r.type = "NS"
  <2>1. ns = [i \in 1..n |-> Record(z, "NS", SynthName(z, SynthIp[i]))]
    BY DEF SynthNs, n
  <2> HIDE DEF ns
  <2>2. Range(ns) = {ns[i] : i \in 1..n} /\ \A i \in 1..n : ns[i].type = "NS"
    BY <2>1 DEF Range, Record
  <2>3. ns \in Seq(Range(ns))
    BY <1>2, <2>1, <2>2
  <2> QED BY <2>2, <2>3 DEF IsSeq
<1>4. IsSeq(as) /\ \A r \in Range(as) : r.type = "A"
  <2>1. as = [i \in 1..n |-> Record(SynthName(z, SynthIp[i]), "A", SynthIp[i])]
    BY DEF SynthA, n
  <2> HIDE DEF as
  <2>2. Range(as) = {as[i] : i \in 1..n} /\ \A i \in 1..n : as[i].type = "A"
    BY <2>1 DEF Range, Record
  <2>3. as \in Seq(Range(as))
    BY <1>2, <2>1, <2>2
  <2> QED BY <2>2, <2>3 DEF IsSeq
<1>5. StepsOK(d, u, z, Range(ns))
  BY <1>3, AddAllOK
<1>6. DbOK(u) /\ HeadsOK(u) /\ e = AddAll(u, z, as)
  BY <1>5 DEF StepsOK, SynthesizeNs
<1> HIDE DEF ns, as, u
<1>7. StepsOK(u, e, z, Range(as))
  <2>1. "A" # "NS"
    OBVIOUS
  <2> QED BY <1>4, <1>6, <2>1, AddAllOK
<1>8. StepsOK(d, e, z, Range(ns) \union Range(as))
  BY <1>5, <1>7, MoreSteps
<1> QED BY <1>8 DEF NsOf, ns, as

SoaOf(f) == IF f.soa = << >> THEN {} ELSE {f.soa[1]}

LEMMA AddSoaOK ==
  ASSUME NEW d, DbOK(d), HeadsOK(d), NEW f,
         f.soa # << >> => f.soa[1].type = "SOA",
         NEW e, e = AddSoa(d, f)
  PROVE  StepsOK(d, e, f.zone, SoaOf(f))
<1>1. CASE f.soa = << >>
  BY <1>1, NoStep DEF AddSoa, SoaOf
<1>2. CASE f.soa # << >>
  <2>1. e = AddRrToBighash(d, f.zone, f.soa[1])
    BY <1>2 DEF AddSoa
  <2>2. StepOK(d, e, f.zone, f.soa[1])
    BY <1>2, <2>1, AddRrToBighashOK
  <2> QED BY <1>2, <2>2, OneStep DEF SoaOf
<1> QED BY <1>1, <1>2

NsMade(f) == IF f.nses THEN {} ELSE NsOf(f.zone)

LEMMA FirstDataOK ==
  ASSUME NEW d, DbOK(d), HeadsOK(d), NEW f, ~ Pointing(d, f.zone),
         f.soa # << >> => f.soa[1].type = "SOA",
         NEW r, ~ (r.type = "NS" /\ r.name = f.zone),
         NEW e, e = FirstData(d, f, r)
  PROVE  StepsOK(d, e, f.zone, (NsMade(f) \union SoaOf(f)) \union {r})
<1> DEFINE u == IF f.nses THEN d ELSE SynthesizeNs(d, f.zone)
           v == AddSoa(u, f)
<1>1. StepsOK(d, u, f.zone, NsMade(f))
  BY SynthesizeNsOK, NoStep DEF NsMade
<1>2. DbOK(u) /\ HeadsOK(u)
  BY <1>1 DEF StepsOK
<1>3. e = AddRrToBighash(v, f.zone, r)
  BY DEF FirstData
<1> HIDE DEF u
<1>4. StepsOK(u, v, f.zone, SoaOf(f))
  BY <1>2, AddSoaOK
<1>5. DbOK(v) /\ HeadsOK(v)
  BY <1>4 DEF StepsOK
<1> HIDE DEF v
<1>6. StepsOK(d, v, f.zone, NsMade(f) \union SoaOf(f))
  BY <1>1, <1>4, MoreSteps
<1>7. StepOK(v, e, f.zone, r)
  BY <1>3, <1>5, AddRrToBighashOK
<1>8. StepsOK(v, e, f.zone, {r})
  BY <1>7, OneStep
<1> QED BY <1>6, <1>8, MoreSteps

\* Pointers to additional records are all that Additions changes.
LEMMA WithAdditionalOK ==
  ASSUME NEW d, DbOK(d), NEW e, e = WithAdditional(d)
  PROVE  /\ DbOK(e) /\ (HeadsOK(d) => HeadsOK(e)) /\ Grows(d, e)
         /\ \A y : Pointing(e, y) => Pointing(d, y)
         /\ DOMAIN e.rr = DOMAIN d.rr
<1>1. DOMAIN d = {"rr", "list", "ns", "any"} /\ IsSeq(d.rr) /\ Fielded(d)
  BY DEF DbOK
<1>2. /\ DOMAIN e = {"rr", "list", "ns", "any"}
      /\ e.list = d.list /\ e.ns = d.ns /\ e.any = d.any
      /\ DOMAIN e.rr = DOMAIN d.rr
      /\ e.rr = [o \in DOMAIN d.rr |-> e.rr[o]]
  BY <1>1 DEF WithAdditional
<1>3. ASSUME NEW o \in DOMAIN d.rr
      PROVE  /\ e.rr[o].name = d.rr[o].name /\ e.rr[o].type = d.rr[o].type
             /\ e.rr[o].to = d.rr[o].to /\ e.rr[o].auth = d.rr[o].auth
             /\ DOMAIN e.rr[o] = DOMAIN d.rr[o]
  <2> DEFINE x == d.rr[o]
  <2>1. \E a : e.rr[o] = x \/ e.rr[o] = [x EXCEPT !.ip = a]
    BY <1>1 DEF WithAdditional
  <2>2. PICK a : e.rr[o] = x \/ e.rr[o] = [x EXCEPT !.ip = a]
    BY <2>1
  <2>3. DOMAIN x = {"name", "type", "to", "auth", "ip"}
    BY <1>1 DEF Fielded
  <2> QED BY <2>2, <2>3
<1>4. IsSeq(e.rr)
  <2>1. DOMAIN d.rr = 1..Len(d.rr) /\ Len(d.rr) \in Nat
    BY <1>1, SeqRange DEF IsSeq
  <2>2. \A o \in DOMAIN e.rr : e.rr[o] \in Range(e.rr)
    BY DEF Range
  <2> DEFINE n == Len(d.rr)
  <2> HIDE DEF n
  <2>3. e.rr \in Seq(Range(e.rr))
    BY <1>2, <2>1, <2>2 DEF n
  <2> QED BY <2>3 DEF IsSeq
<1>5. ASSUME NEW k \in DOMAIN d.list
      PROVE  ChainOK(e, k) /\ Listed(e, k) /\ PointerOK(e, k)
  <2>1. ChainOK(d, k) /\ Listed(d, k) /\ PointerOK(d, k)
    BY DEF DbOK
  <2>2. d.list[k][1] \in DOMAIN d.rr
    BY <2>1, SeqRange DEF ChainOK, IsSeq
  <2>3. ChainOK(e, k)
    <3>1. ASSUME NEW o \in Range(d.list[k])
          PROVE  /\ o \in DOMAIN e.rr
                 /\ e.rr[o].name = k[1] /\ e.rr[o].type = k[2]
                 /\ e.rr[o].auth = e.rr[d.list[k][1]].auth
                 /\ e.rr[o].auth \in BOOLEAN
      <4>1. /\ o \in DOMAIN d.rr /\ d.rr[o].name = k[1] /\ d.rr[o].type = k[2]
            /\ d.rr[o].auth = d.rr[d.list[k][1]].auth /\ d.rr[o].auth \in BOOLEAN
        BY <2>1 DEF ChainOK
      <4> QED BY <1>2, <1>3, <2>2, <4>1
    <3> QED BY <1>2, <2>1, <3>1 DEF ChainOK
  <2>4. Listed(e, k)
    <3>1. PICK h \in Range(d.any[k[1]]) : d.rr[h].type = k[2]
      BY <2>1 DEF Listed
    <3>2. h \in DOMAIN d.rr /\ k[1] \in DOMAIN d.any
      BY <2>1, <3>1 DEF Listed, DbOK, AnyOK
    <3> QED BY <1>2, <1>3, <3>1, <3>2 DEF Listed
  <2>5. PointerOK(e, k)
    BY <1>2, <1>3, <2>1 DEF PointerOK
  <2> QED BY <2>3, <2>4, <2>5
<1>6. ASSUME NEW n \in DOMAIN d.any
      PROVE  /\ AnyOK(e, n)
             /\ \A h \in Range(d.any[n]) : e.rr[h].type = d.rr[h].type
  <2>1. AnyOK(d, n)
    BY DEF DbOK
  <2>2. ASSUME NEW h \in Range(d.any[n])
        PROVE  /\ h \in DOMAIN e.rr /\ e.rr[h].name = n
               /\ e.rr[h].type = d.rr[h].type
               /\ <<n, e.rr[h].type>> \in DOMAIN e.list
               /\ h \in Range(e.list[<<n, e.rr[h].type>>])
    <3>1. /\ h \in DOMAIN d.rr /\ d.rr[h].name = n
          /\ <<n, d.rr[h].type>> \in DOMAIN d.list
          /\ h \in Range(d.list[<<n, d.rr[h].type>>])
      BY <2>1 DEF AnyOK
    <3>2. e.rr[h].type = d.rr[h].type /\ e.rr[h].name = d.rr[h].name
      BY <1>3, <3>1
    <3> QED BY <1>2, <3>1, <3>2
  <2>3. \A i \in DOMAIN d.any[n] :
          e.rr[d.any[n][i]].type = d.rr[d.any[n][i]].type
    BY <2>2 DEF Range
  <2>4. \A i, j \in DOMAIN e.any[n] :
          e.rr[e.any[n][i]].type = e.rr[e.any[n][j]].type => i = j
    BY <1>2, <2>1, <2>3 DEF AnyOK
  <2> QED BY <1>2, <2>1, <2>2, <2>4 DEF AnyOK
<1>7. DbOK(e)
  <2>1. DOMAIN e.ns = DOMAIN e.list /\ Fielded(e)
    BY <1>1, <1>2, <1>3 DEF DbOK, Fielded
  <2> QED BY <1>2, <1>4, <1>5, <1>6, <2>1 DEF DbOK
<1>8. HeadsOK(d) => HeadsOK(e)
  BY <1>2, <1>6 DEF HeadsOK
<1>9. Grows(d, e)
  BY <1>2, <1>3 DEF Grows
<1>10. ASSUME NEW y, Pointing(e, y) PROVE Pointing(d, y)
  <2>1. PICK k \in DOMAIN d.ns : d.ns[k] # 0 /\ e.rr[d.ns[k]].name = y
    BY <1>2, <1>10 DEF Pointing
  <2>2. d.ns[k] \in DOMAIN d.rr
    BY <2>1 DEF DbOK, PointerOK
  <2> QED BY <1>3, <2>1, <2>2 DEF Pointing
<1> QED BY <1>2, <1>7, <1>8, <1>9, <1>10

\* Rotation keeps every object of the chain, and no NS chain is rotated.
LEMMA RotatedOK ==
  ASSUME NEW d, DbOK(d), NEW type, NEW k0 \in DOMAIN d.list,
         NEW e, e = Rotated(d, type, k0)
  PROVE  /\ DbOK(e) /\ Grows(d, e) /\ e.any = d.any /\ e.rr = d.rr
         /\ DOMAIN e.list = DOMAIN d.list /\ e.ns = d.ns
         /\ \A k \in DOMAIN d.list : Range(e.list[k]) = Range(d.list[k])
         /\ \A name : Chain(e, name, "NS") = Chain(d, name, "NS")
<1> DEFINE c == d.list[k0]
           t == Append(Tail(c), Head(c))
<1>1. CASE e = d
  BY <1>1 DEF Grows
<1>2. CASE e # d
  <2>1. k0[2] # "NS" /\ e = [d EXCEPT !.list[k0] = t]
    BY <1>2 DEF Rotated
  <2>2. DOMAIN d = {"rr", "list", "ns", "any"} /\ ChainOK(d, k0)
    BY DEF DbOK
  <2>3. IsSeq(c) /\ c # << >>
    BY <2>2 DEF ChainOK
  <2>4. IsSeq(t) /\ t # << >> /\ Range(t) = Range(c)
    BY <2>3, TurnedIs
  <2> HIDE DEF t
  <2>5. /\ DOMAIN e = {"rr", "list", "ns", "any"}
        /\ e.rr = d.rr /\ e.ns = d.ns /\ e.any = d.any
        /\ DOMAIN e.list = DOMAIN d.list /\ e.list[k0] = t
        /\ \A k \in DOMAIN d.list : k # k0 => e.list[k] = d.list[k]
    BY <2>1, <2>2
  <2>6. \A k \in DOMAIN d.list : Range(e.list[k]) = Range(d.list[k])
    BY <2>4, <2>5
  <2>7. ASSUME NEW k \in DOMAIN d.list
        PROVE  ChainOK(e, k) /\ Listed(e, k) /\ PointerOK(e, k)
    <3>1. ChainOK(d, k) /\ Listed(d, k) /\ PointerOK(d, k)
      BY DEF DbOK
    <3>2. IsSeq(e.list[k]) /\ e.list[k] # << >>
      BY <2>4, <2>5, <3>1 DEF ChainOK
    <3>3. e.list[k][1] \in Range(d.list[k])
      BY <2>6, <3>2, SeqRange DEF IsSeq
    <3>4. ChainOK(e, k)
      <4>1. ASSUME NEW o \in Range(e.list[k])
            PROVE  /\ o \in DOMAIN e.rr
                   /\ e.rr[o].name = k[1] /\ e.rr[o].type = k[2]
                   /\ e.rr[o].auth = e.rr[e.list[k][1]].auth
                   /\ e.rr[o].auth \in BOOLEAN
        BY <2>5, <2>6, <3>1, <3>3 DEF ChainOK
      <4> QED BY <3>1, <3>2, <4>1 DEF ChainOK
    <3>5. Listed(e, k)
      BY <2>5, <3>1 DEF Listed
    <3>6. PointerOK(e, k)
      <4> SUFFICES ASSUME d.ns[k] # 0 PROVE PointerOK(e, k)
        BY <2>5 DEF PointerOK
      <4> DEFINE q == <<d.rr[d.ns[k]].name, "NS">>
      <4>1. d.ns[k] \in DOMAIN d.rr /\ q \in DOMAIN d.list
            /\ d.list[q][1] = d.ns[k]
        BY <3>1 DEF PointerOK
      <4>2. q # k0
        BY <2>1
      <4> HIDE DEF q
      <4>3. q \in DOMAIN e.list /\ e.list[q][1] = e.ns[k]
        BY <2>5, <4>1, <4>2
      <4> QED BY <2>5, <4>1, <4>3 DEF PointerOK, q
    <3> QED BY <3>4, <3>5, <3>6
  <2>8. ASSUME NEW n \in DOMAIN d.any PROVE AnyOK(e, n)
    <3>1. AnyOK(d, n)
      BY DEF DbOK
    <3> QED BY <2>5, <2>6, <3>1 DEF AnyOK
  <2>9. DbOK(e)
    <3>1. IsSeq(e.rr) /\ DOMAIN e.ns = DOMAIN e.list /\ Fielded(e)
      BY <2>5 DEF DbOK, Fielded
    <3> QED BY <2>5, <2>7, <2>8, <3>1 DEF DbOK
  <2>10. Grows(d, e)
    BY <2>5, <2>6 DEF Grows
  <2>11. ASSUME NEW name PROVE Chain(e, name, "NS") = Chain(d, name, "NS")
    <3>1. <<name, "NS">> # k0
      BY <2>1
    <3> QED BY <2>5, <3>1 DEF Chain, At
  <2> QED BY <2>5, <2>6, <2>9, <2>10, <2>11
<1> QED BY <1>1, <1>2

-----------------------------------------------------------------------------
(***************************************************************************)
(* The inductive invariant.                                                *)
(***************************************************************************)
DiskOK ==
  /\ Zone \subseteq DOMAIN disk
  /\ \A z \in DOMAIN disk : z \in Zone \union {DefaultZone} /\ IsSeq(disk[z])

\* What is left to read of a file is its end.
RestOK ==
  LET lines == disk[file.zone]
      behind == Len(lines) - Len(file.rest)
  IN /\ IsSeq(file.rest) /\ Len(file.rest) <= Len(lines)
     /\ \A i \in 1..Len(file.rest) : file.rest[i] = lines[i + behind]

FileOK ==
  file # NoFile =>
    /\ DOMAIN file = {"zone", "rest", "first", "inNs", "nses", "soa"}
    /\ file.zone \in DOMAIN disk /\ file.zone \notin unread
    /\ file.zone = DefaultZone => unread = {}
    /\ file.soa # << >> => file.soa[1].type = "SOA"
    /\ file.first => file.inNs /\ file.rest = disk[file.zone]
    /\ phase = "loading" /\ RestOK

\* Nothing that was read so far can point to NS records of the zone.
Untouched(z) ==
  \/ z \in unread
  \/ file # NoFile /\ file.zone = z /\ file.inNs
  \/ z = DefaultZone /\ phase = "loading" /\ (file = NoFile \/ file.zone # z)

\* The lines of a zone that are read are in the hash, if the zone has
\* authority over them.
WasRead(z, i) ==
  file # NoFile /\ file.zone = z => i <= Len(disk[z]) - Len(file.rest)
ReadOK ==
  \A z \in Zone \ unread : \A i \in DOMAIN disk[z] :
    WasRead(z, i) =>
      LET r == disk[z][i]
      IN r.type \notin {"NS", "SOA"} /\ HasAuthority(z, r) => Bears(db, r)

LoadInv ==
  /\ DiskOK /\ FileOK /\ ReadOK /\ DbOK(db)
  /\ unread \subseteq Zone /\ phase \in {"loading", "serving"}
  /\ \A z : Untouched(z) => ~ Pointing(db, z)
  /\ phase = "loading" => HeadsOK(db) /\ reply = [to |-> NoQuery, is |-> NoReply]
  /\ phase = "serving" => unread = {} /\ file = NoFile

\* A file that is read is none but that which maradns has open.
LEMMA NewFileIs ==
  ASSUME NEW z
  PROVE  NewFile(z) # NoFile
<1>1. "rest" \in DOMAIN NewFile(z)
  BY DEF NewFile
<1>2. "rest" \notin DOMAIN NoFile
  BY DEF NoFile
<1> QED BY <1>1, <1>2

LEMMA DefaultIs == DefaultZone \notin Zone
BY ZoneAssumption DEF ZoneAssumption

LEMMA ReadFurther ==
  ASSUME NEW d, DbOK(db), DbOK(d), Grows(db, d), ReadOK,
         NEW z \in Zone \ unread, NEW i \in DOMAIN disk[z], WasRead(z, i),
         disk[z][i].type \notin {"NS", "SOA"}, HasAuthority(z, disk[z][i])
  PROVE  Bears(d, disk[z][i])
BY BearsStill DEF ReadOK

LEMMA InitLoad ==
  ASSUME Init PROVE LoadInv
<1> USE DEF Init, ZoneInit
<1>1. DiskOK
  <2>1. DOMAIN Files = Zone /\ \A f \in (UNION Range(Files)) \union DefaultFiles :
          f \in Seq(Range(f))
    BY ZoneAssumption DEF ZoneAssumption
  <2>2. CASE disk \in [Zone -> UNION Range(Files)]
    BY <2>1, <2>2 DEF DiskOK, IsSeq
  <2>3. CASE \E f \in DefaultFiles, g \in [Zone -> UNION Range(Files)] :
               disk = With(g, DefaultZone, f)
    <3>1. PICK f \in DefaultFiles, g \in [Zone -> UNION Range(Files)] :
            disk = With(g, DefaultZone, f)
      BY <2>3
    <3>2. DOMAIN disk = Zone \union {DefaultZone} /\ disk[DefaultZone] = f
          /\ \A z \in Zone : z # DefaultZone => disk[z] = g[z]
      <4>1. Updated(disk, g, DefaultZone, f) /\ DOMAIN g = Zone
        BY <3>1, WithIs
      <4> HIDE DEF DefaultZone
      <4> QED BY <4>1 DEF Updated
    <3>3. ASSUME NEW z \in Zone PROVE IsSeq(disk[z])
      <4>1. disk[z] = g[z] /\ g[z] \in UNION Range(Files)
        BY <3>2, DefaultIs
      <4> QED BY <2>1, <4>1 DEF IsSeq
    <3>4. IsSeq(disk[DefaultZone])
      <4>1. disk[DefaultZone] = f /\ IsSeq(f)
        BY <2>1, <3>2 DEF IsSeq
      <4> QED BY <4>1
    <3> QED BY <3>2, <3>3, <3>4 DEF DiskOK
  <2> QED BY <2>2, <2>3
<1>2. DbOK(db) /\ HeadsOK(db) /\ \A z : ~ Pointing(db, z)
  <2>1. DOMAIN << >> = {} /\ IsSeq(<< >>)
    BY EmptyIs
  <2>2. /\ DOMAIN db = {"rr", "list", "ns", "any"}
        /\ db.rr = << >> /\ db.list = << >> /\ db.ns = << >> /\ db.any = << >>
    BY DEF EmptyDb
  <2> QED BY <2>1, <2>2 DEF DbOK, HeadsOK, Pointing, Fielded
<1>3. FileOK /\ ReadOK
  BY DEF FileOK, ReadOK
<1>4. reply = [to |-> NoQuery, is |-> NoReply] /\ phase = "loading"
      /\ unread = Zone
  OBVIOUS
<1> QED BY <1>1, <1>2, <1>3, <1>4 DEF LoadInv

\* What a line of the file, or its end, does to the hash keeps what earlier
\* lines did.
LEMMA StepsKeep ==
  ASSUME LoadInv, phase = "loading", file # NoFile, NEW d, NEW S,
         StepsOK(db, d, file.zone, S)
  PROVE  /\ DbOK(d) /\ HeadsOK(d) /\ Grows(db, d)
         /\ \A y : y # file.zone /\ Pointing(d, y) => Pointing(db, y)
         /\ \A z \in Zone \ unread : \A i \in DOMAIN disk[z] :
              WasRead(z, i) =>
                LET r == disk[z][i]
                IN r.type \notin {"NS", "SOA"} /\ HasAuthority(z, r) =>
                     Bears(d, r)
<1>1. DbOK(d) /\ HeadsOK(d) /\ Grows(db, d) /\ DbOK(db) /\ ReadOK
  BY DEF StepsOK, LoadInv
<1>2. \A y : y # file.zone /\ Pointing(d, y) => Pointing(db, y)
  BY DEF StepsOK
<1> QED BY <1>1, <1>2, ReadFurther

\* The line that is read now is the one behind those that were.
LEMMA LineIs ==
  ASSUME LoadInv, file # NoFile, file.rest # << >>,
         NEW rest, rest = Tail(file.rest)
  PROVE  LET lines == disk[file.zone]
             now == Len(lines) - Len(file.rest) + 1
         IN /\ now \in DOMAIN lines /\ lines[now] = Head(file.rest)
            /\ IsSeq(rest) /\ Len(rest) <= Len(lines)
            /\ \A i \in 1..Len(rest) :
                 rest[i] = lines[i + (Len(lines) - Len(rest))]
            /\ \A i \in DOMAIN lines :
                 i <= Len(lines) - Len(rest) =>
                   i = now \/ i <= Len(lines) - Len(file.rest)
<1> DEFINE lines == disk[file.zone]
           m == Len(lines)
           n == Len(file.rest)
           s == file.rest
           now == m - n + 1
<1>1. /\ IsSeq(s) /\ n <= m /\ IsSeq(lines)
      /\ \A i \in 1..n : s[i] = lines[i + (m - n)]
  BY DEF LoadInv, FileOK, RestOK, DiskOK
<1>2. m \in Nat /\ n \in Nat /\ DOMAIN lines = 1..m /\ s # << >>
  BY <1>1, SeqRange DEF IsSeq
<1>3. /\ rest \in Seq(Range(s)) /\ Len(rest) = n - 1 /\ Head(s) = s[1] /\ n > 0
      /\ \A i \in 1..(n - 1) : rest[i] = s[i + 1]
  BY <1>1, <1>2, TailIs
<1>4. IsSeq(rest)
  BY <1>3, SeqRange
<1> HIDE DEF m, n, s, lines
<1>5. now \in DOMAIN lines /\ lines[now] = Head(s)
  <2>1. 1 \in 1..n /\ 1 + (m - n) = now /\ now \in 1..m
    BY <1>1, <1>2, <1>3
  <2>2. s[1] = lines[1 + (m - n)]
    BY <1>1, <2>1, Zenon
  <2> QED BY <1>2, <1>3, <2>1, <2>2
<1>6. Len(rest) <= m
  BY <1>1, <1>2, <1>3
<1>7. ASSUME NEW i \in 1..Len(rest)
      PROVE  rest[i] = lines[i + (m - Len(rest))]
  <2>1. i \in 1..(n - 1) /\ i + 1 \in 1..n
        /\ i + 1 + (m - n) = i + (m - Len(rest))
    <3>1. Len(rest) = n - 1 /\ n > 0
      BY <1>3
    <3> QED BY ONLY <1>2, <3>1, i \in 1..Len(rest)
  <2>2. rest[i] = s[i + 1]
    BY <1>3, <2>1, Zenon
  <2>3. s[i + 1] = lines[i + 1 + (m - n)]
    BY <1>1, <2>1, Zenon
  <2> QED BY <2>1, <2>2, <2>3, Zenon
<1>8. \A i \in DOMAIN lines :
        i <= m - Len(rest) => i = now \/ i <= m - n
  BY <1>2, <1>3
<1> QED BY <1>4, <1>5, <1>6, <1>7, <1>8 DEF lines, m, n, s

LEMMA IsFile ==
  ASSUME NEW f, DOMAIN f = {"zone", "rest", "first", "inNs", "nses", "soa"}
  PROVE  f # NoFile
<1>1. "rest" \notin DOMAIN NoFile
  BY DEF NoFile
<1> QED BY <1>1

\* What one line does: the records of S go into the hash.  Until the first
\* record that is not its SOA or NS, a zone but the default one holds a SOA
\* back; that record puts it in.
LineRead(S) ==
  LET r == Head(file.rest)
      made == Record(file.zone, "SOA", "synth")
  IN /\ StepsOK(db, db', file.zone, S)
     /\ DOMAIN file' = {"zone", "rest", "first", "inNs", "nses", "soa"}
     /\ file'.zone = file.zone /\ file'.rest = Tail(file.rest)
     /\ file'.first = FALSE
     /\ file'.soa # << >> => file'.soa[1].type = "SOA"
     /\ file'.inNs => file.inNs /\ ~ Pointing(db', file.zone)
     /\ file.zone \in Zone /\ r.type \notin {"NS", "SOA"} => r \in S
     /\ file.zone \in Zone /\ file'.inNs =>
          \/ file.first /\ r.type = "SOA" /\ file'.soa = <<r>>
          \/ file.first /\ file'.soa = <<made>>
          \/ ~ file.first /\ file'.soa = file.soa
     /\ file.zone \in Zone /\ file.inNs /\ ~ file'.inNs =>
          \/ file.first /\ made \in S
          \/ ~ file.first /\ (file.soa # << >> => file.soa[1] \in S)
     /\ ~ file.inNs => \A x \in S : ~ (x.type = "NS" /\ x.name = file.zone)

\* One line is read.
LEMMA LineKeeps ==
  ASSUME LoadInv, phase = "loading", file # NoFile, file.rest # << >>,
         NEW S, LineRead(S), UNCHANGED <<disk, unread, phase, rc, reply>>
  PROVE  LoadInv'
<1> SUFFICES ASSUME StepsOK(db, db', file.zone, S),
                    DOMAIN file' =
                      {"zone", "rest", "first", "inNs", "nses", "soa"},
                    file'.zone = file.zone, file'.rest = Tail(file.rest),
                    file'.first = FALSE, file' # NoFile,
                    file'.soa # << >> => file'.soa[1].type = "SOA",
                    file'.inNs => file.inNs /\ ~ Pointing(db', file.zone),
                    LET r == Head(file.rest)
                    IN file.zone \in Zone /\ r.type \notin {"NS", "SOA"} =>
                         r \in S
             PROVE  LoadInv'
  BY IsFile DEF LineRead
<1> DEFINE r == Head(file.rest)
           lines == disk[file.zone]
           now == Len(lines) - Len(file.rest) + 1
<1>1. /\ DiskOK /\ FileOK /\ unread \subseteq Zone
      /\ phase \in {"loading", "serving"}
      /\ \A z : Untouched(z) => ~ Pointing(db, z)
      /\ reply = [to |-> NoQuery, is |-> NoReply]
  BY DEF LoadInv
<1>2. /\ now \in DOMAIN lines /\ lines[now] = Head(file.rest)
      /\ IsSeq(file'.rest) /\ Len(file'.rest) <= Len(lines)
      /\ \A i \in 1..Len(file'.rest) :
           file'.rest[i] = lines[i + (Len(lines) - Len(file'.rest))]
      /\ \A i \in DOMAIN lines :
           i <= Len(lines) - Len(file'.rest) =>
             i = now \/ i <= Len(lines) - Len(file.rest)
  BY LineIs
<1> HIDE DEF now
<1>3. /\ DbOK(db') /\ HeadsOK(db') /\ Grows(db, db')
      /\ \A y : y # file.zone /\ Pointing(db', y) => Pointing(db, y)
      /\ \A z \in Zone \ unread : \A i \in DOMAIN disk[z] :
           WasRead(z, i) =>
             LET x == disk[z][i]
             IN x.type \notin {"NS", "SOA"} /\ HasAuthority(z, x) =>
                  Bears(db', x)
  BY StepsKeep
<1>4. disk' = disk /\ unread' = unread /\ phase' = phase /\ reply' = reply
  OBVIOUS
<1>5. DiskOK'
  BY <1>1, <1>4 DEF DiskOK
<1>6. FileOK'
  <2>1. RestOK'
    BY <1>2, <1>4 DEF RestOK
  <2> QED BY <1>1, <1>4, <2>1 DEF FileOK
<1>7. ASSUME NEW z, Untouched(z)' PROVE ~ Pointing(db', z)
  <2>1. CASE z = file.zone
    <3>1. file'.inNs
      <4>1. z \notin unread
        BY <1>1, <2>1 DEF FileOK
      <4> QED BY <1>4, <1>7, <2>1, <4>1 DEF Untouched
    <3> QED BY <2>1, <3>1
  <2>2. CASE z # file.zone
    <3>1. Untouched(z)
      BY <1>4, <1>7, <2>2 DEF Untouched
    <3> QED BY <1>1, <1>3, <2>2, <3>1
  <2> QED BY <2>1, <2>2
<1>8. ReadOK'
  <2> SUFFICES ASSUME NEW z \in Zone \ unread, NEW i \in DOMAIN disk[z],
                      WasRead(z, i)', disk[z][i].type \notin {"NS", "SOA"},
                      HasAuthority(z, disk[z][i])
               PROVE  Bears(db', disk[z][i])
    BY <1>4 DEF ReadOK
  <2>1. CASE WasRead(z, i)
    BY <1>3, <2>1
  <2>2. CASE ~ WasRead(z, i)
    <3>1. z = file.zone /\ i \in DOMAIN lines
          /\ ~ (i <= Len(lines) - Len(file.rest))
          /\ i <= Len(lines) - Len(file'.rest)
      BY <1>4, <2>2 DEF WasRead
    <3>2. i = now
      BY <1>2, <3>1
    <3>3. disk[z][i] = r /\ r \in S
      BY <1>2, <3>1, <3>2
    <3> QED BY <3>1, <3>3 DEF StepsOK
  <2> QED BY <2>1, <2>2
<1> QED BY <1>1, <1>3, <1>4, <1>5, <1>6, <1>7, <1>8 DEF LoadInv

LEMMA ReadLineIs ==
  ASSUME LoadInv, ReadLine
  PROVE  /\ \E S : LineRead(S)
         /\ phase = "loading" /\ file # NoFile /\ file.rest # << >>
         /\ UNCHANGED <<disk, unread, phase>>
<1> DEFINE r == Head(file.rest)
           made == IF file.first /\ file.zone # DefaultZone
                   THEN <<Record(file.zone, "SOA", "synth")>> ELSE file.soa
           read == [file EXCEPT !.rest = Tail(@), !.first = FALSE]
           f == [read EXCEPT !.soa = made]
           barred == file.zone = DefaultZone /\ ~file.nses
           fields == {"zone", "rest", "first", "inNs", "nses", "soa"}
<1>1. /\ phase = "loading" /\ file # NoFile /\ file.rest # << >>
      /\ UNCHANGED <<disk, unread, phase>>
  BY DEF ReadLine
<1>2. /\ DbOK(db) /\ HeadsOK(db) /\ FileOK
      /\ \A z : Untouched(z) => ~ Pointing(db, z)
  BY <1>1 DEF LoadInv
<1>3. DOMAIN file = fields /\ (file.soa # << >> => file.soa[1].type = "SOA")
      /\ (file.first => file.inNs)
  BY <1>1, <1>2 DEF FileOK
<1>4. file.inNs => ~ Pointing(db, file.zone)
  BY <1>1, <1>2 DEF Untouched
<1>5. made # << >> => made[1].type = "SOA"
  <2>1. <<Record(file.zone, "SOA", "synth")>>[1].type = "SOA"
    BY DEF Record
  <2> QED BY <1>3, <2>1
<1>6. file.zone \in Zone => file.zone # DefaultZone
  BY DefaultIs
<1>6a. file.zone \in Zone =>
         IF file.first THEN made = <<Record(file.zone, "SOA", "synth")>>
         ELSE made = file.soa
  BY <1>6
<1> HIDE DEF made
<1>7. /\ DOMAIN read = fields /\ read.zone = file.zone
      /\ read.rest = Tail(file.rest) /\ read.inNs = file.inNs
      /\ read.soa = file.soa /\ read.nses = file.nses /\ read.first = FALSE
  BY <1>3
<1> HIDE DEF read
<1>8. /\ DOMAIN f = fields /\ f.zone = file.zone
      /\ f.rest = Tail(file.rest) /\ f.inNs = file.inNs
      /\ f.soa = made /\ f.nses = file.nses /\ f.first = FALSE
  BY <1>7
<1> HIDE DEF f
<1>9. ASSUME /\ Ignored(file, r) \/ (file.inNs /\ ~ZoneNsLine(file, r)
                                      /\ r.type # "SOA" /\ barred)
             /\ file' = read
             /\ db' = db
      PROVE  \E S : LineRead(S)
  <2>1. StepsOK(db, db', file.zone, {})
    BY <1>2, <1>9, NoStep
  <2>2. file.zone \in Zone /\ r.type \notin {"NS", "SOA"} => r \in {}
    BY <1>6, <1>9 DEF Ignored, ZoneNsLine
  <2>3. file.zone \in Zone /\ file.inNs => ~ file.first
    BY <1>6, <1>9 DEF Ignored, ZoneNsLine
  <2>4. /\ file'.zone = file.zone /\ DOMAIN file' = fields
        /\ file'.rest = Tail(file.rest) /\ file'.first = FALSE
        /\ file'.inNs = file.inNs /\ file'.soa = file.soa
    BY <1>7, <1>9
  <2>5. LineRead({})
    BY <1>3, <1>4, <1>9, <2>1, <2>2, <2>3, <2>4 DEF LineRead
  <2> QED BY <2>5
<1>10. ASSUME /\ ~Ignored(file, r) /\ r.type = "SOA"
              /\ file' = [read EXCEPT !.soa = <<r>>]
              /\ db' = db
       PROVE  \E S : LineRead(S)
  <2>1. StepsOK(db, db', file.zone, {})
    BY <1>2, <1>10, NoStep
  <2>2. file.first
    BY <1>10 DEF Ignored
  <2>3. /\ file'.zone = file.zone /\ DOMAIN file' = fields
        /\ file'.rest = Tail(file.rest) /\ file'.soa = <<r>>
        /\ file'.inNs = file.inNs /\ file'.first = FALSE
    BY <1>7, <1>10
  <2>4. <<r>>[1].type = "SOA"
    BY <1>10
  <2>5. LineRead({})
    BY <1>4, <1>10, <2>1, <2>2, <2>3, <2>4 DEF LineRead
  <2> QED BY <2>5
<1>11. ASSUME /\ ~Ignored(file, r) /\ ZoneNsLine(file, r)
              /\ file' = [f EXCEPT !.nses = TRUE]
              /\ db' = AddRrToBighash(db, file.zone, r)
       PROVE  \E S : LineRead(S)
  <2>1. file.inNs /\ r.type = "NS"
    BY <1>11 DEF Ignored, ZoneNsLine
  <2>2. StepOK(db, db', file.zone, r)
    BY <1>2, <1>4, <1>11, <2>1, AddRrToBighashOK
  <2>3. StepsOK(db, db', file.zone, {r})
    BY <2>2, OneStep
  <2>4. ~ Pointing(db', file.zone)
    BY <1>4, <2>1, <2>2 DEF StepOK
  <2>5. /\ file'.zone = file.zone /\ DOMAIN file' = fields
        /\ file'.rest = Tail(file.rest) /\ file'.first = FALSE
        /\ file'.inNs = file.inNs /\ file'.soa = made
    BY <1>8, <1>11
  <2>6. r \in {r} /\ file'.inNs
    BY <2>1, <2>5
  <2>7. LineRead({r})
    BY <1>5, <1>6a, <2>1, <2>3, <2>4, <2>5, <2>6 DEF LineRead
  <2> QED BY <2>7
<1>12. ASSUME /\ ~Ignored(file, r) /\ ~ZoneNsLine(file, r) /\ r.type # "SOA"
              /\ file.inNs /\ ~barred
              /\ file' = [f EXCEPT !.soa = << >>, !.inNs = FALSE]
              /\ db' = FirstData(db, f, r)
       PROVE  \E S : LineRead(S)
  <2> DEFINE S == (NsMade(f) \union SoaOf(f)) \union {r}
  <2>1. StepsOK(db, db', f.zone, S)
    <3>1. ~ (r.type = "NS" /\ r.name = f.zone)
      BY <1>8, <1>12 DEF ZoneNsLine
    <3>2. ~ Pointing(db, f.zone) /\ (f.soa # << >> => f.soa[1].type = "SOA")
      BY <1>4, <1>5, <1>8, <1>12
    <3> HIDE DEF r
    <3> QED BY <1>2, <1>12, <3>1, <3>2, FirstDataOK
  <2>2. r \in S
    OBVIOUS
  <2>3. made # << >> => made[1] \in S
    BY <1>8 DEF SoaOf
  <2>4. file.zone \in Zone =>
          IF file.first THEN Record(file.zone, "SOA", "synth") \in S
          ELSE file.soa # << >> => file.soa[1] \in S
    <3> HIDE DEF S
    <3>1. \A x : <<x>> # << >> /\ <<x>>[1] = x
      OBVIOUS
    <3> QED BY <1>6a, <2>3, <3>1
  <2> HIDE DEF S
  <2>5. StepsOK(db, db', file.zone, S)
    BY <1>8, <2>1
  <2>6. /\ file'.zone = file.zone /\ DOMAIN file' = fields
        /\ file'.rest = Tail(file.rest) /\ file'.first = FALSE
        /\ file'.inNs = FALSE /\ file'.soa = << >>
    BY <1>8, <1>12
  <2>7. LineRead(S)
    BY <1>12, <2>2, <2>4, <2>5, <2>6 DEF LineRead
  <2> QED BY <2>7
<1>13. ASSUME /\ ~Ignored(file, r) /\ ~ZoneNsLine(file, r) /\ r.type # "SOA"
              /\ ~file.inNs
              /\ file' = read
              /\ db' = AddRrToBighash(db, file.zone, r)
       PROVE  \E S : LineRead(S)
  <2>1. ~ (r.type = "NS" /\ r.name = file.zone)
    BY <1>13 DEF ZoneNsLine
  <2>2. StepOK(db, db', file.zone, r)
    <3> HIDE DEF r
    <3> QED BY <1>2, <1>13, <2>1, AddRrToBighashOK
  <2>3. StepsOK(db, db', file.zone, {r})
    BY <2>2, OneStep
  <2>4. /\ file'.zone = file.zone /\ DOMAIN file' = fields
        /\ file'.rest = Tail(file.rest) /\ file'.first = FALSE
        /\ file'.inNs = file.inNs /\ file'.soa = file.soa
    BY <1>7, <1>13
  <2>5. r \in {r}
    OBVIOUS
  <2>6. LineRead({r})
    BY <1>3, <1>13, <2>1, <2>3, <2>4, <2>5 DEF LineRead
  <2> QED BY <2>6
<1>14. \/ /\ Ignored(file, r) \/ (file.inNs /\ ~ZoneNsLine(file, r)
                                    /\ r.type # "SOA" /\ barred)
          /\ file' = read
          /\ db' = db
       \/ /\ ~Ignored(file, r) /\ r.type = "SOA"
          /\ file' = [read EXCEPT !.soa = <<r>>]
          /\ db' = db
       \/ /\ ~Ignored(file, r) /\ ZoneNsLine(file, r)
          /\ file' = [f EXCEPT !.nses = TRUE]
          /\ db' = AddRrToBighash(db, file.zone, r)
       \/ /\ ~Ignored(file, r) /\ ~ZoneNsLine(file, r) /\ r.type # "SOA"
          /\ file.inNs /\ ~barred
          /\ file' = [f EXCEPT !.soa = << >>, !.inNs = FALSE]
          /\ db' = FirstData(db, f, r)
       \/ /\ ~Ignored(file, r) /\ ~ZoneNsLine(file, r) /\ r.type # "SOA"
          /\ ~file.inNs
          /\ file' = read
          /\ db' = AddRrToBighash(db, file.zone, r)
  BY Zenon DEF ReadLine, f, read, made
<1>15. \E S : LineRead(S)
  BY <1>9, <1>10, <1>11, <1>12, <1>13, <1>14
<1> QED BY <1>1, <1>15

LEMMA ReadLineKeeps ==
  ASSUME LoadInv, ReadLine, UNCHANGED <<rc, reply>>
  PROVE  LoadInv'
BY ReadLineIs, LineKeeps

LEMMA OpenZoneKeeps ==
  ASSUME LoadInv, NEW z \in Zone, OpenZone(z), UNCHANGED <<rc, reply>>
  PROVE  LoadInv'
<1>1. /\ phase = "loading" /\ file = NoFile /\ z \in unread
      /\ file' = NewFile(z) /\ unread' = unread \ {z}
      /\ db' = db /\ disk' = disk /\ phase' = phase /\ reply' = reply
  BY DEF OpenZone
<1>2. /\ DOMAIN file' = {"zone", "rest", "first", "inNs", "nses", "soa"}
      /\ file'.zone = z /\ file'.rest = disk[z] /\ file'.soa = << >>
      /\ file'.first /\ file'.inNs /\ file' # NoFile
  BY <1>1, NewFileIs DEF NewFile
<1>3. DiskOK' /\ z \in DOMAIN disk /\ IsSeq(disk[z]) /\ z # DefaultZone
  BY <1>1, DefaultIs DEF LoadInv, DiskOK
<1>4. FileOK'
  <2>1. RestOK'
    <3> DEFINE s == disk[z]
               n == Len(s)
    <3>1. n \in Nat
      BY <1>3, SeqRange DEF IsSeq
    <3> HIDE DEF n, s
    <3>2. n <= n /\ \A i \in 1..n : i + (n - n) = i
      BY <3>1
    <3> QED BY <1>1, <1>2, <1>3, <3>2 DEF RestOK, n, s
  <2> QED BY <1>1, <1>2, <1>3, <2>1 DEF FileOK
<1>5. ReadOK'
  <2> SUFFICES ASSUME NEW y \in Zone \ unread', NEW i \in DOMAIN disk[y],
                      WasRead(y, i)', disk[y][i].type \notin {"NS", "SOA"},
                      HasAuthority(y, disk[y][i])
               PROVE  Bears(db, disk[y][i])
    BY <1>1 DEF ReadOK
  <2>1. y # z
    <3> SUFFICES ASSUME y = z PROVE FALSE
      OBVIOUS
    <3> DEFINE n == Len(disk[z])
    <3>1. n \in Nat /\ DOMAIN disk[z] = 1..n
      BY <1>3, SeqRange DEF IsSeq
    <3>2. i <= n - n
      BY <1>1, <1>2 DEF WasRead
    <3> HIDE DEF n
    <3> QED BY <3>1, <3>2
  <2>2. y \in Zone \ unread /\ WasRead(y, i)
    BY <1>1, <2>1 DEF WasRead
  <2> QED BY <2>2 DEF LoadInv, ReadOK
<1>6. \A y : Untouched(y)' => ~ Pointing(db, y)
  <2>1. ASSUME NEW y, Untouched(y)' PROVE Untouched(y)
    BY <1>1, <1>2, <2>1 DEF Untouched
  <2> QED BY <2>1 DEF LoadInv
<1> QED BY <1>1, <1>3, <1>4, <1>5, <1>6 DEF LoadInv

LEMMA CloseZoneKeeps ==
  ASSUME LoadInv, CloseZone, UNCHANGED <<rc, reply>>
  PROVE  LoadInv'
<1>1. /\ phase = "loading" /\ file # NoFile /\ file.rest = << >>
      /\ db' = IF file.inNs THEN AddSoa(db, file) ELSE db
      /\ file' = NoFile
      /\ phase' = IF file.zone = DefaultZone THEN "serving" ELSE phase
      /\ disk' = disk /\ unread' = unread /\ reply' = reply
  BY DEF CloseZone
<1>2. /\ DbOK(db) /\ HeadsOK(db) /\ FileOK /\ DiskOK
      /\ \A z : Untouched(z) => ~ Pointing(db, z)
  BY <1>1 DEF LoadInv
<1>3. /\ file.soa # << >> => file.soa[1].type = "SOA"
      /\ file.zone = DefaultZone => unread = {}
      /\ file.zone \notin unread
  BY <1>1, <1>2 DEF FileOK
<1>4. \E S : StepsOK(db, db', file.zone, S)
  <2>1. CASE file.inNs
    BY <1>1, <1>2, <1>3, <2>1, AddSoaOK
  <2>2. CASE ~ file.inNs
    BY <1>1, <1>2, <2>2, NoStep
  <2> QED BY <2>1, <2>2
<1>5. PICK S : StepsOK(db, db', file.zone, S)
  BY <1>4
<1>6. /\ DbOK(db') /\ HeadsOK(db') /\ Grows(db, db')
      /\ \A y : y # file.zone /\ Pointing(db', y) => Pointing(db, y)
      /\ \A z \in Zone \ unread : \A i \in DOMAIN disk[z] :
           WasRead(z, i) =>
             LET x == disk[z][i]
             IN x.type \notin {"NS", "SOA"} /\ HasAuthority(z, x) =>
                  Bears(db', x)
  BY <1>1, <1>5, StepsKeep
<1>7. ReadOK'
  <2>1. ASSUME NEW z \in Zone, NEW i \in DOMAIN disk[z] PROVE WasRead(z, i)
    <3>1. IsSeq(disk[z])
      BY <1>2 DEF DiskOK
    <3>2. Len(disk[z]) \in Nat /\ i \in 1..Len(disk[z])
      BY <3>1, SeqRange DEF IsSeq
    <3>3. Len(file.rest) = 0
      BY <1>1, EmptyIs
    <3> QED BY <3>2, <3>3 DEF WasRead
  <2> QED BY <1>1, <1>6, <2>1 DEF ReadOK
<1>8. ASSUME NEW y, Untouched(y)' PROVE ~ Pointing(db', y)
  <2>1. y \in unread \/ (y = DefaultZone /\ phase' = "loading")
    BY <1>1, <1>8 DEF Untouched
  <2>2. y # file.zone /\ Untouched(y)
    <3>1. "serving" # "loading"
      OBVIOUS
    <3> HIDE DEF DefaultZone
    <3> QED BY <1>1, <1>3, <2>1, <3>1 DEF Untouched
  <2> QED BY <1>2, <1>6, <2>2
<1>9. FileOK' /\ DiskOK'
  BY <1>1, <1>2 DEF FileOK, DiskOK
<1>10. phase' \in {"loading", "serving"}
       /\ (phase' = "serving" => unread' = {} /\ file' = NoFile)
  BY <1>1, <1>3
<1> QED BY <1>1, <1>6, <1>7, <1>8, <1>9, <1>10 DEF LoadInv

LEMMA AdditionsKeep ==
  ASSUME LoadInv, Additions, UNCHANGED <<rc, reply>>
  PROVE  LoadInv'
<1>1. /\ phase = "loading" /\ file = NoFile /\ unread = {}
      /\ db' = WithAdditional(db)
      /\ disk' = disk /\ unread' = unread /\ reply' = reply
  BY DEF Additions
<1>2. \/ HasDefault /\ file' = NewFile(DefaultZone) /\ phase' = phase
      \/ ~ HasDefault /\ file' = file /\ phase' = "serving"
  BY DEF Additions
<1>3. DbOK(db) /\ HeadsOK(db) /\ DiskOK /\ ReadOK
      /\ \A z : Untouched(z) => ~ Pointing(db, z)
  BY <1>1 DEF LoadInv
<1>4. /\ DbOK(db') /\ HeadsOK(db') /\ Grows(db, db')
      /\ \A y : Pointing(db', y) => Pointing(db, y)
  BY <1>1, <1>3, WithAdditionalOK
<1>5. ReadOK'
  <2> SUFFICES ASSUME NEW y \in Zone, NEW i \in DOMAIN disk[y],
                      disk[y][i].type \notin {"NS", "SOA"},
                      HasAuthority(y, disk[y][i])
               PROVE  Bears(db', disk[y][i])
    BY <1>1 DEF ReadOK
  <2>1. WasRead(y, i) /\ y \in Zone \ unread
    BY <1>1 DEF WasRead
  <2> QED BY <1>3, <1>4, <2>1, ReadFurther
<1>6. ASSUME NEW y, Untouched(y)' PROVE ~ Pointing(db', y)
  <2>1. y = DefaultZone
    <3>1. NewFile(DefaultZone).zone = DefaultZone
      BY DEF NewFile
    <3> HIDE DEF DefaultZone
    <3> QED BY <1>1, <1>2, <1>6, <3>1 DEF Untouched
  <2>2. Untouched(y)
    BY <1>1, <2>1 DEF Untouched
  <2> QED BY <1>3, <1>4, <2>2
<1>7. FileOK'
  <2>1. CASE file' = NoFile
    BY <2>1 DEF FileOK
  <2>2. CASE HasDefault /\ file' = NewFile(DefaultZone) /\ phase' = phase
    <3> DEFINE z == DefaultZone
    <3>1. /\ DOMAIN file' = {"zone", "rest", "first", "inNs", "nses", "soa"}
          /\ file'.zone = z /\ file'.rest = disk[z] /\ file'.soa = << >>
          /\ file'.inNs
      BY <2>2 DEF NewFile
    <3>2. z \in DOMAIN disk
      BY <2>2 DEF HasDefault
    <3> HIDE DEF z
    <3>3. RestOK'
      <4> DEFINE s == disk[z]
                 n == Len(s)
      <4>1. n \in Nat /\ IsSeq(s)
        BY <1>3, <3>2, SeqRange DEF IsSeq, DiskOK
      <4> HIDE DEF n, s
      <4>2. n <= n /\ \A i \in 1..n : i + (n - n) = i
        BY <4>1
      <4> QED BY <1>1, <3>1, <4>1, <4>2 DEF RestOK, n, s
    <3> QED BY <1>1, <2>2, <3>1, <3>2, <3>3 DEF FileOK
  <2> QED BY <1>1, <1>2, <2>1, <2>2
<1>8. DiskOK' /\ phase' \in {"loading", "serving"}
      /\ (phase' = "serving" => file' = NoFile)
  BY <1>1, <1>2, <1>3 DEF DiskOK
<1>9. reply = [to |-> NoQuery, is |-> NoReply]
  BY <1>1 DEF LoadInv
<1> QED BY <1>1, <1>4, <1>5, <1>6, <1>7, <1>8, <1>9 DEF LoadInv

LEMMA LoadKeeps ==
  ASSUME LoadInv, Load, UNCHANGED <<rc, reply>>
  PROVE  LoadInv'
BY OpenZoneKeeps, ReadLineKeeps, CloseZoneKeeps, AdditionsKeep DEF Load

LEMMA AskKeeps ==
  ASSUME LoadInv, NEW q \in Query, Ask(q)
  PROVE  LoadInv'
<1>1. /\ phase = "serving" /\ db' = db /\ disk' = disk /\ file' = file
      /\ unread' = unread /\ phase' = phase
  BY DEF Ask
<1>2. DiskOK' /\ FileOK' /\ ReadOK' /\ \A z : Untouched(z)' <=> Untouched(z)
  BY <1>1 DEF LoadInv, DiskOK, FileOK, RestOK, ReadOK, WasRead, Untouched
<1>3. phase' # "loading"
  BY <1>1
<1> QED BY <1>1, <1>2, <1>3 DEF LoadInv

\* The chain that a query is answered from.
LEMMA HitIs ==
  ASSUME NEW d, NEW q, DbOK(d), HitKey(d, q) # << >>
  PROVE  HitKey(d, q) \in DOMAIN d.list
BY ChainIs DEF HitKey

LEMMA ProcQueryKeeps ==
  ASSUME LoadInv, ProcQuery
  PROVE  /\ LoadInv' /\ phase = "serving"
         /\ db'.any = db.any /\ db'.rr = db.rr
         /\ DOMAIN db'.list = DOMAIN db.list
         /\ \A k \in DOMAIN db.list : Range(db'.list[k]) = Range(db.list[k])
         /\ \A name : Chain(db', name, "NS") = Chain(db, name, "NS")
<1> DEFINE k0 == HitKey(db, reply.to)
           type == reply.to.type
<1>1. /\ Pending /\ disk' = disk /\ file' = file
      /\ unread' = unread /\ phase' = phase
      /\ db' = IF FromChain(db, reply.to) THEN Rotated(db, type, k0) ELSE db
  BY DEF ProcQuery
<1>2. phase = "serving"
  BY <1>1 DEF LoadInv, Pending
<1>3. DbOK(db)
  BY DEF LoadInv
<1>4. /\ DbOK(db') /\ Grows(db, db') /\ db'.any = db.any /\ db'.rr = db.rr
      /\ DOMAIN db'.list = DOMAIN db.list /\ db'.ns = db.ns
      /\ \A k \in DOMAIN db.list : Range(db'.list[k]) = Range(db.list[k])
      /\ \A name : Chain(db', name, "NS") = Chain(db, name, "NS")
  <2>1. CASE FromChain(db, reply.to)
    <3>1. k0 \in DOMAIN db.list
      BY <1>3, <2>1, HitIs DEF FromChain
    <3> HIDE DEF k0, type
    <3> QED BY <1>1, <1>3, <2>1, <3>1, RotatedOK
  <2>2. CASE ~ FromChain(db, reply.to)
    BY <1>1, <1>3, <2>2 DEF Grows
  <2> QED BY <2>1, <2>2
<1>5. unread = {} /\ file = NoFile
  BY <1>2 DEF LoadInv
<1>6. ReadOK'
  <2> SUFFICES ASSUME NEW z \in Zone, NEW i \in DOMAIN disk[z],
                      disk[z][i].type \notin {"NS", "SOA"},
                      HasAuthority(z, disk[z][i])
               PROVE  Bears(db', disk[z][i])
    BY <1>1, <1>5 DEF ReadOK
  <2>1. WasRead(z, i) /\ z \in Zone \ unread /\ ReadOK
    BY <1>5 DEF WasRead, LoadInv
  <2> QED BY <1>3, <1>4, <2>1, ReadFurther
<1>7. \A z : ~ Untouched(z)'
  <2>1. "serving" # "loading"
    OBVIOUS
  <2> QED BY <1>1, <1>2, <1>5, <2>1 DEF Untouched
<1>8. DiskOK' /\ FileOK'
  BY <1>1, <1>5 DEF LoadInv, DiskOK, FileOK
<1>9. phase' # "loading" /\ unread' = {} /\ file' = NoFile
  BY <1>1, <1>2, <1>5
<1> QED BY <1>1, <1>2, <1>4, <1>6, <1>7, <1>8, <1>9 DEF LoadInv

LEMMA NextLoad ==
  ASSUME LoadInv, [Next]_vars PROVE LoadInv'
<1>1. CASE Load /\ UNCHANGED <<rc, reply>>
  BY <1>1, LoadKeeps
<1>2. CASE \E q \in Query : Ask(q)
  BY <1>2, AskKeeps
<1>3. CASE ProcQuery
  BY <1>3, ProcQueryKeeps
<1>4. CASE UNCHANGED vars
  BY <1>4 DEF vars, LoadInv, DiskOK, FileOK, RestOK, ReadOK, WasRead, Untouched
<1> QED BY <1>1, <1>2, <1>3, <1>4 DEF Next

LEMMA LoadHolds == Spec => []LoadInv
BY InitLoad, NextLoad, PTL DEF Spec

-----------------------------------------------------------------------------
\* No chain goes on to NS records that were freed, whatever the zones, their
\* files and the order they are read in (add_rr_to_bighash, which frees glue
\* when data with authority replaces it).
THEOREM NsPointersLiveTheorem == Spec => []NsPointersLive
<1>1. LoadInv => NsPointersLive
  <2> SUFFICES ASSUME LoadInv, NEW k \in DOMAIN db.ns, db.ns[k] # 0
               PROVE  Chain(db, db.rr[db.ns[k]].name, "NS")[1] = db.ns[k]
    BY DEF NsPointersLive
  <2>1. DbOK(db) /\ PointerOK(db, k)
    BY DEF LoadInv, DbOK
  <2> QED BY <2>1 DEF PointerOK, Chain, At
<1> QED BY <1>1, LoadHolds, PTL

\* The objects of a sequence whose types differ are as many as the types.
LEMMA TypesCount ==
  ASSUME NEW s, IsSeq(s), NEW rr,
         \A i, j \in DOMAIN s : rr[s[i]].type = rr[s[j]].type => i = j
  PROVE  Cardinality({rr[h].type : h \in Range(s)}) = Len(s)
<1> DEFINE n == Len(s)
           T == {rr[h].type : h \in Range(s)}
           f == [i \in 1..n |-> rr[s[i]].type]
<1>1. n \in Nat /\ DOMAIN s = 1..n
  BY SeqRange DEF IsSeq
<1> HIDE DEF n
<1>2. f \in [1..n -> T] /\ \A a, b \in 1..n : f[a] = f[b] => a = b
  BY <1>1 DEF Range
<1>3. \A t \in T : \E i \in 1..n : f[i] = t
  BY <1>1 DEF Range
<1> HIDE DEF f, T
<1>4. f \in Bijection(1..n, T)
  BY <1>2, <1>3, Fun_IsBij
<1>5. ExistsBijection(1..n, T)
  BY <1>4, Fun_ExistsBij
<1>6. Cardinality(T) = n
  BY <1>1, <1>5, FS_CountingElements
<1> QED BY <1>6 DEF n, T

\* What a query for ANY is answered with: the list behind a name names each
\* chain of the name once, however often glue was replaced and chains were
\* rotated (mara_put_any and add_rr_to_bighash's removal from that list).
THEOREM AnyListsTheNameTheorem == Spec => []AnyListsTheName
<1>1. LoadInv => AnyListsTheName
  <2> SUFFICES ASSUME LoadInv,
                      NEW n \in {k[1] : k \in DOMAIN db.list} \cup DOMAIN db.any
               PROVE  LET heads == At(db.any, n)
                          types == {k[2] : k \in {j \in DOMAIN db.list : j[1] = n}}
                      IN /\ {db.rr[h].type : h \in Range(heads)} = types
                         /\ Len(heads) = Cardinality(types)
                         /\ \A h \in Range(heads) :
                              h \in Range(Chain(db, n, db.rr[h].type))
    BY DEF AnyListsTheName
  <2> DEFINE heads == db.any[n]
             types == {k[2] : k \in {j \in DOMAIN db.list : j[1] = n}}
  <2>1. DbOK(db)
    BY DEF LoadInv
  <2>2. n \in DOMAIN db.any
    BY <2>1 DEF DbOK, Listed
  <2>3. At(db.any, n) = heads /\ AnyOK(db, n)
    BY <2>1, <2>2 DEF At, DbOK
  <2>4. ASSUME NEW h \in Range(heads)
        PROVE  db.rr[h].type \in types
               /\ h \in Range(Chain(db, n, db.rr[h].type))
    <3> DEFINE k == <<n, db.rr[h].type>>
    <3>1. k \in DOMAIN db.list /\ h \in Range(db.list[k])
      BY <2>3 DEF AnyOK
    <3>2. k[1] = n /\ k[2] = db.rr[h].type
      OBVIOUS
    <3> QED BY <3>1, <3>2 DEF Chain, At
  <2>5. ASSUME NEW t \in types PROVE \E h \in Range(heads) : db.rr[h].type = t
    <3>1. PICK k \in DOMAIN db.list : k[1] = n /\ k[2] = t
      OBVIOUS
    <3>2. Listed(db, k)
      BY <2>1 DEF DbOK
    <3> QED BY <3>1, <3>2 DEF Listed
  <2>6. {db.rr[h].type : h \in Range(heads)} = types
    BY <2>4, <2>5
  <2>7. Cardinality({db.rr[h].type : h \in Range(heads)}) = Len(heads)
    BY <2>3, TypesCount DEF AnyOK
  <2> QED BY <2>3, <2>4, <2>6, <2>7
<1> QED BY <1>1, LoadHolds, PTL

\* Glue never hides a record that a zone has authority over and never adds to
\* its chain, whatever the order of the zones and of the lines of their files.
THEOREM AuthorityWinsTheorem == Spec => []AuthorityWins
<1>1. LoadInv => AuthorityWins
  <2> SUFFICES ASSUME LoadInv, NEW z \in Zone, phase = "serving",
                      NEW i \in DOMAIN disk[z],
                      disk[z][i].type \notin {"NS", "SOA"},
                      HasAuthority(z, disk[z][i])
               PROVE  LET r == disk[z][i]
                          chain == Chain(db, r.name, r.type)
                      IN /\ \E o \in Range(chain) : db.rr[o].to = r.to
                         /\ \A o \in Range(chain) : db.rr[o].auth
    BY DEF AuthorityWins
  <2>1. DbOK(db) /\ ReadOK /\ unread = {} /\ file = NoFile
    BY DEF LoadInv
  <2>2. Bears(db, disk[z][i])
    BY <2>1 DEF ReadOK, WasRead
  <2>3. \A o \in Range(Chain(db, disk[z][i].name, disk[z][i].type)) :
          db.rr[o].auth
    BY <2>1, <2>2, BearsAll
  <2> QED BY <2>2, <2>3 DEF Bears
<1> QED BY <1>1, LoadHolds, PTL

-----------------------------------------------------------------------------
(***************************************************************************)
(* Replies.                                                                *)
(***************************************************************************)
\* Neither a refusal nor a negative reply.
Positive(r) ==
  r.rcode \in {0, 1, 4} /\ r.kind \notin {"refused", "servfail", "notfound"}

LEMMA FirstOfIs ==
  ASSUME NEW s, IsSeq(s)
  PROVE  \/ FirstOf(s) = NoReply /\ \A i \in DOMAIN s : s[i] = NoReply
         \/ FirstOf(s) # NoReply /\ \E i \in DOMAIN s : FirstOf(s) = s[i]
<1> DEFINE I == {i \in 1..Len(s) : s[i] # NoReply}
           j == IF I # {} THEN Min(I) ELSE 0
<1>1. SelectInSeq(s, LAMBDA r : r # NoReply) = j
  BY DEF SelectInSeq
<1>2. DOMAIN s = 1..Len(s) /\ Len(s) \in Nat
  BY SeqRange DEF IsSeq
<1>3. FirstOf(s) = IF j = 0 THEN NoReply ELSE s[j]
  BY <1>1 DEF FirstOf
<1>4. CASE I = {}
  BY <1>2, <1>3, <1>4
<1>5. CASE I # {}
  <2>1. \E x \in I : \A y \in I : x <= y
    <3>1. I \in SUBSET Nat
      BY <1>2
    <3> HIDE DEF I
    <3> QED BY <1>5, <3>1, LeastNatural
  <2>2. j \in I
    <3> HIDE DEF I
    <3> QED BY <1>5, <2>1 DEF Min
  <2>3. j # 0
    BY <2>2
  <2> HIDE DEF j
  <2> QED BY <1>2, <1>3, <2>2, <2>3
<1> QED BY <1>4, <1>5

LEMMA SuccessIs ==
  ASSUME NEW d, NEW type, NEW chain
  PROVE  Positive(Success(d, type, chain)) /\ Success(d, type, chain) # NoReply
BY DEF Success, Reply, Positive, NoReply

LEMMA AnyReplyIs ==
  ASSUME NEW d, NEW q
  PROVE  Positive(AnyReply(d, q))
BY DEF AnyReply, Reply, Positive, NoReply

LEMMA StarIs ==
  ASSUME NEW d, NEW name, NEW chain
  PROVE  Positive(Star(d, name, chain)) /\ Star(d, name, chain) # NoReply
BY DEF Star, Reply, Positive, NoReply

-----------------------------------------------------------------------------
(***************************************************************************)
(* NXDOMAIN.                                                               *)
(***************************************************************************)
\* The reply r to q, made from d, does not deny a name that is there.
Honest(d, q, r) ==
  r.rcode = 3 =>
    /\ ~HasAny(d, q.name)
    /\ rc.bind_star_handling = 1 /\ rc.dos_protection_level <= 17 =>
         \A k \in 1..Len(q.name) : ~HasAny(d, StarLabel(q.name, k))

LEMMA PositiveHonest ==
  ASSUME NEW d, NEW q, NEW r, Positive(r) PROVE Honest(d, q, r)
BY DEF Positive, Honest

LEMMA NoReplyHonest ==
  ASSUME NEW d, NEW q PROVE Honest(d, q, NoReply)
BY DEF Honest, NoReply, Reply

LEMMA NotFoundHonest ==
  ASSUME NEW d, NEW q, NEW soa, NEW always,
         \/ rc.bind_star_handling = 2
         \/ AlwaysNotThere(d, q) => always
  PROVE  Honest(d, q, NotFound(d, q, soa, always))
<1> DEFINE r == NotFound(d, q, soa, always)
<1> SUFFICES ASSUME r.rcode = 3 PROVE Honest(d, q, r)
  BY DEF Honest
<1>1. ~ always /\ ~ HasAny(d, q.name)
  BY DEF NotFound, Bare, Reply
<1>2. rc.bind_star_handling = 1 /\ rc.dos_protection_level <= 17 =>
        \A k \in 1..Len(q.name) : ~HasAny(d, StarLabel(q.name, k))
  <2> SUFFICES ASSUME rc.bind_star_handling = 1,
                      rc.dos_protection_level <= 17,
                      NEW k \in 1..Len(q.name),
                      HasAny(d, StarLabel(q.name, k))
               PROVE  FALSE
    OBVIOUS
  <2>1. rc.bind_star_handling >= 1 /\ rc.bind_star_handling # 2
    OBVIOUS
  <2>2. AlwaysNotThere(d, q)
    BY <2>1 DEF AlwaysNotThere
  <2> QED BY <1>1, <2>1, <2>2
<1> HIDE DEF r
<1> QED BY <1>1, <1>2 DEF Honest

LEMMA DelegationIs ==
  ASSUME NEW d, NEW q PROVE Positive(Delegation(d, q))
<1>1. \/ Delegation(d, q) \in {NoReply, Bare("recurse", 0)}
      \/ \E chain : Delegation(d, q) = Success(d, q.type, chain)
  BY DEF Delegation
<1>2. Positive(NoReply) /\ Positive(Bare("recurse", 0))
  BY DEF Positive, NoReply, Bare, Reply
<1> QED BY <1>1, <1>2, SuccessIs

LEMMA StarStepIs ==
  ASSUME NEW d, NEW q, NEW k
  PROVE  \/ Positive(StarStep(d, q, k))
         \/ /\ rc.bind_star_handling = 2
            /\ \E always :
                 StarStep(d, q, k) = NotFound(d, q, NxStore(d, q), always)
<1> DEFINE chain == Chain(d, StarLabel(q.name, k), q.type)
           there == \E j \in 1..k : HasAny(d, StarLabel(q.name, j))
           nx == NxStore(d, q)
<1>1. \/ StarStep(d, q, k) = NoReply
      \/ StarStep(d, q, k) = Star(d, q.name, chain)
      \/ /\ rc.bind_star_handling = 2
         /\ StarStep(d, q, k) \in {NotFound(d, q, nx, there),
                                   NotFound(d, q, nx, FALSE)}
  <2> HIDE DEF nx, there
  <2>1. StarStep(d, q, k) =
          LET collision == HasAny(d, Above(q.name, k))
          IN CASE chain # << >> -> Star(d, q.name, chain)
               [] chain = << >> /\ rc.bind_star_handling = 2 /\ collision
                    /\ k = 1 -> NotFound(d, q, nx, there)
               [] chain = << >> /\ rc.bind_star_handling = 2 /\ collision
                    /\ k > 1 /\ ~HasAny(d, StarLabel(q.name, k)) ->
                    NotFound(d, q, nx, FALSE)
               [] OTHER -> NoReply
    BY Zenon DEF StarStep, nx, there
  <2> HIDE DEF chain
  <2> QED BY <2>1
<1>2. Positive(NoReply)
  BY DEF Positive, NoReply, Reply
<1>3. Positive(Star(d, q.name, chain))
  BY StarIs
<1> HIDE DEF chain, there
<1> QED BY <1>1, <1>2, <1>3

LEMMA StarCnameIs ==
  ASSUME NEW d, NEW q PROVE Positive(StarCname(d, q))
<1> DEFINE chain(k) == Chain(d, StarLabel(q.name, k), "CNAME")
           hits == {k \in 2..Len(q.name) : chain(k) # << >>}
           c == chain(CHOOSE k \in hits : \A j \in hits : k <= j)
           c1 == chain(1)
<1>1. StarCname(d, q) \in {NoReply, Star(d, q.name, c1), Star(d, q.name, c)}
  <2>1. StarCname(d, q) =
          CASE rc.dos_protection_level > 7 -> NoReply
            [] rc.dos_protection_level <= 7 /\ c1 # << >> ->
                 Star(d, q.name, c1)
            [] rc.dos_protection_level <= 7 /\ c1 = << >>
                 /\ rc.bind_star_handling = 0 /\ hits # {} ->
                 Star(d, q.name, c)
            [] OTHER -> NoReply
    BY Zenon DEF StarCname
  <2> HIDE DEF c, c1, hits
  <2> QED BY <2>1
<1>2. Positive(NoReply)
  BY DEF Positive, NoReply, Reply
<1>3. Positive(Star(d, q.name, c1)) /\ Positive(Star(d, q.name, c))
  BY StarIs
<1> HIDE DEF c, c1
<1> QED BY <1>1, <1>2, <1>3

\* What the loop over the stars replies, and which of its steps replied.
LEMMA StarsAre ==
  ASSUME NEW d, NEW q, IsSeq(q.name)
  PROVE  Stars(d, q) \in {NoReply, StarCname(d, q)}
           \union {StarStep(d, q, k) : k \in 1..Len(q.name)}
<1> DEFINE n == Len(q.name)
           s == [k \in 1..n |-> StarStep(d, q, k)]
           t == <<StarCname(d, q)>>
           S == {StarStep(d, q, k) : k \in 1..n} \union {StarCname(d, q)}
<1>1. n \in Nat
  BY SeqRange DEF IsSeq
<1>2. IsSeq(s) /\ IsSeq(t)
  <2> DEFINE S1 == {StarStep(d, q, k) : k \in 1..n}
             T1 == {StarCname(d, q)}
  <2>1. s \in Seq(S1) /\ t \in Seq(T1)
    <3> HIDE DEF n
    <3> QED BY <1>1
  <2> HIDE DEF s, t, S1, T1
  <2> QED BY <2>1, SeqRange
<1>3. Range(s) \subseteq S /\ Range(t) \subseteq S
  <2> HIDE DEF n
  <2> QED BY <1>1 DEF Range
<1> HIDE DEF s, t, S, n
<1>4. Joined(s \o t, s, t)
  BY <1>2, ConcatIs
<1>5. IsSeq(s \o t) /\ Range(s \o t) \subseteq S
  BY <1>3, <1>4 DEF Joined
<1>6. FirstOf(s \o t) \in {NoReply} \union S
  <2>1. \A i \in DOMAIN (s \o t) : (s \o t)[i] \in S
    BY <1>5 DEF Range
  <2> QED BY <1>5, <2>1, FirstOfIs
<1>7. Stars(d, q) \in {NoReply, FirstOf(s \o t)}
  BY DEF Stars, s, t, n
<1> QED BY <1>6, <1>7 DEF S, n

LEMMA StarsHonest ==
  ASSUME NEW d, NEW q, IsSeq(q.name) PROVE Honest(d, q, Stars(d, q))
<1>1. Honest(d, q, NoReply) /\ Honest(d, q, StarCname(d, q))
  BY NoReplyHonest, StarCnameIs, PositiveHonest
<1>2. \A k : Honest(d, q, StarStep(d, q, k))
  BY StarStepIs, PositiveHonest, NotFoundHonest
<1> QED BY <1>1, <1>2, StarsAre

LEMMA DefaultStarsAre ==
  ASSUME NEW d, NEW q
  PROVE  \/ DefaultStars(d, q) \in {NoReply, Bare("dropped", 0)}
         \/ \E chain : DefaultStars(d, q) = Star(d, q.name, chain)
         \/ /\ HasDefault /\ Chain(d, DefaultZone, "SOA") # << >>
            /\ DefaultStars(d, q) =
                 NotFound(d, q, Chain(d, DefaultZone, "SOA")[1],
                          AlwaysNotThere(d, q))
BY DEF DefaultStars

LEMMA BareHonest ==
  ASSUME NEW d, NEW q, NEW kind, NEW rcode, rcode # 3
  PROVE  Honest(d, q, Bare(kind, rcode))
BY DEF Honest, Bare, Reply

LEMMA RejectedHonest ==
  ASSUME NEW d, NEW q PROVE Honest(d, q, Rejected(q))
<1>1. Rejected(q) \in {NoReply, Bare("dropped", 0), Bare("formerr", 1),
                       Bare("notimp", 4)}
  BY DEF Rejected
<1> QED BY <1>1, NoReplyHonest, BareHonest

\* The five places a reply can come from, in the order they are tried.
Tries(d, q) ==
  LET key == HitKey(d, q)
  IN <<AnyReply(d, q),
       IF key = << >> THEN NoReply ELSE Success(d, q.type, d.list[key]),
       Delegation(d, q), Stars(d, q), DefaultStars(d, q)>>

LEMMA FoundIs ==
  ASSUME NEW d, NEW q
  PROVE  /\ IsSeq(Tries(d, q)) /\ DOMAIN Tries(d, q) = 1..5
         /\ Tries(d, q)[1] = AnyReply(d, q)
         /\ Tries(d, q)[2] = IF HitKey(d, q) = << >> THEN NoReply
                             ELSE Success(d, q.type, d.list[HitKey(d, q)])
         /\ Tries(d, q)[3] = Delegation(d, q)
         /\ Tries(d, q)[4] = Stars(d, q)
         /\ Tries(d, q)[5] = DefaultStars(d, q)
         /\ Found(d, q) = IF Rejected(q) # NoReply
                               \/ rc.dos_protection_level = 78
                          THEN Rejected(q) ELSE FirstOf(Tries(d, q))
<1> DEFINE a == AnyReply(d, q)
           b == IF HitKey(d, q) = << >> THEN NoReply
                ELSE Success(d, q.type, d.list[HitKey(d, q)])
           e == Delegation(d, q)
           f == Stars(d, q)
           g == DefaultStars(d, q)
           s == <<a, b, e, f, g>>
           S == {a, b, e, f, g}
<1>1. Tries(d, q) = s
  BY DEF Tries
<1>2. Found(d, q) = IF Rejected(q) # NoReply \/ rc.dos_protection_level = 78
                    THEN Rejected(q) ELSE FirstOf(s)
  BY DEF Found
<1> HIDE DEF a, b, e, f, g
<1>3. s \in Seq(S) /\ Len(s) = 5
      /\ s[1] = a /\ s[2] = b /\ s[3] = e /\ s[4] = f /\ s[5] = g
  OBVIOUS
<1> HIDE DEF s, S
<1>4. IsSeq(s) /\ DOMAIN s = 1..5
  BY <1>3, SeqRange
<1> QED BY <1>1, <1>2, <1>3, <1>4 DEF a, b, e, f, g

LEMMA AnswerHonest ==
  ASSUME NEW d, NEW q, IsSeq(q.name) PROVE Honest(d, q, Answer(d, q))
<1> DEFINE s == Tries(d, q)
<1>1. Honest(d, q, AnyReply(d, q)) /\ Honest(d, q, Delegation(d, q))
      /\ Honest(d, q, Stars(d, q))
  BY AnyReplyIs, DelegationIs, StarsHonest, PositiveHonest
<1>2. Honest(d, q, DefaultStars(d, q))
  <2>1. Honest(d, q, Bare("dropped", 0))
    BY BareHonest
  <2>2. \A chain : Honest(d, q, Star(d, q.name, chain))
    BY StarIs, PositiveHonest
  <2>3. \A soa : Honest(d, q, NotFound(d, q, soa, AlwaysNotThere(d, q)))
    BY NotFoundHonest
  <2> QED BY <2>1, <2>2, <2>3, DefaultStarsAre, NoReplyHonest
<1>3. Honest(d, q, IF HitKey(d, q) = << >> THEN NoReply
                   ELSE Success(d, q.type, d.list[HitKey(d, q)]))
  BY NoReplyHonest, SuccessIs, PositiveHonest
<1>4. \A i \in 1..5 : Honest(d, q, s[i])
  <2>1. \A i \in 1..5 : i = 1 \/ i = 2 \/ i = 3 \/ i = 4 \/ i = 5
    OBVIOUS
  <2> HIDE DEF s
  <2>2. /\ s[1] = AnyReply(d, q)
        /\ s[2] = IF HitKey(d, q) = << >> THEN NoReply
                  ELSE Success(d, q.type, d.list[HitKey(d, q)])
        /\ s[3] = Delegation(d, q) /\ s[4] = Stars(d, q)
        /\ s[5] = DefaultStars(d, q)
    BY FoundIs DEF s
  <2> QED BY <1>1, <1>2, <1>3, <2>1, <2>2, Zenon
<1>5. Honest(d, q, FirstOf(s))
  <2>1. IsSeq(s) /\ DOMAIN s = 1..5
    BY FoundIs
  <2> HIDE DEF s
  <2> QED BY <1>4, <2>1, FirstOfIs, NoReplyHonest
<1>6. Honest(d, q, Found(d, q))
  <2>1. Found(d, q) \in {Rejected(q), FirstOf(s)}
    BY FoundIs
  <2> HIDE DEF s
  <2> QED BY <1>5, <2>1, RejectedHonest
<1>7. Honest(d, q, Otherwise(d, q))
  <2>1. Honest(d, q, Bare("recurse", 0)) /\ Honest(d, q, Bare("refused", 5))
    BY BareHonest
  <2>2. Honest(d, q, NotFound(d, q, NxStore(d, q), AlwaysNotThere(d, q)))
    BY NotFoundHonest
  <2>3. Otherwise(d, q) \in
          {NotFound(d, q, NxStore(d, q), AlwaysNotThere(d, q)),
           Bare("recurse", 0), Bare("refused", 5)}
    BY DEF Otherwise
  <2> QED BY <2>1, <2>2, <2>3
<1>8. Answer(d, q) \in {Found(d, q), Otherwise(d, q)}
  BY DEF Answer
<1> QED BY <1>6, <1>7, <1>8

\* The query that is answered is one that was asked, under the settings.
Asked ==
  /\ rc \in Mararc
  /\ reply.to \in Query \union {NoQuery} /\ DOMAIN reply = {"to", "is"}
NxInv == Asked /\ NxdomainHonest

LEMMA AskedIs ==
  ASSUME Asked, Pending PROVE reply.to \in Query /\ IsSeq(reply.to.name)
BY QueryAssumption DEF QueryAssumption, Asked, Pending, IsSeq

LEMMA NextAsked ==
  ASSUME Asked, [Next]_vars PROVE Asked'
BY DEF Asked, Next, Ask, ProcQuery, vars

LEMMA NextNx ==
  ASSUME LoadInv, NxInv, [Next]_vars PROVE NxInv'
<1>1. CASE Load /\ UNCHANGED <<rc, reply>>
  <2>1. phase = "loading"
    BY <1>1 DEF Load, OpenZone, ReadLine, CloseZone, Additions
  <2>2. reply'.is.rcode # 3
    BY <1>1, <2>1 DEF LoadInv, NoReply, Reply
  <2> QED BY <2>2, NextAsked DEF NxInv, NxdomainHonest
<1>2. ASSUME NEW q \in Query, Ask(q) PROVE NxInv'
  <2>1. reply'.is.rcode # 3
    BY <1>2 DEF Ask, NoReply, Reply
  <2> QED BY <2>1, NextAsked DEF NxInv, NxdomainHonest
<1>3. CASE ProcQuery
  <2>1. Pending /\ rc' = rc /\ reply' = [reply EXCEPT !.is = Answer(db, reply.to)]
    BY <1>3 DEF ProcQuery
  <2>2. reply'.to = reply.to /\ reply'.is = Answer(db, reply.to)
    BY <2>1 DEF NxInv, Asked
  <2>3. db'.any = db.any
    BY <1>3, ProcQueryKeeps
  <2>4. \A name : HasAny(db', name) <=> HasAny(db, name)
    BY <2>3 DEF HasAny, At
  <2>5. Honest(db, reply.to, Answer(db, reply.to))
    BY <2>1, AskedIs, AnswerHonest DEF NxInv
  <2>6. NxdomainHonest'
    BY <2>1, <2>2, <2>4, <2>5 DEF NxdomainHonest, Honest
  <2> QED BY <2>6, NextAsked DEF NxInv
<1>4. CASE UNCHANGED vars
  <2>1. NxdomainHonest'
    BY <1>4 DEF vars, NxInv, NxdomainHonest, HasAny, At
  <2> QED BY <2>1, NextAsked DEF NxInv
<1> QED BY <1>1, <1>2, <1>3, <1>4, NextAsked DEF Next

LEMMA AskedHolds == Spec => []Asked
<1>1. Init => Asked
  BY DEF Init, Asked
<1> QED BY <1>1, NextAsked, PTL DEF Spec

\* NXDOMAIN is never said of a name that has records of another type nor, with
\* bind_star_handling = 1, of one that a star has records for (udpnotfound and
\* the loops of proc_query that set always_not_there).
THEOREM NxdomainHonestTheorem == Spec => []NxdomainHonest
<1>1. Init => NxInv
  BY DEF Init, NxInv, Asked, NxdomainHonest, NoReply, Reply
<1>2. LoadInv /\ NxInv /\ [Next]_vars => NxInv'
  BY NextNx
<1>3. NxInv => NxdomainHonest
  BY DEF NxInv
<1> QED BY <1>1, <1>2, <1>3, LoadHolds, PTL DEF Spec

-----------------------------------------------------------------------------
(***************************************************************************)
(* The zones that NS records with authority are of, and their SOAs.  The   *)
(* SOA at the start of a file is its zone's unless the file says another   *)
(* name, which csv2_set_soa does not mind.                                 *)
(***************************************************************************)
\* An object that says that maradns has authority over the zone.
Rules(d, o, z) == d.rr[o].type = "NS" /\ d.rr[o].auth /\ d.rr[o].name = z

RulersOK == \A z : \A o \in DOMAIN db.rr : Rules(db, o, z) => z \in DOMAIN disk

\* What a record with authority adds.
LEMMA NewRules ==
  ASSUME NEW d, NEW e, NEW y, NEW S, StepsOK(d, e, y, S),
         NEW o \in DOMAIN e.rr, NEW z, Rules(e, o, z)
  PROVE  \/ o \in DOMAIN d.rr /\ Rules(d, o, z)
         \/ z = y /\ \E r \in S : r.type = "NS" /\ r.name = y
<1>1. CASE o \in DOMAIN d.rr
  BY <1>1 DEF StepsOK, Grows, Rules
<1>2. CASE o \notin DOMAIN d.rr
  <2>1. PICK r \in S : /\ e.rr[o].name = r.name /\ e.rr[o].type = r.type
                       /\ e.rr[o].auth = HasAuthority(y, r)
    BY <1>2 DEF StepsOK
  <2>2. r.type = "NS" /\ HasAuthority(y, r) /\ r.name = z
    BY <2>1 DEF Rules
  <2>3. r.name = y
    BY <2>2 DEF HasAuthority
  <2> QED BY <2>2, <2>3
<1> QED BY <1>1, <1>2

\* The end of a file.
LEMMA CloseZoneIs ==
  ASSUME LoadInv, CloseZone
  PROVE  \E S : /\ StepsOK(db, db', file.zone, S)
                /\ file.inNs /\ file.soa # << >> => file.soa[1] \in S
                /\ \A r \in S : r.type = "SOA"
<1>1. /\ phase = "loading" /\ file # NoFile
      /\ db' = IF file.inNs THEN AddSoa(db, file) ELSE db
  BY DEF CloseZone
<1>2. DbOK(db) /\ HeadsOK(db) /\ (file.soa # << >> => file.soa[1].type = "SOA")
  BY <1>1 DEF LoadInv, FileOK
<1>3. CASE file.inNs
  <2>1. StepsOK(db, db', file.zone, SoaOf(file))
    BY <1>1, <1>2, <1>3, AddSoaOK
  <2>2. /\ file.soa # << >> => file.soa[1] \in SoaOf(file)
        /\ \A r \in SoaOf(file) : r.type = "SOA"
    BY <1>2 DEF SoaOf
  <2> QED BY <2>1, <2>2
<1>4. CASE ~ file.inNs
  <2>1. StepsOK(db, db', file.zone, {})
    BY <1>1, <1>2, <1>4, NoStep
  <2> QED BY <1>4, <2>1
<1> QED BY <1>3, <1>4

LEMMA NextRulers ==
  ASSUME LoadInv, RulersOK, [Next]_vars PROVE RulersOK'
<1>1. ASSUME ReadLine \/ CloseZone PROVE RulersOK'
  <2>1. disk' = disk /\ file # NoFile
    BY <1>1 DEF ReadLine, CloseZone
  <2>2. \E S : StepsOK(db, db', file.zone, S)
    BY <1>1, ReadLineIs, CloseZoneIs DEF LineRead
  <2>3. file.zone \in DOMAIN disk
    BY <2>1 DEF LoadInv, FileOK
  <2> QED BY <2>1, <2>2, <2>3, NewRules DEF RulersOK
<1>2. ASSUME Additions PROVE RulersOK'
  <2>1. db' = WithAdditional(db) /\ disk' = disk /\ DbOK(db)
    BY <1>2 DEF Additions, LoadInv
  <2>2. Grows(db, db') /\ DOMAIN db'.rr = DOMAIN db.rr
    BY <2>1, WithAdditionalOK
  <2> QED BY <2>1, <2>2 DEF RulersOK, Rules, Grows
<1>3. ASSUME ProcQuery PROVE RulersOK'
  <2>1. db'.rr = db.rr /\ disk' = disk
    BY <1>3, ProcQueryKeeps DEF ProcQuery
  <2> QED BY <2>1 DEF RulersOK, Rules
<1>4. ASSUME UNCHANGED <<db, disk>> PROVE RulersOK'
  BY <1>4 DEF RulersOK, Rules
<1>5. \/ ReadLine \/ CloseZone \/ Additions \/ ProcQuery
      \/ UNCHANGED <<db, disk>>
  BY DEF Next, Load, OpenZone, Ask, vars
<1> QED BY <1>1, <1>2, <1>3, <1>4, <1>5

\* A file's first line, if it is a SOA, is its zone's.
SoasNamed ==
  \A z \in Zone : \A f \in Files[z] :
    f # << >> /\ f[1].type = "SOA" => f[1].name = z

HasSoa(z) == <<z, "SOA">> \in DOMAIN db.list

\* The zone is read, and its SOA is still held back.
HeldBack(z) ==
  file # NoFile /\ file.zone = z /\ file.inNs /\ ~ file.first

SoaInv ==
  /\ \A z \in Zone : disk[z] \in Files[z]
  /\ \A o \in DOMAIN db.rr, z \in Zone :
       Rules(db, o, z) => HasSoa(z) \/ HeldBack(z)
  /\ \A z \in Zone :
       HeldBack(z) => file.soa # << >> /\ file.soa[1].name = z

\* The objects and SOAs of the zones, other than the one that is read.
LEMMA OtherSoas ==
  ASSUME LoadInv, SoaInv, NEW S, StepsOK(db, db', file.zone, S),
         NEW o \in DOMAIN db'.rr, NEW z \in Zone, Rules(db', o, z),
         \/ z # file.zone
         \/ /\ ~ file.inNs
            /\ \A x \in S : ~ (x.type = "NS" /\ x.name = file.zone)
  PROVE  HasSoa(z)'
<1>1. CASE o \in DOMAIN db.rr /\ Rules(db, o, z) /\ HasSoa(z)
  BY <1>1 DEF StepsOK, Grows, HasSoa
<1>2. CASE o \in DOMAIN db.rr /\ Rules(db, o, z) /\ HeldBack(z)
  BY <1>2 DEF HeldBack
<1>3. CASE z = file.zone /\ \E r \in S : r.type = "NS" /\ r.name = file.zone
  BY <1>3
<1> QED BY <1>1, <1>2, <1>3, NewRules DEF SoaInv

LEMMA ReadLineSoa ==
  ASSUME LoadInv, SoaInv, SoasNamed, ReadLine PROVE SoaInv'
<1>1. /\ phase = "loading" /\ file # NoFile /\ file.rest # << >>
      /\ UNCHANGED <<disk, unread, phase>> /\ \E S : LineRead(S)
  BY ReadLineIs
<1>2. PICK S : LineRead(S)
  BY <1>1
<1>3. StepsOK(db, db', file.zone, S) /\ file'.zone = file.zone
      /\ file'.first = FALSE /\ file' # NoFile
  BY <1>2, IsFile DEF LineRead
<1>4. file.first => file.inNs /\ file.rest = disk[file.zone]
  BY <1>1 DEF LoadInv, FileOK
<1>5. file.zone \in Zone /\ file.first /\ Head(file.rest).type = "SOA" =>
        Head(file.rest).name = file.zone
  <2> SUFFICES ASSUME file.zone \in Zone, file.first,
                      Head(file.rest).type = "SOA"
               PROVE  Head(file.rest).name = file.zone
    OBVIOUS
  <2>1. IsSeq(file.rest) /\ file.rest \in Files[file.zone]
    BY <1>1, <1>4 DEF SoaInv, LoadInv, FileOK, RestOK
  <2>2. Head(file.rest) = file.rest[1]
    BY <2>1, <1>1 DEF IsSeq
  <2> QED BY <1>1, <2>1, <2>2 DEF SoasNamed
<1> DEFINE made == Record(file.zone, "SOA", "synth")
<1>6. made.name = file.zone /\ made.type = "SOA"
      /\ \A x : <<x>> # << >> /\ <<x>>[1] = x
  BY DEF Record
<1> HIDE DEF made
<1>7. file.zone \in Zone /\ file.inNs /\ ~ file.first =>
        /\ file.soa # << >>
        /\ file.soa[1].name = file.zone /\ file.soa[1].type = "SOA"
  BY <1>1 DEF SoaInv, HeldBack, LoadInv, FileOK
<1>8. file.zone \in Zone /\ file'.inNs =>
        file'.soa # << >> /\ file'.soa[1].name = file.zone
  <2> SUFFICES ASSUME file.zone \in Zone, file'.inNs
               PROVE  file'.soa # << >> /\ file'.soa[1].name = file.zone
    OBVIOUS
  <2>1. file.inNs
    BY <1>2 DEF LineRead
  <2>2. \/ file.first /\ Head(file.rest).type = "SOA"
             /\ file'.soa = <<Head(file.rest)>>
        \/ file.first /\ file'.soa = <<made>>
        \/ ~ file.first /\ file'.soa = file.soa
    BY <1>2 DEF LineRead, made
  <2> QED BY <1>5, <1>6, <1>7, <2>1, <2>2
<1>9. file.zone \in Zone /\ file.inNs /\ ~ file'.inNs => HasSoa(file.zone)'
  <2> SUFFICES ASSUME file.zone \in Zone, file.inNs, ~ file'.inNs
               PROVE  HasSoa(file.zone)'
    OBVIOUS
  <2>1. \/ made \in S
        \/ ~ file.first /\ (file.soa # << >> => file.soa[1] \in S)
    BY <1>2 DEF LineRead, made
  <2>2. \E x \in S : x.type = "SOA" /\ x.name = file.zone
    BY <1>6, <1>7, <2>1
  <2> QED BY <1>3, <2>2 DEF StepsOK, HasSoa
<1>10. ASSUME NEW o \in DOMAIN db'.rr, NEW z \in Zone, Rules(db', o, z)
       PROVE  HasSoa(z)' \/ HeldBack(z)'
  <2>1. CASE z = file.zone /\ file'.inNs
    BY <1>3, <2>1 DEF HeldBack
  <2>2. CASE z = file.zone /\ file.inNs /\ ~ file'.inNs
    BY <1>3, <1>9, <2>2 DEF HasSoa
  <2>3. CASE z # file.zone \/ ~ file.inNs
    <3>1. ~ file.inNs => \A x \in S : ~ (x.type = "NS" /\ x.name = file.zone)
      BY <1>2 DEF LineRead
    <3> QED BY <1>1, <1>3, <1>10, <2>3, <3>1, OtherSoas
  <2> QED BY <2>1, <2>2, <2>3
<1>11. \A z \in Zone :
         HeldBack(z)' => file'.soa # << >> /\ file'.soa[1].name = z
  BY <1>3, <1>8 DEF HeldBack
<1> QED BY <1>1, <1>10, <1>11 DEF SoaInv

LEMMA CloseZoneSoa ==
  ASSUME LoadInv, SoaInv, CloseZone PROVE SoaInv'
<1>1. file # NoFile /\ file' = NoFile /\ disk' = disk
  BY DEF CloseZone
<1>2. PICK S : /\ StepsOK(db, db', file.zone, S)
               /\ file.inNs /\ file.soa # << >> => file.soa[1] \in S
               /\ \A r \in S : r.type = "SOA"
  BY CloseZoneIs
<1>3. file.soa # << >> => file.soa[1].type = "SOA"
  BY <1>1 DEF LoadInv, FileOK
<1>4. \A z \in Zone : HeldBack(z) => HasSoa(z)'
  <2> SUFFICES ASSUME NEW z \in Zone, HeldBack(z) PROVE HasSoa(z)'
    OBVIOUS
  <2>1. file.inNs /\ file.soa # << >> /\ file.soa[1].name = z
    BY DEF HeldBack, SoaInv
  <2>2. file.soa[1] \in S /\ file.soa[1].type = "SOA"
    BY <1>2, <1>3, <2>1
  <2> QED BY <1>2, <2>1, <2>2 DEF StepsOK, HasSoa
<1>5. ASSUME NEW o \in DOMAIN db'.rr, NEW z \in Zone, Rules(db', o, z)
      PROVE  HasSoa(z)'
  <2>1. o \in DOMAIN db.rr /\ Rules(db, o, z)
    <3>1. ~ \E r \in S : r.type = "NS" /\ r.name = file.zone
      BY <1>2
    <3> QED BY <1>2, <1>5, <3>1, NewRules
  <2>2. CASE HasSoa(z)
    BY <1>2, <2>2 DEF StepsOK, Grows, HasSoa
  <2> QED BY <1>4, <2>1, <2>2 DEF SoaInv
<1> QED BY <1>1, <1>5 DEF SoaInv, HeldBack

LEMMA NextSoa ==
  ASSUME LoadInv, SoaInv, SoasNamed, [Next]_vars PROVE SoaInv'
<1>1. CASE ReadLine
  BY <1>1, ReadLineSoa
<1>2. CASE CloseZone
  BY <1>2, CloseZoneSoa
<1>3. ASSUME disk' = disk, ~ file' # NoFile \/ file'.first \/ file' = file,
             \A z : ~ HeldBack(z) \/ file' = file,
             DOMAIN db'.rr = DOMAIN db.rr, DOMAIN db'.list = DOMAIN db.list,
             \A z : \A o \in DOMAIN db.rr : Rules(db', o, z) => Rules(db, o, z)
      PROVE  SoaInv'
  BY <1>3 DEF SoaInv, HeldBack, HasSoa
<1>4. CASE Additions
  <2>1. db' = WithAdditional(db) /\ disk' = disk /\ DbOK(db) /\ file = NoFile
    BY <1>4 DEF Additions, LoadInv
  <2>2. Grows(db, db') /\ DOMAIN db'.rr = DOMAIN db.rr
    BY <2>1, WithAdditionalOK
  <2>3. DOMAIN db'.list = DOMAIN db.list
    BY <2>1 DEF WithAdditional, DbOK
  <2>4. file' = file \/ file'.first
    BY <1>4 DEF Additions, NewFile
  <2> QED BY <1>3, <2>1, <2>2, <2>3, <2>4 DEF Rules, Grows, HeldBack
<1>5. CASE ProcQuery
  <2>1. db'.rr = db.rr /\ disk' = disk /\ file' = file
        /\ DOMAIN db'.list = DOMAIN db.list
    BY <1>5, ProcQueryKeeps DEF ProcQuery
  <2> QED BY <1>3, <2>1 DEF Rules
<1>6. ASSUME NEW z \in Zone, OpenZone(z) PROVE SoaInv'
  <2>1. file = NoFile /\ file'.first /\ db' = db /\ disk' = disk
    BY <1>6 DEF OpenZone, NewFile
  <2> QED BY <1>3, <2>1 DEF HeldBack
<1>7. ASSUME UNCHANGED <<db, disk, file>> PROVE SoaInv'
  BY <1>3, <1>7
<1> QED BY <1>1, <1>2, <1>4, <1>5, <1>6, <1>7 DEF Next, Load, Ask, vars

LEMMA InitSoa ==
  ASSUME Init PROVE SoaInv /\ RulersOK
<1>1. DOMAIN db.rr = {} /\ file = NoFile /\ \A z \in Zone : disk[z] \in Files[z]
  BY EmptyIs DEF Init, ZoneInit, EmptyDb
<1> QED BY <1>1 DEF SoaInv, RulersOK, HeldBack

-----------------------------------------------------------------------------
(***************************************************************************)
(* Names in zones that there are NS records for.                           *)
(***************************************************************************)
HasNs(d, q, k) == Chain(d, Above(q.name, k), "NS") # << >>

\* What the way up from the name asked for comes to: the nearest name with
\* NS records, or the root, which has none.
Climbed(d, q) ==
  \/ /\ \A k \in 0..Len(q.name) : ~ HasNs(d, q, k)
     /\ Chain(d, NsName(d, q), "NS") = << >>
  \/ \E k \in 0..Len(q.name) :
       /\ NsName(d, q) = Above(q.name, k) /\ HasNs(d, q, k)
       /\ \A j \in 0..Len(q.name) : HasNs(d, q, j) => k <= j

LEMMA ClimbedIs ==
  ASSUME NEW d, NEW q, IsSeq(q.name) PROVE Climbed(d, q)
<1> DEFINE n == Len(q.name)
           K == {i \in 0..n : HasNs(d, q, i)}
           x == CHOOSE i \in K : \A j \in K : i <= j
<1>1. n \in Nat /\ q.name \in Seq(Range(q.name))
  BY SeqRange DEF IsSeq
<1>2. NsName(d, q) = IF K = {} THEN << >> ELSE Above(q.name, x)
  BY DEF NsName, HasNs
<1>3. Above(q.name, n) = << >>
  BY <1>1 DEF Above
<1> HIDE DEF n
<1>4. CASE K = {}
  <2>1. \A k \in 0..n : ~ HasNs(d, q, k)
    BY <1>4
  <2>2. n \in 0..n
    BY <1>1
  <2>3. Chain(d, << >>, "NS") = << >>
    BY <1>3, <2>1, <2>2 DEF HasNs
  <2> QED BY <1>2, <1>4, <2>1, <2>3 DEF Climbed, n
<1>5. CASE K # {}
  <2>1. \E i \in K : \A j \in K : i <= j
    <3>1. K \in SUBSET Nat
      BY <1>1
    <3> HIDE DEF K
    <3> QED BY <1>5, <3>1, LeastNatural
  <2>2. x \in K /\ \A j \in K : x <= j
    <3> HIDE DEF K
    <3> QED BY <2>1
  <2> HIDE DEF x
  <2>3. /\ NsName(d, q) = Above(q.name, x) /\ HasNs(d, q, x) /\ x \in 0..n
        /\ \A j \in 0..n : HasNs(d, q, j) => x <= j
    BY <1>2, <1>5, <2>2
  <2> QED BY <2>3 DEF Climbed, n
<1> QED BY <1>4, <1>5

\* Where a reply comes from, if it is negative.
Origin(d, q, r) ==
  \/ Positive(r)
  \/ /\ rc.bind_star_handling = 2
     /\ \E always : r = NotFound(d, q, NxStore(d, q), always)
  \/ /\ HasDefault
     /\ \E soa \in DOMAIN d.rr : \E always : r = NotFound(d, q, soa, always)

LEMMA NoReplyIs == Positive(NoReply)
BY DEF Positive, NoReply, Reply

LEMMA RejectedIs ==
  ASSUME NEW q PROVE Positive(Rejected(q))
<1>1. Rejected(q) \in {NoReply, Bare("dropped", 0), Bare("formerr", 1),
                       Bare("notimp", 4)}
  BY DEF Rejected
<1> QED BY <1>1 DEF Positive, NoReply, Bare, Reply

LEMMA TriesAre ==
  ASSUME NEW d, NEW q, IsSeq(q.name), DbOK(d), NEW i \in 1..5
  PROVE  Origin(d, q, Tries(d, q)[i])
<1>1. Origin(d, q, AnyReply(d, q)) /\ Origin(d, q, Delegation(d, q))
  BY AnyReplyIs, DelegationIs DEF Origin
<1>2. Origin(d, q, IF HitKey(d, q) = << >> THEN NoReply
                   ELSE Success(d, q.type, d.list[HitKey(d, q)]))
  BY NoReplyIs, SuccessIs DEF Origin
<1>3. Origin(d, q, Stars(d, q))
  <2>1. \A k : Origin(d, q, StarStep(d, q, k))
    BY StarStepIs DEF Origin
  <2>2. Origin(d, q, NoReply) /\ Origin(d, q, StarCname(d, q))
    BY NoReplyIs, StarCnameIs DEF Origin
  <2> QED BY <2>1, <2>2, StarsAre
<1>4. Origin(d, q, DefaultStars(d, q))
  <2>1. Positive(Bare("dropped", 0))
    BY DEF Positive, Bare, Reply
  <2>2. \A chain : Positive(Star(d, q.name, chain))
    BY StarIs
  <2>3. Chain(d, DefaultZone, "SOA") # << >> =>
          Chain(d, DefaultZone, "SOA")[1] \in DOMAIN d.rr
    <3> HIDE DEF DefaultZone
    <3> QED BY ChainIs
  <2> QED BY <2>1, <2>2, <2>3, NoReplyIs, DefaultStarsAre DEF Origin
<1> DEFINE s == Tries(d, q)
<1>5. /\ s[1] = AnyReply(d, q)
      /\ s[2] = IF HitKey(d, q) = << >> THEN NoReply
                ELSE Success(d, q.type, d.list[HitKey(d, q)])
      /\ s[3] = Delegation(d, q) /\ s[4] = Stars(d, q)
      /\ s[5] = DefaultStars(d, q)
  BY FoundIs
<1> HIDE DEF s
<1>6. i = 1 \/ i = 2 \/ i = 3 \/ i = 4 \/ i = 5
  OBVIOUS
<1>7. Origin(d, q, s[i])
  BY <1>1, <1>2, <1>3, <1>4, <1>5, <1>6, Zenon
<1> QED BY <1>7 DEF s

LEMMA FoundOrigin ==
  ASSUME NEW d, NEW q, IsSeq(q.name), DbOK(d)
  PROVE  /\ Origin(d, q, Found(d, q))
         /\ ~ NoClimb(q) /\ Found(d, q) = NoReply =>
              Delegation(d, q) = NoReply /\ DefaultStars(d, q) = NoReply
<1> DEFINE s == Tries(d, q)
<1>1. IsSeq(s) /\ DOMAIN s = 1..5 /\ \A i \in 1..5 : Origin(d, q, s[i])
  BY FoundIs, TriesAre
<1>2. s[3] = Delegation(d, q) /\ s[5] = DefaultStars(d, q)
  BY FoundIs
<1>3. Found(d, q) = IF Rejected(q) # NoReply \/ rc.dos_protection_level = 78
                    THEN Rejected(q) ELSE FirstOf(s)
  BY FoundIs
<1> HIDE DEF s
<1>4. Origin(d, q, NoReply) /\ Origin(d, q, Rejected(q))
  BY NoReplyIs, RejectedIs DEF Origin
<1>5. \/ FirstOf(s) = NoReply /\ s[3] = NoReply /\ s[5] = NoReply
      \/ FirstOf(s) # NoReply /\ \E i \in 1..5 : FirstOf(s) = s[i]
  <2>1. 3 \in 1..5 /\ 5 \in 1..5
    OBVIOUS
  <2> QED BY <1>1, <2>1, FirstOfIs
<1>6. Origin(d, q, Found(d, q))
  BY <1>1, <1>3, <1>4, <1>5
<1>7. ~ NoClimb(q) => rc.dos_protection_level # 78
  BY DEF NoClimb
<1> QED BY <1>2, <1>3, <1>5, <1>6, <1>7

\* What the reply r to q, made from d, is to a name below zones.
NamesOf(d, q) ==
  {k \in 0..Len(q.name) :
     /\ Above(q.name, k) \in Zone
     /\ \E r \in Range(Chain(d, Above(q.name, k), "NS")) : d.rr[r].auth}
Answered(d, q, r) ==
  ~ NoClimb(q) =>
    /\ r.kind = "refused" => NamesOf(d, q) = {}
    /\ r.kind = "notfound" /\ ~ HasDefault =>
         \E k \in NamesOf(d, q) :
           /\ \A j \in NamesOf(d, q) : k <= j
           /\ d.rr[r.ns[1]].name = Above(q.name, k)

\* Whatever name has NS records with authority is a zone.
RulersIn(d) == \A z : \A o \in DOMAIN d.rr : Rules(d, o, z) => z \in DOMAIN disk

\* A name below a zone has NS records above it.
LEMMA NamesHaveNs ==
  ASSUME NEW d, NEW q, NEW k \in NamesOf(d, q)
  PROVE  k \in 0..Len(q.name) /\ HasNs(d, q, k)
<1>1. PICK r : r \in Range(Chain(d, Above(q.name, k), "NS"))
  BY DEF NamesOf
<1>2. Range(<< >>) = {}
  BY EmptyIs
<1> QED BY <1>1, <1>2 DEF NamesOf, HasNs

\* Authority comes from the innermost zone.
LEMMA AuthorityIs ==
  ASSUME NEW d, NEW q, IsSeq(q.name), DbOK(d), RulersIn(d), DiskOK,
         ~ HasDefault, Authority(d, q)
  PROVE  /\ \E k \in NamesOf(d, q) : /\ NsName(d, q) = Above(q.name, k)
                                     /\ \A j \in NamesOf(d, q) : k <= j
         /\ NsName(d, q) \in Zone
         /\ \E o \in DOMAIN d.rr : Rules(d, o, NsName(d, q))
<1> DEFINE z == NsName(d, q)
           c == Chain(d, z, "NS")
<1>1. c # << >> /\ d.rr[c[1]].auth
  BY DEF Authority
<1>2. <<z, "NS">> \in DOMAIN d.list
  BY <1>1, ChainIs
<1>3. c = d.list[<<z, "NS">>] /\ c[1] \in Range(c) /\ c[1] \in DOMAIN d.rr
  BY <1>2, ChainIs
<1>4. d.rr[c[1]].name = z /\ d.rr[c[1]].type = "NS"
  <2>1. ChainOK(d, <<z, "NS">>)
    BY <1>2 DEF DbOK
  <2> HIDE DEF c, z
  <2> QED BY <1>3, <2>1 DEF ChainOK
<1>5. Rules(d, c[1], z)
  BY <1>1, <1>4 DEF Rules
<1>6. z \in Zone
  BY <1>3, <1>5 DEF RulersIn, DiskOK, HasDefault
<1>7. PICK k \in 0..Len(q.name) :
        /\ z = Above(q.name, k) /\ HasNs(d, q, k)
        /\ \A j \in 0..Len(q.name) : HasNs(d, q, j) => k <= j
  BY <1>1, ClimbedIs DEF Climbed
<1>8. k \in NamesOf(d, q)
  BY <1>1, <1>3, <1>6, <1>7 DEF NamesOf
<1>9. \A j \in NamesOf(d, q) : k <= j
  BY <1>7, NamesHaveNs
<1> QED BY <1>3, <1>5, <1>6, <1>7, <1>8, <1>9

\* The SOA of a negative reply is that of the name with the NS records.
LEMMA NxStoreIs ==
  ASSUME NEW d, NEW q, DbOK(d)
  PROVE  /\ NxStore(d, q) # 0 =>
              Authority(d, q) /\ d.rr[NxStore(d, q)].name = NsName(d, q)
         /\ Authority(d, q) /\ <<NsName(d, q), "SOA">> \in DOMAIN d.list =>
              NxStore(d, q) # 0
<1> DEFINE z == NsName(d, q)
           c == Chain(d, z, "SOA")
<1>1. NxStore(d, q) = IF Authority(d, q) /\ c # << >> THEN c[1] ELSE 0
  BY DEF NxStore
<1>2. c # << >> => <<z, "SOA">> \in DOMAIN d.list
  BY ChainIs
<1>3. <<z, "SOA">> \in DOMAIN d.list =>
        /\ c = d.list[<<z, "SOA">>] /\ c # << >>
        /\ c[1] \in Range(c) /\ c[1] \in DOMAIN d.rr
  BY ChainIs
<1> HIDE DEF c, z
<1>4. <<z, "SOA">> \in DOMAIN d.list => d.rr[c[1]].name = z
  <2> SUFFICES ASSUME <<z, "SOA">> \in DOMAIN d.list PROVE d.rr[c[1]].name = z
    OBVIOUS
  <2>1. ChainOK(d, <<z, "SOA">>)
    BY DEF DbOK
  <2> QED BY <1>3, <2>1 DEF ChainOK
<1>5. \A o \in DOMAIN d.rr : o # 0
  <2>1. DOMAIN d.rr = 1..Len(d.rr) /\ Len(d.rr) \in Nat
    BY SeqRange DEF DbOK, IsSeq
  <2> QED BY <2>1
<1> QED BY <1>1, <1>2, <1>3, <1>4, <1>5 DEF z

LEMMA NotFoundIs ==
  ASSUME NEW d, NEW q, NEW soa, NEW always
  PROVE  LET r == NotFound(d, q, soa, always)
         IN /\ r.kind \in {"servfail", "notfound"}
            /\ r.kind = "servfail" <=> soa = 0
            /\ r.kind = "notfound" => r.ns[1] = soa
BY DEF NotFound, Bare, Reply

LEMMA AnswerAnswered ==
  ASSUME NEW d, NEW q, IsSeq(q.name), DbOK(d), RulersIn(d), DiskOK,
         rc \in Mararc
  PROVE  Answered(d, q, Answer(d, q))
<1> DEFINE r == Answer(d, q)
<1> SUFFICES ASSUME ~ NoClimb(q) PROVE Answered(d, q, r)
  BY DEF Answered
<1>1. ASSUME NEW always, ~ HasDefault,
             NotFound(d, q, NxStore(d, q), always).kind = "notfound"
      PROVE  \E k \in NamesOf(d, q) :
               /\ \A j \in NamesOf(d, q) : k <= j
               /\ d.rr[NotFound(d, q, NxStore(d, q), always).ns[1]].name =
                    Above(q.name, k)
  <2>1. NxStore(d, q) # 0
        /\ NotFound(d, q, NxStore(d, q), always).ns[1] = NxStore(d, q)
    BY <1>1, NotFoundIs
  <2>2. Authority(d, q) /\ d.rr[NxStore(d, q)].name = NsName(d, q)
    BY <2>1, NxStoreIs
  <2> QED BY <1>1, <2>1, <2>2, AuthorityIs
<1>2. Answered(d, q, Found(d, q))
  <2> DEFINE f == Found(d, q)
  <2>1. CASE Positive(f)
    BY <2>1 DEF Positive, Answered
  <2>2. ASSUME NEW always, f = NotFound(d, q, NxStore(d, q), always)
        PROVE  Answered(d, q, f)
    BY <1>1, <2>2, NotFoundIs DEF Answered
  <2>3. ASSUME NEW soa, NEW always, HasDefault,
               f = NotFound(d, q, soa, always)
        PROVE  Answered(d, q, f)
    BY <2>3, NotFoundIs DEF Answered
  <2> QED BY <2>1, <2>2, <2>3, FoundOrigin DEF Origin
<1>3. ASSUME Found(d, q) = NoReply PROVE Answered(d, q, Otherwise(d, q))
  <2>1. CASE Authority(d, q)
    <3>1. Otherwise(d, q) = NotFound(d, q, NxStore(d, q), AlwaysNotThere(d, q))
      BY <2>1 DEF Otherwise
    <3> QED BY <1>1, <3>1, NotFoundIs DEF Answered
  <2>2. CASE ~ Authority(d, q)
    <3>1. Otherwise(d, q) \in {Bare("recurse", 0), Bare("refused", 5)}
      BY <2>2 DEF Otherwise
    <3>2. \A k : k \notin NamesOf(d, q)
      <4>1. Delegation(d, q) = NoReply
        BY <1>3, FoundOrigin
      <4>2. Chain(d, NsName(d, q), "NS") = << >>
        <5> DEFINE above == Chain(d, NsName(d, q), "NS")
                   here == Chain(d, q.name, "NS")
        <5> SUFFICES ASSUME above # << >> PROVE FALSE
          OBVIOUS
        <5>1. ~ d.rr[above[1]].auth
          BY <2>2 DEF Authority
        <5>2. rc.dos_protection_level <= 11 /\ ~ (rc.dos_protection_level > 11)
          <6>1. rc.dos_protection_level \in 0..78
            BY QueryAssumption DEF QueryAssumption
          <6>2. ~ (rc.dos_protection_level > 11)
            BY DEF NoClimb
          <6> DEFINE level == rc.dos_protection_level
          <6> HIDE DEF level
          <6>3. level \in 0..78 /\ ~ (level > 11)
            BY <6>1, <6>2 DEF level
          <6> QED BY ONLY <6>3 DEF level
        <5>3. Delegation(d, q) = Success(d, q.type, above)
              \/ Delegation(d, q) = Success(d, q.type, here)
              \/ Delegation(d, q) = Bare("recurse", 0)
          <6> DEFINE Delegates(c) == c # << >> /\ ~d.rr[c[1]].auth
          <6>1. Delegation(d, q) =
                  CASE rc.dos_protection_level > 11 -> NoReply
                    [] rc.dos_protection_level <= 11 /\ Delegates(here) ->
                         IF rc.recurse_delegation /\ Recursive(q)
                         THEN Bare("recurse", 0)
                         ELSE Success(d, q.type, here)
                    [] rc.dos_protection_level <= 11 /\ ~Delegates(here)
                         /\ ~NoClimb(q) /\ Delegates(above) ->
                         Success(d, q.type, above)
                    [] OTHER -> NoReply
            BY Zenon DEF Delegation
          <6>2. Delegates(above)
            BY <5>1
          <6> HIDE DEF here, above, Delegates
          <6> QED BY <5>2, <6>1, <6>2
        <5>4. Bare("recurse", 0) # NoReply
          BY DEF Bare, NoReply, Reply
        <5> QED BY <4>1, <5>3, <5>4, SuccessIs
      <4>3. \A k \in 0..Len(q.name) : ~ HasNs(d, q, k)
        BY <4>2, ClimbedIs DEF Climbed, HasNs
      <4> QED BY <4>3, NamesHaveNs
    <3>3. NamesOf(d, q) = {}
      BY <3>2
    <3> QED BY <3>1, <3>3 DEF Answered, Bare, Reply
  <2> QED BY <2>1, <2>2
<1>4. r = IF Found(d, q) # NoReply THEN Found(d, q) ELSE Otherwise(d, q)
  BY DEF Answer
<1> QED BY <1>2, <1>3, <1>4

LEMMA AnsweredKept ==
  ASSUME NEW d, NEW e, NEW q, NEW r, Answered(d, q, r), e.rr = d.rr,
         \A name : Chain(e, name, "NS") = Chain(d, name, "NS")
  PROVE  Answered(e, q, r)
<1>1. NamesOf(e, q) = NamesOf(d, q)
  BY DEF NamesOf
<1> QED BY <1>1 DEF Answered

LEMMA NextAnswered ==
  ASSUME LoadInv, Asked, RulersOK, OursAnswered, [Next]_vars
  PROVE  OursAnswered'
<1>1. CASE Load /\ UNCHANGED <<rc, reply>>
  <2>1. phase = "loading"
    BY <1>1 DEF Load, OpenZone, ReadLine, CloseZone, Additions
  <2>2. reply'.is = NoReply
    BY <1>1, <2>1 DEF LoadInv
  <2> QED BY <2>2 DEF OursAnswered, LookedUp
<1>2. ASSUME NEW q \in Query, Ask(q) PROVE OursAnswered'
  BY <1>2 DEF Ask, OursAnswered, LookedUp
<1>3. CASE ProcQuery
  <2>1. /\ Pending /\ rc' = rc /\ disk' = disk
        /\ reply' = [reply EXCEPT !.is = Answer(db, reply.to)]
    BY <1>3 DEF ProcQuery
  <2>2. reply'.to = reply.to /\ reply'.is = Answer(db, reply.to)
    BY <2>1 DEF Asked
  <2>3. Answered(db, reply.to, Answer(db, reply.to))
    BY <2>1, AskedIs, AnswerAnswered DEF LoadInv, RulersOK, RulersIn, Asked
  <2>4. Answered(db', reply.to, Answer(db, reply.to))
    BY <1>3, <2>3, ProcQueryKeeps, AnsweredKept
  <2>5. /\ NoClimb(reply.to)' <=> NoClimb(reply.to)
        /\ HasDefault' <=> HasDefault
        /\ Ours(reply.to)' = NamesOf(db', reply.to)
    BY <2>1, <2>2 DEF NoClimb, Recursive, HasDefault, Ours, NamesOf
  <2> QED BY <2>2, <2>4, <2>5 DEF OursAnswered, LookedUp, Answered
<1>4. CASE UNCHANGED vars
  BY <1>4 DEF vars, OursAnswered, LookedUp, NoClimb, Recursive, HasDefault,
              Ours, Chain, At
<1> QED BY <1>1, <1>2, <1>3, <1>4 DEF Next

LEMMA RulersHold == Spec => []RulersOK
BY InitSoa, NextRulers, LoadHolds, PTL DEF Spec

\* A name in a zone that maradns has NS records with authority for is never
\* refused, and a negative reply has the SOA of the innermost such zone,
\* whatever the zone files say (proc_query's way up from the name asked for,
\* and the SOA it remembers for udpnotfound).
THEOREM OursAnsweredTheorem == Spec => []OursAnswered
<1>1. Init => OursAnswered
  BY DEF Init, OursAnswered, LookedUp
<1> QED BY <1>1, NextAnswered, LoadHolds, AskedHolds, RulersHold, PTL DEF Spec

\* With a default zone something is always said.
LEMMA DefaultSays ==
  ASSUME NEW d, NEW q, HasDefault PROVE DefaultStars(d, q) # NoReply
<1>1. \A r : r.kind # "none" => r # NoReply
  BY DEF NoReply, Reply
<1>2. /\ \A chain : Star(d, q.name, chain) # NoReply
      /\ Bare("dropped", 0).kind = "dropped"
  BY StarIs DEF Bare, Reply
<1>3. \A soa, always :
        NotFound(d, q, soa, always).kind \in {"servfail", "notfound"}
  BY NotFoundIs
<1>4. DefaultStars(d, q) # NoReply
  <2> DEFINE stars == EndStars(q.name)
             i == SelectInSeq(stars, LAMBDA n : Chain(d, n, q.type) # << >>)
             soa == Chain(d, DefaultZone, "SOA")
             a == Star(d, q.name, Chain(d, stars[i], q.type))
             b == NotFound(d, q, soa[1], AlwaysNotThere(d, q))
             c == Bare("dropped", 0)
  <2>1. DefaultStars(d, q) =
          CASE ~HasDefault -> NoReply
            [] HasDefault /\ i # 0 -> a
            [] HasDefault /\ i = 0 /\ soa # << >> -> b
            [] OTHER -> c
    BY Zenon DEF DefaultStars
  <2>2. a # NoReply /\ b # NoReply /\ c # NoReply
    BY <1>1, <1>2, <1>3
  <2> HIDE DEF a, b, c, i, soa
  <2>3. DefaultStars(d, q) \in {a, b, c}
    BY <2>1
  <2> QED BY <2>2, <2>3
<1> QED BY <1>4

LEMMA AnswerWhole ==
  ASSUME NEW d, NEW q, IsSeq(q.name), DbOK(d), RulersIn(d), DiskOK,
         \A z \in Zone : \A o \in DOMAIN d.rr :
           Rules(d, o, z) => <<z, "SOA">> \in DOMAIN d.list,
         rc.bind_star_handling # 2, ~ NoClimb(q)
  PROVE  Answer(d, q).kind # "servfail"
<1>1. \A soa \in DOMAIN d.rr : soa # 0
  <2>1. DOMAIN d.rr = 1..Len(d.rr) /\ Len(d.rr) \in Nat
    BY SeqRange DEF DbOK, IsSeq
  <2> QED BY <2>1
<1>2. Found(d, q).kind # "servfail"
  <2>1. CASE Positive(Found(d, q))
    BY <2>1 DEF Positive
  <2>2. ASSUME NEW soa \in DOMAIN d.rr, NEW always,
               Found(d, q) = NotFound(d, q, soa, always)
        PROVE  Found(d, q).kind # "servfail"
    BY <1>1, <2>2, NotFoundIs
  <2> QED BY <2>1, <2>2, FoundOrigin DEF Origin
<1>3. ASSUME Found(d, q) = NoReply PROVE Otherwise(d, q).kind # "servfail"
  <2>1. ~ HasDefault
    BY <1>3, FoundOrigin, DefaultSays
  <2>2. CASE Authority(d, q)
    <3>1. NxStore(d, q) # 0
      BY <2>1, <2>2, AuthorityIs, NxStoreIs
    <3>2. Otherwise(d, q) = NotFound(d, q, NxStore(d, q), AlwaysNotThere(d, q))
      BY <2>2 DEF Otherwise
    <3> QED BY <3>1, <3>2, NotFoundIs
  <2>3. CASE ~ Authority(d, q)
    <3>1. Otherwise(d, q) \in {Bare("recurse", 0), Bare("refused", 5)}
      BY <2>3 DEF Otherwise
    <3> QED BY <3>1 DEF Bare, Reply
  <2> QED BY <2>2, <2>3
<1> QED BY <1>2, <1>3 DEF Answer

NoFailure ==
  LookedUp /\ rc.bind_star_handling # 2 => reply.is.kind # "servfail"

LEMMA NextNoFailure ==
  ASSUME LoadInv, Asked, RulersOK, SoaInv, NoFailure, [Next]_vars
  PROVE  NoFailure'
<1>1. CASE Load /\ UNCHANGED <<rc, reply>>
  <2>1. phase = "loading"
    BY <1>1 DEF Load, OpenZone, ReadLine, CloseZone, Additions
  <2>2. reply'.is = NoReply
    BY <1>1, <2>1 DEF LoadInv
  <2> QED BY <2>2 DEF NoFailure, LookedUp
<1>2. ASSUME NEW q \in Query, Ask(q) PROVE NoFailure'
  BY <1>2 DEF Ask, NoFailure, LookedUp
<1>3. CASE ProcQuery
  <2>1. /\ Pending /\ rc' = rc
        /\ reply' = [reply EXCEPT !.is = Answer(db, reply.to)]
    BY <1>3 DEF ProcQuery
  <2>2. reply'.to = reply.to /\ reply'.is = Answer(db, reply.to)
    BY <2>1 DEF Asked
  <2>3. file = NoFile
    BY <1>3, ProcQueryKeeps DEF LoadInv
  <2>4. \A z \in Zone : \A o \in DOMAIN db.rr :
          Rules(db, o, z) => <<z, "SOA">> \in DOMAIN db.list
    BY <2>3 DEF SoaInv, HasSoa, HeldBack
  <2>5. rc.bind_star_handling # 2 /\ ~ NoClimb(reply.to) =>
          Answer(db, reply.to).kind # "servfail"
    BY <2>1, <2>4, AskedIs, AnswerWhole DEF LoadInv, RulersOK, RulersIn
  <2>6. NoClimb(reply.to)' <=> NoClimb(reply.to)
    BY <2>1, <2>2 DEF NoClimb, Recursive
  <2> QED BY <2>1, <2>2, <2>5, <2>6 DEF NoFailure, LookedUp
<1>4. CASE UNCHANGED vars
  BY <1>4 DEF vars, NoFailure, LookedUp, NoClimb, Recursive
<1> QED BY <1>1, <1>2, <1>3, <1>4 DEF Next

\* No reply for a name that maradns looks up above fails for want of a SOA
\* either, and names in its zones are answered for as above: if the SOAs that
\* the files begin with are their zones' own (csv2_set_soa takes any name), and
\* unless stars are handled like BIND does (bind_star_handling = 2), where glue
\* that is in no zone of maradns may stop a lookup that has no SOA to show.
THEOREM ZonesAnsweredTheorem ==
  ASSUME SoasNamed
  PROVE  Spec => [](rc.bind_star_handling # 2 => ZonesAnswered)
<1>1. Init => SoaInv /\ NoFailure
  BY InitSoa DEF Init, NoFailure, LookedUp
<1>2. LoadInv /\ SoaInv /\ [Next]_vars => SoaInv'
  BY NextSoa
<1>3. LoadInv /\ Asked /\ RulersOK /\ SoaInv /\ NoFailure /\ [Next]_vars
        => NoFailure'
  BY NextNoFailure
<1>4. OursAnswered /\ NoFailure => (rc.bind_star_handling # 2 => ZonesAnswered)
  BY DEF ZonesAnswered, NoFailure
<1> QED BY <1>1, <1>2, <1>3, <1>4, LoadHolds, AskedHolds, RulersHold,
           OursAnsweredTheorem, PTL DEF Spec

=============================================================================
