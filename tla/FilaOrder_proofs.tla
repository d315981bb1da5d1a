-------------------------- MODULE FilaOrder_proofs --------------------------
(***************************************************************************)
(* Facts that the proofs of several modules rest on: induction, by the     *)
(* least element of a set of natural numbers; what the operators do to     *)
(* sequences; and what the calls of DwHash.c do to the order of use.       *)
(***************************************************************************)
EXTENDS FilaOrder, TLAPS, SequenceTheorems, FiniteSetTheorems,
        WellFoundedInduction

LEMMA LeastNatural ==
  ASSUME NEW T \in SUBSET Nat, T # {}
  PROVE  \E x \in T : \A y \in T : x <= y
<1>1. IsWellFoundedOn(OpToRel(<, Nat), Nat)
  BY NatLessThanWellFounded
<1>2. PICK x \in T : \A y \in T : ~ (<<y, x>> \in OpToRel(<, Nat))
  BY <1>1, WFMin
<1>3. \A y \in T : ~ (y < x)
  BY <1>2 DEF OpToRel
<1> QED BY <1>3

\* What holds of 0, and of i + 1 if it does of i, holds up to N.
LEMMA UpTo ==
  ASSUME NEW N \in Nat, NEW T, 0 \in T,
         \A i \in 0..(N - 1) : i \in T => i + 1 \in T
  PROVE  \A n \in 0..N : n \in T
<1> DEFINE W == {n \in 0..N : n \notin T}
<1>1. SUFFICES ASSUME W # {} PROVE FALSE
  OBVIOUS
<1>2. PICK n \in W : \A m \in W : n <= m
  <2>1. W \in SUBSET Nat
    OBVIOUS
  <2> HIDE DEF W
  <2> QED BY <1>1, <2>1, LeastNatural
<1>3. n \in 0..N /\ n \notin T /\ n # 0
  BY <1>2
<1>4. n - 1 \in 0..(N - 1) /\ n - 1 \in 0..N /\ n - 1 + 1 = n /\ ~ (n <= n - 1)
  BY <1>3
<1>5. n - 1 \notin T
  BY <1>3, <1>4
<1>6. n - 1 \in W
  BY <1>4, <1>5
<1> QED BY <1>2, <1>4, <1>6

-----------------------------------------------------------------------------
(***************************************************************************)
(* Sequences.                                                              *)
(***************************************************************************)
IsSeq(s) == s \in Seq(Range(s))

LEMMA SeqRange ==
  ASSUME NEW S, NEW s \in Seq(S)
  PROVE  /\ IsSeq(s) /\ Range(s) \subseteq S
         /\ Len(s) \in Nat /\ DOMAIN s = 1..Len(s)
         /\ s # << >> => Len(s) > 0 /\ s[1] \in Range(s)
<1>1. Len(s) \in Nat /\ DOMAIN s = 1..Len(s)
  OBVIOUS
<1>2. Range(s) \subseteq S
  BY <1>1 DEF Range
<1>3. \A i \in 1..Len(s) : s[i] \in Range(s)
  BY <1>1 DEF Range
<1>4. s = [i \in 1..Len(s) |-> s[i]]
  OBVIOUS
<1>5. IsSeq(s)
  BY <1>1, <1>3, <1>4 DEF IsSeq
<1>6. s # << >> => Len(s) > 0
  BY <1>1, <1>4
<1> QED BY <1>1, <1>2, <1>3, <1>5, <1>6

LEMMA EmptyIs ==
  /\ IsSeq(<< >>) /\ Len(<< >>) = 0 /\ DOMAIN << >> = 1..Len(<< >>)
  /\ DOMAIN << >> = {} /\ Range(<< >>) = {}
<1>1. << >> \in Seq({}) /\ Len(<< >>) = 0 /\ Range(<< >>) = {}
  BY DEF Range
<1>2. IsSeq(<< >>) /\ DOMAIN << >> = 1..Len(<< >>)
  BY <1>1, SeqRange
<1>3. DOMAIN << >> = {}
  BY <1>1, <1>2
<1> QED BY <1>1, <1>2, <1>3

\* Append: one more item, at the end.
LEMMA AppendIs ==
  ASSUME NEW s, IsSeq(s), NEW x
  PROVE  /\ IsSeq(Append(s, x)) /\ Len(Append(s, x)) = Len(s) + 1
         /\ \A i \in 1..Len(s) : Append(s, x)[i] = s[i]
         /\ Append(s, x)[Len(s) + 1] = x
         /\ Range(Append(s, x)) = Range(s) \union {x}
<1> DEFINE S == Range(s) \union {x}
           t == Append(s, x)
<1>1. s \in Seq(S) /\ x \in S
  BY DEF IsSeq
<1> HIDE DEF S
<1>2. /\ t \in Seq(S) /\ Len(t) = Len(s) + 1 /\ Len(s) \in Nat
      /\ \A i \in 1..Len(s) : t[i] = s[i]
      /\ t[Len(s) + 1] = x
  BY <1>1
<1> HIDE DEF t
<1>3. DOMAIN s = 1..Len(s) /\ DOMAIN t = 1..(Len(s) + 1)
  BY <1>1, <1>2, SeqRange
<1>4. ASSUME NEW y \in Range(t) PROVE y \in Range(s) \union {x}
  <2>1. PICK i \in 1..(Len(s) + 1) : t[i] = y
    BY <1>3 DEF Range
  <2>2. CASE i = Len(s) + 1
    BY <1>2, <2>1, <2>2
  <2>3. CASE i \in 1..Len(s)
    BY <1>2, <1>3, <2>1, <2>3 DEF Range
  <2> QED BY <1>2, <2>1, <2>2, <2>3
<1>5. ASSUME NEW y \in Range(s) \union {x} PROVE y \in Range(t)
  <2>1. CASE y = x
    <3>1. Len(s) + 1 \in 1..(Len(s) + 1)
      BY <1>2
    <3> QED BY <1>2, <1>3, <2>1, <3>1 DEF Range
  <2>2. CASE y \in Range(s)
    <3>1. PICK i \in 1..Len(s) : s[i] = y
      BY <1>3, <2>2 DEF Range
    <3>2. i \in 1..(Len(s) + 1)
      BY <1>2
    <3> QED BY <1>2, <1>3, <3>1, <3>2 DEF Range
  <2> QED BY <2>1, <2>2
<1>6. IsSeq(t)
  BY <1>2, SeqRange
<1> QED BY <1>2, <1>4, <1>5, <1>6 DEF t

\* s and then t.
Joined(u, s, t) ==
  /\ IsSeq(u) /\ Len(u) = Len(s) + Len(t)
  /\ \A i \in 1..Len(s) : u[i] = s[i]
  /\ \A i \in 1..Len(t) : u[i + Len(s)] = t[i]
  /\ Range(u) = Range(s) \union Range(t)

LEMMA ConcatIs ==
  ASSUME NEW s, IsSeq(s), NEW t, IsSeq(t)
  PROVE  Joined(s \o t, s, t)
<1> DEFINE S == Range(s) \union Range(t)
           m == Len(s)
           n == Len(t)
           u == s \o t
<1>1. s \in Seq(S) /\ t \in Seq(S)
  BY DEF IsSeq
<1>2. m \in Nat /\ n \in Nat /\ DOMAIN s = 1..m /\ DOMAIN t = 1..n
  BY <1>1, SeqRange
<1>3. /\ u \in Seq(S) /\ Len(u) = m + n
      /\ \A i \in 1..m : u[i] = s[i]
      /\ \A i \in 1..n : u[i + m] = t[i]
  <2> HIDE DEF S
  <2>1. /\ u \in Seq(S) /\ Len(u) = m + n
        /\ \A i \in 1..(m + n) : u[i] = IF i <= m THEN s[i] ELSE t[i - m]
    BY <1>1, ConcatProperties
  <2> HIDE DEF u, m, n
  <2>2. \A i \in 1..(m + n) : ~ (i <= m) => u[i] = t[i - m]
    BY <2>1
  <2>3. ASSUME NEW i \in 1..m PROVE u[i] = s[i]
    <3>1. i \in 1..(m + n) /\ i <= m
      BY <1>2
    <3> QED BY <2>1, <3>1
  <2>4. ASSUME NEW i \in 1..n PROVE u[i + m] = t[i]
    <3> DEFINE j == i + m
    <3>1. j \in 1..(m + n) /\ ~ (j <= m) /\ j - m = i
      BY <1>2
    <3> HIDE DEF j
    <3>2. u[j] = t[i]
      BY <2>2, <3>1
    <3> QED BY <3>2 DEF j
  <2> QED BY <2>1, <2>3, <2>4
<1> HIDE DEF S, u, m, n
<1>4. DOMAIN u = 1..(m + n) /\ IsSeq(u)
  BY <1>3, SeqRange
<1>5. ASSUME NEW y \in Range(u) PROVE y \in Range(s) \union Range(t)
  <2>1. PICK i \in 1..(m + n) : u[i] = y
    BY <1>4 DEF Range
  <2>2. CASE i \in 1..m
    BY <1>2, <1>3, <2>1, <2>2 DEF Range
  <2>3. CASE i > m
    <3>1. i - m \in 1..n /\ i - m + m = i
      BY <1>2, <2>3
    <3>2. t[i - m] = y
      BY <1>3, <2>1, <3>1
    <3> QED BY <1>2, <3>1, <3>2 DEF Range
  <2> QED BY <1>2, <2>1, <2>2, <2>3
<1>6. ASSUME NEW y \in Range(s) PROVE y \in Range(u)
  <2>1. PICK i \in 1..m : s[i] = y
    BY <1>2 DEF Range
  <2>2. i \in 1..(m + n)
    BY <1>2
  <2> QED BY <1>3, <1>4, <2>1, <2>2 DEF Range
<1>7. ASSUME NEW y \in Range(t) PROVE y \in Range(u)
  <2>1. PICK i \in 1..n : t[i] = y
    BY <1>2 DEF Range
  <2>2. i + m \in 1..(m + n)
    BY <1>2
  <2> QED BY <1>3, <1>4, <2>1, <2>2 DEF Range
<1>8. Range(u) = Range(s) \union Range(t)
  BY <1>5, <1>6, <1>7
<1> QED BY <1>3, <1>4, <1>8, Zenon DEF u, m, n, Joined

LEMMA OneIs ==
  ASSUME NEW x
  PROVE  IsSeq(<<x>>) /\ Len(<<x>>) = 1 /\ <<x>>[1] = x /\ Range(<<x>>) = {x}
<1>1. <<x>> \in Seq({x}) /\ Len(<<x>>) = 1 /\ <<x>>[1] = x
  OBVIOUS
<1>2. DOMAIN <<x>> = 1..1
  BY <1>1, SeqRange
<1> QED BY <1>1, <1>2, SeqRange DEF Range

\* What is in s from a up to and with b.
Part(t, s, a, b) ==
  /\ IsSeq(t) /\ Len(t) = b - a + 1
  /\ \A i \in 1..(b - a + 1) : t[i] = s[i + a - 1]
  /\ \A y : y \in Range(t) <=> \E i \in a..b : s[i] = y

LEMMA SubSeqIs ==
  ASSUME NEW s, IsSeq(s), NEW a \in Nat \ {0}, NEW b \in 0..Len(s), a <= b + 1
  PROVE  Part(SubSeq(s, a, b), s, a, b)
<1> DEFINE S == Range(s)
           n == Len(s)
           t == SubSeq(s, a, b)
           k == b - a + 1
<1>1. s \in Seq(S) /\ n \in Nat /\ k \in Nat /\ b \in Int /\ DOMAIN s = 1..n
  BY SeqRange DEF IsSeq
<1>2. t \in Seq(S) /\ Len(t) = k /\ \A i \in 1..k : t[i] = s[i + a - 1]
  <2>1. CASE a <= b
    <3>1. a \in 1..(n + 1) /\ b \in a..n /\ a \in 1..n
      BY <1>1, <2>1
    <3>2. /\ t \in Seq(S) /\ Len(t) = IF a <= b THEN b - a + 1 ELSE 0
          /\ \A i \in 1..(b - a + 1) : t[i] = s[a + i - 1]
      BY <1>1, <3>1, SubSeqProperties
    <3> QED BY <2>1, <3>2
  <2>2. CASE a = b + 1
    <3>1. t \in Seq(S) /\ Len(t) = IF a <= b THEN b - a + 1 ELSE 0
      <4>1. a \in 1..(n + 1) /\ b \in (a - 1)..n
        BY <1>1, <2>2
      <4> QED BY <1>1, <2>2, <4>1, SubSeqProperties
    <3>2. k = 0 /\ ~ (a <= b)
      BY <1>1, <2>2
    <3> QED BY <3>1, <3>2
  <2> QED BY <1>1, <2>1, <2>2
<1> HIDE DEF t, n, S
<1>3. DOMAIN t = 1..k /\ IsSeq(t)
  BY <1>2, SeqRange
<1>4. ASSUME NEW y, y \in Range(t) PROVE \E i \in a..b : s[i] = y
  <2>1. PICK i \in 1..k : t[i] = y
    BY <1>3, <1>4 DEF Range
  <2>2. i + a - 1 \in a..b
    BY <1>1
  <2>3. s[i + a - 1] = y
    BY <1>2, <2>1
  <2> QED BY <2>2, <2>3
<1>5. ASSUME NEW i \in a..b PROVE s[i] \in Range(t)
  <2>1. i - a + 1 \in 1..k /\ i - a + 1 + a - 1 = i
    BY <1>1
  <2>2. t[i - a + 1] = s[i - a + 1 + a - 1]
    BY <1>2, <2>1, Zenon
  <2>3. t[i - a + 1] = s[i]
    BY <2>1, <2>2, Zenon
  <2> QED BY <1>3, <2>1, <2>3 DEF Range
<1>6. \A y : y \in Range(t) <=> \E i \in a..b : s[i] = y
  BY <1>4, <1>5
<1> QED BY <1>2, <1>3, <1>6, Zenon DEF t, Part

LEMMA TailIs ==
  ASSUME NEW s, IsSeq(s), s # << >>
  PROVE  /\ Tail(s) \in Seq(Range(s)) /\ Len(Tail(s)) = Len(s) - 1
         /\ Head(s) = s[1] /\ Len(s) > 0
         /\ \A i \in 1..(Len(s) - 1) : Tail(s)[i] = s[i + 1]
<1>1. Len(s) > 0
  BY SeqRange DEF IsSeq
<1> QED BY <1>1 DEF IsSeq

\* Taking the head of t to the end of s leaves s \o t what it is.
LEMMA MovedOver ==
  ASSUME NEW s, IsSeq(s), NEW t, IsSeq(t), t # << >>
  PROVE  /\ IsSeq(Tail(t)) /\ Append(s, Head(t)) \o Tail(t) = s \o t
         /\ (s \o t)[Len(s) + 1] = Head(t)
<1> DEFINE S == Range(s) \union Range(t)
<1>1. s \in Seq(S) /\ t \in Seq(S)
  BY DEF IsSeq
<1> HIDE DEF S
<1>2. /\ Head(t) \in S /\ Tail(t) \in Seq(S) /\ t = <<Head(t)>> \o Tail(t)
      /\ Append(s, Head(t)) = s \o <<Head(t)>> /\ <<Head(t)>> \in Seq(S)
  BY <1>1
<1>3. (s \o <<Head(t)>>) \o Tail(t) = s \o (<<Head(t)>> \o Tail(t))
  BY <1>1, <1>2, ConcatAssociative
<1>4. (s \o t)[Len(s) + 1] = Head(t)
  <2>1. Joined(s \o t, s, t) /\ Head(t) = t[1] /\ Len(t) > 0 /\ Len(t) \in Nat
    BY <1>1, ConcatIs, TailIs, SeqRange
  <2>2. 1 \in 1..Len(t)
    BY <2>1
  <2>3. (s \o t)[1 + Len(s)] = t[1] /\ Len(s) \in Nat
    BY <1>1, <2>1, <2>2, SeqRange DEF Joined
  <2> QED BY <2>1, <2>3
<1>5. IsSeq(Tail(t))
  BY <1>2, SeqRange
<1> QED BY <1>2, <1>3, <1>4, <1>5

LEMMA Regrouped ==
  ASSUME NEW s, IsSeq(s), NEW t, IsSeq(t), NEW u, IsSeq(u)
  PROVE  (s \o t) \o u = s \o (t \o u)
<1> DEFINE S == Range(s) \union Range(t) \union Range(u)
<1>1. s \in Seq(S) /\ t \in Seq(S) /\ u \in Seq(S)
  BY DEF IsSeq
<1> HIDE DEF S
<1> QED BY <1>1, ConcatAssociative

\* The empty sequence does not matter.
LEMMA EmptyJoined ==
  ASSUME NEW s, IsSeq(s) PROVE s \o << >> = s /\ << >> \o s = s
BY DEF IsSeq

-----------------------------------------------------------------------------
(***************************************************************************)
(* What the calls do to a sequence without duplicates.                     *)
(***************************************************************************)
LEMMA AtFrontItems ==
  ASSUME NEW S, NEW q \in Seq(S), NEW f \in S
  PROVE  /\ AtFront(q, f) \in Seq(S)
         /\ Len(AtFront(q, f)) = Len(q) + 1
         /\ AtFront(q, f)[1] = f
         /\ \A i \in 2..(Len(q) + 1) : AtFront(q, f)[i] = q[i - 1]
BY DEF AtFront

LEMMA AtFrontOK ==
  ASSUME NEW S, NEW q \in Seq(S), NEW f \in S, f \notin ToSet(q), NoDuplicate(q)
  PROVE  /\ AtFront(q, f) \in Seq(S) /\ AtFront(q, f) # << >>
         /\ NoDuplicate(AtFront(q, f))
         /\ ToSet(AtFront(q, f)) = ToSet(q) \union {f}
<1> DEFINE p == <<f>> \o q
<1>1. /\ p \in Seq(S) /\ Len(p) = Len(q) + 1 /\ p[1] = f
      /\ \A i \in 1..Len(q) : p[i + 1] = q[i]
  OBVIOUS
<1>2. \A i \in 2..Len(p) : i - 1 \in 1..Len(q) /\ p[i] = q[i - 1]
  BY <1>1
<1>3. \A i \in 1..Len(p) : p[i] = f <=> i = 1
  BY <1>1, <1>2 DEF ToSet
<1> HIDE DEF p
<1>4. NoDuplicate(p)
  BY <1>1, <1>2, <1>3 DEF NoDuplicate
<1>5. ToSet(p) = ToSet(q) \union {f}
  <2>1. ASSUME NEW x \in ToSet(p) PROVE x \in ToSet(q) \union {f}
    <3>1. PICK i \in 1..Len(p) : p[i] = x
      BY <2>1 DEF ToSet
    <3>2. CASE i = 1
      BY <1>1, <3>1, <3>2
    <3>3. CASE i \in 2..Len(p)
      BY <1>2, <3>1, <3>3 DEF ToSet
    <3> QED BY <1>1, <3>1, <3>2, <3>3
  <2>2. ASSUME NEW x \in ToSet(q) PROVE x \in ToSet(p)
    <3>1. PICK i \in 1..Len(q) : q[i] = x
      BY <2>2 DEF ToSet
    <3>2. i + 1 \in 1..Len(p) /\ p[i + 1] = x
      BY <1>1, <3>1
    <3> QED BY <3>2 DEF ToSet
  <2>3. f \in ToSet(p)
    <3>1. 1 \in 1..Len(p)
      BY <1>1
    <3> QED BY <1>1, <3>1 DEF ToSet
  <2> QED BY <2>1, <2>2, <2>3
<1> QED BY <1>1, <1>4, <1>5 DEF p, AtFront

LEMMA UnlinkedOK ==
  ASSUME NEW S, NEW q \in Seq(S), NEW f \in ToSet(q), NoDuplicate(q)
  PROVE  /\ Unlinked(q, f) \in Seq(S)
         /\ NoDuplicate(Unlinked(q, f))
         /\ ToSet(Unlinked(q, f)) = ToSet(q) \ {f}
<1> DEFINE here == CHOOSE i \in 1..Len(q) : q[i] = f
           u  == [i \in 1..(Len(q) - 1) |-> IF i < here THEN q[i] ELSE q[i + 1]]
<1>1. here \in 1..Len(q) /\ q[here] = f
  BY DEF ToSet
<1>2. Unlinked(q, f) = u
  BY DEF Unlinked
<1> HIDE DEF here
<1>3. u \in Seq(S) /\ Len(u) = Len(q) - 1
  BY <1>1
<1>4. \A i \in 1..Len(u) : u[i] = IF i < here THEN q[i] ELSE q[i + 1]
  BY <1>1, <1>3
<1> HIDE DEF u
<1>5. NoDuplicate(u)
  <2> DEFINE from(i) == IF i < here THEN i ELSE i + 1
  <2>1. SUFFICES ASSUME NEW i \in 1..Len(u), NEW j \in 1..Len(u), u[i] = u[j]
                 PROVE  i = j
    BY DEF NoDuplicate
  <2>2. from(i) \in 1..Len(q) /\ from(j) \in 1..Len(q)
    BY <1>1, <1>3
  <2>3. q[from(i)] = q[from(j)]
    BY <1>4, <2>1
  <2>4. from(i) = from(j)
    BY <2>2, <2>3 DEF NoDuplicate
  <2> QED BY <1>1, <1>3, <2>4
<1>6. \A i \in 1..Len(u) : u[i] \in ToSet(q) \ {f}
  <2> TAKE i \in 1..Len(u)
  <2>1. PICK j \in 1..Len(q) : j # here /\ u[i] = q[j]
    <3>1. CASE i < here
      BY <1>1, <1>3, <1>4, <3>1
    <3>2. CASE i >= here
      <4>1. i + 1 \in 1..Len(q) /\ i + 1 # here /\ u[i] = q[i + 1]
        BY <1>1, <1>3, <1>4, <3>2
      <4> QED BY <4>1
    <3> QED BY <1>1, <1>3, <3>1, <3>2
  <2>2. q[j] # f
    BY <1>1, <2>1 DEF NoDuplicate
  <2> QED BY <2>1, <2>2 DEF ToSet
<1>7. \A j \in 1..Len(q) : j # here => \E i \in 1..Len(u) : u[i] = q[j]
  <2> TAKE j \in 1..Len(q)
  <2> HAVE j # here
  <2>1. CASE j < here
    BY <1>1, <1>3, <1>4, <2>1
  <2>2. CASE j > here
    <3>1. j - 1 \in 1..Len(u) /\ u[j - 1] = q[j]
      BY <1>1, <1>3, <1>4, <2>2
    <3> QED BY <3>1
  <2> QED BY <1>1, <2>1, <2>2
<1>8. ToSet(u) = ToSet(q) \ {f}
  <2>1. ASSUME NEW x \in ToSet(u) PROVE x \in ToSet(q) \ {f}
    <3>1. PICK i \in 1..Len(u) : u[i] = x
      BY <2>1 DEF ToSet
    <3> QED BY <1>6, <3>1
  <2>2. ASSUME NEW x \in ToSet(q) \ {f} PROVE x \in ToSet(u)
    <3>1. PICK j \in 1..Len(q) : q[j] = x
      BY <2>2 DEF ToSet
    <3>2. j # here
      BY <1>1, <2>2, <3>1
    <3>3. PICK i \in 1..Len(u) : u[i] = q[j]
      BY <1>7, <3>2
    <3> QED BY <3>1, <3>3 DEF ToSet
  <2> QED BY <2>1, <2>2
<1> QED BY <1>2, <1>3, <1>5, <1>8

LEMMA LastIn ==
  ASSUME NEW S, NEW q \in Seq(S), q # << >> PROVE Last(q) \in ToSet(q)
<1>1. Len(q) \in 1..Len(q)
  OBVIOUS
<1> QED BY <1>1 DEF Last, ToSet

\* Unlinked keeps the order of the others.
LEMMA UnlinkedKeepsOrder ==
  ASSUME NEW S, NEW q \in Seq(S), NEW f \in ToSet(q),
         NEW i \in 1..Len(Unlinked(q, f)), NEW j \in 1..Len(Unlinked(q, f)),
         i < j
  PROVE  \E x, y \in 1..Len(q) :
           x < y /\ q[x] = Unlinked(q, f)[i] /\ q[y] = Unlinked(q, f)[j]
<1> DEFINE here == CHOOSE n \in 1..Len(q) : q[n] = f
           u    == [n \in 1..(Len(q) - 1) |-> IF n < here THEN q[n] ELSE q[n + 1]]
<1>1. Unlinked(q, f) = u
  BY DEF Unlinked
<1>2. here \in 1..Len(q)
  BY DEF ToSet
<1> HIDE DEF here
<1>3. u \in Seq(S) /\ Len(u) = Len(q) - 1
  BY <1>2
<1>4. \A n \in 1..Len(u) : u[n] = IF n < here THEN q[n] ELSE q[n + 1]
  BY <1>3
<1> HIDE DEF u
<1>5. i \in 1..Len(u) /\ j \in 1..Len(u)
  BY <1>1
<1> DEFINE x == IF i < here THEN i ELSE i + 1
           y == IF j < here THEN j ELSE j + 1
<1>6. x \in 1..Len(q) /\ y \in 1..Len(q) /\ x < y
  BY <1>2, <1>3, <1>5
<1>7. q[x] = u[i] /\ q[y] = u[j]
  BY <1>4, <1>5
<1> HIDE DEF x, y
<1> QED BY <1>1, <1>6, <1>7

\* Without the last of its records, a sequence is what it was up to there.
LEMMA UnlinkedLast ==
  ASSUME NEW S, NEW q \in Seq(S), q # << >>, NoDuplicate(q)
  PROVE  /\ Len(Unlinked(q, Last(q))) = Len(q) - 1
         /\ \A i \in 1..(Len(q) - 1) : Unlinked(q, Last(q))[i] = q[i]
<1> DEFINE here == CHOOSE n \in 1..Len(q) : q[n] = Last(q)
           u    == [n \in 1..(Len(q) - 1) |-> IF n < here THEN q[n] ELSE q[n + 1]]
<1>1. Unlinked(q, Last(q)) = u
  BY DEF Unlinked
<1>2. here \in 1..Len(q) /\ q[here] = q[Len(q)]
  BY LastIn DEF ToSet, Last
<1> HIDE DEF here
<1>3. here = Len(q)
  BY <1>2 DEF NoDuplicate
<1>4. Len(u) = Len(q) - 1 /\ \A i \in 1..(Len(q) - 1) : u[i] = q[i]
  BY <1>3
<1> HIDE DEF u
<1> QED BY <1>1, <1>4

LEMMA UnlinkedLen ==
  ASSUME NEW S, NEW q \in Seq(S), NEW f \in ToSet(q)
  PROVE  Len(q) \in Nat \ {0} /\ Len(Unlinked(q, f)) = Len(q) - 1
<1> DEFINE here == CHOOSE n \in 1..Len(q) : q[n] = f
           u    == [n \in 1..(Len(q) - 1) |-> IF n < here THEN q[n] ELSE q[n + 1]]
<1>1. Unlinked(q, f) = u
  BY DEF Unlinked
<1>2. Len(q) \in Nat \ {0}
  BY DEF ToSet
<1> HIDE DEF here
<1>3. Len(u) = Len(q) - 1
  BY <1>2
<1> HIDE DEF u
<1> QED BY <1>1, <1>2, <1>3

\* Every item after the one that is cut moves up by one.
LEMMA UnlinkedItems ==
  ASSUME NEW S, NEW q \in Seq(S), NoDuplicate(q), NEW at \in 1..Len(q)
  PROVE  /\ Unlinked(q, q[at]) \in Seq(S)
         /\ Len(Unlinked(q, q[at])) = Len(q) - 1
         /\ \A i \in 1..(Len(q) - 1) :
              Unlinked(q, q[at])[i] = IF i < at THEN q[i] ELSE q[i + 1]
<1> DEFINE here == CHOOSE n \in 1..Len(q) : q[n] = q[at]
           u    == [n \in 1..(Len(q) - 1) |-> IF n < here THEN q[n] ELSE q[n + 1]]
<1>1. Unlinked(q, q[at]) = u
  BY DEF Unlinked
<1>2. here \in 1..Len(q) /\ q[here] = q[at]
  OBVIOUS
<1> HIDE DEF here
<1>3. here = at
  BY <1>2 DEF NoDuplicate
<1>4. u \in Seq(S) /\ Len(u) = Len(q) - 1
  BY <1>2
<1>5. \A i \in 1..(Len(q) - 1) : u[i] = IF i < at THEN q[i] ELSE q[i + 1]
  BY <1>2, <1>3
<1> HIDE DEF u
<1> QED BY <1>1, <1>4, <1>5

=============================================================================
