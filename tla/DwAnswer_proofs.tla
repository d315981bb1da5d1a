-------------------------- MODULE DwAnswer_proofs --------------------------
(***************************************************************************)
(* Proofs about DwAnswer: where a question may be sent to, and what the    *)
(* cache knows about servers.                                              *)
(*                                                                         *)
(* dwx_find_ns_referral looks at every NS record of the authority section  *)
(* and dwx_check_bailiwick_ns_section at the first GLUE_RANGE only, so the *)
(* theorems on zones are about authority sections not longer than that.    *)
(***************************************************************************)
EXTENDS DwAnswer, TLAPS, SequenceTheorems, WellFoundedInduction

ShortReferrals == \A p \in Packets : Len(p.ns) <= GlueRange

\* There are servers for the root, as there are when dwood3rc has none at all.
RootConfigured == <<>> \in DOMAIN Configured

-----------------------------------------------------------------------------
(***************************************************************************)
(* Suffixes of names, and the longest of a set of names.                   *)
(***************************************************************************)
LEMMA LeastNatural ==
  ASSUME NEW T \in SUBSET Nat, T # {}
  PROVE  \E x \in T : \A y \in T : x <= y
<1>1. IsWellFoundedOn(OpToRel(<, Nat), Nat)
  BY NatLessThanWellFounded
<1>2. PICK x \in T : \A y \in T : ~ (<<y, x>> \in OpToRel(<, Nat))
  BY <1>1, WFMin
<1>3. \A y \in T : ~ (y < x)
  BY <1>2 DEF OpToRel
<1> QED BY <1>3

LEMMA ReverseItems ==
  ASSUME NEW s \in Seq(Labels)
  PROVE  /\ Reverse(s) \in Seq(Labels)
         /\ Len(Reverse(s)) = Len(s)
         /\ \A i \in 1..Len(s) : Reverse(s)[i] = s[(Len(s) - i) + 1]
BY DEF Reverse

LEMMA SuffixOfItself ==
  ASSUME NEW s \in Seq(Labels)
  PROVE  IsSuffix(s, s)
BY ReverseItems DEF IsSuffix, IsPrefix

LEMMA RootIsSuffix ==
  ASSUME NEW s \in Seq(Labels)
  PROVE  IsSuffix(<<>>, s)
<1>1. Reverse(<<>>) = <<>>
  BY DEF Reverse
<1>2. Reverse(s) \in Seq(Labels)
  BY ReverseItems
<1> QED BY <1>1, <1>2, EmptySeq DEF IsSuffix, IsPrefix

LEMMA SuffixLen ==
  ASSUME NEW s \in Seq(Labels), NEW t \in Seq(Labels), IsSuffix(s, t)
  PROVE  Len(s) <= Len(t)
BY ReverseItems DEF IsSuffix, IsPrefix

LEMMA StrictSuffixLen ==
  ASSUME NEW s \in Seq(Labels), NEW t \in Seq(Labels), IsStrictSuffix(s, t)
  PROVE  Len(s) < Len(t)
<1> DEFINE r == Reverse(s)
           u == Reverse(t)
<1>1. /\ r \in Seq(Labels) /\ u \in Seq(Labels)
      /\ Len(r) = Len(s) /\ Len(u) = Len(t)
      /\ \A i \in 1..Len(s) : r[i] = s[(Len(s) - i) + 1]
      /\ \A i \in 1..Len(t) : u[i] = t[(Len(t) - i) + 1]
  BY ReverseItems
<1>2. IsPrefix(r, u) /\ s # t
  BY DEF IsStrictSuffix, IsSuffix
<1> HIDE DEF r, u
<1>3. Len(s) <= Len(t)
  BY <1>1, <1>2 DEF IsPrefix
<1>4. ASSUME Len(s) = Len(t) PROVE FALSE
  <2>1. r = u
    <3>1. SubSeq(r, 1, Len(r)) = r /\ SubSeq(u, 1, Len(u)) = u
      BY <1>1, SubSeqFull
    <3> QED BY <3>1, <1>1, <1>2, <1>4 DEF IsPrefix
  <2>2. ASSUME NEW i \in 1..Len(s) PROVE s[i] = t[i]
    <3>1. (Len(s) - i) + 1 \in 1..Len(s) /\ (Len(s) - ((Len(s) - i) + 1)) + 1 = i
      OBVIOUS
    <3> QED BY <3>1, <2>1, <1>1, <1>4
  <2> QED BY <1>2, <1>4, <2>2, SeqEqual
<1> QED BY <1>3, <1>4

Longest(names) == CHOOSE z \in names : \A y \in names : Len(y) <= Len(z)

\* In names of a bounded length there is a longest one.
LEMMA LongestThere ==
  ASSUME NEW names \in SUBSET Seq(Labels), names # {}, NEW most \in Nat,
         \A z \in names : Len(z) <= most
  PROVE  Longest(names) \in names /\ \A y \in names : Len(y) <= Len(Longest(names))
<1> DEFINE T == {most - Len(z) : z \in names}
<1>1. T \in SUBSET Nat /\ T # {}
  OBVIOUS
<1>2. PICK x \in T : \A y \in T : x <= y
  BY <1>1, LeastNatural
<1>3. PICK z \in names : x = most - Len(z)
  BY <1>2
<1>4. ASSUME NEW y \in names PROVE Len(y) <= Len(z)
  <2>1. most - Len(z) <= most - Len(y)
    BY <1>2, <1>3
  <2>2. Len(y) \in Nat /\ Len(z) \in Nat
    OBVIOUS
  <2> QED BY <2>1, <2>2
<1> QED BY <1>4 DEF Longest

-----------------------------------------------------------------------------
(***************************************************************************)
(* What is kept of an answer section.  A function defined by recursion on  *)
(* a number exists, here for steps that are a function themselves.         *)
(***************************************************************************)
RunsTo(f, k, S, base, step) ==
  /\ f \in [0..k -> S]
  /\ \A i \in 0..k : f[i] = IF i = 0 THEN base ELSE step[<<f[i - 1], i>>]

LEMMA RecursionExists ==
  ASSUME NEW S, NEW base \in S, NEW m \in Nat, NEW step \in [S \X (1..m) -> S]
  PROVE  \E f : RunsTo(f, m, S, base, step)
<1> DEFINE Runs(f, k) == RunsTo(f, k, S, base, step)
           T == {k \in 0..m : ~ \E f : Runs(f, k)}
<1>1. SUFFICES ASSUME T # {} PROVE FALSE
  OBVIOUS
<1>2. PICK k \in T : \A j \in T : k <= j
  <2>1. T \in SUBSET Nat
    OBVIOUS
  <2> HIDE DEF T
  <2> QED BY <1>1, <2>1, LeastNatural
<1>3. k # 0
  <2>1. Runs([i \in 0..0 |-> base], 0)
    BY DEF RunsTo
  <2> QED BY <2>1
<1>4. k - 1 \in 0..m /\ k \in 1..m /\ k - 1 \notin T
  BY <1>2, <1>3
<1>5. PICK f : Runs(f, k - 1)
  BY <1>4
<1> DEFINE g == [i \in 0..k |-> IF i < k THEN f[i] ELSE step[<<f[k - 1], k>>]]
<1>6. f[k - 1] \in S /\ step[<<f[k - 1], k>>] \in S
  <2>1. k - 1 \in 0..(k - 1)
    BY <1>4
  <2>2. f[k - 1] \in S
    BY <1>5, <2>1 DEF RunsTo
  <2> QED BY <1>4, <2>2
<1>7. g \in [0..k -> S]
  <2>1. ASSUME NEW i \in 0..k PROVE g[i] \in S
    <3>1. CASE i < k
      <4>1. i \in 0..(k - 1)
        BY <1>4, <3>1
      <4> QED BY <1>5, <3>1, <4>1 DEF RunsTo
    <3>2. CASE ~ (i < k)
      BY <1>6, <3>2
    <3> QED BY <3>1, <3>2
  <2> HIDE DEF Runs, T
  <2> QED BY <2>1
<1>8. ASSUME NEW i \in 0..k
      PROVE  g[i] = IF i = 0 THEN base ELSE step[<<g[i - 1], i>>]
  <2>1. CASE i < k
    <3>1. i \in 0..(k - 1) /\ (i # 0 => i - 1 \in 0..k /\ i - 1 < k)
      BY <1>4, <2>1
    <3>2. g[i] = f[i] /\ (i # 0 => g[i - 1] = f[i - 1])
      BY <2>1, <3>1
    <3> QED BY <1>5, <3>1, <3>2 DEF RunsTo
  <2>2. CASE i = k
    <3>1. g[k] = step[<<f[k - 1], k>>] /\ g[k - 1] = f[k - 1]
      BY <1>4
    <3> QED BY <1>3, <2>2, <3>1
  <2> QED BY <1>4, <2>1, <2>2
<1>9. Runs(g, k)
  <2> HIDE DEF g, T
  <2> QED BY <1>7, <1>8 DEF Runs, RunsTo
<1> QED BY <1>2, <1>9

Start == [keep |-> {}, chain |-> 0, useCname |-> TRUE]

Checked(q, an, s, n) ==
  IF Direct(q, an, s, n) THEN [s EXCEPT !.keep = @ \cup {n}, !.useCname = FALSE]
  ELSE IF Links(q, an, s, n) THEN [s EXCEPT !.keep = @ \cup {n}, !.chain = @ + 1]
  ELSE s

\* Only places in the answer section are kept.
LEMMA KeepDomain ==
  ASSUME NEW q \in Question, NEW an \in Seq(Record)
  PROVE  Keep(q, an) \subseteq 1..Len(an)
<1> DEFINE m == Len(an)
           S == [keep : SUBSET (1..m), chain : Nat, useCname : BOOLEAN]
           Walk(f) == f = [n \in 0..m |-> IF n = 0 THEN Start
                                          ELSE Checked(q, an, f[n - 1], n)]
           run == CHOOSE f : Walk(f)
<1>1. m \in Nat /\ Start \in S
  BY DEF Start
<1>2. ASSUME NEW s \in S, NEW n \in 1..m PROVE Checked(q, an, s, n) \in S
  <2>1. [s EXCEPT !.keep = @ \cup {n}, !.useCname = FALSE] \in S
    <3>1. s.keep \cup {n} \in SUBSET (1..m)
      OBVIOUS
    <3> QED BY <3>1
  <2>2. [s EXCEPT !.keep = @ \cup {n}, !.chain = @ + 1] \in S
    <3>1. s.keep \cup {n} \in SUBSET (1..m) /\ s.chain + 1 \in Nat
      OBVIOUS
    <3> QED BY <3>1
  <2> HIDE DEF S
  <2> QED BY <2>1, <2>2 DEF Checked
<1>3. CheckAnswer(q, an) = run[m]
  BY DEF CheckAnswer, Start, Checked
<1> HIDE DEF m, S
<1>4. Walk(run)
  <2> DEFINE step == [x \in S \X (1..m) |-> Checked(q, an, x[1], x[2])]
  <2>1. step \in [S \X (1..m) -> S]
    BY <1>2
  <2>2. \A s \in S, n \in 1..m : step[<<s, n>>] = Checked(q, an, s, n)
    OBVIOUS
  <2> HIDE DEF step
  <2>3. PICK f : RunsTo(f, m, S, Start, step)
    BY <1>1, <2>1, RecursionExists
  <2>4. ASSUME NEW i \in 0..m
        PROVE  f[i] = IF i = 0 THEN Start ELSE Checked(q, an, f[i - 1], i)
    <3>1. CASE i = 0
      BY <2>3, <3>1 DEF RunsTo
    <3>2. CASE i # 0
      <4>1. i - 1 \in 0..m /\ i \in 1..m
        BY <1>1, <3>2
      <4>2. f[i - 1] \in S
        BY <2>3, <4>1 DEF RunsTo
      <4> QED BY <2>2, <2>3, <3>2, <4>1, <4>2 DEF RunsTo
    <3> QED BY <3>1, <3>2
  <2>5. Walk(f)
    BY <2>3, <2>4 DEF RunsTo
  <2> QED BY <2>5
<1>5. \A i \in 0..m : run[i] = IF i = 0 THEN Start ELSE Checked(q, an, run[i - 1], i)
  BY <1>4
<1> HIDE DEF run
<1>6. {i \in 0..m : run[i] \notin S} = {}
  <2> DEFINE T == {i \in 0..m : run[i] \notin S}
  <2>1. SUFFICES ASSUME T # {} PROVE FALSE
    OBVIOUS
  <2>2. PICK i \in T : \A j \in T : i <= j
    <3>1. T \in SUBSET Nat
      OBVIOUS
    <3> HIDE DEF T
    <3> QED BY <2>1, <3>1, LeastNatural
  <2>3. i # 0
    BY <1>1, <1>5, <2>2
  <2>4. i - 1 \in 0..m /\ i \in 1..m /\ i - 1 \notin T
    BY <1>1, <2>2, <2>3
  <2>5. run[i - 1] \in S
    BY <2>4
  <2> QED BY <1>2, <1>5, <2>2, <2>3, <2>4, <2>5
<1>7. run[m] \in S
  BY <1>1, <1>6
<1> QED BY <1>3, <1>7 DEF Keep, S, m

\* What is kept is a sequence of records, and not empty when a place is kept.
LEMMA KeptType ==
  ASSUME NEW q \in Question, NEW an \in Seq(Record)
  PROVE  /\ Kept(q, an) \in Seq(Record)
         /\ Keep(q, an) # {} => Kept(q, an) # <<>>
<1> DEFINE m == Len(an)
           K == Keep(q, an)
           Taken(s, n) == IF n \in K THEN Append(s, an[n]) ELSE s
           Walk(f) == f = [n \in 0..m |-> IF n = 0 THEN <<>> ELSE Taken(f[n - 1], n)]
           run == CHOOSE f : Walk(f)
<1>1. m \in Nat /\ <<>> \in Seq(Record) /\ K \subseteq 1..m
  BY KeepDomain
<1>2. ASSUME NEW s \in Seq(Record), NEW n \in 1..m
      PROVE  Taken(s, n) \in Seq(Record) /\ (n \in K => Taken(s, n) # <<>>)
                /\ (s # <<>> => Taken(s, n) # <<>>)
  <2>1. an[n] \in Record
    OBVIOUS
  <2> QED BY <2>1, AppendProperties
<1>3. Kept(q, an) = run[m]
  BY DEF Kept
<1> HIDE DEF m, K, Taken
<1>4. Walk(run)
  <2> DEFINE step == [x \in Seq(Record) \X (1..m) |-> Taken(x[1], x[2])]
  <2>1. step \in [Seq(Record) \X (1..m) -> Seq(Record)]
    BY <1>2
  <2>2. \A s \in Seq(Record), n \in 1..m : step[<<s, n>>] = Taken(s, n)
    OBVIOUS
  <2> HIDE DEF step
  <2>3. PICK f : RunsTo(f, m, Seq(Record), <<>>, step)
    BY <1>1, <2>1, RecursionExists
  <2>4. ASSUME NEW i \in 0..m
        PROVE  f[i] = IF i = 0 THEN <<>> ELSE Taken(f[i - 1], i)
    <3>1. CASE i = 0
      BY <2>3, <3>1 DEF RunsTo
    <3>2. CASE i # 0
      <4>1. i - 1 \in 0..m /\ i \in 1..m
        BY <1>1, <3>2
      <4>2. f[i - 1] \in Seq(Record)
        BY <2>3, <4>1 DEF RunsTo
      <4> QED BY <2>2, <2>3, <3>2, <4>1, <4>2 DEF RunsTo
    <3> QED BY <3>1, <3>2
  <2>5. Walk(f)
    BY <2>3, <2>4 DEF RunsTo
  <2> QED BY <2>5
<1>5. \A i \in 0..m : run[i] = IF i = 0 THEN <<>> ELSE Taken(run[i - 1], i)
  BY <1>4
<1> HIDE DEF run
<1> DEFINE Good(i) ==
             /\ run[i] \in Seq(Record)
             /\ (\E j \in K : j <= i) => run[i] # <<>>
           T == {i \in 0..m : ~ Good(i)}
<1>6. T = {}
  <2>1. SUFFICES ASSUME T # {} PROVE FALSE
    OBVIOUS
  <2>2. PICK i \in T : \A j \in T : i <= j
    <3>1. T \in SUBSET Nat
      OBVIOUS
    <3> HIDE DEF T
    <3> QED BY <2>1, <3>1, LeastNatural
  <2>3. i # 0
    <3>1. SUFFICES ASSUME i = 0 PROVE FALSE
      OBVIOUS
    <3>2. run[0] = <<>>
      BY <1>1, <1>5
    <3>3. \A j \in K : ~ (j <= 0)
      BY <1>1
    <3> QED BY <1>1, <2>2, <3>1, <3>2, <3>3
  <2>4. i - 1 \in 0..m /\ i \in 1..m /\ i - 1 \notin T
    BY <1>1, <2>2, <2>3
  <2>5. Good(i - 1)
    BY <2>4
  <2>6. run[i] = Taken(run[i - 1], i)
    BY <1>5, <2>3, <2>4
  <2>7. run[i] \in Seq(Record)
    BY <1>2, <2>4, <2>5, <2>6
  <2>8. ASSUME NEW j \in K, j <= i PROVE run[i] # <<>>
    <3>1. CASE j = i
      BY <1>2, <2>4, <2>5, <2>6, <3>1
    <3>2. CASE j # i
      <4>1. j <= i - 1
        BY <1>1, <2>4, <2>8, <3>2
      <4>2. run[i - 1] # <<>>
        BY <2>5, <4>1
      <4> QED BY <1>2, <2>4, <2>5, <2>6, <4>2
    <3> QED BY <3>1, <3>2
  <2> QED BY <2>2, <2>7, <2>8
<1>7. Good(m)
  <2>1. m \in 0..m /\ m \notin T
    BY <1>1, <1>6
  <2> QED BY <2>1
<1>8. ASSUME K # {} PROVE run[m] # <<>>
  <2>1. PICK j \in K : TRUE
    BY <1>8
  <2>2. j <= m
    BY <1>1
  <2> QED BY <1>7, <2>1, <2>2
<1> QED BY <1>3, <1>7, <1>8 DEF K

\* The chain of a reply that is an incomplete one has a last name.
LEMMA ChainType ==
  ASSUME NEW q \in Question, NEW an \in Seq(Record), NEW heap, 
         AnswerType(q, an, heap) = "CNAME_REFER"
  PROVE  Chain(q, an) \in Seq(Seq(Labels)) /\ Chain(q, an) # <<>>
<1>1. FirstOf(q, an) \in Keep(q, an)
  BY DEF AnswerType, StartsWithCname
<1>2. Kept(q, an) \in Seq(Record) /\ Kept(q, an) # <<>>
  BY <1>1, KeptType
<1> DEFINE kept == Kept(q, an)
<1> HIDE DEF kept
<1>3. kept \in Seq(Record) /\ kept # <<>>
  BY <1>2 DEF kept
<1>4. Chain(q, an) = [i \in DOMAIN kept |-> kept[i].data]
  BY DEF Chain, kept
<1>5. DOMAIN kept = 1..Len(kept) /\ Len(kept) \in Nat \ {0}
  BY <1>3
<1>6. \A i \in 1..Len(kept) : kept[i].data \in Seq(Labels)
  <2>1. ASSUME NEW i \in 1..Len(kept) PROVE kept[i] \in Record
    BY <1>3
  <2> QED BY <2>1 DEF Record
<1> QED BY <1>4, <1>5, <1>6

-----------------------------------------------------------------------------
(***************************************************************************)
(* The invariant.                                                          *)
(***************************************************************************)
EntryType ==
  [q : Question, kind : {"client", "server", "cname", "chased"},
   chain : Seq(Seq(Labels)), list : ServerList, sent : BOOLEAN,
   retries : Nat, referrals : Nat]

\* One slot: its servers are those of a zone the name is in, it is only sent
\* with servers, there were no more referrals than the zone has labels while
\* authority sections are short, and none yet where there is no list.
EntryOK(e) ==
  /\ ShortReferrals => IsSuffix(e.list.zone, e.q.name)
  /\ e.sent => e.list.servers # {}
  /\ ShortReferrals /\ e.list.servers # {} => e.referrals <= Len(e.list.zone)
  /\ e.list.upstream /\ ~ e.list.configured => e.referrals = 0

\* The slots of a question: a child looks for a server of the slot below it.
StackOK(st) ==
  /\ st \in Seq(EntryType)
  /\ \A i \in 1..Len(st) : EntryOK(st[i])
  /\ \A i \in 1..Len(st) :
       st[i].kind = "server" => i > 1 /\ st[i - 1].list.servers # {}

\* What is known of servers: each list is kept under its own zone, and where
\* it was learnt from is above it, or it is the empty list of the root.
LearntAbove(list) ==
  \/ list.configured
  \/ IsStrictSuffix(list.from, list.zone)
  \/ list.zone = <<>>

KnownOK(known) ==
  \A z \in DOMAIN known :
    /\ known[z] \in ServerList
    /\ known[z].zone = z
    /\ ShortReferrals => LearntAbove(known[z])
    /\ known[z].upstream => known[z].configured

ChainsOK(chains) ==
  \A q \in DOMAIN chains : chains[q] \in Seq(Seq(Labels)) /\ chains[q] # <<>>

RootKept ==
  \A z \in DOMAIN Configured : z \in DOMAIN servers /\ servers[z].configured

IInv == StackOK(stack) /\ KnownOK(servers) /\ ChainsOK(cnames) /\ RootKept

-----------------------------------------------------------------------------
(***************************************************************************)
(* What the calls do to the slots.                                         *)
(***************************************************************************)
LEMMA StackEmpty == StackOK(<<>>)
BY DEF StackOK

LEMMA StackOne ==
  ASSUME NEW e \in EntryType, EntryOK(e), e.kind # "server"
  PROVE  StackOK(<<e>>) /\ <<e>> # <<>> /\ Last(<<e>>) = e
<1> HIDE DEF EntryType
<1>1. <<e>> \in Seq(EntryType) /\ Len(<<e>>) = 1 /\ <<e>>[1] = e
  OBVIOUS
<1> QED BY <1>1 DEF StackOK, Last

LEMMA StackCut ==
  ASSUME NEW st, StackOK(st), NEW k \in 0..Len(st)
  PROVE  StackOK(SubSeq(st, 1, k)) /\ Len(SubSeq(st, 1, k)) = k
            /\ (k # 0 => Last(SubSeq(st, 1, k)) = st[k])
<1> DEFINE cut == SubSeq(st, 1, k)
<1> HIDE DEF EntryType
<1>1. st \in Seq(EntryType)
  BY DEF StackOK
<1>2. cut \in Seq(EntryType) /\ Len(cut) = k /\ \A i \in 1..k : cut[i] = st[i]
  BY <1>1
<1>3. \A i \in 1..k : i \in 1..Len(st) /\ (i > 1 => i - 1 \in 1..k)
  BY <1>1
<1> HIDE DEF cut
<1>4. StackOK(cut)
  BY <1>2, <1>3 DEF StackOK
<1>5. k # 0 => k \in 1..k
  OBVIOUS
<1> QED BY <1>2, <1>4, <1>5 DEF cut, Last

\* The slot at the top changes and stays of its kind.
LEMMA StackTop ==
  ASSUME NEW st, StackOK(st), st # <<>>, NEW e \in EntryType, EntryOK(e),
         e.kind = Last(st).kind
  PROVE  /\ StackOK(WithLast(st, e)) /\ WithLast(st, e) # <<>>
         /\ Len(WithLast(st, e)) = Len(st) /\ Last(WithLast(st, e)) = e
<1> DEFINE n == Len(st)
           new == WithLast(st, e)
<1> HIDE DEF EntryType
<1>1. st \in Seq(EntryType) /\ n \in Nat /\ n # 0 /\ n \in 1..n
  BY DEF StackOK
<1>2. /\ new \in Seq(EntryType) /\ Len(new) = n
      /\ new[n] = e /\ \A i \in 1..n : i # n => new[i] = st[i]
  BY <1>1 DEF WithLast
<1> HIDE DEF n, new
<1>3. Last(new) = e /\ Last(st) = st[n] /\ new # <<>>
  BY <1>1, <1>2 DEF Last, n
<1>4. \A i \in 1..n : EntryOK(new[i])
  BY <1>2 DEF StackOK, n
<1>5. ASSUME NEW i \in 1..n, new[i].kind = "server"
      PROVE  i > 1 /\ new[i - 1].list.servers # {}
  <2>1. st[i].kind = "server"
    BY <1>2, <1>3, <1>5
  <2>2. i > 1 /\ st[i - 1].list.servers # {}
    BY <2>1 DEF StackOK, n
  <2>3. i - 1 \in 1..n /\ i - 1 # n
    BY <1>1, <2>2
  <2> QED BY <1>2, <2>2, <2>3
<1> QED BY <1>1, <1>2, <1>3, <1>4, <1>5 DEF StackOK, new, n

LEMMA StackPush ==
  ASSUME NEW st, StackOK(st), st # <<>>, NEW e \in EntryType, EntryOK(e),
         e.kind = "server" => Last(st).list.servers # {}
  PROVE  /\ StackOK(Append(st, e)) /\ Append(st, e) # <<>>
         /\ Last(Append(st, e)) = e
<1> DEFINE n == Len(st)
           new == Append(st, e)
<1> HIDE DEF EntryType
<1>1. st \in Seq(EntryType) /\ n \in Nat /\ n # 0 /\ n \in 1..n
  BY DEF StackOK
<1>2. /\ new \in Seq(EntryType) /\ Len(new) = n + 1
      /\ new[n + 1] = e /\ \A i \in 1..n : new[i] = st[i]
  BY <1>1
<1> HIDE DEF n, new
<1>3. Last(new) = e /\ Last(st) = st[n] /\ new # <<>>
  BY <1>1, <1>2 DEF Last, n
<1>4. \A i \in 1..(n + 1) : EntryOK(new[i])
  BY <1>1, <1>2 DEF StackOK, n
<1>5. ASSUME NEW i \in 1..(n + 1), new[i].kind = "server"
      PROVE  i > 1 /\ new[i - 1].list.servers # {}
  <2>1. CASE i = n + 1
    <3>1. i > 1 /\ i - 1 = n
      BY <1>1, <2>1
    <3>2. new[i] = e /\ new[i - 1] = st[n]
      BY <1>1, <1>2, <2>1, <3>1
    <3> QED BY <1>3, <1>5, <3>1, <3>2
  <2>2. CASE i \in 1..n
    <3>1. i > 1 /\ st[i - 1].list.servers # {}
      BY <1>2, <1>5, <2>2 DEF StackOK, n
    <3>2. i - 1 \in 1..n
      BY <1>1, <2>2, <3>1
    <3> QED BY <1>2, <3>1, <3>2
  <2> QED BY <1>1, <2>1, <2>2
<1> QED BY <1>1, <1>2, <1>3, <1>4, <1>5 DEF StackOK, new, n

LEMMA WaitingOK ==
  ASSUME NEW st, StackOK(st), st # <<>>
  PROVE  StackOK(Waiting(st)) /\ Waiting(st) # <<>> /\ Last(Waiting(st)).list = Last(st).list
<1> DEFINE e == [Last(st) EXCEPT !.sent = FALSE]
<1>1. Last(st) \in EntryType /\ EntryOK(Last(st))
  BY DEF StackOK, Last
<1>2. /\ e \in EntryType /\ EntryOK(e)
      /\ e.kind = Last(st).kind /\ e.list = Last(st).list
  BY <1>1 DEF EntryType, EntryOK
<1> HIDE DEF e
<1>3. Waiting(st) = WithLast(st, e)
  BY DEF Waiting, e
<1> QED BY <1>2, <1>3, StackTop

LEMMA SentOK ==
  ASSUME NEW st, StackOK(st), st # <<>>, Last(st).list.servers # {}
  PROVE  StackOK(Sent(st))
<1> DEFINE e == [Last(st) EXCEPT !.sent = TRUE]
<1>1. Last(st) \in EntryType /\ EntryOK(Last(st))
  BY DEF StackOK, Last
<1>2. e \in EntryType /\ EntryOK(e) /\ e.kind = Last(st).kind
  BY <1>1 DEF EntryType, EntryOK
<1> HIDE DEF e
<1>3. Sent(st) = WithLast(st, e)
  BY DEF Sent, e
<1> QED BY <1>2, <1>3, StackTop

-----------------------------------------------------------------------------
(***************************************************************************)
(* Which servers are asked.                                                *)
(***************************************************************************)
LEMMA NoServersOK ==
  ASSUME NEW n \in Seq(Labels)
  PROVE  NoServers(n) \in ServerList /\ IsSuffix(NoServers(n).zone, n)
BY SuffixOfItself DEF NoServers, ServerList

\* get_upstream_ns finds servers of a zone that the name is in.
LEMMA NearestOK ==
  ASSUME NEW known, KnownOK(known), NEW n \in Seq(Labels)
  PROVE  Nearest(known, n) \in ServerList /\ IsSuffix(Nearest(known, n).zone, n)
<1> DEFINE zones == ZonesOf(known, n)
<1>1. CASE zones = {}
  BY <1>1, NoServersOK DEF Nearest
<1>2. CASE zones # {}
  <2>1. \A z \in zones : z \in DOMAIN known /\ IsSuffix(z, n) /\ z \in Seq(Labels)
    BY DEF ZonesOf, KnownOK, ServerList
  <2>2. \A z \in zones : Len(z) <= Len(n)
    BY <2>1, SuffixLen
  <2>3. Longest(zones) \in zones
    <3>1. Len(n) \in Nat /\ zones \in SUBSET Seq(Labels)
      BY <2>1
    <3> HIDE DEF zones
    <3> QED BY <1>2, <2>2, <3>1, LongestThere
  <2>4. Nearest(known, n) = known[Longest(zones)]
    BY <1>2 DEF Nearest, Longest
  <2> HIDE DEF zones
  <2> QED BY <2>1, <2>3, <2>4 DEF KnownOK
<1> QED BY <1>1, <1>2

LEMMA EntryMade ==
  ASSUME NEW q \in Question, NEW kind \in {"client", "server", "cname", "chased"},
         NEW chain \in Seq(Seq(Labels)), NEW list \in ServerList,
         IsSuffix(list.zone, q.name)
  PROVE  /\ Entry(q, kind, chain, list) \in EntryType
         /\ EntryOK(Entry(q, kind, chain, list))
         /\ Entry(q, kind, chain, list).kind = kind
         /\ Entry(q, kind, chain, list).list = list
<1>1. Len(list.zone) \in Nat
  BY DEF ServerList
<1> QED BY <1>1, NumbersAssumption DEF Entry, EntryType, EntryOK

LEMMA SpawnOK ==
  ASSUME NEW st, StackOK(st), st # <<>>, NEW known, KnownOK(known),
         NEW q \in Question, NEW kind \in {"server", "cname"},
         kind = "server" => Last(st).list.servers # {},
         Spawn(st, q, kind, known)
  PROVE  StackOK(stack')
<1> DEFINE near == Nearest(known, q.name)
           e == Entry(q, kind, <<>>, near)
<1>1. CASE stack' = Waiting(st)
  BY <1>1, WaitingOK
<1>2. CASE Dies
  BY <1>2, StackEmpty DEF Dies
<1>3. CASE \E s \in near.servers : stack' = Sent(Append(Waiting(st), e))
  <2>1. q.name \in Seq(Labels)
    BY DEF Question
  <2>2. near \in ServerList /\ IsSuffix(near.zone, q.name)
    BY <2>1, NearestOK
  <2>3. e \in EntryType /\ EntryOK(e) /\ e.kind = kind /\ e.list = near
    <3>1. <<>> \in Seq(Seq(Labels))
      OBVIOUS
    <3>2. kind \in {"client", "server", "cname", "chased"}
      OBVIOUS
    <3> DEFINE none == <<>>
    <3>3. none \in Seq(Seq(Labels)) /\ e = Entry(q, kind, none, near)
      BY <3>1
    <3> HIDE DEF near, none, e
    <3> QED BY <2>2, <3>2, <3>3, EntryMade
  <2>4. near.servers # {} /\ stack' = Sent(Append(Waiting(st), e))
    BY <1>3
  <2> HIDE DEF near, e
  <2>5. StackOK(Waiting(st)) /\ Waiting(st) # <<>> /\ Last(Waiting(st)).list = Last(st).list
    BY WaitingOK
  <2>6. /\ StackOK(Append(Waiting(st), e)) /\ Append(Waiting(st), e) # <<>>
        /\ Last(Append(Waiting(st), e)) = e
    BY <2>3, <2>5, StackPush
  <2> QED BY <2>3, <2>4, <2>6, SentOK
<1> QED BY <1>1, <1>2, <1>3 DEF Spawn

LEMMA ConnectOK ==
  ASSUME NEW st, StackOK(st), st # <<>>, NEW known, KnownOK(known),
         Connect(st, known)
  PROVE  StackOK(stack')
<1>1. CASE stack' = Waiting(st)
  BY <1>1, WaitingOK
<1>2. CASE Last(st).list.servers # {} /\ stack' = Sent(st)
  BY <1>2, SentOK
<1>3. CASE Dies
  BY <1>3, StackEmpty DEF Dies
<1>4. ASSUME NEW s \in Last(st).list.servers,
             Spawn(st, AddressOf(s.what), "server", known)
      PROVE  StackOK(stack')
  <2>1. Last(st) \in EntryType
    BY DEF StackOK, Last
  <2>2. AddressOf(s.what) \in Question
    BY <1>4, <2>1, MessagesAssumption
    DEF EntryType, ServerList, Server, AddressOf, Question
  <2> QED BY <1>4, <2>2, SpawnOK
<1> QED BY <1>1, <1>2, <1>3, <1>4 DEF Connect

-----------------------------------------------------------------------------
(***************************************************************************)
(* A referral leads down, towards the name.                                *)
(***************************************************************************)
\* The owners of the records that dwx_find_ns_referral chooses from.
ReferralOwners(q, zone, ns) == {ns[i].owner : i \in InBailiwick(q, zone, ns)}

LEMMA OwnersBelow ==
  ASSUME NEW q \in Question, NEW zone \in Seq(Labels), NEW ns \in Seq(Record),
         Len(ns) <= GlueRange, NEW o \in ReferralOwners(q, zone, ns)
  PROVE  o \in Seq(Labels) /\ IsSuffix(o, q.name) /\ IsStrictSuffix(zone, o)
<1>1. PICK i \in 1..Len(ns) : o = ns[i].owner /\ ~ OutOfBailiwick(q, zone, ns, i)
  BY DEF ReferralOwners, InBailiwick
<1>2. ns[i] \in Record
  BY <1>1
<1>3. i <= GlueRange
  BY <1>1, NumbersAssumption
<1> QED BY <1>1, <1>2, <1>3 DEF OutOfBailiwick, Record

\* The names that the records of a section own are of a bounded size.
LEMMA OwnersBounded ==
  ASSUME NEW ns \in Seq(Record), \A i \in 1..Len(ns) : Bytes[ns[i].owner] \in Nat
  PROVE  \E most \in Nat : \A i \in 1..Len(ns) : Bytes[ns[i].owner] <= most
<1> DEFINE Bound(k, b) == \A i \in 1..k : Bytes[ns[i].owner] <= b
           T == {k \in 0..Len(ns) : ~ \E b \in Nat : Bound(k, b)}
<1>1. Len(ns) \in Nat /\ Len(ns) \in 0..Len(ns)
  OBVIOUS
<1>2. ASSUME T # {} PROVE FALSE
  <2>1. PICK k \in T : \A j \in T : k <= j
    <3>1. T \in SUBSET Nat
      BY <1>1
    <3> HIDE DEF T
    <3> QED BY <1>2, <3>1, LeastNatural
  <2>2. k # 0
    <3>1. Bound(0, 0)
      OBVIOUS
    <3> QED BY <3>1
  <2>3. k - 1 \in 0..Len(ns) /\ k \in 1..Len(ns) /\ k \in Nat /\ ~ (k <= k - 1)
    <3>1. k \in 0..Len(ns)
      OBVIOUS
    <3> QED BY <1>1, <2>2, <3>1
  <2>4. PICK b \in Nat : Bound(k - 1, b)
    <3>1. k - 1 \notin T
      <4> HIDE DEF T
      <4> QED BY <2>1, <2>3
    <3> HIDE DEF Bound
    <3> QED BY <2>3, <3>1
  <2> HIDE DEF T
  <2>5. Bytes[ns[k].owner] \in Nat
    BY <2>3
  <2> DEFINE c == IF b <= Bytes[ns[k].owner] THEN Bytes[ns[k].owner] ELSE b
  <2>6. c \in Nat /\ b <= c /\ Bytes[ns[k].owner] <= c
    BY <2>5
  <2>7. ASSUME NEW i \in 1..k PROVE Bytes[ns[i].owner] <= c
    <3>1. CASE i = k
      BY <2>6, <3>1
    <3>2. CASE i # k
      <4>1. i \in 1..(k - 1) /\ i \in 1..Len(ns)
        BY <2>3, <3>2
      <4>2. Bytes[ns[i].owner] \in Nat
        BY <4>1
      <4>3. Bytes[ns[i].owner] <= b
        BY <2>4, <4>1
      <4> HIDE DEF c
      <4> QED BY <2>6, <4>2, <4>3
    <3> QED BY <3>1, <3>2
  <2>8. Bound(k, c)
    BY <2>7
  <2> HIDE DEF c, Bound
  <2> QED BY <2>1, <2>6, <2>8 DEF T
<1>3. Len(ns) \notin T
  BY <1>2
<1> HIDE DEF Bound
<1>4. \E b \in Nat : Bound(Len(ns), b)
  BY <1>1, <1>3
<1> QED BY <1>4 DEF Bound

LEMMA OwnerName ==
  ASSUME NEW q, NEW zone, NEW ns \in Seq(Record), NEW o \in ReferralOwners(q, zone, ns)
  PROVE  o \in Seq(Labels) /\ \E i \in 1..Len(ns) : o = ns[i].owner
<1>1. PICK i \in 1..Len(ns) : o = ns[i].owner
  BY DEF ReferralOwners, InBailiwick
<1>2. ns[i] \in Record
  BY <1>1
<1> QED BY <1>1, <1>2 DEF Record

\* The zone of a referral is one of the owners that are left.
LEMMA ReferralZoneOK ==
  ASSUME NEW q, NEW zone, NEW ns \in Seq(Record),
         \A i \in 1..Len(ns) : Bytes[ns[i].owner] \in Nat
  PROVE  \/ ReferralOwners(q, zone, ns) = {} /\ ReferralZone(q, zone, ns) = <<>>
         \/ ReferralZone(q, zone, ns) \in ReferralOwners(q, zone, ns)
<1> DEFINE left == InBailiwick(q, zone, ns)
           longest == {i \in left : \A j \in left :
                         Bytes[ns[j].owner] <= Bytes[ns[i].owner]}
<1>1. CASE left = {}
  BY <1>1 DEF ReferralZone, ReferralOwners
<1>2. CASE left # {}
  <2>1. PICK most \in Nat : \A i \in 1..Len(ns) : Bytes[ns[i].owner] <= most
    BY OwnersBounded
  <2>2. \A i \in left : i \in 1..Len(ns)
    BY DEF InBailiwick
  <2>3. longest # {}
    <3> DEFINE T == {most - Bytes[ns[i].owner] : i \in left}
    <3> HIDE DEF left
    <3>1. T \in SUBSET Nat /\ T # {}
      BY <1>2, <2>1, <2>2
    <3>2. PICK x \in T : \A y \in T : x <= y
      <4> HIDE DEF T
      <4> QED BY <3>1, LeastNatural
    <3>3. PICK i \in left : x = most - Bytes[ns[i].owner]
      BY <3>2
    <3>4. ASSUME NEW j \in left PROVE Bytes[ns[j].owner] <= Bytes[ns[i].owner]
      <4>1. most - Bytes[ns[i].owner] <= most - Bytes[ns[j].owner]
        BY <3>2, <3>3
      <4>2. Bytes[ns[i].owner] \in Nat /\ Bytes[ns[j].owner] \in Nat
        BY <2>2
      <4> QED BY <2>1, <4>1, <4>2
    <3> QED BY <3>4
  <2>4. longest \in SUBSET Nat
    BY <2>2
  <2>5. ReferralZone(q, zone, ns) =
          ns[CHOOSE i \in longest : \A j \in longest : i <= j].owner
    BY <1>2 DEF ReferralZone
  <2>6. longest \subseteq left
    OBVIOUS
  <2> HIDE DEF longest, left
  <2>7. \E i \in longest : \A j \in longest : i <= j
    BY <2>3, <2>4, LeastNatural
  <2>8. PICK i \in left : ReferralZone(q, zone, ns) = ns[i].owner
    BY <2>5, <2>6, <2>7
  <2> QED BY <2>8 DEF ReferralOwners, left
<1> QED BY <1>1, <1>2

\* A host that is asked is that of a record in bailiwick, however long the
\* section is.
LEMMA HostBelow ==
  ASSUME NEW q \in Question, NEW zone \in Seq(Labels), NEW ns \in Seq(Record),
         NEW h \in Hosts(q, zone, ns)
  PROVE  \E o \in ReferralOwners(q, zone, ns) : IsStrictSuffix(zone, o)
<1>1. PICK i \in 1..Len(ns) : /\ ns[i].type = "NS" /\ i <= GlueRange
                              /\ ~ OutOfBailiwick(q, zone, ns, i)
  BY DEF Hosts, InBailiwick
<1>2. ns[i].owner \in ReferralOwners(q, zone, ns)
  BY <1>1 DEF ReferralOwners, InBailiwick
<1> QED BY <1>1, <1>2 DEF OutOfBailiwick

LEMMA ReferralServersType ==
  ASSUME NEW q \in Question, NEW zone \in Seq(Labels), NEW p \in Packets
  PROVE  /\ ReferralServers(q, zone, p) \in SUBSET Server
         /\ ReferralServers(q, zone, p) # {} =>
              \E o \in ReferralOwners(q, zone, p.ns) : IsStrictSuffix(zone, o)
<1>1. p.ns \in Seq(Record) /\ p.ar \in Seq(Record)
  BY MessagesAssumption
<1>2. Hosts(q, zone, p.ns) \in SUBSET Seq(Labels)
  <2>1. ASSUME NEW h \in Hosts(q, zone, p.ns) PROVE h \in Seq(Labels)
    <3>1. PICK i \in 1..Len(p.ns) : h = p.ns[i].data
      BY <1>1, <2>1 DEF Hosts, InBailiwick
    <3>2. p.ns[i] \in Record
      BY <1>1, <3>1
    <3> QED BY <3>1, <3>2 DEF Record
  <2> QED BY <2>1
<1>3. ASSUME NEW h PROVE Glue(p.ar, h) \in SUBSET Seq(Labels)
  <2>1. ASSUME NEW a \in Glue(p.ar, h) PROVE a \in Seq(Labels)
    <3>1. PICK i \in 1..Len(p.ar) : a = p.ar[i].data
      BY <1>1, <2>1 DEF Glue
    <3>2. p.ar[i] \in Record
      BY <1>1, <3>1
    <3> QED BY <3>1, <3>2 DEF Record
  <2> QED BY <2>1
<1>4. ASSUME NEW s \in ReferralServers(q, zone, p)
      PROVE  s \in Server /\ Hosts(q, zone, p.ns) # {}
  <2>1. PICK h \in Hosts(q, zone, p.ns) :
          s \in IF Glue(p.ar, h) = {} THEN {Name(h)}
                ELSE {Address(a) : a \in Glue(p.ar, h)}
    BY <1>4 DEF ReferralServers
  <2>2. CASE s = Name(h)
    BY <1>2, <2>1, <2>2 DEF Name, Server
  <2>3. CASE \E a \in Glue(p.ar, h) : s = Address(a)
    BY <1>3, <2>1, <2>3 DEF Address, Server
  <2> QED BY <2>1, <2>2, <2>3
<1>5. Hosts(q, zone, p.ns) # {} =>
        \E o \in ReferralOwners(q, zone, p.ns) : IsStrictSuffix(zone, o)
  BY <1>1, HostBelow
<1> QED BY <1>4, <1>5

LEMMA ReferralOK ==
  ASSUME NEW e \in EntryType, NEW p \in Packets
  PROVE  LET list == Referral(e, p) IN
           /\ list \in ServerList
           /\ Len(p.ns) <= GlueRange =>
                /\ IsSuffix(list.zone, e.q.name) /\ LearntAbove(list)
                /\ list.servers # {} => Len(e.list.zone) < Len(list.zone)
           /\ ~ list.upstream
<1> DEFINE list == Referral(e, p)
           from == e.list.zone
           owners == ReferralOwners(e.q, from, p.ns)
<1>1. e.q \in Question /\ from \in Seq(Labels) /\ e.q.name \in Seq(Labels)
  BY DEF EntryType, ServerList, Question
<1>2. p.ns \in Seq(Record) /\ \A i \in 1..Len(p.ns) : Bytes[p.ns[i].owner] \in Nat
  BY MessagesAssumption
<1>3. /\ list.servers = ReferralServers(e.q, from, p)
      /\ list.zone = ReferralZone(e.q, from, p.ns)
      /\ list.from = from /\ list.upstream = FALSE /\ list.configured = FALSE
      /\ list = [servers |-> list.servers, zone |-> list.zone, from |-> list.from,
                 upstream |-> list.upstream, configured |-> list.configured]
  BY DEF Referral
<1> HIDE DEF list, from
<1>4. /\ list.servers \in SUBSET Server
      /\ list.servers # {} => \E o \in owners : IsStrictSuffix(from, o)
  BY <1>1, <1>3, ReferralServersType
<1>5. (owners = {} /\ list.zone = <<>>) \/ list.zone \in owners
  BY <1>2, <1>3, ReferralZoneOK
<1>6. \A o \in owners : o \in Seq(Labels)
  BY <1>2, OwnerName
<1>7. list.zone \in Seq(Labels)
  <2> HIDE DEF owners
  <2> QED BY <1>5, <1>6, EmptySeq
<1>8. list \in ServerList
  <2> HIDE DEF owners
  <2> QED BY <1>1, <1>3, <1>4, <1>7 DEF ServerList
<1>9. ASSUME Len(p.ns) <= GlueRange
      PROVE  /\ IsSuffix(list.zone, e.q.name) /\ LearntAbove(list)
             /\ list.servers # {} => Len(from) < Len(list.zone)
  <2>1. \A o \in owners : IsSuffix(o, e.q.name) /\ IsStrictSuffix(from, o)
    BY <1>1, <1>2, <1>9, OwnersBelow
  <2> HIDE DEF owners
  <2>2. IsSuffix(list.zone, e.q.name)
    BY <1>1, <1>5, <2>1, RootIsSuffix
  <2>3. LearntAbove(list)
    BY <1>3, <1>5, <2>1 DEF LearntAbove
  <2>4. ASSUME list.servers # {} PROVE Len(from) < Len(list.zone)
    <3>1. IsStrictSuffix(from, list.zone)
      BY <1>4, <1>5, <2>1, <2>4
    <3> QED BY <1>1, <1>7, <3>1, StrictSuffixLen
  <2> QED BY <2>2, <2>3, <2>4
<1> QED BY <1>3, <1>8, <1>9 DEF list, from

-----------------------------------------------------------------------------
(***************************************************************************)
(* The invariant holds initially, and each action keeps it.                *)
(***************************************************************************)
LEMMA InitIInv == Init => IInv
<1> SUFFICES ASSUME Init PROVE IInv
  OBVIOUS
<1>1. KnownOK(servers) /\ RootKept
  BY ConfiguredAssumption DEF Init, KnownOK, LearntAbove, RootKept
<1>2. ChainsOK(cnames)
  BY DEF Init, ChainsOK, Nothing
<1> QED BY <1>1, <1>2, StackEmpty DEF Init, IInv

LEMMA AskIInv ==
  ASSUME IInv, NEW q \in Questions, Ask(q)
  PROVE  IInv'
<1>1. q \in Question /\ q.name \in Seq(Labels) /\ q.type \in STRING
  BY MessagesAssumption DEF Question
<1>2. StackOK(stack) /\ KnownOK(servers) /\ ChainsOK(cnames) /\ RootKept
  BY DEF IInv
<1>3. servers' = servers /\ cnames' = cnames
  BY DEF Ask
<1>4. StackOK(stack')
  <2>1. CASE AskCached(q)
    BY <1>2, <2>1 DEF AskCached
  <2>2. CASE AskChased(q)
    <3> DEFINE target == [name |-> Last(cnames[q]), type |-> q.type]
               near == Nearest(servers, target.name)
               e == Entry(q, "client", cnames[q], NoServers(q.name))
               none == <<>>
               f == Entry(target, "chased", none, near)
    <3>1. cnames[q] \in Seq(Seq(Labels)) /\ cnames[q] # <<>>
      BY <1>2, <2>2 DEF AskChased, ChainsOK
    <3>2. Last(cnames[q]) \in Seq(Labels)
      BY <3>1 DEF Last
    <3>3. target \in Question /\ target.name \in Seq(Labels)
      BY <1>1, <3>2 DEF Question
    <3>4. none \in Seq(Seq(Labels))
      OBVIOUS
    <3>5. Connect(<<e, f>>, servers)
      BY <2>2 DEF AskChased
    <3> HIDE DEF target, none
    <3>6. near \in ServerList /\ IsSuffix(near.zone, target.name)
      BY <1>2, <3>3, NearestOK
    <3>7. e \in EntryType /\ EntryOK(e) /\ e.kind = "client"
      BY <1>1, <3>1, NoServersOK, EntryMade
    <3> HIDE DEF near
    <3>8. f \in EntryType /\ EntryOK(f) /\ f.kind = "chased"
      BY <3>3, <3>4, <3>6, EntryMade
    <3> HIDE DEF e, f
    <3>9. StackOK(<<e>>) /\ <<e>> # <<>>
      BY <3>7, StackOne
    <3>10. StackOK(Append(<<e>>, f)) /\ Append(<<e>>, f) # <<>>
      BY <3>8, <3>9, StackPush
    <3>11. Append(<<e>>, f) = <<e, f>>
      <4>1. e \in {e, f} /\ f \in {e, f}
        OBVIOUS
      <4>2. <<e>> \in Seq({e, f}) /\ <<e, f>> \in Seq({e, f})
        BY <4>1
      <4>3. /\ Len(Append(<<e>>, f)) = 2 /\ Append(<<e>>, f)[1] = e
            /\ Append(<<e>>, f)[2] = f /\ Append(<<e>>, f) \in Seq({e, f})
        BY <4>1, <4>2
      <4>4. Len(<<e, f>>) = 2 /\ <<e, f>>[1] = e /\ <<e, f>>[2] = f
        OBVIOUS
      <4>5. \A i \in 1..2 : Append(<<e>>, f)[i] = <<e, f>>[i]
        BY <4>3, <4>4
      <4> QED BY <4>2, <4>3, <4>4, <4>5, SeqEqual
    <3> QED BY <1>2, <3>5, <3>10, <3>11, ConnectOK
  <2>3. CASE AskNew(q)
    <3> DEFINE list == Nearest(servers, q.name)
               none == <<>>
               e == Entry(q, "client", none, list)
    <3>1. CASE \E s \in list.servers : stack' = Sent(<<e>>)
      <4>1. list \in ServerList /\ IsSuffix(list.zone, q.name)
        BY <1>1, <1>2, NearestOK
      <4>2. list.servers # {} /\ stack' = Sent(<<e>>)
        BY <3>1
      <4>3. none \in Seq(Seq(Labels))
        OBVIOUS
      <4> HIDE DEF list, none
      <4>4. e \in EntryType /\ EntryOK(e) /\ e.kind = "client" /\ e.list = list
        BY <1>1, <4>1, <4>3, EntryMade
      <4> HIDE DEF e
      <4>5. StackOK(<<e>>) /\ <<e>> # <<>> /\ Last(<<e>>) = e
        BY <4>4, StackOne
      <4> QED BY <4>2, <4>4, <4>5, SentOK
    <3>2. CASE Dies
      BY <3>2, StackEmpty DEF Dies
    <3>3. CASE UNCHANGED stack
      BY <1>2, <3>3
    <3> QED BY <2>3, <3>1, <3>2, <3>3 DEF AskNew
  <2> QED BY <2>1, <2>2, <2>3 DEF Ask
<1> QED BY <1>2, <1>3, <1>4 DEF IInv, RootKept

\* make_remote_connection does not care whether the slot was sent before.
LEMMA TopReplaced ==
  ASSUME NEW st \in Seq(EntryType), st # <<>>, NEW e \in EntryType
  PROVE  /\ Len(WithLast(st, e)) = Len(st) /\ Last(WithLast(st, e)) = e
         /\ \A x : WithLast(WithLast(st, e), x) = WithLast(st, x)
<1> HIDE DEF EntryType
<1>1. Len(st) \in 1..Len(st) /\ DOMAIN st = 1..Len(st)
  OBVIOUS
<1>2. WithLast(st, e) \in Seq(EntryType) /\ Len(WithLast(st, e)) = Len(st)
  BY <1>1 DEF WithLast
<1>3. WithLast(st, e)[Len(st)] = e
  BY <1>1 DEF WithLast
<1>4. ASSUME NEW x PROVE WithLast(WithLast(st, e), x) = WithLast(st, x)
  BY <1>1, <1>2 DEF WithLast
<1> QED BY <1>2, <1>3, <1>4 DEF Last

LEMMA ConnectForgets ==
  ASSUME NEW st \in Seq(EntryType), st # <<>>, NEW f \in EntryType, NEW known,
         Connect(WithLast(st, f), known)
  PROVE  Connect(WithLast(st, [f EXCEPT !.sent = FALSE]), known)
<1> DEFINE g == [f EXCEPT !.sent = FALSE]
           a == WithLast(st, f)
           b == WithLast(st, g)
<1>1. g \in EntryType /\ g.list = f.list /\ [g EXCEPT !.sent = FALSE] = g
      /\ [g EXCEPT !.sent = TRUE] = [f EXCEPT !.sent = TRUE]
  BY DEF EntryType
<1>2. /\ Len(a) = Len(b) /\ Last(a) = f /\ Last(b) = g
      /\ \A x : WithLast(a, x) = WithLast(st, x) /\ WithLast(b, x) = WithLast(st, x)
  BY <1>1, TopReplaced
<1>3. Waiting(a) = WithLast(st, g)
  BY <1>2 DEF Waiting
<1> HIDE DEF a, b, g
<1>4. Waiting(b) = WithLast(st, g)
  BY <1>1, <1>2 DEF Waiting
<1>5. Sent(a) = Sent(b)
  BY <1>1, <1>2 DEF Sent
<1>6. Last(a).list = Last(b).list
  BY <1>1, <1>2
<1>7. \A q, kind : Spawn(a, q, kind, known) => Spawn(b, q, kind, known)
  BY <1>2, <1>3, <1>4 DEF Spawn
<1>8. Connect(a, known)
  BY DEF a
<1>9. Connect(b, known)
  BY <1>3, <1>4, <1>5, <1>6, <1>7, <1>8 DEF Connect
<1> QED BY <1>9 DEF b, g

LEMMA ComposeRepliesOK ==
  ASSUME StackOK(stack), NEW left, NEW rec, NEW known, NEW chains,
         ComposeReplies(left, rec, known, chains)
  PROVE  StackOK(stack')
<1>1. PICK left2 \in 0..Len(stack) :
        stack' = IF left2 = 0 THEN <<>>
                 ELSE IF left2 = Len(stack) THEN stack
                 ELSE Waiting(SubSeq(stack, 1, left2))
  BY DEF ComposeReplies
<1> DEFINE cut == SubSeq(stack, 1, left2)
<1>2. StackOK(cut) /\ Len(cut) = left2
  BY <1>1, StackCut
<1>3. left2 # 0 => cut # <<>>
  BY <1>2
<1> HIDE DEF cut
<1>4. left2 # 0 => StackOK(Waiting(cut))
  BY <1>2, <1>3, WaitingOK
<1> QED BY <1>1, <1>4, StackEmpty DEF cut

LEMMA BelowOK ==
  ASSUME StackOK(stack), stack # <<>>
  PROVE  /\ StackOK(Below)
         /\ Last(stack).kind = "server" =>
              Below # <<>> /\ Last(Below).list.servers # {}
<1> DEFINE n == Len(stack)
<1>1. n \in Nat /\ n # 0 /\ n \in 1..n /\ n - 1 \in 0..n
  BY DEF StackOK
<1>2. /\ StackOK(Below) /\ Len(Below) = n - 1
      /\ (n - 1 # 0 => Last(Below) = stack[n - 1])
  BY <1>1, StackCut DEF Below
<1>3. Last(stack).kind = "server" => n > 1 /\ stack[n - 1].list.servers # {}
  BY <1>1 DEF StackOK, Last
<1> HIDE DEF n
<1>4. n > 1 => n - 1 # 0
  BY <1>1
<1>5. n - 1 # 0 => Below # <<>>
  BY <1>2
<1> QED BY <1>2, <1>3, <1>4, <1>5

LEMMA ReceiveAnswerIInv ==
  ASSUME IInv, stack # <<>>, NEW rec, ReceiveAnswer(Last(stack), rec)
  PROVE  IInv'
<1>1. StackOK(stack) /\ KnownOK(servers) /\ ChainsOK(cnames) /\ RootKept
  BY DEF IInv
<1>2. servers' = servers /\ cnames' = cnames
  BY DEF ReceiveAnswer
<1> DEFINE known == With(answers, Last(stack).q, rec)
<1>3. StackOK(stack')
  <2>1. CASE stack' = <<>>
    BY <2>1, StackEmpty
  <2>2. CASE Last(stack).kind = "server" /\ ServerFound(rec)
    <3>1. /\ StackOK(Below)
          /\ Below # <<>> /\ Last(Below).list.servers # {}
      BY <1>1, <2>2, BelowOK
    <3>2. StackOK(Sent(Below))
      BY <3>1, SentOK
    <3> QED BY <2>2, <3>1, <3>2, StackEmpty DEF ServerFound, Dies
  <2>3. CASE ComposeReplies(Len(stack) - 1, rec, known, cnames)
    <3> HIDE DEF known
    <3> QED BY <1>1, <2>3, ComposeRepliesOK
  <2> QED BY <2>1, <2>2, <2>3 DEF ReceiveAnswer
<1> QED BY <1>1, <1>2, <1>3 DEF IInv, RootKept

\* dwx_handle_ns_refer: the servers that were learnt go into the cache.
LEMMA LearntOK ==
  ASSUME KnownOK(servers), RootKept, NEW list \in ServerList,
         ShortReferrals => LearntAbove(list),
         ~ list.upstream,
         servers' = IF list.zone \in DOMAIN servers /\ servers[list.zone].configured
                      THEN servers ELSE With(servers, list.zone, list)
  PROVE  KnownOK(servers') /\ RootKept'
<1>1. CASE servers' = servers
  BY <1>1 DEF RootKept
<1>2. CASE /\ servers' = With(servers, list.zone, list)
           /\ ~ (list.zone \in DOMAIN servers /\ servers[list.zone].configured)
  <2>1. /\ DOMAIN servers' = DOMAIN servers \cup {list.zone}
        /\ \A z \in DOMAIN servers' :
             servers'[z] = IF z = list.zone THEN list ELSE servers[z]
    BY <1>2 DEF With
  <2>2. KnownOK(servers')
    BY <2>1 DEF KnownOK
  <2>3. RootKept'
    BY <1>2, <2>1 DEF RootKept
  <2> QED BY <2>2, <2>3
<1> QED BY <1>1, <1>2

LEMMA ReceiveReferralIInv ==
  ASSUME IInv, stack # <<>>, Last(stack).sent, NEW p \in Packets,
         ReceiveReferral(Last(stack), Referral(Last(stack), p))
  PROVE  IInv'
<1> DEFINE e == Last(stack)
           list == Referral(e, p)
           f == [e EXCEPT !.list = list, !.referrals = @ + 1]
<1>1. StackOK(stack) /\ KnownOK(servers) /\ ChainsOK(cnames) /\ RootKept
  BY DEF IInv
<1>2. e \in EntryType /\ EntryOK(e)
  BY <1>1 DEF StackOK, Last
<1>3. e.sent
  OBVIOUS
<1>4. /\ servers' = IF list.zone \in DOMAIN servers /\ servers[list.zone].configured
                      THEN servers ELSE With(servers, list.zone, list)
      /\ Connect(WithLast(stack, f), servers')
      /\ cnames' = cnames
  BY DEF ReceiveReferral
<1> HIDE DEF e
<1>5. /\ list \in ServerList
      /\ ShortReferrals =>
           /\ IsSuffix(list.zone, e.q.name) /\ LearntAbove(list)
           /\ list.servers # {} => Len(e.list.zone) < Len(list.zone)
      /\ ~ list.upstream
  BY <1>2, ReferralOK DEF ShortReferrals
<1> HIDE DEF list
<1>6. KnownOK(servers') /\ RootKept'
  BY <1>1, <1>4, <1>5, LearntOK
<1> DEFINE g == [f EXCEPT !.sent = FALSE]
<1>7. f \in EntryType /\ g \in EntryType /\ g.kind = e.kind /\ EntryOK(g)
  <2>1. f \in EntryType
    <3>1. e.referrals + 1 \in Nat /\ list \in ServerList
      BY <1>2, <1>5 DEF EntryType
    <3> QED BY <1>2, <3>1 DEF EntryType
  <2>2. g \in EntryType
    BY <2>1 DEF EntryType
  <2>3. /\ g.list = list /\ g.referrals = e.referrals + 1
        /\ g.q = e.q /\ ~ g.sent /\ g.kind = e.kind
    BY <1>2 DEF EntryType
  <2>4. ShortReferrals => e.referrals <= Len(e.list.zone)
    BY <1>2, <1>3 DEF EntryOK
  <2>5. ShortReferrals /\ list.servers # {} => g.referrals <= Len(list.zone)
    <3>1. e.referrals \in Nat /\ Len(e.list.zone) \in Nat /\ Len(list.zone) \in Nat
      BY <1>2, <1>5 DEF EntryType, ServerList
    <3> HIDE DEF f, g
    <3> QED BY <1>5, <2>3, <2>4, <3>1
  <2> HIDE DEF f, g
  <2> QED BY <1>5, <2>1, <2>2, <2>3, <2>5 DEF EntryOK
<1>8. StackOK(stack')
  <2>1. stack \in Seq(EntryType) /\ Last(stack) = e
    BY <1>1 DEF StackOK, e
  <2> HIDE DEF f
  <2>2. Connect(WithLast(stack, g), servers')
    BY <1>4, <1>7, <2>1, ConnectForgets
  <2> HIDE DEF g
  <2>3. StackOK(WithLast(stack, g)) /\ WithLast(stack, g) # <<>>
    BY <1>1, <1>7, <2>1, StackTop
  <2> QED BY <1>6, <2>2, <2>3, ConnectOK
<1> QED BY <1>1, <1>4, <1>6, <1>8 DEF IInv

LEMMA ReceiveCnameIInv ==
  ASSUME IInv, stack # <<>>, NEW p \in Packets, NEW heap,
         AnswerType(Last(stack).q, p.an, heap) = "CNAME_REFER",
         ReceiveCname(Last(stack), Chain(Last(stack).q, p.an))
  PROVE  IInv'
<1> DEFINE e == Last(stack)
           chain == Chain(e.q, p.an)
           target == [name |-> Last(chain), type |-> e.q.type]
<1>1. StackOK(stack) /\ KnownOK(servers) /\ ChainsOK(cnames) /\ RootKept
  BY DEF IInv
<1>2. e \in EntryType
  BY <1>1 DEF StackOK, Last
<1>3. e.q \in Question /\ e.q.type \in STRING
  BY <1>2 DEF EntryType, Question
<1>4. chain \in Seq(Seq(Labels)) /\ chain # <<>>
  BY <1>3, ChainType, MessagesAssumption
<1>5. /\ cnames' = With(cnames, e.q, chain)
      /\ servers' = servers
      /\ \/ ComposeReplies(Len(stack), answers[target], answers, cnames')
         \/ Spawn(stack, target, "cname", servers)
  BY DEF ReceiveCname
<1> HIDE DEF e, chain
<1>6. target \in Question
  <2>1. Last(chain) \in Seq(Labels)
    BY <1>4 DEF Last
  <2> QED BY <1>3, <2>1 DEF Question
<1>7. ChainsOK(cnames')
  BY <1>1, <1>4, <1>5 DEF ChainsOK, With
<1>8. StackOK(stack')
  <2> HIDE DEF target
  <2>1. CASE ComposeReplies(Len(stack), answers[target], answers, cnames')
    BY <1>1, <2>1, ComposeRepliesOK
  <2>2. CASE Spawn(stack, target, "cname", servers)
    BY <1>1, <1>6, <2>2, SpawnOK
  <2> QED BY <1>5, <2>1, <2>2
<1> QED BY <1>1, <1>5, <1>7, <1>8 DEF IInv, RootKept

LEMMA ReceiveIInv ==
  ASSUME IInv, NEW p \in Packets, NEW heap \in Heap, Receive(p, heap)
  PROVE  IInv'
<1> DEFINE e == Last(stack)
           type == ReplyType(e.q, p, heap)
<1>1. stack # <<>> /\ e.sent
  BY DEF Receive
<1>2. CASE ReceiveBadIp(e)
  <2>1. StackOK(stack) /\ KnownOK(servers) /\ ChainsOK(cnames) /\ RootKept
    BY DEF IInv
  <2>2. stack' \in {<<>>, Below} /\ servers' = servers /\ cnames' = cnames
    BY <1>2 DEF ReceiveBadIp
  <2>3. StackOK(stack')
    BY <1>1, <2>1, <2>2, BelowOK, StackEmpty
  <2> QED BY <2>1, <2>2, <2>3 DEF IInv, RootKept
<1>3. CASE ReceiveAnswer(e, Answer(e.q, p, type))
  BY <1>1, <1>3, ReceiveAnswerIInv
<1>4. CASE ReceiveReferral(e, Referral(e, p))
  BY <1>1, <1>4, ReceiveReferralIInv
<1>5. CASE type = "CNAME_REFER" /\ ReceiveCname(e, Chain(e.q, p.an))
  <2>1. AnswerType(e.q, p.an, heap) = "CNAME_REFER"
    BY <1>5 DEF ReplyType, AuthorityType
  <2> QED BY <1>1, <1>5, <2>1, ReceiveCnameIInv
<1> QED BY <1>2, <1>3, <1>4, <1>5 DEF Receive

LEMMA RetryIInv ==
  ASSUME IInv, Retry
  PROVE  IInv'
<1> DEFINE e == Last(stack)
           list == IF e.list = NoServers(e.q.name) THEN Nearest(servers, e.q.name)
                   ELSE e.list
           f == [e EXCEPT !.retries = @ - 1, !.list = list]
           g == [f EXCEPT !.sent = FALSE]
<1>1. StackOK(stack) /\ KnownOK(servers) /\ ChainsOK(cnames) /\ RootKept
  BY DEF IInv
<1>2. /\ stack # <<>> /\ e.retries > 0 /\ Connect(WithLast(stack, f), servers)
      /\ servers' = servers /\ cnames' = cnames
  BY DEF Retry
<1>3. e \in EntryType /\ EntryOK(e) /\ stack \in Seq(EntryType) /\ Last(stack) = e
  BY <1>1, <1>2 DEF StackOK, Last
<1>4. e.q.name \in Seq(Labels) /\ e.list \in ServerList
  BY <1>3 DEF EntryType, Question
<1>5. e.list = NoServers(e.q.name) => e.referrals = 0
  BY <1>3 DEF EntryOK, NoServers
<1> HIDE DEF e
<1>6. /\ list \in ServerList
      /\ ShortReferrals => IsSuffix(list.zone, e.q.name)
      /\ list = e.list \/ e.referrals = 0
  <2>1. CASE e.list = NoServers(e.q.name)
    BY <1>1, <1>4, <1>5, <2>1, NearestOK
  <2>2. CASE e.list # NoServers(e.q.name)
    BY <1>3, <1>4, <2>2 DEF EntryOK
  <2> QED BY <2>1, <2>2
<1> HIDE DEF list
<1>7. f \in EntryType /\ g \in EntryType /\ g.kind = e.kind /\ EntryOK(g)
  <2>1. e.retries \in Nat /\ e.retries - 1 \in Nat
    BY <1>2, <1>3 DEF EntryType
  <2>2. f \in EntryType
    BY <1>3, <1>6, <2>1 DEF EntryType
  <2>3. g \in EntryType
    BY <2>2 DEF EntryType
  <2>4. /\ g.list = list /\ g.referrals = e.referrals
        /\ g.q = e.q /\ ~ g.sent /\ g.kind = e.kind
    BY <1>3 DEF EntryType
  <2>5. Len(list.zone) \in Nat
    BY <1>6 DEF ServerList
  <2> HIDE DEF f, g
  <2> QED BY <1>3, <1>6, <2>2, <2>3, <2>4, <2>5 DEF EntryOK
<1>8. StackOK(stack')
  <2> HIDE DEF f
  <2>1. Connect(WithLast(stack, g), servers)
    BY <1>2, <1>3, <1>7, ConnectForgets
  <2> HIDE DEF g
  <2>2. StackOK(WithLast(stack, g)) /\ WithLast(stack, g) # <<>>
    BY <1>1, <1>2, <1>3, <1>7, StackTop
  <2> QED BY <1>1, <2>1, <2>2, ConnectOK
<1> QED BY <1>1, <1>2, <1>8 DEF IInv, RootKept

LEMMA NextIInv == IInv /\ [Next]_vars => IInv'
<1> SUFFICES ASSUME IInv, [Next]_vars PROVE IInv'
  OBVIOUS
<1>1. StackOK(stack) /\ KnownOK(servers) /\ ChainsOK(cnames) /\ RootKept
  BY DEF IInv
<1>2. ASSUME NEW q \in Questions, Ask(q) PROVE IInv'
  BY <1>2, AskIInv
<1>3. ASSUME NEW p \in Packets, NEW heap \in Heap, Receive(p, heap) PROVE IInv'
  BY <1>3, ReceiveIInv
<1>4. CASE Retry
  BY <1>4, RetryIInv
<1>5. CASE GiveUp
  <2>1. stack # <<>> /\ stack' \in {<<>>, Below} /\ UNCHANGED <<cnames, servers>>
    BY <1>5 DEF GiveUp
  <2>2. StackOK(stack')
    BY <1>1, <2>1, BelowOK, StackEmpty
  <2> QED BY <1>1, <2>1, <2>2 DEF IInv, RootKept
<1>6. CASE Expire
  <2>1. CASE UNCHANGED <<cnames, servers, stack>>
    BY <1>1, <2>1 DEF IInv, RootKept
  <2>2. ASSUME NEW q \in DOMAIN cnames, cnames' = Without(cnames, q),
               UNCHANGED <<servers, stack>>
        PROVE  IInv'
    <3>1. ChainsOK(cnames')
      BY <1>1, <2>2 DEF ChainsOK, Without
    <3> QED BY <1>1, <2>2, <3>1 DEF IInv, RootKept
  <2>3. ASSUME NEW z \in DOMAIN servers, ~ servers[z].configured,
               servers' = Without(servers, z), UNCHANGED <<cnames, stack>>
        PROVE  IInv'
    <3>1. /\ DOMAIN servers' = DOMAIN servers \ {z}
          /\ \A y \in DOMAIN servers' : servers'[y] = servers[y]
      BY <2>3 DEF Without
    <3>2. KnownOK(servers')
      BY <1>1, <3>1 DEF KnownOK
    <3>3. RootKept'
      BY <1>1, <2>3, <3>1 DEF RootKept
    <3> QED BY <1>1, <2>3, <3>2, <3>3 DEF IInv
  <2> QED BY <1>6, <2>1, <2>2, <2>3 DEF Expire
<1>7. CASE UNCHANGED vars
  BY <1>1, <1>7 DEF vars, IInv, RootKept
<1> QED BY <1>2, <1>3, <1>4, <1>5, <1>6, <1>7 DEF Next

THEOREM InvariantTheorem == Spec => []IInv
BY InitIInv, NextIInv, PTL DEF Spec

-----------------------------------------------------------------------------
(***************************************************************************)
(* The properties.                                                         *)
(***************************************************************************)

\* While authority sections are short, a question is only put to servers of
\* a zone that its name is in.
THEOREM AskedOfAncestorsTheorem ==
  ASSUME ShortReferrals
  PROVE  Spec => []AskedOfAncestors
<1>1. IInv => AskedOfAncestors
  BY DEF IInv, StackOK, EntryOK, AskedOfAncestors
<1> QED BY <1>1, InvariantTheorem, PTL

\* The cache keeps servers for their zone, which is configured or below the
\* zone whose servers named them.
THEOREM ServersFromAboveTheorem ==
  ASSUME ShortReferrals, RootConfigured
  PROVE  Spec => []ServersFromAbove
<1>1. IInv => ServersFromAbove
  BY DEF IInv, KnownOK, LearntAbove, RootKept, RootConfigured, ServersFromAbove
<1> QED BY <1>1, InvariantTheorem, PTL

\* While authority sections are short, no question follows more referrals
\* than the zone it got to has labels.
THEOREM ReferralsBoundedTheorem ==
  ASSUME ShortReferrals
  PROVE  Spec => []ReferralsBounded
<1>1. IInv => ReferralsBounded
  BY DEF IInv, StackOK, EntryOK, ReferralsBounded
<1> QED BY <1>1, InvariantTheorem, PTL

=============================================================================
