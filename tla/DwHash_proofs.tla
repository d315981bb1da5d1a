---------------------------- MODULE DwHash_proofs ----------------------------
(***************************************************************************)
(* Proofs about DwHash for any number of keys, any limits, any clock and   *)
(* any cache file: the fila and the hash always agree, hash->size counts   *)
(* the records, the server entries stay, no expiry time is made up, a full *)
(* hash drops the record that was used longest ago, and the file keeps the *)
(* order of use.                                                           *)
(***************************************************************************)
EXTENDS DwHash, FilaOrder_proofs

-----------------------------------------------------------------------------
(***************************************************************************)
(* The hash and its fila.                                                  *)
(***************************************************************************)
USE DEF Stored

\* The server entries that have been added are in the hash, for good.
ServersKept ==
  \A k \in servers \ todo :
    k \in Stored /\ elements[k] = [expire |-> 0, immutable |-> 1]

HashOK ==
  /\ Stored \subseteq Key
  /\ \A k \in Stored : elements[k] \in Record
  /\ fila \in Seq(Key)
  /\ FilaMatchesHash
  /\ SizeCounts
  /\ ServersKept

LEMMA StoredFinite ==
  ASSUME HashOK PROVE IsFiniteSet(Stored) /\ size \in Nat
BY FS_Subset, FS_CardinalityType, HashAssumption DEF HashOK, SizeCounts

LEMMA SizeAdded ==
  ASSUME HashOK, NEW k, k \notin Stored PROVE
    Cardinality(Stored \union {k}) = size + 1
BY StoredFinite, FS_AddElement DEF HashOK, SizeCounts

LEMMA SizeRemoved ==
  ASSUME NEW T, IsFiniteSet(T), NEW k \in T PROVE
    Cardinality(T \ {k}) = Cardinality(T) - 1
BY FS_RemoveElement

(***************************************************************************)
(* dwh_zap, on a hash whose fila holds all of its records but immutable    *)
(* ones: what it removes is in the fila.                                   *)
(***************************************************************************)
LEMMA InFila ==
  ASSUME HashOK, NEW k \in Stored, Removable(k) PROVE k \in ToSet(fila)
BY DEF HashOK, FilaMatchesHash, Removable

LEMMA PlaceOK ==
  ASSUME HashOK, NEW k \in Key, NEW r \in Record, Removable(k),
         Place(k, r), UNCHANGED <<servers, todo>>
  PROVE  HashOK'
<1> DEFINE rest   == IF k \in Stored THEN Unlinked(fila, k) ELSE fila
           queue  == Requeued(k)
           count  == Counted(k)
           all    == With(elements, k, r)
           victim == Victim(queue)
<1>1. rest \in Seq(Key) /\ NoDuplicate(rest) /\ ToSet(rest) = ToSet(fila) \ {k}
  <2>1. CASE k \in Stored
    BY <2>1, InFila, UnlinkedOK DEF HashOK, FilaMatchesHash
  <2>2. CASE k \notin Stored
    <3>1. k \notin ToSet(fila)
      BY <2>2 DEF HashOK, FilaMatchesHash
    <3> QED BY <2>2, <3>1 DEF HashOK, FilaMatchesHash
  <2> QED BY <2>1, <2>2
<1>2. /\ queue \in Seq(Key) /\ queue # << >> /\ NoDuplicate(queue)
      /\ ToSet(queue) = ToSet(fila) \union {k}
  <2>1. queue = AtFront(rest, k)
    BY DEF Requeued
  <2> HIDE DEF rest, queue
  <2>2. k \notin ToSet(rest)
    BY <1>1
  <2>3. /\ queue \in Seq(Key) /\ queue # << >> /\ NoDuplicate(queue)
        /\ ToSet(queue) = ToSet(rest) \union {k}
    BY <1>1, <2>1, <2>2, AtFrontOK
  <2> QED BY <1>1, <2>3
<1>3. /\ DOMAIN all = Stored \union {k}
      /\ all[k] = r
      /\ \A j \in Stored : j # k => all[j] = elements[j]
  BY DEF With
<1>4. /\ IsFiniteSet(DOMAIN all) /\ count = Cardinality(DOMAIN all)
  <2>1. IsFiniteSet(DOMAIN all)
    BY <1>3, StoredFinite, FS_AddElement
  <2>2. CASE k \in Stored
    <3>1. DOMAIN all = Stored
      BY <1>3, <2>2
    <3> QED BY <2>1, <2>2, <3>1 DEF HashOK, SizeCounts, Counted
  <2>3. CASE k \notin Stored
    BY <1>3, <2>1, <2>3, SizeAdded DEF Counted
  <2> QED BY <2>2, <2>3
<1>5. \A j \in DOMAIN all : j \in Key /\ all[j] \in Record
  BY <1>3 DEF HashOK
<1>6. /\ ToSet(queue) \subseteq DOMAIN all
      /\ \A j \in DOMAIN all \ ToSet(queue) : all[j].immutable = 1
  BY <1>2, <1>3 DEF HashOK, FilaMatchesHash
<1>7. \A j \in servers \ todo :
        j \in DOMAIN all /\ all[j] = [expire |-> 0, immutable |-> 1]
  BY <1>3 DEF HashOK, ServersKept, Removable
<1>8. CASE ~Full(count)
  <2>1. fila' = queue /\ elements' = all /\ size' = count
    BY <1>8 DEF Place
  <2> HIDE DEF queue, all, count
  <2> QED BY <1>2, <1>4, <1>5, <1>6, <1>7, <2>1
          DEF HashOK, FilaMatchesHash, SizeCounts, ServersKept
<1>9. CASE Full(count)
  <2>1. /\ fila' = Unlinked(queue, victim)
        /\ elements' = IF all[victim].immutable # 1
                       THEN Without(all, victim) ELSE all
        /\ size' = IF all[victim].immutable # 1 THEN count - 1 ELSE count
    BY <1>9 DEF Place
  <2>2. /\ fila' \in Seq(Key) /\ NoDuplicate(fila')
        /\ victim \in ToSet(queue)
        /\ ToSet(fila') = ToSet(queue) \ {victim}
    <3>1. victim = Last(queue)
      BY DEF Victim
    <3> HIDE DEF queue, victim
    <3>2. victim \in ToSet(queue)
      BY <1>2, <3>1, LastIn
    <3> QED BY <1>2, <2>1, <3>2, UnlinkedOK
  <2> HIDE DEF queue, all, count, victim
  <2>3. CASE all[victim].immutable # 1
    <3>1. elements' = Without(all, victim) /\ size' = count - 1
      BY <2>1, <2>3
    <3>2. /\ DOMAIN elements' = DOMAIN all \ {victim}
          /\ \A j \in DOMAIN elements' : elements'[j] = all[j]
      BY <3>1 DEF Without
    <3>3. victim \in DOMAIN all
      BY <1>6, <2>2
    <3>4. size' = Cardinality(DOMAIN elements')
      BY <1>4, <3>1, <3>2, <3>3, SizeRemoved
    <3>5. ServersKept'
      BY <1>7, <2>3, <3>2 DEF ServersKept
    <3>6. FilaMatchesHash'
      BY <1>6, <2>2, <3>2 DEF FilaMatchesHash
    <3> QED BY <1>5, <2>2, <3>2, <3>4, <3>5, <3>6 DEF HashOK, SizeCounts
  <2>4. CASE all[victim].immutable = 1
    <3>1. elements' = all /\ size' = count
      BY <2>1, <2>4
    <3>2. FilaMatchesHash'
      BY <1>6, <2>2, <2>4, <3>1 DEF FilaMatchesHash
    <3> QED BY <1>4, <1>5, <1>7, <2>2, <3>1, <3>2
            DEF HashOK, SizeCounts, ServersKept
  <2> QED BY <2>3, <2>4
<1> QED BY <1>8, <1>9

-----------------------------------------------------------------------------
(***************************************************************************)
(* The actions.                                                            *)
(***************************************************************************)
Saved == [key : Key, expire : Nat]

ClockOK ==
  /\ max \in Nat
  /\ now \in 0..MaxTime
  /\ pc \in {"off", "reading", "configuring", "refused", "serving", "writing"}
  /\ todo \subseteq servers /\ servers \subseteq Key
  /\ at \in Nat
  /\ file \in Seq(Saved)
  /\ marked \in BOOLEAN
  /\ pc \in {"serving", "writing"} => todo = {}
  /\ pc = "reading" => at >= 1
  /\ pc = "writing" => at <= Len(fila)

\* The inductive invariant.
Inv == HashOK /\ ClockOK

LEMMA AddOK ==
  ASSUME Inv, NEW k \in Key, NEW ttl \in Ttl, Add(k, ttl) PROVE Inv'
<1> DEFINE r == [expire |-> Expiry(ttl), immutable |-> 0]
<1>1. Expiry(ttl) \in Nat
  BY HashAssumption DEF Expiry, Inv, ClockOK
<1>2. r \in Record
  BY <1>1 DEF Record
<1>3. HashOK'
  <2> HIDE DEF r
  <2>1. Place(k, r) /\ Removable(k)
    BY DEF Add, r
  <2> QED BY <1>2, <2>1, PlaceOK DEF Inv, Add
<1>4. ClockOK'
  BY DEF Inv, ClockOK, Add, disk
<1> QED BY <1>3, <1>4 DEF Inv

LEMMA FetchedOK ==
  ASSUME HashOK, NEW k \in ToSet(fila), fila' = MovedToFront(fila, k),
         UNCHANGED <<elements, size, todo, servers>>
  PROVE  HashOK'
<1> DEFINE u == Unlinked(fila, k)
<1>1. u \in Seq(Key) /\ NoDuplicate(u) /\ ToSet(u) = ToSet(fila) \ {k}
  BY UnlinkedOK DEF HashOK, FilaMatchesHash
<1>2. k \in Key /\ fila' = AtFront(u, k)
  BY DEF HashOK, FilaMatchesHash, MovedToFront
<1> HIDE DEF u
<1>3. k \notin ToSet(u)
  BY <1>1
<1>4. /\ fila' \in Seq(Key) /\ NoDuplicate(fila')
      /\ ToSet(fila') = ToSet(u) \union {k}
  BY <1>1, <1>2, <1>3, AtFrontOK
<1>5. ToSet(fila') = ToSet(fila)
  BY <1>1, <1>4
<1> QED BY <1>4, <1>5 DEF HashOK, FilaMatchesHash, SizeCounts, ServersKept

LEMMA GetOK ==
  ASSUME Inv, NEW k \in Key, NEW ignore_expire \in BOOLEAN,
         Get(k, ignore_expire)
  PROVE  Inv'
<1>1. k \in ToSet(fila)
  BY InFila DEF Inv, Get, Removable
<1>2. HashOK'
  BY <1>1, FetchedOK DEF Inv, Get
<1>3. ClockOK'
  BY DEF Inv, ClockOK, Get, disk
<1> QED BY <1>2, <1>3 DEF Inv

LEMMA RotateOK == ASSUME Inv, NEW k \in Key, Rotate(k) PROVE Inv'
<1> DEFINE r == [expire |-> elements[k].expire, immutable |-> 0]
<1>1. r \in Record
  BY DEF Inv, HashOK, Record, Rotate
<1>2. HashOK'
  <2> HIDE DEF r
  <2>1. Place(k, r) /\ Removable(k)
    BY DEF Rotate, r
  <2> QED BY <1>1, <2>1, PlaceOK DEF Inv, Rotate
<1>3. ClockOK'
  BY DEF Inv, ClockOK, Rotate, disk
<1> QED BY <1>2, <1>3 DEF Inv

LEMMA ZapOK == ASSUME Inv, NEW k \in Key, Zap(k) PROVE Inv'
<1>1. k \in ToSet(fila)
  BY InFila DEF Inv, Zap
<1>2. /\ fila' \in Seq(Key) /\ NoDuplicate(fila')
      /\ ToSet(fila') = ToSet(fila) \ {k}
  BY <1>1, UnlinkedOK DEF Inv, HashOK, FilaMatchesHash, Zap
<1>3. /\ DOMAIN elements' = Stored \ {k}
      /\ \A j \in DOMAIN elements' : elements'[j] = elements[j]
  BY DEF Zap, Without
<1>4. SizeCounts'
  <2>1. IsFiniteSet(Stored) /\ size \in Nat
    BY StoredFinite DEF Inv
  <2>2. k \in Stored
    BY DEF Zap
  <2>3. Cardinality(Stored \ {k}) = Cardinality(Stored) - 1
        /\ Cardinality(Stored \ {k}) \in Nat
    BY <2>1, <2>2, SizeRemoved, FS_RemoveElement, FS_CardinalityType
  <2>4. size = Cardinality(Stored) /\ size > 0
    BY <2>1, <2>3 DEF Inv, HashOK, SizeCounts
  <2>5. size' = size - 1
    BY <2>4 DEF Zap
  <2> QED BY <1>3, <2>3, <2>4, <2>5 DEF SizeCounts
<1>5. HashOK'
  <2>1. FilaMatchesHash'
    BY <1>2, <1>3 DEF FilaMatchesHash, Inv, HashOK
  <2>2. ServersKept'
    BY <1>3 DEF ServersKept, Inv, HashOK, Zap, Removable
  <2> QED BY <1>2, <1>3, <1>4, <2>1, <2>2 DEF Inv, HashOK
<1>6. ClockOK'
  BY DEF Inv, ClockOK, Zap, disk
<1> QED BY <1>5, <1>6 DEF Inv

LEMMA SameHash ==
  ASSUME HashOK, UNCHANGED <<elements, fila, size, todo, servers>> PROVE HashOK'
BY DEF HashOK, FilaMatchesHash, SizeCounts, ServersKept

LEMMA EmptiedOK == ASSUME Emptied PROVE HashOK'
<1>1. DOMAIN elements' = {} /\ fila' = << >> /\ size' = 0 /\ servers' = {}
  BY DEF Emptied
<1> QED BY <1>1, FS_EmptySet
        DEF HashOK, FilaMatchesHash, SizeCounts, ServersKept, NoDuplicate, ToSet

LEMMA ConfigureOK == ASSUME Inv, NEW k \in Key, Configure(k) PROVE Inv'
<1>1. CASE k \in Stored
  BY <1>1, EmptiedOK DEF Configure, Emptied, Inv, ClockOK, disk
<1>2. CASE k \notin Stored
  <2> DEFINE r == [expire |-> 0, immutable |-> 1]
  <2>1. /\ elements' = With(elements, k, r) /\ size' = size + 1
        /\ todo' = todo \ {k} /\ UNCHANGED <<fila, max, servers, at, disk, now>>
        /\ pc' = IF todo' = {} THEN "serving" ELSE pc
    BY <1>2 DEF Configure
  <2>2. r \in Record
    BY DEF Record
  <2>3. /\ DOMAIN elements' = Stored \union {k}
        /\ elements'[k] = r
        /\ \A j \in Stored : elements'[j] = elements[j]
    BY <1>2, <2>1 DEF With
  <2>4. size' = Cardinality(DOMAIN elements')
    BY <1>2, <2>1, <2>3, SizeAdded DEF Inv
  <2>5. FilaMatchesHash'
    BY <2>1, <2>3 DEF FilaMatchesHash, Inv, HashOK
  <2>6. ServersKept'
    BY <2>1, <2>3 DEF ServersKept, Inv, HashOK
  <2>7. HashOK'
    <3> HIDE DEF r
    <3> QED BY <2>1, <2>2, <2>3, <2>4, <2>5, <2>6 DEF HashOK, Inv, SizeCounts
  <2>8. ClockOK'
    BY <2>1 DEF Inv, ClockOK, Configure, disk
  <2> QED BY <2>7, <2>8 DEF Inv
<1> QED BY <1>1, <1>2

LEMMA SetTimeOK == ASSUME Inv, SetTime PROVE Inv'
BY SameHash DEF SetTime, Inv, ClockOK, memory, disk

LEMMA StartOK == ASSUME Inv, Start PROVE Inv'
<1>1. HashOK'
  BY DEF Start, Inv, HashOK, FilaMatchesHash, SizeCounts, ServersKept
<1>2. ClockOK'
  BY HashAssumption DEF Start, Inv, ClockOK, disk
<1> QED BY <1>1, <1>2 DEF Inv

LEMMA ReadElementOK == ASSUME Inv, ReadElement PROVE Inv'
<1> DEFINE e == file[at]
<1>1. e.key \in Key /\ e.expire \in Nat
  <2>1. file \in Seq(Saved) /\ at \in 1..Len(file)
    BY DEF ReadElement, Legible, Inv, ClockOK
  <2>2. file[at] \in Saved
    BY <2>1
  <2> QED BY <2>2 DEF Saved
<1>2. PICK byte \in HeapByte :
        Place(e.key, [expire |-> e.expire, immutable |-> byte])
  BY DEF ReadElement
<1>3. [expire |-> e.expire, immutable |-> byte] \in Record
  BY <1>1 DEF Record
<1>4. HashOK'
  BY <1>1, <1>2, <1>3, PlaceOK DEF ReadElement, Inv
<1>5. ClockOK'
  BY DEF ReadElement, Inv, ClockOK, disk
<1> QED BY <1>4, <1>5 DEF Inv

LEMMA EndReadOK == ASSUME Inv, EndRead PROVE Inv'
BY SameHash DEF EndRead, Inv, ClockOK, memory, disk

LEMMA DeleteFileOK == ASSUME Inv, DeleteFile PROVE Inv'
<1>1. HashOK'
  BY SameHash DEF DeleteFile, Inv, memory
<1>2. << >> \in Seq(Saved)
  OBVIOUS
<1>3. ClockOK'
  BY <1>2 DEF DeleteFile, Inv, ClockOK, memory
<1> QED BY <1>1, <1>3 DEF Inv

LEMMA BeginWriteOK == ASSUME Inv, BeginWrite PROVE Inv'
<1>1. Len(fila) \in Nat
  BY DEF Inv, HashOK
<1> QED BY <1>1, SameHash DEF BeginWrite, Inv, ClockOK

LEMMA WriteElementOK == ASSUME Inv, WriteElement PROVE Inv'
<1> DEFINE k == fila[at]
<1>1. Len(fila) \in Nat /\ at \in 1..Len(fila)
  BY DEF WriteElement, Inv, ClockOK, HashOK
<1>2. k \in Stored
  BY <1>1 DEF Inv, HashOK, FilaMatchesHash, ToSet
<1>3. k \in Key /\ elements[k].expire \in Nat
  BY <1>2 DEF Inv, HashOK, Record
<1>4. [key |-> k, expire |-> elements[k].expire] \in Saved
  BY <1>3 DEF Saved
<1>5. file' \in Seq(Saved)
  <2> DEFINE e == [key |-> k, expire |-> elements[k].expire]
  <2>1. file \in Seq(Saved) /\ e \in Saved
    BY <1>4 DEF Inv, ClockOK
  <2>2. file' = file \/ file' = Append(file, e)
    BY DEF WriteElement
  <2> HIDE DEF e
  <2> QED BY <2>1, <2>2
<1> QED BY <1>1, <1>5, SameHash DEF WriteElement, Inv, ClockOK

LEMMA EndWriteOK == ASSUME Inv, EndWrite PROVE Inv'
BY SameHash DEF EndWrite, Inv, ClockOK, memory, disk

LEMMA ExitAfterWriteOK == ASSUME Inv, ExitAfterWrite PROVE Inv'
BY EmptiedOK DEF ExitAfterWrite, Emptied, Inv, ClockOK, disk

LEMMA CrashOK == ASSUME Inv, Crash PROVE Inv'
BY EmptiedOK DEF Crash, Emptied, Inv, ClockOK

LEMMA InitOK == ASSUME Init PROVE Inv
<1>1. DOMAIN elements = {}
  BY DEF Init
<1>2. HashOK
  BY <1>1, FS_EmptySet
     DEF Init, HashOK, FilaMatchesHash, SizeCounts, ServersKept, NoDuplicate,
         ToSet
<1>3. << >> \in Seq(Saved)
  OBVIOUS
<1>4. ClockOK
  <2>1. max \in Nat /\ now \in 0..MaxTime /\ at \in Nat
    BY HashAssumption DEF Init
  <2>2. todo \subseteq servers /\ servers \subseteq Key /\ pc = "off"
    BY DEF Init
  <2>3. file \in Seq(Saved) /\ marked \in BOOLEAN
    BY <1>3 DEF Init
  <2> QED BY <2>1, <2>2, <2>3 DEF ClockOK
<1> QED BY <1>2, <1>4 DEF Inv

LEMMA NextOK == ASSUME Inv, [Next]_vars PROVE Inv'
<1>1. ASSUME NEW k \in Key,
             \/ \E ttl \in Ttl : Add(k, ttl)
             \/ \E ignore_expire \in BOOLEAN : Get(k, ignore_expire)
             \/ Rotate(k) \/ Zap(k) \/ Configure(k)
      PROVE  Inv'
  BY <1>1, AddOK, GetOK, RotateOK, ZapOK, ConfigureOK
<1>2. CASE UNCHANGED vars
  BY <1>2, SameHash DEF vars, memory, disk, Inv, ClockOK
<1> QED BY <1>1, <1>2, SetTimeOK, StartOK, ReadElementOK, EndReadOK,
           DeleteFileOK, BeginWriteOK, WriteElementOK, EndWriteOK,
           ExitAfterWriteOK, CrashOK DEF Next

(***************************************************************************)
(* dwh_hsck: whatever the keys, the limits, the clock, the crashes and the *)
(* cache file, the fila and the hash hold the same records but immutable   *)
(* ones, and hash->size counts them.  What dwh_zap refuses to remove is    *)
(* what makes it so: a record that is not in the fila is never freed.      *)
(***************************************************************************)
THEOREM HashInvariant == Spec => [](TypeOK /\ FilaMatchesHash /\ SizeCounts)
<1>1. Inv => TypeOK /\ FilaMatchesHash /\ SizeCounts
  BY StoredFinite DEF Inv, HashOK, ClockOK, TypeOK, Saved
<1> QED BY <1>1, InitOK, NextOK, PTL DEF Spec

(***************************************************************************)
(* process_root_upstream_servers and dwh_zap: once Deadwood serves, every  *)
(* server entry of its dwood3rc stays in the cache and never expires,      *)
(* however full the hash and whatever the cache file brought back.         *)
(***************************************************************************)
THEOREM ServersInvariant == Spec => []ServersStay
<1>1. Inv => ServersStay
  BY DEF Inv, HashOK, ClockOK, ServersKept, ServersStay
<1> QED BY <1>1, InitOK, NextOK, PTL DEF Spec

-----------------------------------------------------------------------------
(***************************************************************************)
(* What a step may do to the records and to the order of their use.        *)
(***************************************************************************)
LEMMA PlaceValues ==
  ASSUME NEW k, NEW r, Place(k, r), NEW j \in DOMAIN elements'
  PROVE  \/ j = k /\ elements'[j] = r
         \/ j \in Stored /\ elements'[j] = elements[j]
<1> DEFINE all    == With(elements, k, r)
           victim == Victim(Requeued(k))
<1>1. /\ DOMAIN all = Stored \union {k}
      /\ \A i \in DOMAIN all : all[i] = IF i = k THEN r ELSE elements[i]
  BY DEF With
<1>2. elements' = all \/ elements' = Without(all, victim)
  BY DEF Place
<1> HIDE DEF all, victim
<1>3. j \in DOMAIN all /\ elements'[j] = all[j]
  BY <1>2 DEF Without
<1> QED BY <1>1, <1>3

\* The two parts of NothingInvented, as predicates of a step.
ExpiryKnown(k) ==
  LET e == elements'[k].expire
  IN  \/ k \in Stored /\ e = elements[k].expire
      \/ pc = "serving" /\ e \in (now + MinTtl)..(now + MaxTtl)
      \/ pc = "reading" /\ [key |-> k, expire |-> e] \in ToSet(file)
      \/ pc = "configuring" /\ k \in servers /\ e = 0

FileCopied ==
  \A r \in ToSet(file') \ ToSet(file) :
    r.key \in Stored /\ r.expire = elements[r.key].expire

HashKnown == \A k \in DOMAIN elements' : ExpiryKnown(k)

LEMMA AddKnown == ASSUME Inv, NEW k \in Key, NEW ttl \in Ttl, Add(k, ttl) PROVE HashKnown
<1> DEFINE r == [expire |-> Expiry(ttl), immutable |-> 0]
<1>1. Expiry(ttl) \in (now + MinTtl)..(now + MaxTtl)
  BY HashAssumption DEF Expiry, Inv, ClockOK
<1>2. pc = "serving" /\ Place(k, r)
  BY DEF Add
<1>3. r.expire = Expiry(ttl)
  OBVIOUS
<1> HIDE DEF r
<1> QED BY <1>1, <1>2, <1>3, PlaceValues DEF HashKnown, ExpiryKnown

LEMMA RotateKnown == ASSUME Inv, NEW k \in Key, Rotate(k) PROVE HashKnown
<1> DEFINE r == [expire |-> elements[k].expire, immutable |-> 0]
<1>1. k \in Stored /\ Place(k, r) /\ r.expire = elements[k].expire
  BY DEF Rotate
<1> HIDE DEF r
<1> QED BY <1>1, PlaceValues DEF HashKnown, ExpiryKnown

LEMMA ReadElementKnown == ASSUME Inv, ReadElement PROVE HashKnown
<1> DEFINE e == file[at]
<1>1. e \in Saved /\ e \in ToSet(file)
  <2>1. file \in Seq(Saved) /\ at \in 1..Len(file)
    BY DEF ReadElement, Legible, Inv, ClockOK
  <2> QED BY <2>1 DEF ToSet
<1>2. [key |-> e.key, expire |-> e.expire] \in ToSet(file)
  BY <1>1 DEF Saved
<1>3. PICK byte \in HeapByte :
        Place(e.key, [expire |-> e.expire, immutable |-> byte])
  BY DEF ReadElement
<1> DEFINE r == [expire |-> e.expire, immutable |-> byte]
<1>4. Place(e.key, r) /\ r.expire = e.expire /\ pc = "reading"
  BY <1>3 DEF ReadElement
<1> HIDE DEF e, r
<1> QED BY <1>2, <1>4, PlaceValues DEF HashKnown, ExpiryKnown

LEMMA ConfigureKnown == ASSUME Inv, NEW k \in Key, Configure(k) PROVE HashKnown
<1>1. CASE k \in Stored
  BY <1>1 DEF Configure, Emptied, HashKnown
<1>2. CASE k \notin Stored
  <2> DEFINE r == [expire |-> 0, immutable |-> 1]
  <2>1. elements' = With(elements, k, r) /\ pc = "configuring" /\ k \in todo
    BY <1>2 DEF Configure
  <2>2. \A j \in DOMAIN elements' :
          \/ j = k /\ elements'[j].expire = 0
          \/ j \in Stored /\ elements'[j] = elements[j]
    BY <2>1 DEF With
  <2>3. k \in servers
    BY <2>1 DEF Inv, ClockOK
  <2> QED BY <2>1, <2>2, <2>3 DEF HashKnown, ExpiryKnown
<1> QED BY <1>1, <1>2

\* A step that keeps the records it keeps as they are.
LEMMA SameKnown ==
  ASSUME \A k \in DOMAIN elements' : k \in Stored /\ elements'[k] = elements[k]
  PROVE  HashKnown
BY DEF HashKnown, ExpiryKnown

LEMMA WriteElementCopied == ASSUME Inv, WriteElement PROVE FileCopied
<1> DEFINE k == fila[at]
           e == [key |-> k, expire |-> elements[k].expire]
<1>1. at \in 1..Len(fila)
  BY DEF WriteElement, Inv, ClockOK, HashOK
<1>2. k \in Stored
  BY <1>1 DEF Inv, HashOK, FilaMatchesHash, ToSet
<1>3. file' = file \/ file' = Append(file, e)
  BY DEF WriteElement
<1>4. e \in Saved /\ file \in Seq(Saved)
  BY <1>2 DEF Inv, HashOK, ClockOK, Record, Saved
<1> HIDE DEF e
<1>5. \A r \in ToSet(file') : r = e \/ r \in ToSet(file)
  BY <1>3, <1>4 DEF ToSet
<1> QED BY <1>2, <1>5 DEF FileCopied, e

LEMMA NothingInventedStep == ASSUME Inv, [Next]_vars PROVE HashKnown /\ FileCopied
<1>1. ASSUME NEW k \in Key, NEW ttl \in Ttl, Add(k, ttl) PROVE HashKnown /\ FileCopied
  BY <1>1, AddKnown DEF Add, disk, FileCopied
<1>2. ASSUME NEW k \in Key,
             \/ \E ignore_expire \in BOOLEAN : Get(k, ignore_expire)
             \/ Zap(k)
      PROVE  HashKnown /\ FileCopied
  BY <1>2, SameKnown DEF Get, Zap, Without, disk, FileCopied
<1>3. ASSUME NEW k \in Key, Rotate(k) PROVE HashKnown /\ FileCopied
  BY <1>3, RotateKnown DEF Rotate, disk, FileCopied
<1>4. ASSUME NEW k \in Key, Configure(k) PROVE HashKnown /\ FileCopied
  BY <1>4, ConfigureKnown DEF Configure, disk, FileCopied
<1>5. CASE ReadElement
  BY <1>5, ReadElementKnown DEF ReadElement, disk, FileCopied
<1>6. CASE WriteElement
  BY <1>6, SameKnown, WriteElementCopied DEF WriteElement
<1>7. CASE BeginWrite \/ DeleteFile
  BY <1>7, SameKnown DEF BeginWrite, DeleteFile, memory, FileCopied, ToSet
<1>8. CASE SetTime \/ Start \/ EndRead \/ EndWrite \/ UNCHANGED vars
  BY <1>8, SameKnown DEF SetTime, Start, EndRead, EndWrite, vars, memory, disk, FileCopied
<1>9. CASE ExitAfterWrite \/ Crash
  BY <1>9 DEF ExitAfterWrite, Crash, Emptied, disk, HashKnown, FileCopied
<1> QED BY <1>1, <1>2, <1>3, <1>4, <1>5, <1>6, <1>7, <1>8, <1>9 DEF Next

(***************************************************************************)
(* dwh_init_element, dwh_add, dwh_write_hash and dwh_read_hash: whatever   *)
(* the keys, the limits, the clock and the crashes, no step makes up an    *)
(* expiry time, in memory or in the file.                                  *)
(***************************************************************************)
THEOREM NothingInventedTheorem == Spec => NothingInvented
<1>1. ASSUME Inv, [Next]_vars
      PROVE  HashKnown /\ FileCopied
  BY <1>1, NothingInventedStep
<1>2. HashKnown /\ FileCopied =>
        /\ \A k \in DOMAIN elements' :
             LET e == elements'[k].expire
             IN  \/ k \in Stored /\ e = elements[k].expire
                 \/ pc = "serving" /\ e \in (now + MinTtl)..(now + MaxTtl)
                 \/ pc = "reading" /\ [key |-> k, expire |-> e] \in ToSet(file)
                 \/ pc = "configuring" /\ k \in servers /\ e = 0
        /\ \A r \in ToSet(file') \ ToSet(file) :
             r.key \in Stored /\ r.expire = elements[r.key].expire
  BY DEF HashKnown, ExpiryKnown, FileCopied
<1> QED BY <1>1, <1>2, InitOK, NextOK, PTL DEF Spec, NothingInvented

\* What DropsOnlyTheOldest says of a step that makes k disappear.
OldestDropped(k) ==
  /\ size + 1 >= max
  /\ \A j \in ToSet(fila') \ {Head(fila')} : Ahead(j, k)

LEMMA PlaceDrops ==
  ASSUME Inv, NEW k \in Key, NEW r, Place(k, r), Removable(k),
         NEW v \in Stored \ DOMAIN elements'
  PROVE  OldestDropped(v)
<1> DEFINE rest   == IF k \in Stored THEN Unlinked(fila, k) ELSE fila
           queue  == Requeued(k)
           all    == With(elements, k, r)
           victim == Victim(queue)
<1>1. v \in DOMAIN all
  BY DEF With
<1>2. Full(Counted(k)) /\ fila' = Unlinked(queue, victim) /\ v = victim
  <2>1. CASE Full(Counted(k))
    <3>1. /\ fila' = Unlinked(queue, victim)
          /\ elements' = all \/ elements' = Without(all, victim)
      BY <2>1 DEF Place
    <3> HIDE DEF all, queue, victim
    <3> QED BY <1>1, <2>1, <3>1 DEF Without
  <2>2. CASE ~Full(Counted(k))
    <3>1. elements' = all
      BY <2>2 DEF Place
    <3> HIDE DEF all
    <3> QED BY <1>1, <3>1
  <2> QED BY <2>1, <2>2
<1>3. size + 1 >= max
  <2>1. size \in Nat /\ max \in Nat
    BY StoredFinite DEF Inv, ClockOK
  <2> QED BY <1>2, <2>1 DEF Full, Counted
<1>4. /\ rest \in Seq(Key) /\ NoDuplicate(rest)
      /\ ToSet(rest) = ToSet(fila) \ {k}
  <2>1. CASE k \in Stored
    BY <2>1, InFila, UnlinkedOK DEF Inv, HashOK, FilaMatchesHash
  <2>2. CASE k \notin Stored
    BY <2>2 DEF Inv, HashOK, FilaMatchesHash
  <2> QED BY <2>1, <2>2
<1>5. \A i, j \in 1..Len(rest) : i < j => Ahead(rest[i], rest[j])
  <2>1. CASE k \in Stored
    <3>1. rest = Unlinked(fila, k) /\ k \in ToSet(fila) /\ fila \in Seq(Key)
      BY <2>1, InFila DEF Inv, HashOK
    <3> HIDE DEF rest
    <3> QED BY <3>1, UnlinkedKeepsOrder DEF Ahead
  <2>2. CASE k \notin Stored
    BY <2>2 DEF Ahead
  <2> QED BY <2>1, <2>2
<1>6. queue = AtFront(rest, k)
  BY DEF Requeued
<1>7. queue # << >> /\ queue \in Seq(Key) /\ NoDuplicate(queue)
  <2> HIDE DEF rest, queue
  <2> QED BY <1>4, <1>6, AtFrontOK
<1>8. /\ Len(queue) = Len(rest) + 1
      /\ \A i \in 2..Len(queue) : queue[i] = rest[i - 1]
  <2> HIDE DEF rest, queue
  <2> QED BY <1>4, <1>6 DEF AtFront
<1>9. victim = Last(queue)
  BY DEF Victim
<1> HIDE DEF rest, queue, victim
<1>10. Len(fila') = Len(rest) /\ \A i \in 1..Len(rest) : fila'[i] = queue[i]
  <2>1. Len(rest) \in Nat /\ Len(queue) - 1 = Len(rest)
    BY <1>4, <1>8
  <2>2. fila' = Unlinked(queue, Last(queue))
    BY <1>2, <1>9
  <2>3. /\ Len(Unlinked(queue, Last(queue))) = Len(queue) - 1
        /\ \A i \in 1..(Len(queue) - 1) :
             Unlinked(queue, Last(queue))[i] = queue[i]
    BY <1>7, UnlinkedLast
  <2> QED BY <2>1, <2>2, <2>3
<1>11. ASSUME NEW j \in ToSet(fila') \ {Head(fila')} PROVE Ahead(j, v)
  <2>1. PICK i \in 1..Len(rest) : j = fila'[i]
    <3>1. PICK i \in 1..Len(fila') : fila'[i] = j
      BY <1>11 DEF ToSet
    <3> QED BY <1>10, <3>1
  <2>2. i # 1
    <3>1. Head(fila') = fila'[1]
      OBVIOUS
    <3> QED BY <1>11, <2>1, <3>1
  <2>3. Len(rest) \in Nat
    BY <1>4
  <2>4. j = rest[i - 1] /\ i - 1 \in 1..Len(rest) /\ i - 1 < Len(rest)
    BY <1>8, <1>10, <2>1, <2>2, <2>3
  <2>5. v = rest[Len(rest)] /\ Len(rest) \in 1..Len(rest)
    <3>1. v = queue[Len(queue)]
      BY <1>2, <1>9 DEF Last
    <3> QED BY <1>8, <2>1, <2>2, <2>3, <3>1
  <2> QED BY <1>5, <2>4, <2>5
<1> QED BY <1>3, <1>11 DEF OldestDropped

LEMMA DropsOnlyTheOldestStep ==
  ASSUME Inv, [Next]_vars, pc' = pc, NEW v \in Stored \ DOMAIN elements'
  PROVE  Zap(v) \/ OldestDropped(v)
<1>1. ASSUME NEW k \in Key, NEW ttl \in Ttl, Add(k, ttl) PROVE OldestDropped(v)
  BY <1>1, PlaceDrops DEF Add
<1>2. ASSUME NEW k \in Key, Rotate(k) PROVE OldestDropped(v)
  BY <1>2, PlaceDrops DEF Rotate
<1>3. CASE ReadElement
  <2>1. file[at].key \in Key
    <3>1. file \in Seq(Saved) /\ at \in 1..Len(file)
      BY <1>3 DEF ReadElement, Legible, Inv, ClockOK
    <3>2. file[at] \in Saved
      BY <3>1
    <3> QED BY <3>2 DEF Saved
  <2>2. PICK byte \in HeapByte :
          Place(file[at].key, [expire |-> file[at].expire, immutable |-> byte])
    BY <1>3 DEF ReadElement
  <2> DEFINE r == [expire |-> file[at].expire, immutable |-> byte]
  <2>3. Place(file[at].key, r) /\ Removable(file[at].key)
    BY <1>3, <2>2 DEF ReadElement
  <2> HIDE DEF r
  <2> QED BY <2>1, <2>3, PlaceDrops
<1>4. ASSUME NEW k \in Key, Zap(k) PROVE Zap(v)
  BY <1>4 DEF Zap, Without
<1>5. ASSUME NEW k \in Key, Configure(k) PROVE FALSE
  <2>1. CASE k \in Stored
    BY <1>5, <2>1 DEF Configure
  <2>2. CASE k \notin Stored
    BY <1>5, <2>2 DEF Configure, With
  <2> QED BY <2>1, <2>2
<1>6. CASE ExitAfterWrite \/ Crash
  BY <1>6 DEF ExitAfterWrite, Crash
<1>7. ASSUME NEW k \in Key, NEW ignore_expire \in BOOLEAN, Get(k, ignore_expire)
      PROVE  FALSE
  BY <1>7 DEF Get
<1>8. CASE \/ SetTime \/ Start \/ EndRead \/ DeleteFile \/ BeginWrite
           \/ WriteElement \/ EndWrite \/ UNCHANGED vars
  BY <1>8 DEF SetTime, Start, EndRead, DeleteFile, BeginWrite, WriteElement,
              EndWrite, vars, memory
<1> QED BY <1>1, <1>2, <1>3, <1>4, <1>5, <1>6, <1>7, <1>8 DEF Next

(***************************************************************************)
(* dwh_place_new: whatever the keys, the limits and the cache file, what   *)
(* makes room in a full hash is the record that was used longest ago; and  *)
(* nothing else than a full hash and dwh_zap makes a record disappear.     *)
(***************************************************************************)
THEOREM DropsOnlyTheOldestTheorem == Spec => DropsOnlyTheOldest
<1>1. ASSUME Inv, [Next]_vars
      PROVE  pc' = pc =>
               \A k \in Stored \ DOMAIN elements' : Zap(k) \/ OldestDropped(k)
  BY <1>1, DropsOnlyTheOldestStep
<1>2. (pc' = pc =>
         \A k \in Stored \ DOMAIN elements' : Zap(k) \/ OldestDropped(k))
      => (pc' = pc => \A k \in Stored \ DOMAIN elements' :
            \/ Zap(k)
            \/ /\ size + 1 >= max
               /\ \A j \in ToSet(fila') \ {Head(fila')} : Ahead(j, k))
  BY DEF OldestDropped
<1> QED BY <1>1, <1>2, InitOK, NextOK, PTL DEF Spec, DropsOnlyTheOldest
-----------------------------------------------------------------------------
(***************************************************************************)
(* The order of use, through the file.                                     *)
(***************************************************************************)
\* The maximum of a process that starts with a cache file.
FileMax == IF CacheSize <= LeastCacheSize THEN StandardCacheSize ELSE CacheSize

\* No record of the fila is one that dwh_put_hash_element leaves out or
\* dwh_get_hash_element rejects, and there are fewer than the maximum.
FilaOK ==
  /\ \A k \in ToSet(fila) : elements[k].expire >= 2
  /\ Len(fila) <= size
  /\ fila # << >> => Len(fila) < max

\* What is in the file can be read back in full, by a process that has the
\* maximum FileMax.
FileOK ==
  /\ max <= FileMax
  /\ Len(file) < FileMax
  /\ \A i \in 1..Len(file) : file[i].expire >= 2
  /\ \A i, j \in 1..Len(file) : file[i].key = file[j].key => i = j

\* The loop of dwh_write_hash has the fila from its end to at + 1 in the file.
WritingOK ==
  pc = "writing" =>
    /\ Len(file) + at = Len(fila)
    /\ \A i \in 1..Len(file) : file[i].key = fila[Len(fila) + 1 - i]

\* The loop of dwh_read_hash has nothing but the file's first at - 1 records.
ReadingOK ==
  pc = "reading" =>
    /\ max = FileMax
    /\ at <= Len(file) + 1
    /\ Len(fila) = at - 1 /\ size = at - 1
    /\ Stored \subseteq ToSet(fila)
    /\ \A i \in 1..(at - 1) : fila[i] = file[at - i].key

OffOK == pc \in {"off", "refused"} => Stored = {} /\ fila = << >> /\ size = 0

OrderInv == Inv /\ FilaOK /\ FileOK /\ WritingOK /\ ReadingOK /\ OffOK

LEMMA FileMaxOK ==
  FileMax \in Nat /\ CacheSize <= FileMax /\ FileMax >= 2
BY HashAssumption DEF FileMax

\* The fila and the count before a full hash gives up its victim.
LEMMA RequeuedOK ==
  ASSUME Inv, FilaOK, NEW k \in Key, Removable(k)
  PROVE  /\ Requeued(k) \in Seq(Key) /\ NoDuplicate(Requeued(k))
         /\ Requeued(k) # << >>
         /\ ToSet(Requeued(k)) = ToSet(fila) \union {k}
         /\ Len(Requeued(k)) = Len(fila) + (IF k \in Stored THEN 0 ELSE 1)
         /\ Len(Requeued(k)) <= Counted(k)
<1> DEFINE rest == IF k \in Stored THEN Unlinked(fila, k) ELSE fila
<1>1. size \in Nat /\ Len(fila) \in Nat /\ Len(fila) <= size
  BY StoredFinite DEF Inv, HashOK, FilaOK
<1>2. /\ rest \in Seq(Key) /\ NoDuplicate(rest)
      /\ ToSet(rest) = ToSet(fila) \ {k}
      /\ Len(rest) = IF k \in Stored THEN Len(fila) - 1 ELSE Len(fila)
  <2>1. CASE k \in Stored
    <3>1. k \in ToSet(fila) /\ fila \in Seq(Key) /\ NoDuplicate(fila)
      BY <2>1, InFila DEF Inv, HashOK, FilaMatchesHash
    <3> QED BY <2>1, <3>1, UnlinkedOK, UnlinkedLen
  <2>2. CASE k \notin Stored
    BY <2>2 DEF Inv, HashOK, FilaMatchesHash
  <2> QED BY <2>1, <2>2
<1>3. Requeued(k) = AtFront(rest, k)
  BY DEF Requeued
<1> HIDE DEF rest
<1>4. Len(AtFront(rest, k)) = Len(rest) + 1
  BY <1>2 DEF AtFront
<1>5. /\ AtFront(rest, k) \in Seq(Key) /\ AtFront(rest, k) # << >>
      /\ NoDuplicate(AtFront(rest, k))
      /\ ToSet(AtFront(rest, k)) = ToSet(rest) \union {k}
  BY <1>2, AtFrontOK
<1>6. ToSet(rest) \union {k} = ToSet(fila) \union {k}
  BY <1>2
<1>7. Len(rest) + 1 = Len(fila) + (IF k \in Stored THEN 0 ELSE 1)
  BY <1>1, <1>2
<1>8. Len(rest) + 1 <= Counted(k)
  BY <1>1, <1>7 DEF Counted
<1> QED BY <1>3, <1>4, <1>5, <1>6, <1>7, <1>8

LEMMA PlaceFila ==
  ASSUME Inv, FilaOK, NEW k \in Key, NEW r \in Record, Removable(k), Place(k, r),
         r.expire >= 2, max' = max
  PROVE  FilaOK'
<1> DEFINE queue  == Requeued(k)
           count  == Counted(k)
           all    == With(elements, k, r)
           victim == Victim(queue)
<1>1. /\ queue \in Seq(Key) /\ NoDuplicate(queue) /\ queue # << >>
      /\ ToSet(queue) = ToSet(fila) \union {k}
      /\ Len(queue) = Len(fila) + (IF k \in Stored THEN 0 ELSE 1)
      /\ Len(queue) <= count
  BY RequeuedOK
<1>2. /\ size \in Nat /\ max \in Nat /\ count \in Nat /\ Len(fila) \in Nat
      /\ Len(queue) \in Nat \ {0}
  <2>1. size \in Nat /\ max \in Nat /\ fila \in Seq(Key)
    BY StoredFinite DEF Inv, HashOK, ClockOK
  <2>2. count \in Nat
    BY <2>1 DEF Counted
  <2> HIDE DEF queue, count
  <2> QED BY <1>1, <2>1, <2>2
<1>3. \A j \in ToSet(queue) : all[j].expire >= 2
  <2>1. /\ DOMAIN all = Stored \union {k} /\ all[k] = r
        /\ \A j \in Stored : j # k => all[j] = elements[j]
    BY DEF With
  <2>2. ToSet(fila) \subseteq Stored
    BY DEF Inv, HashOK, FilaMatchesHash
  <2> HIDE DEF queue, all
  <2> QED BY <1>1, <2>1, <2>2 DEF FilaOK
<1>4. CASE ~Full(count)
  <2>1. fila' = queue /\ elements' = all /\ size' = count
    BY <1>4 DEF Place
  <2>2. count < max
    BY <1>2, <1>4 DEF Full
  <2> HIDE DEF queue, all, count
  <2> QED BY <1>1, <1>2, <1>3, <2>1, <2>2 DEF FilaOK
<1>5. CASE Full(count)
  <2>1. /\ fila' = Unlinked(queue, victim)
        /\ \/ elements' = all /\ size' = count
           \/ elements' = Without(all, victim) /\ size' = count - 1
    BY <1>5 DEF Place
  <2>2. victim = Last(queue)
    BY DEF Victim
  <2>3. /\ Len(fila') = Len(queue) - 1
        /\ ToSet(fila') = ToSet(queue) \ {victim}
    <3> HIDE DEF queue, victim
    <3>1. victim \in ToSet(queue)
      BY <1>1, <2>2, LastIn
    <3> QED BY <1>1, <2>1, <3>1, UnlinkedOK, UnlinkedLen
  <2>4. \A j \in ToSet(fila') : elements'[j].expire >= 2
    <3>1. ToSet(queue) \subseteq DOMAIN all
      <4>1. DOMAIN all = Stored \union {k} /\ ToSet(fila) \subseteq Stored
        BY DEF With, Inv, HashOK, FilaMatchesHash
      <4> HIDE DEF queue, all
      <4> QED BY <1>1, <4>1
    <3> HIDE DEF queue, all, victim
    <3> QED BY <1>3, <2>1, <2>3, <3>1 DEF Without
  <2>5. Len(fila') <= size'
    <3> HIDE DEF queue, all, victim, count
    <3> QED BY <1>1, <1>2, <2>1, <2>3
  <2>6. fila' # << >> => Len(fila') < max'
    <3> HIDE DEF queue, all, victim, count
    <3>1. Len(fila') <= Len(fila)
      BY <1>1, <1>2, <2>3
    <3>2. fila = << >> => fila' = << >>
      <4> SUFFICES ASSUME fila = << >> PROVE fila' = << >>
        OBVIOUS
      <4>1. Len(fila') = 0
        BY <1>1, <1>2, <2>3
      <4>2. fila' \in Seq(Key)
        BY <1>1, <2>1, <2>2, LastIn, UnlinkedOK
      <4> QED BY <4>1, <4>2
    <3> QED BY <1>2, <3>1, <3>2 DEF FilaOK
  <2> QED BY <2>4, <2>5, <2>6 DEF FilaOK
<1> QED BY <1>4, <1>5

\* A step of a process that serves, on the hash only.
LEMMA ServingOrder ==
  ASSUME OrderInv, Inv', FilaOK', pc = "serving", pc' = pc,
         UNCHANGED <<max, file>>
  PROVE  OrderInv'
BY DEF OrderInv, FileOK, WritingOK, ReadingOK, OffOK

LEMMA AddOrder == ASSUME OrderInv, NEW k \in Key, NEW ttl \in Ttl, Add(k, ttl) PROVE OrderInv'
<1> DEFINE r == [expire |-> Expiry(ttl), immutable |-> 0]
<1>1. Expiry(ttl) \in Nat /\ Expiry(ttl) >= 2
  BY HashAssumption DEF Expiry, OrderInv, Inv, ClockOK
<1>2. r \in Record /\ r.expire >= 2
  BY <1>1 DEF Record
<1>3. Place(k, r) /\ Removable(k)
  BY DEF Add
<1>4. FilaOK'
  <2> HIDE DEF r
  <2> QED BY <1>2, <1>3, PlaceFila DEF OrderInv, Add
<1> QED BY <1>4, AddOK, ServingOrder DEF OrderInv, Add, disk

LEMMA RotateOrder == ASSUME OrderInv, NEW k \in Key, Rotate(k) PROVE OrderInv'
<1> DEFINE r == [expire |-> elements[k].expire, immutable |-> 0]
<1>1. k \in ToSet(fila)
  BY InFila DEF Rotate, OrderInv, Inv
<1>2. elements[k] \in Record
  BY DEF Rotate, OrderInv, Inv, HashOK
<1>3. r \in Record /\ r.expire >= 2
  BY <1>1, <1>2 DEF Record, OrderInv, FilaOK
<1>4. Place(k, r) /\ Removable(k)
  BY DEF Rotate
<1>5. FilaOK'
  <2> HIDE DEF r
  <2> QED BY <1>3, <1>4, PlaceFila DEF OrderInv, Rotate
<1> QED BY <1>5, RotateOK, ServingOrder DEF OrderInv, Rotate, disk

LEMMA GetOrder ==
  ASSUME OrderInv, NEW k \in Key, NEW ignore_expire \in BOOLEAN,
         Get(k, ignore_expire)
  PROVE  OrderInv'
<1> DEFINE u == Unlinked(fila, k)
<1>1. k \in ToSet(fila) /\ fila \in Seq(Key) /\ NoDuplicate(fila)
  BY InFila DEF Get, OrderInv, Inv, HashOK, FilaMatchesHash, Removable
<1>2. /\ u \in Seq(Key) /\ NoDuplicate(u) /\ ToSet(u) = ToSet(fila) \ {k}
      /\ Len(u) = Len(fila) - 1 /\ Len(fila) \in Nat
  BY <1>1, UnlinkedOK, UnlinkedLen
<1>3. fila' = AtFront(u, k)
  BY DEF Get, MovedToFront
<1> HIDE DEF u
<1>4. Len(fila') = Len(fila)
  BY <1>2, <1>3 DEF AtFront
<1>5. ToSet(fila') = ToSet(fila)
  <2>1. k \in Key /\ k \notin ToSet(u)
    BY <1>2 DEF Get, OrderInv, Inv, HashOK
  <2>2. ToSet(AtFront(u, k)) = ToSet(u) \union {k}
    BY <1>2, <2>1, AtFrontOK
  <2> QED BY <1>1, <1>2, <1>3, <2>2
<1>6. fila # << >>
  BY <1>1 DEF ToSet
<1>7. FilaOK'
  BY <1>4, <1>5, <1>6 DEF FilaOK, OrderInv, Get
<1> QED BY <1>7, GetOK, ServingOrder DEF OrderInv, Get, disk

LEMMA ZapOrder == ASSUME OrderInv, NEW k \in Key, Zap(k) PROVE OrderInv'
<1>1. k \in ToSet(fila) /\ fila \in Seq(Key) /\ NoDuplicate(fila)
  BY InFila DEF Zap, OrderInv, Inv, HashOK, FilaMatchesHash
<1>2. /\ ToSet(fila') = ToSet(fila) \ {k}
      /\ Len(fila') = Len(fila) - 1 /\ Len(fila) \in Nat \ {0}
  BY <1>1, UnlinkedOK, UnlinkedLen DEF Zap
<1>3. size \in Nat /\ max \in Nat
  BY StoredFinite DEF OrderInv, Inv, ClockOK
<1>4. \A j \in ToSet(fila') : elements'[j].expire >= 2
  <2>1. ToSet(fila) \subseteq Stored
    BY DEF OrderInv, Inv, HashOK, FilaMatchesHash
  <2> QED BY <1>2, <2>1 DEF Zap, Without, OrderInv, FilaOK
<1>5. Len(fila') <= size'
  BY <1>2, <1>3 DEF Zap, OrderInv, FilaOK
<1>6. fila' # << >> => Len(fila') < max'
  BY <1>1, <1>2, <1>3 DEF Zap, OrderInv, FilaOK
<1>7. FilaOK'
  BY <1>4, <1>5, <1>6 DEF FilaOK
<1> QED BY <1>7, ZapOK, ServingOrder DEF OrderInv, Zap, disk

LEMMA EmptiedOrder ==
  ASSUME OrderInv, Inv', Emptied, UNCHANGED file, pc' \in {"off", "refused"}
  PROVE  OrderInv'
<1>1. FilaOK'
  BY DEF Emptied, FilaOK, ToSet
<1>2. FileOK'
  BY FileMaxOK DEF OrderInv, FileOK, Emptied
<1>3. WritingOK' /\ ReadingOK' /\ OffOK'
  BY DEF Emptied, WritingOK, ReadingOK, OffOK
<1> QED BY <1>1, <1>2, <1>3 DEF OrderInv

LEMMA ConfigureOrder == ASSUME OrderInv, NEW k \in Key, Configure(k) PROVE OrderInv'
<1>1. Inv'
  BY ConfigureOK DEF OrderInv
<1>2. CASE k \in Stored
  BY <1>1, <1>2, EmptiedOrder DEF Configure, disk
<1>3. CASE k \notin Stored
  <2>1. /\ elements' = With(elements, k, [expire |-> 0, immutable |-> 1])
        /\ size' = size + 1 /\ pc = "configuring" /\ pc' \in {"serving", pc}
        /\ UNCHANGED <<fila, max, file>>
    BY <1>3 DEF Configure, disk
  <2>2. /\ size \in Nat /\ Len(fila) \in Nat /\ ToSet(fila) \subseteq Stored
    BY StoredFinite DEF OrderInv, Inv, HashOK, FilaMatchesHash
  <2>3. FilaOK'
    BY <1>3, <2>1, <2>2 DEF OrderInv, FilaOK, With
  <2>4. FileOK' /\ WritingOK' /\ ReadingOK' /\ OffOK'
    BY <2>1 DEF OrderInv, FileOK, WritingOK, ReadingOK, OffOK
  <2> QED BY <1>1, <2>3, <2>4 DEF OrderInv
<1> QED BY <1>2, <1>3

LEMMA StartOrder == ASSUME OrderInv, Start PROVE OrderInv'
<1>1. fila = << >> /\ size = 0 /\ Stored = {}
  BY DEF OrderInv, OffOK, Start
<1>2. max' <= FileMax /\ (marked => max' = FileMax)
  BY HashAssumption DEF Start, FileMax
<1>3. FilaOK'
  BY <1>1 DEF Start, FilaOK, ToSet
<1>4. FileOK'
  BY <1>2 DEF OrderInv, FileOK, Start, disk
<1>5. ReadingOK'
  <2>1. Len(file) \in Nat
    BY DEF OrderInv, Inv, ClockOK
  <2> QED BY <1>1, <1>2, <2>1 DEF Start, disk, ReadingOK
<1>6. WritingOK' /\ OffOK'
  BY DEF Start, WritingOK, OffOK
<1> QED BY <1>3, <1>4, <1>5, <1>6, StartOK DEF OrderInv

(***************************************************************************)
(* A record of the file is new to the hash, and there is room for it.      *)
(***************************************************************************)
LEMMA ReadElementOrder == ASSUME OrderInv, ReadElement PROVE OrderInv'
<1> DEFINE e == file[at]
<1>1. /\ file \in Seq(Saved) /\ at \in 1..Len(file) /\ Len(file) \in Nat
      /\ e \in Saved
  BY DEF ReadElement, Legible, OrderInv, Inv, ClockOK
<1>2. e.key \in Key /\ e.expire \in Nat /\ e.expire >= 2
  BY <1>1 DEF Saved, ReadElement, Legible
<1>3. PICK byte \in HeapByte :
        Place(e.key, [expire |-> e.expire, immutable |-> byte])
  BY DEF ReadElement
<1> DEFINE r == [expire |-> e.expire, immutable |-> byte]
<1>4. r \in Record /\ r.expire >= 2 /\ Place(e.key, r)
  BY <1>2, <1>3 DEF Record
<1>5. /\ max = FileMax /\ size = at - 1 /\ Len(fila) = at - 1
      /\ Stored \subseteq ToSet(fila)
      /\ \A i \in 1..(at - 1) : fila[i] = file[at - i].key
  BY DEF ReadElement, OrderInv, ReadingOK
<1>6. e.key \notin Stored
  <2> SUFFICES ASSUME e.key \in Stored PROVE FALSE
    OBVIOUS
  <2>1. PICK i \in 1..(at - 1) : fila[i] = e.key
    BY <1>5 DEF ToSet
  <2>2. at - i \in 1..Len(file) /\ at - i # at /\ file[at - i].key = file[at].key
    BY <1>1, <1>5, <2>1
  <2> QED BY <1>1, <2>2 DEF OrderInv, FileOK
<1>7. /\ Requeued(e.key) = AtFront(fila, e.key) /\ Counted(e.key) = at
      /\ fila \in Seq(Key)
  BY <1>1, <1>5, <1>6 DEF Requeued, Counted, OrderInv, Inv, HashOK
<1>8. ~Full(at)
  BY <1>1, <1>5, FileMaxOK DEF Full, OrderInv, FileOK
<1>9. /\ fila' = AtFront(fila, e.key) /\ size' = at
      /\ elements' = With(elements, e.key, r)
  BY <1>4, <1>7, <1>8 DEF Place
<1>10. at' = at + 1 /\ UNCHANGED <<max, file, pc>> /\ pc = "reading"
       /\ Removable(e.key)
  BY DEF ReadElement, disk
<1>11. FilaOK'
  <2> HIDE DEF e, r
  <2> QED BY <1>2, <1>4, <1>10, PlaceFila DEF OrderInv
<1>12. ReadingOK'
  <2>1. Len(fila') = at /\ fila'[1] = e.key
        /\ \A i \in 2..at : fila'[i] = fila[i - 1]
    <3> HIDE DEF e
    <3> QED BY <1>1, <1>5, <1>7, <1>9 DEF AtFront
  <2>2. \A i \in 1..at : fila'[i] = file[at + 1 - i].key
    <3> TAKE i \in 1..at
    <3>1. CASE i = 1
      BY <1>1, <2>1, <3>1
    <3>2. CASE i # 1
      <4>1. i - 1 \in 1..(at - 1) /\ at - (i - 1) = at + 1 - i
        BY <1>1, <3>2
      <4> QED BY <1>1, <1>5, <2>1, <3>2, <4>1
    <3> QED BY <3>1, <3>2
  <2>3. DOMAIN elements' = Stored \union {e.key}
    BY <1>9 DEF With
  <2>4. ToSet(fila') = ToSet(fila) \union {e.key}
    <3>1. e.key \notin ToSet(fila) /\ NoDuplicate(fila)
      BY <1>6 DEF OrderInv, Inv, HashOK, FilaMatchesHash
    <3> HIDE DEF e
    <3> QED BY <1>2, <1>7, <1>9, <3>1, AtFrontOK
  <2>5. DOMAIN elements' \subseteq ToSet(fila')
    BY <1>5, <2>3, <2>4
  <2> HIDE DEF e
  <2> QED BY <1>1, <1>5, <1>9, <1>10, <2>1, <2>2, <2>5 DEF ReadingOK
<1>13. FileOK' /\ WritingOK' /\ OffOK'
  BY <1>10 DEF OrderInv, FileOK, WritingOK, OffOK
<1> QED BY <1>11, <1>12, <1>13, ReadElementOK DEF OrderInv

LEMMA BeginWriteOrder == ASSUME OrderInv, BeginWrite PROVE OrderInv'
<1>1. FilaOK' /\ OffOK' /\ ReadingOK'
  BY DEF OrderInv, FilaOK, OffOK, ReadingOK, BeginWrite
<1>2. FileOK'
  BY FileMaxOK DEF OrderInv, FileOK, BeginWrite
<1>3. WritingOK'
  <2>1. Len(fila) \in Nat
    BY DEF OrderInv, Inv, HashOK
  <2> QED BY <2>1 DEF WritingOK, BeginWrite
<1> QED BY <1>1, <1>2, <1>3, BeginWriteOK DEF OrderInv

(***************************************************************************)
(* The record that is written is one that the file does not hold yet, and  *)
(* the file stays shorter than the fila.                                   *)
(***************************************************************************)
LEMMA WriteElementOrder == ASSUME OrderInv, WriteElement PROVE OrderInv'
<1> DEFINE k == fila[at]
           e == [key |-> k, expire |-> elements[k].expire]
<1>1. /\ fila \in Seq(Key) /\ Len(fila) \in Nat /\ at \in 1..Len(fila)
      /\ NoDuplicate(fila) /\ max \in Nat
      /\ file \in Seq(Saved) /\ Len(file) \in Nat
  BY DEF WriteElement, OrderInv, Inv, ClockOK, HashOK, FilaMatchesHash
<1>2. /\ Len(file) + at = Len(fila)
      /\ \A i \in 1..Len(file) : file[i].key = fila[Len(fila) + 1 - i]
  BY DEF WriteElement, OrderInv, WritingOK
<1>3. /\ Len(fila) \in Nat /\ Len(file) \in Nat /\ at \in Nat /\ at >= 1
      /\ Len(fila) = Len(file) + at
  <2>1. at \in Nat /\ at >= 1 /\ Len(fila) \in Nat /\ Len(file) \in Nat
    BY <1>1
  <2> QED BY <1>2, <2>1
<1>4. k \in ToSet(fila) /\ k \in Stored
  BY <1>1 DEF ToSet, OrderInv, Inv, HashOK, FilaMatchesHash
<1>5. k \in Key /\ elements[k].expire \in Nat /\ elements[k].expire >= 2
  BY <1>4 DEF OrderInv, Inv, HashOK, Record, FilaOK
<1>6. e \in Saved /\ e.key = k /\ e.expire >= 2
  BY <1>5 DEF Saved
<1>7. file' = Append(file, e)
  BY <1>5 DEF WriteElement
<1>8. at' = at - 1 /\ UNCHANGED <<elements, fila, size, max, pc>> /\ pc = "writing"
  BY DEF WriteElement
<1> HIDE DEF e
<1>9. /\ Len(file') = Len(file) + 1
      /\ file'[Len(file) + 1] = e
      /\ \A i \in 1..Len(file) : file'[i] = file[i]
  BY <1>1, <1>6, <1>7
<1>10. \A i \in 1..Len(file') : file'[i].key = fila[Len(fila) + 1 - i]
  <2> TAKE i \in 1..Len(file')
  <2>1. CASE i \in 1..Len(file)
    BY <1>2, <1>9, <2>1
  <2>2. CASE i = Len(file) + 1
    <3>1. Len(fila) + 1 - i = at
      BY <1>3, <2>2
    <3>2. file'[i].key = k
      BY <1>6, <1>9, <2>2
    <3> QED BY <3>1, <3>2
  <2> QED BY <1>1, <1>9, <2>1, <2>2
<1>11. FileOK'
  <2>1. Len(file') < FileMax
    <3>1. fila # << >> /\ Len(fila) < max
      BY <1>1 DEF OrderInv, FilaOK
    <3> QED BY <1>1, <1>2, <1>9, <3>1, FileMaxOK DEF OrderInv, FileOK
  <2>2. \A i \in 1..Len(file') : file'[i].expire >= 2
    BY <1>1, <1>6, <1>9 DEF OrderInv, FileOK
  <2>3. ASSUME NEW i \in 1..Len(file'), NEW j \in 1..Len(file'),
               file'[i].key = file'[j].key
        PROVE  i = j
    <3>1. /\ Len(fila) + 1 - i \in 1..Len(fila)
          /\ Len(fila) + 1 - j \in 1..Len(fila)
      BY <1>1, <1>2, <1>9
    <3>2. fila[Len(fila) + 1 - i] = fila[Len(fila) + 1 - j]
      BY <1>10, <2>3
    <3>3. Len(fila) + 1 - i = Len(fila) + 1 - j
      BY <1>1, <3>1, <3>2 DEF NoDuplicate
    <3> QED BY <1>1, <1>9, <3>3
  <2> QED BY <1>8, <2>1, <2>2, <2>3 DEF OrderInv, FileOK
<1>12. WritingOK'
  <2>1. Len(file') = Len(file) + 1 /\ at' = at - 1 /\ fila' = fila
    BY <1>8, <1>9
  <2>2. Len(file') + at' = Len(fila')
    BY <1>3, <2>1
  <2>3. \A i \in 1..Len(file') : file'[i].key = fila'[Len(fila') + 1 - i]
    BY <1>10, <2>1
  <2> QED BY <2>2, <2>3 DEF WritingOK
<1>13. FilaOK' /\ ReadingOK' /\ OffOK'
  BY <1>8 DEF OrderInv, FilaOK, ReadingOK, OffOK
<1> QED BY <1>11, <1>12, <1>13, WriteElementOK DEF OrderInv

LEMMA OrderNext == ASSUME OrderInv, [Next]_vars PROVE OrderInv'
<1>1. ASSUME NEW k \in Key,
             \/ \E ttl \in Ttl : Add(k, ttl)
             \/ \E ignore_expire \in BOOLEAN : Get(k, ignore_expire)
             \/ Rotate(k) \/ Zap(k) \/ Configure(k)
      PROVE  OrderInv'
  BY <1>1, AddOrder, GetOrder, RotateOrder, ZapOrder, ConfigureOrder
<1>2. Inv'
  BY NextOK DEF OrderInv
<1>3. CASE ExitAfterWrite \/ Crash
  BY <1>2, <1>3, EmptiedOrder DEF ExitAfterWrite, Crash, disk
<1>4. CASE SetTime \/ EndRead \/ EndWrite \/ UNCHANGED vars
  BY <1>2, <1>4
     DEF SetTime, EndRead, EndWrite, vars, memory, disk, OrderInv, FilaOK,
         FileOK, WritingOK, ReadingOK, OffOK
<1>5. CASE DeleteFile
  BY <1>2, <1>5, FileMaxOK
     DEF DeleteFile, memory, OrderInv, FilaOK, FileOK, WritingOK, ReadingOK, OffOK
<1> QED BY <1>1, <1>3, <1>4, <1>5, StartOrder, ReadElementOrder, BeginWriteOrder,
           WriteElementOrder DEF Next

LEMMA OrderInit == ASSUME Init PROVE OrderInv
<1>1. FilaOK /\ FileOK /\ WritingOK /\ ReadingOK /\ OffOK
  BY FileMaxOK
     DEF Init, FilaOK, FileOK, WritingOK, ReadingOK, OffOK, ToSet
<1> QED BY <1>1, InitOK DEF OrderInv

\* At the end of either loop the file is the fila backwards.
LEMMA LoopsEnd ==
  ASSUME OrderInv, EndWrite \/ ExitAfterWrite \/ EndRead PROVE fila = Backwards
<1>1. /\ fila \in Seq(Key) /\ Len(fila) \in Nat
      /\ file \in Seq(Saved) /\ Len(file) \in Nat /\ at \in Nat
  BY DEF OrderInv, Inv, HashOK, ClockOK
<1>2. /\ Len(fila) = Len(file)
      /\ \A i \in 1..Len(fila) : fila[i] = file[Len(file) + 1 - i].key
  <2>1. CASE EndWrite \/ ExitAfterWrite
    <3>1. /\ Len(file) = Len(fila)
          /\ \A i \in 1..Len(file) : file[i].key = fila[Len(fila) + 1 - i]
      BY <1>1, <2>1 DEF EndWrite, ExitAfterWrite, OrderInv, WritingOK
    <3>2. ASSUME NEW i \in 1..Len(fila) PROVE fila[i] = file[Len(file) + 1 - i].key
      <4>1. /\ Len(file) + 1 - i \in 1..Len(file)
            /\ Len(fila) + 1 - (Len(file) + 1 - i) = i
        BY <1>1, <3>1
      <4> QED BY <3>1, <4>1
    <3> QED BY <3>1, <3>2
  <2>2. CASE EndRead
    <3>1. /\ at <= Len(file) + 1 /\ Len(fila) = at - 1 /\ pc = "reading"
          /\ \A i \in 1..(at - 1) : fila[i] = file[at - i].key
      BY <2>2 DEF EndRead, OrderInv, ReadingOK
    <3>2. at >= 1
      BY <2>2 DEF EndRead, OrderInv, Inv, ClockOK
    <3>3. ~(at <= Len(file))
      <4> SUFFICES ASSUME at <= Len(file) PROVE FALSE
        OBVIOUS
      <4>1. at \in 1..Len(file) /\ ~(file[at].expire >= 2)
        BY <1>1, <2>2, <3>2 DEF EndRead, Legible
      <4> QED BY <4>1 DEF OrderInv, FileOK
    <3>4. at = Len(file) + 1
      BY <1>1, <3>1, <3>3
    <3> QED BY <1>1, <3>1, <3>4
  <2> QED BY <2>1, <2>2
<1>3. fila = [i \in 1..Len(fila) |-> fila[i]]
  BY <1>1
<1> QED BY <1>2, <1>3 DEF Backwards

(***************************************************************************)
(* dwh_write_hash, dwh_read_hash: whatever the keys, the sizes, the heap   *)
(* and the crashes, a file that is written or read to its end is the order *)
(* of use.  The reader gives up none of its records, because the file is   *)
(* shorter than the maximum of the process that reads it.                  *)
(***************************************************************************)
THEOREM RestartTheorem == Spec => RestartKeepsOrder
<1>1. ASSUME OrderInv
      PROVE  EndWrite \/ ExitAfterWrite \/ EndRead => fila = Backwards
  BY <1>1, LoopsEnd
<1> QED BY <1>1, OrderInit, OrderNext, PTL DEF Spec, RestartKeepsOrder
-----------------------------------------------------------------------------
(***************************************************************************)
(* The maximum.  It is the one dwood3rc gives only if that is more than    *)
(* dwh_read_hash's least (1024 is taken instead of it otherwise), a record *)
(* of the file can be removed only if the heap byte in its immutable flag  *)
(* is not 1, and the file leaves room for the server entries only if there *)
(* are as many of them as there were when it was written.  TLC finds       *)
(* WithinMaximum violated when any one of the three is left out.           *)
(***************************************************************************)
Roomy(n) ==
  /\ CacheSize > LeastCacheSize
  /\ 1 \notin HeapByte
  /\ n \in Nat /\ \A s \in Configs : Cardinality(s) = n

\* hash->size counts the fila and the server entries added so far.
Counts == size = Len(fila) + Cardinality(servers \ todo)

\* Only server entries are immutable.
OnlyServers == \A k \in Stored : elements[k].immutable = 1 => k \in servers

\* A queue of that length leaves room for n server entries.
Room(n, length) == length > 0 => length + n < CacheSize

Running ==
  pc \notin {"off", "refused"} => max = CacheSize /\ servers \in Configs

RoomInv(n) ==
  /\ OrderInv
  /\ Counts /\ OnlyServers /\ Running
  /\ Room(n, Len(fila)) /\ Room(n, Len(file))

LEMMA ServersFinite ==
  ASSUME Inv PROVE /\ IsFiniteSet(servers) /\ IsFiniteSet(todo)
                   /\ Cardinality(servers \ todo) \in Nat
<1>1. servers \subseteq Key /\ todo \subseteq Key
  BY DEF Inv, ClockOK
<1>2. IsFiniteSet(servers) /\ IsFiniteSet(todo) /\ IsFiniteSet(servers \ todo)
  BY <1>1, FS_Subset, HashAssumption
<1> QED BY <1>2, FS_CardinalityType

\* A server entry in place is in no fila: it never expires, and what never
\* expires is not queued.
LEMMA QueuedCanGo ==
  ASSUME Inv, FilaOK, OnlyServers, pc = "serving", NEW k \in ToSet(fila)
  PROVE  elements[k].immutable # 1
<1>1. k \in Stored /\ elements[k].expire >= 2
  BY DEF Inv, HashOK, FilaMatchesHash, FilaOK
<1>2. ASSUME k \in servers PROVE FALSE
  BY <1>1, <1>2 DEF Inv, ClockOK, HashOK, ServersKept
<1> QED BY <1>1, <1>2 DEF OnlyServers

\* A record that comes into a hash with room is counted, and leaves room.
LEMMA PlaceRoom ==
  ASSUME NEW n \in Nat, Roomy(n), RoomInv(n), NEW k \in Key, NEW r \in Record,
         r.immutable # 1, Removable(k), Place(k, r), pc = "serving",
         UNCHANGED <<max, servers, todo>>
  PROVE  Counts' /\ OnlyServers' /\ Room(n, Len(fila'))
<1> DEFINE queue  == Requeued(k)
           count  == Counted(k)
           all    == With(elements, k, r)
           victim == Victim(queue)
<1>1. /\ queue \in Seq(Key) /\ NoDuplicate(queue) /\ queue # << >>
      /\ ToSet(queue) = ToSet(fila) \union {k}
      /\ Len(queue) = Len(fila) + (IF k \in Stored THEN 0 ELSE 1)
  BY RequeuedOK DEF RoomInv, OrderInv
<1>2. /\ size = Len(fila) + n /\ Len(fila) \in Nat /\ max = CacheSize
      /\ CacheSize \in Nat /\ servers \ todo = servers /\ Cardinality(servers) = n
  <2>1. todo = {} /\ servers \in Configs /\ fila \in Seq(Key) /\ max = CacheSize
    BY DEF RoomInv, OrderInv, Inv, ClockOK, HashOK, Running
  <2>2. servers \ todo = servers /\ Cardinality(servers) = n
    BY <2>1 DEF Roomy
  <2> QED BY <2>1, <2>2, HashAssumption DEF RoomInv, Counts
<1>3. count = Len(queue) + n
  BY <1>1, <1>2 DEF Counted
<1>4. /\ all[victim].immutable # 1
      /\ victim = Last(queue) /\ victim \in ToSet(queue)
  <2>1. victim = Last(queue)
    BY DEF Victim
  <2>2. victim \in ToSet(queue)
    <3> HIDE DEF queue, victim
    <3> QED BY <1>1, <2>1, LastIn
  <2>3. ToSet(fila) \subseteq Stored
    BY DEF RoomInv, OrderInv, Inv, HashOK, FilaMatchesHash
  <2>4. all[victim] = IF victim = k THEN r ELSE elements[victim]
    <3>1. victim \in Stored \union {k}
      <4> HIDE DEF queue, victim
      <4> QED BY <1>1, <2>2, <2>3
    <3> HIDE DEF victim
    <3> QED BY <3>1 DEF With
  <2> HIDE DEF queue, victim, all
  <2> QED BY <1>1, <2>1, <2>2, <2>4, QueuedCanGo DEF RoomInv, OrderInv
<1>5. OnlyServers'
  BY PlaceValues DEF RoomInv, OnlyServers
<1>6. Len(queue) \in Nat
  <2> HIDE DEF queue
  <2> QED BY <1>1
<1>7. CASE ~Full(count)
  <2>1. fila' = queue /\ size' = count
    BY <1>7 DEF Place
  <2>2. ~(count >= max)
    BY <1>7 DEF Full
  <2> HIDE DEF queue, count
  <2>3. Len(fila') + n < CacheSize
    BY <1>2, <1>3, <1>6, <2>1, <2>2
  <2> QED BY <1>2, <1>3, <1>5, <2>1, <2>3 DEF Counts, Room
<1>8. CASE Full(count)
  <2>1. fila' = Unlinked(queue, victim) /\ size' = count - 1
    BY <1>4, <1>8 DEF Place
  <2> HIDE DEF queue, count, victim
  <2>2. Len(fila') = Len(queue) - 1
    BY <1>1, <1>4, <2>1, UnlinkedLen
  <2>3. Counts'
    <3>1. Cardinality(servers' \ todo') = n
      BY <1>2
    <3>2. size' = Len(fila') + n
      BY <1>2, <1>3, <1>6, <2>1, <2>2
    <3> QED BY <3>1, <3>2 DEF Counts
  <2>4. Len(fila') <= Len(fila)
    BY <1>1, <1>2, <1>6, <2>2
  <2>5. Len(fila') \in Int
    BY <1>6, <2>2
  <2>6. Room(n, Len(fila'))
    BY <1>2, <2>4, <2>5 DEF Room, RoomInv
  <2> QED BY <1>5, <2>3, <2>6
<1> QED BY <1>7, <1>8

\* A step of a process that serves, on the hash only.
LEMMA ServingRoom ==
  ASSUME NEW n \in Nat, RoomInv(n), OrderInv', Counts', OnlyServers',
         Room(n, Len(fila')), pc = "serving", pc' = pc,
         UNCHANGED <<max, servers, file>>
  PROVE  RoomInv(n)'
BY DEF RoomInv, Running, Room

LEMMA AddRoom ==
  ASSUME NEW n \in Nat, Roomy(n), RoomInv(n), NEW k \in Key, NEW ttl \in Ttl,
         Add(k, ttl)
  PROVE  RoomInv(n)'
<1> DEFINE r == [expire |-> Expiry(ttl), immutable |-> 0]
<1>1. Expiry(ttl) \in Nat
  BY HashAssumption DEF Expiry, RoomInv, OrderInv, Inv, ClockOK
<1>2. r \in Record /\ r.immutable # 1
  BY <1>1 DEF Record
<1>3. Place(k, r) /\ Removable(k)
  BY DEF Add
<1> HIDE DEF r
<1>4. Counts' /\ OnlyServers' /\ Room(n, Len(fila'))
  BY <1>2, <1>3, PlaceRoom DEF Add
<1>5. OrderInv'
  BY AddOrder DEF RoomInv
<1> QED BY <1>4, <1>5, ServingRoom DEF Add, disk

LEMMA RotateRoom ==
  ASSUME NEW n \in Nat, Roomy(n), RoomInv(n), NEW k \in Key, Rotate(k)
  PROVE  RoomInv(n)'
<1> DEFINE r == [expire |-> elements[k].expire, immutable |-> 0]
<1>1. elements[k] \in Record
  BY DEF Rotate, RoomInv, OrderInv, Inv, HashOK
<1>2. r \in Record /\ r.immutable # 1
  BY <1>1 DEF Record
<1>3. Place(k, r) /\ Removable(k)
  BY DEF Rotate
<1> HIDE DEF r
<1>4. Counts' /\ OnlyServers' /\ Room(n, Len(fila'))
  BY <1>2, <1>3, PlaceRoom DEF Rotate
<1>5. OrderInv'
  BY RotateOrder DEF RoomInv
<1> QED BY <1>4, <1>5, ServingRoom DEF Rotate, disk

LEMMA GetRoom ==
  ASSUME NEW n \in Nat, Roomy(n), RoomInv(n), NEW k \in Key,
         NEW ignore_expire \in BOOLEAN, Get(k, ignore_expire)
  PROVE  RoomInv(n)'
<1> DEFINE u == Unlinked(fila, k)
<1>1. k \in ToSet(fila) /\ fila \in Seq(Key) /\ NoDuplicate(fila)
  BY InFila DEF Get, RoomInv, OrderInv, Inv, HashOK, FilaMatchesHash, Removable
<1>2. u \in Seq(Key) /\ Len(u) = Len(fila) - 1 /\ Len(fila) \in Nat
  BY <1>1, UnlinkedOK, UnlinkedLen
<1>3. fila' = AtFront(u, k)
  BY DEF Get, MovedToFront
<1> HIDE DEF u
<1>4. Len(fila') = Len(fila)
  BY <1>2, <1>3 DEF AtFront
<1>5. Counts' /\ OnlyServers' /\ Room(n, Len(fila'))
  BY <1>4 DEF Get, RoomInv, Counts, OnlyServers
<1>6. OrderInv'
  BY GetOrder DEF RoomInv
<1> QED BY <1>5, <1>6, ServingRoom DEF Get, disk

LEMMA ZapRoom ==
  ASSUME NEW n \in Nat, Roomy(n), RoomInv(n), NEW k \in Key, Zap(k)
  PROVE  RoomInv(n)'
<1>1. k \in ToSet(fila) /\ fila \in Seq(Key) /\ NoDuplicate(fila)
  BY InFila DEF Zap, RoomInv, OrderInv, Inv, HashOK, FilaMatchesHash
<1>2. Len(fila') = Len(fila) - 1 /\ Len(fila) \in Nat \ {0}
  BY <1>1, UnlinkedLen DEF Zap
<1>3. Cardinality(servers \ todo) \in Nat
  BY ServersFinite DEF RoomInv, OrderInv
<1>4. Counts'
  BY <1>2, <1>3 DEF Zap, RoomInv, Counts
<1>5. OnlyServers'
  BY DEF Zap, Without, RoomInv, OnlyServers
<1>6. Room(n, Len(fila'))
  BY <1>2, HashAssumption DEF RoomInv, Room
<1>7. OrderInv'
  BY ZapOrder DEF RoomInv
<1> QED BY <1>4, <1>5, <1>6, <1>7, ServingRoom DEF Zap, disk

LEMMA NothingCounted == Cardinality({}) = 0 /\ \A s : s \ s = {}
BY FS_EmptySet

LEMMA EmptiedRoom ==
  ASSUME NEW n \in Nat, RoomInv(n), OrderInv', Emptied, UNCHANGED file,
         pc' \in {"off", "refused"}
  PROVE  RoomInv(n)'
<1>1. Counts'
  BY NothingCounted DEF Emptied, Counts
<1>2. OnlyServers' /\ Running' /\ Room(n, Len(fila'))
  BY DEF Emptied, OnlyServers, Running, Room
<1> QED BY <1>1, <1>2 DEF RoomInv

LEMMA ConfigureRoom ==
  ASSUME NEW n \in Nat, Roomy(n), RoomInv(n), NEW k \in Key, Configure(k)
  PROVE  RoomInv(n)'
<1>1. OrderInv'
  BY ConfigureOrder DEF RoomInv
<1>2. CASE k \in Stored
  BY <1>1, <1>2, EmptiedRoom DEF Configure, disk
<1>3. CASE k \notin Stored
  <2>1. /\ elements' = With(elements, k, [expire |-> 0, immutable |-> 1])
        /\ size' = size + 1 /\ todo' = todo \ {k} /\ k \in todo
        /\ pc = "configuring" /\ UNCHANGED <<fila, max, servers, file>>
    BY <1>3 DEF Configure, disk
  <2>2. k \in servers
    BY <2>1 DEF RoomInv, OrderInv, Inv, ClockOK
  <2>3. Cardinality(servers \ todo') = Cardinality(servers \ todo) + 1
    <3>1. servers \ todo' = (servers \ todo) \union {k} /\ k \notin servers \ todo
      BY <2>1, <2>2
    <3>2. IsFiniteSet(servers \ todo)
      BY ServersFinite, FS_Subset DEF RoomInv, OrderInv
    <3> QED BY <3>1, <3>2, FS_AddElement
  <2>4. Counts'
    <3>1. Len(fila) \in Nat /\ Cardinality(servers \ todo) \in Nat
      BY ServersFinite DEF RoomInv, OrderInv, Inv, HashOK
    <3> QED BY <2>1, <2>3, <3>1 DEF RoomInv, Counts
  <2>5. OnlyServers'
    BY <2>1, <2>2 DEF RoomInv, OnlyServers, With
  <2> QED BY <1>1, <2>1, <2>4, <2>5 DEF RoomInv, Running
<1> QED BY <1>2, <1>3

LEMMA StartRoom ==
  ASSUME NEW n \in Nat, Roomy(n), RoomInv(n), Start PROVE RoomInv(n)'
<1>1. fila = << >> /\ size = 0 /\ Stored = {}
  BY DEF RoomInv, OrderInv, OffOK, Start
<1>2. max' = CacheSize /\ servers' \in Configs /\ todo' = servers'
  BY HashAssumption DEF Roomy, Start
<1>3. Counts'
  BY <1>1, <1>2, NothingCounted DEF Start, Counts
<1>4. OnlyServers'
  BY <1>1 DEF Start, OnlyServers
<1> QED BY <1>2, <1>3, <1>4, StartOrder DEF RoomInv, Running, Start, disk

LEMMA ReadElementRoom ==
  ASSUME NEW n \in Nat, Roomy(n), RoomInv(n), ReadElement PROVE RoomInv(n)'
<1>1. OrderInv'
  BY ReadElementOrder DEF RoomInv
<1>2. /\ at' = at + 1 /\ pc = "reading" /\ pc' = "reading"
      /\ UNCHANGED <<max, todo, servers, file>>
  BY DEF ReadElement, disk
<1>3. /\ Len(fila) = at - 1 /\ size = at - 1
      /\ Len(fila') = at /\ size' = at /\ at \in 1..Len(file)
  <2>1. at \in 1..Len(file)
    BY DEF ReadElement, Legible, RoomInv, OrderInv, Inv, ClockOK
  <2>2. Len(fila) = at - 1 /\ size = at - 1
    BY <1>2 DEF RoomInv, OrderInv, ReadingOK
  <2>3. Len(fila') = at' - 1 /\ size' = at' - 1
    BY <1>1, <1>2 DEF OrderInv, ReadingOK
  <2> QED BY <1>2, <2>1, <2>2, <2>3
<1>4. Counts'
  <2>1. Cardinality(servers \ todo) \in Nat
    BY ServersFinite DEF RoomInv, OrderInv
  <2> QED BY <1>2, <1>3, <2>1 DEF RoomInv, Counts
<1>5. OnlyServers'
  <2>1. PICK byte \in HeapByte :
          Place(file[at].key, [expire |-> file[at].expire, immutable |-> byte])
    BY DEF ReadElement
  <2> DEFINE r == [expire |-> file[at].expire, immutable |-> byte]
  <2>2. r.immutable # 1
    BY DEF Roomy
  <2>3. Place(file[at].key, r)
    BY <2>1
  <2> HIDE DEF r
  <2> QED BY <1>2, <2>2, <2>3, PlaceValues DEF RoomInv, OnlyServers
<1>6. Room(n, Len(fila')) /\ Room(n, Len(file'))
  <2>1. Len(file) \in Nat
    BY DEF RoomInv, OrderInv, Inv, ClockOK
  <2> QED BY <1>2, <1>3, <2>1, HashAssumption DEF RoomInv, Room
<1> QED BY <1>1, <1>2, <1>4, <1>5, <1>6 DEF RoomInv, Running

LEMMA WriteElementRoom ==
  ASSUME NEW n \in Nat, RoomInv(n), WriteElement PROVE RoomInv(n)'
<1>1. OrderInv'
  BY WriteElementOrder DEF RoomInv
<1>2. /\ pc = "writing" /\ pc' = "writing"
      /\ UNCHANGED <<elements, fila, size, max, todo, servers>>
  BY DEF WriteElement
<1>3. Room(n, Len(file'))
  <2>1. Len(file') + at' = Len(fila')
    BY <1>1, <1>2 DEF OrderInv, WritingOK
  <2>2. Len(file') \in Nat /\ at' \in Nat /\ Len(fila) \in Nat
    BY <1>1, <1>2 DEF RoomInv, OrderInv, Inv, ClockOK, HashOK
  <2> QED BY <1>2, <2>1, <2>2, HashAssumption DEF RoomInv, Room
<1> QED BY <1>1, <1>2, <1>3 DEF RoomInv, Counts, OnlyServers, Running

LEMMA RoomNext ==
  ASSUME NEW n \in Nat, Roomy(n), RoomInv(n), [Next]_vars PROVE RoomInv(n)'
<1>1. ASSUME NEW k \in Key,
             \/ \E ttl \in Ttl : Add(k, ttl)
             \/ \E ignore_expire \in BOOLEAN : Get(k, ignore_expire)
             \/ Rotate(k) \/ Zap(k) \/ Configure(k)
      PROVE  RoomInv(n)'
  BY <1>1, AddRoom, GetRoom, RotateRoom, ZapRoom, ConfigureRoom
<1>2. OrderInv'
  BY OrderNext DEF RoomInv
<1>3. CASE ExitAfterWrite \/ Crash
  BY <1>2, <1>3, EmptiedRoom DEF ExitAfterWrite, Crash, disk
<1>4. CASE SetTime \/ EndRead \/ EndWrite \/ UNCHANGED vars
  BY <1>2, <1>4 DEF SetTime, EndRead, EndWrite, vars, memory, disk, RoomInv,
                    Counts, OnlyServers, Running
<1>5. CASE DeleteFile \/ BeginWrite
  <2>1. UNCHANGED <<elements, fila, size, max, todo, servers>> /\ file' = << >>
    BY <1>5 DEF DeleteFile, BeginWrite, memory
  <2>2. Room(n, Len(file'))
    BY <2>1 DEF Room
  <2>3. pc' \in {"off", "refused"} \/ pc \notin {"off", "refused"}
    BY <1>5 DEF DeleteFile, BeginWrite
  <2> QED BY <1>2, <2>1, <2>2, <2>3 DEF RoomInv, Counts, OnlyServers, Running
<1> QED BY <1>1, <1>3, <1>4, <1>5, StartRoom, ReadElementRoom, WriteElementRoom
        DEF Next

LEMMA RoomInit == ASSUME NEW n \in Nat, Init PROVE RoomInv(n)
<1>1. Counts
  BY NothingCounted DEF Init, Counts
<1>2. OnlyServers /\ Running /\ Room(n, Len(fila)) /\ Room(n, Len(file))
  BY DEF Init, OnlyServers, Running, Room
<1> QED BY <1>1, <1>2, OrderInit DEF RoomInv

LEMMA RoomWithin ==
  ASSUME NEW n \in Nat, Roomy(n), RoomInv(n) PROVE WithinMaximum
<1>1. Cardinality(Stored) = Len(fila) + Cardinality(servers \ todo)
  BY DEF RoomInv, Counts, OrderInv, Inv, HashOK, SizeCounts
<1>2. fila \in Seq(Key) /\ Len(fila) \in Nat
  BY DEF RoomInv, OrderInv, Inv, HashOK
<1>3. CASE fila = << >>
  BY <1>3 DEF RoomInv, OnlyServers, OrderInv, Inv, HashOK, FilaMatchesHash,
              ToSet, WithinMaximum
<1>4. CASE fila # << >>
  <2>1. Cardinality(servers) = n
    BY <1>4 DEF RoomInv, OrderInv, OffOK, Running, Roomy
  <2>2. Cardinality(servers \ todo) <= n /\ Cardinality(servers \ todo) \in Nat
    <3>1. IsFiniteSet(servers) /\ servers \ todo \subseteq servers
      BY ServersFinite DEF RoomInv, OrderInv
    <3> QED BY <2>1, <3>1, FS_Subset, FS_CardinalityType
  <2>3. Len(fila) + n < CacheSize
    BY <1>2, <1>4 DEF RoomInv, Room
  <2> QED BY <1>1, <1>2, <2>2, <2>3, HashAssumption DEF WithinMaximum
<1> QED BY <1>3, <1>4

(***************************************************************************)
(* Deadwood.txt, maximum_cache_elements: whatever the keys, the TTLs, the  *)
(* clock and the crashes, the cache stays below the maximum of dwood3rc or *)
(* holds nothing but server entries; across restarts too, with as many     *)
(* servers as before.                                                      *)
(***************************************************************************)
THEOREM WithinMaximumTheorem ==
  ASSUME NEW n \in Nat, Roomy(n)
  PROVE  Spec => []WithinMaximum
<1>1. Init => RoomInv(n)
  BY RoomInit
<1>2. RoomInv(n) /\ [Next]_vars => RoomInv(n)'
  BY RoomNext
<1>3. RoomInv(n) => WithinMaximum
  BY RoomWithin
<1> QED BY <1>1, <1>2, <1>3, PTL DEF Spec
=============================================================================
