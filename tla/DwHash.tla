------------------------------- MODULE DwHash -------------------------------
(***************************************************************************)
(* Deadwood's cache: the hash of DwHash.c with its "fila" (use_fila 1),    *)
(* the life of its file (dwh_write_hash, dwh_read_hash) and the start of   *)
(* the process that fills it (init_cache, process_root_upstream).          *)
(*                                                                         *)
(* A record is its expire time and its immutable flag: the value a record  *)
(* carries, and the bucket chains that find a key, decide nothing here.    *)
(* Time is in seconds.  Every call but the two loops over the file is one  *)
(* step, because Deadwood is single-threaded; the loops are taken element  *)
(* by element so that the process can die between any two of them.         *)
(***************************************************************************)
EXTENDS FilaOrder, FiniteSets

CONSTANTS
  Key,              \* the cache's keys: a query name and type
  Configs,          \* the sets of names that dwood3rc can list as servers
  CacheSize,        \* maximum_cache_elements
  LeastCacheSize,   \* 32, the least value maximum_cache_elements may have
  StandardCacheSize,\* 1024, taken "when cache_size is strange"
  MinTtl, MaxTtl,   \* dwh_init_element's bounds on a record's life
  FarFuture,        \* 24219648000 ticks: expiry further away is not believed
  Ttl,              \* the TTLs that upstream servers send
  MaxTime,          \* bound: the clock stays in 0..MaxTime
  HeapByte          \* what an int8_t of fresh malloc() memory can hold

ASSUME HashAssumption ==
  /\ IsFiniteSet(Key)
  /\ Configs \subseteq (SUBSET Key) \ {{}}
  /\ LeastCacheSize \in Nat /\ LeastCacheSize >= 2
  /\ CacheSize \in Nat /\ CacheSize >= LeastCacheSize
  /\ StandardCacheSize \in Nat /\ StandardCacheSize >= LeastCacheSize
  /\ MinTtl \in Nat /\ MinTtl >= 2 /\ MaxTtl \in Nat /\ MinTtl <= MaxTtl
  /\ FarFuture \in Nat /\ MaxTtl <= FarFuture
  /\ Ttl \subseteq Nat
  /\ MaxTime \in Nat
  /\ HeapByte \subseteq Int /\ HeapByte # {}

VARIABLES
  elements,   \* the records: a function on the keys that are stored
  fila,       \* the keys by last use, the most recently used first
  size, max,  \* hash->size, hash->max
  now,        \* the_time
  pc,         \* where the process is: see TypeOK
  todo,       \* the server entries dwood3rc still has to add
  servers,    \* the server entries of the dwood3rc this process read
  at,         \* the next fila or file position of the loop pc is in
  file,       \* the records in the cache file, least recently used first
  marked      \* the file exists and starts with the DW3 marker

memory == <<elements, fila, size, max, todo, servers, at>>
disk   == <<file, marked>>
vars   == <<memory, disk, now, pc>>

Record == [expire : Nat, immutable : HeapByte \union {0, 1}]

TypeOK ==
  /\ DOMAIN elements \subseteq Key
  /\ \A k \in DOMAIN elements : elements[k] \in Record
  /\ fila \in Seq(Key)
  /\ size \in Nat
  /\ max \in Nat
  /\ now \in 0..MaxTime
  /\ pc \in {"off", "reading", "configuring", "refused", "serving", "writing"}
  /\ todo \subseteq Key
  /\ servers \subseteq Key
  /\ at \in Nat
  /\ file \in Seq([key : Key, expire : Nat])
  /\ marked \in BOOLEAN

Stored == DOMAIN elements

Init ==
  /\ elements = << >> /\ fila = << >> /\ size = 0 /\ max = 0
  /\ todo = {} /\ servers = {} /\ at = 0
  /\ now = 0
  /\ pc = "off"
  /\ file = << >> /\ marked = FALSE

-----------------------------------------------------------------------------
(***************************************************************************)
(* The operations on the hash.                                             *)
(***************************************************************************)
With(f, k, r) == [j \in DOMAIN f \union {k} |-> IF j = k THEN r ELSE f[j]]

Without(f, k) == [j \in DOMAIN f \ {k} |-> f[j]]

\* Mutant: the flag is not looked at.
Removable_always(k) == TRUE

\* dwh_zap's refusal, which is also that of dwh_place_new and dwh_add.
Removable(k) == k \in Stored => elements[k].immutable # 1

\* Mutant: the fila node of the record that is replaced stays linked.
Requeued_linked(k) == AtFront(fila, k)

\* The record of the same key goes, and a new one comes in front.
Requeued(k) == AtFront(IF k \in Stored THEN Unlinked(fila, k) ELSE fila, k)

\* Mutant: a record that is replaced counts twice.
Counted_twice(k) == size + 1

Counted(k) == IF k \in Stored THEN size ELSE size + 1

\* Mutant: the hash takes one record too many.
Full_late(count) == count > max

Full(count) == count >= max

\* Mutant: the record next to the new one is given up, not the last.
Victim_newest(queue) == IF Len(queue) > 1 THEN queue[2] ELSE queue[1]

Victim(queue) == Last(queue)

(***************************************************************************)
(* dwh_place_new with use_fila 1: a full hash gives up the key that is     *)
(* last in the fila.  dwh_fila_zap has unlinked that key when dwh_zap      *)
(* refuses to remove an immutable record, which then stays in the hash and *)
(* in its size.                                                            *)
(***************************************************************************)
Place(k, r) ==
  LET queue  == Requeued(k)
      count  == Counted(k)
      all    == With(elements, k, r)
      victim == Victim(queue)
      goes   == all[victim].immutable # 1
  IN  IF ~Full(count)
      THEN /\ fila' = queue
           /\ elements' = all
           /\ size' = count
      ELSE /\ fila' = Unlinked(queue, victim)
           /\ elements' = IF goes THEN Without(all, victim) ELSE all
           /\ size' = IF goes THEN count - 1 ELSE count

\* Mutant: the TTL is taken as it comes.
Expiry_unbounded(ttl) == now + ttl

\* dwh_init_element's expiry time for a positive TTL.
Expiry(ttl) ==
  now + (IF ttl < MinTtl THEN MinTtl ELSE IF ttl > MaxTtl THEN MaxTtl ELSE ttl)

\* dwh_get's test on the record of k: an expiry of 0 is "never".
Fresh(k) ==
  LET e == elements[k].expire
  IN  e = 0 \/ (now <= e /\ e <= now + FarFuture)

\* dwh_add of an answer with a TTL, use_fila 1.
Add(k, ttl) ==
  /\ pc = "serving"
  /\ ttl > 0
  /\ Removable(k)
  /\ Place(k, [expire |-> Expiry(ttl), immutable |-> 0])
  /\ UNCHANGED <<max, todo, servers, at, disk, now, pc>>

\* dwh_get with use_fila 1, when it finds a record that is not immutable.
Get(k, ignore_expire) ==
  /\ pc = "serving"
  /\ k \in Stored
  /\ ignore_expire \/ Fresh(k)
  /\ elements[k].immutable = 0
  /\ fila' = MovedToFront(fila, k)
  /\ UNCHANGED <<elements, size, max, todo, servers, at, disk, now, pc>>

(***************************************************************************)
(* dwc_process: the record is fetched, aged or rotated, and added again    *)
(* with TTL -2, which keeps the expiry time it has.  A record that lives   *)
(* longer than a year has no TTL to age and is only fetched.               *)
(***************************************************************************)
Rotate(k) ==
  /\ pc = "serving"
  /\ k \in Stored
  /\ Fresh(k)
  /\ elements[k].expire >= now
  /\ Removable(k)
  /\ Place(k, [expire |-> elements[k].expire, immutable |-> 0])
  /\ UNCHANGED <<max, todo, servers, at, disk, now, pc>>

\* Mutant: the size goes down here and in the caller.
Zap_countedTwice(k) ==
  /\ pc = "serving"
  /\ k \in Stored
  /\ Removable(k)
  /\ elements' = Without(elements, k)
  /\ fila' = Unlinked(fila, k)
  /\ size' = size - 2
  /\ UNCHANGED <<max, todo, servers, at, disk, now, pc>>

\* dwh_zap with a key and use_fila 1.
Zap(k) ==
  /\ pc = "serving"
  /\ k \in Stored
  /\ Removable(k)
  /\ elements' = Without(elements, k)
  /\ fila' = Unlinked(fila, k)
  /\ size' = IF size > 0 THEN size - 1 ELSE size
  /\ UNCHANGED <<max, todo, servers, at, disk, now, pc>>

\* set_time: the clock of the machine can be set either way.
SetTime ==
  /\ pc \in {"off", "serving"}
  /\ now' \in 0..MaxTime
  /\ UNCHANGED <<memory, disk, pc>>

-----------------------------------------------------------------------------
(***************************************************************************)
(* The life of the process and of the cache file.                          *)
(***************************************************************************)
Emptied ==
  /\ elements' = << >> /\ fila' = << >> /\ size' = 0 /\ max' = 0
  /\ todo' = {} /\ servers' = {} /\ at' = 0

\* init_cache, up to the loop of dwh_read_hash: without a file that has the
\* marker the hash is a new one of CacheSize elements.
Start ==
  /\ pc = "off"
  /\ servers' \in Configs
  /\ todo' = servers'
  /\ max' = IF marked /\ CacheSize <= LeastCacheSize
            THEN StandardCacheSize ELSE CacheSize
  /\ at' = 1
  /\ pc' = IF marked THEN "reading" ELSE "configuring"
  /\ UNCHANGED <<elements, fila, size, disk, now>>

\* dwh_get_hash_element rejects this one, and the loop ends.
Legible == at <= Len(file) /\ file[at].expire >= 2

\* One round of dwh_read_hash: dwh_get_hash_element leaves immutable as
\* malloc() gave it.
ReadElement ==
  /\ pc = "reading"
  /\ Legible
  /\ Removable(file[at].key)
  /\ \E byte \in HeapByte :
       Place(file[at].key, [expire |-> file[at].expire, immutable |-> byte])
  /\ at' = at + 1
  /\ UNCHANGED <<max, todo, servers, disk, now, pc>>

EndRead ==
  /\ pc = "reading"
  /\ ~Legible
  /\ pc' = "configuring"
  /\ UNCHANGED <<memory, disk, now>>

\* Mutant: a server entry is added as any other record is.
Configure_ordinary(k) ==
  /\ pc = "configuring"
  /\ k \in todo
  /\ IF k \in Stored
     THEN /\ pc' = "refused"
          /\ Emptied
     ELSE /\ Place(k, [expire |-> 0, immutable |-> 0])
          /\ todo' = todo \ {k}
          /\ pc' = IF todo' = {} THEN "serving" ELSE pc
          /\ UNCHANGED <<max, servers, at>>
  /\ UNCHANGED <<disk, now>>

\* process_root_upstream_servers: a server entry is added with use_fila 2,
\* unless its key is there already, which ends the program.
Configure(k) ==
  /\ pc = "configuring"
  /\ k \in todo
  /\ IF k \in Stored
     THEN /\ pc' = "refused"
          /\ Emptied
     ELSE /\ elements' = With(elements, k, [expire |-> 0, immutable |-> 1])
          /\ size' = size + 1
          /\ todo' = todo \ {k}
          /\ pc' = IF todo' = {} THEN "serving" ELSE pc
          /\ UNCHANGED <<fila, max, servers, at>>
  /\ UNCHANGED <<disk, now>>

\* "Please delete the cache file if making changes to the dwood3rc file".
DeleteFile ==
  /\ pc = "refused"
  /\ file' = << >>
  /\ marked' = FALSE
  /\ pc' = "off"
  /\ UNCHANGED <<memory, now>>

\* process_signal and the fopen(...,"wb") of dwh_write_hash.
BeginWrite ==
  /\ pc = "serving"
  /\ pc' = "writing"
  /\ file' = << >>
  /\ marked' = TRUE
  /\ at' = Len(fila)
  /\ UNCHANGED <<elements, fila, size, max, todo, servers, now>>

\* Mutant: the file is written from the newest record on.
WriteElement_reversed ==
  /\ pc = "writing"
  /\ at > 0
  /\ LET e == elements[fila[at]].expire
     IN  file' = IF e = 0 THEN file
                 ELSE <<[key |-> fila[at], expire |-> e]>> \o file
  /\ at' = at - 1
  /\ UNCHANGED <<elements, fila, size, max, todo, servers, marked, now, pc>>

\* One round of the loop of dwh_write_hash; dwh_put_hash_element leaves out
\* a record that never expires.
WriteElement ==
  /\ pc = "writing"
  /\ at > 0
  /\ LET e == elements[fila[at]].expire
     IN  file' = IF e = 0 THEN file
                 ELSE Append(file, [key |-> fila[at], expire |-> e])
  /\ at' = at - 1
  /\ UNCHANGED <<elements, fila, size, max, todo, servers, marked, now, pc>>

\* SIGUSR1: the program goes on.
EndWrite ==
  /\ pc = "writing"
  /\ at = 0
  /\ pc' = "serving"
  /\ UNCHANGED <<memory, disk, now>>

\* SIGTERM, SIGINT, SIGHUP: it exits.
ExitAfterWrite ==
  /\ pc = "writing"
  /\ at = 0
  /\ pc' = "off"
  /\ Emptied
  /\ UNCHANGED <<disk, now>>

\* The process dies.  What stdio has not flushed is missing from the file:
\* a shorter file is one that died earlier, an empty one may lack the marker.
Crash ==
  /\ pc \notin {"off", "refused"}
  /\ pc' = "off"
  /\ Emptied
  /\ marked' \in IF pc = "writing" /\ file = << >> THEN BOOLEAN ELSE {marked}
  /\ UNCHANGED <<file, now>>

Next ==
  \/ \E k \in Key :
       \/ \E ttl \in Ttl : Add(k, ttl)
       \/ \E ignore_expire \in BOOLEAN : Get(k, ignore_expire)
       \/ Rotate(k)
       \/ Zap(k)
       \/ Configure(k)
  \/ SetTime
  \/ Start \/ ReadElement \/ EndRead \/ DeleteFile
  \/ BeginWrite \/ WriteElement \/ EndWrite \/ ExitAfterWrite
  \/ Crash

Spec == Init /\ [][Next]_vars

-----------------------------------------------------------------------------
(***************************************************************************)
(* Properties.                                                             *)
(***************************************************************************)

(***************************************************************************)
(* dwh_hsck_fila: the fila holds each of its records once, every record of *)
(* the fila is one of the hash (so no call follows a freed pointer), and   *)
(* what is missing from it is what dwh_zap refuses to remove.              *)
(***************************************************************************)
FilaMatchesHash ==
  /\ NoDuplicate(fila)
  /\ ToSet(fila) \subseteq Stored
  /\ \A k \in Stored \ ToSet(fila) : elements[k].immutable = 1

\* dwh_hsck_chains: hash->size counts the records that are in the chains.
SizeCounts == size = Cardinality(Stored)

(***************************************************************************)
(* Deadwood.txt, maximum_cache_elements: the hash never holds more (it     *)
(* stops one short), and "each root_servers and upstream_servers entry     *)
(* takes up space" in it.  Across restarts too: the records that the file  *)
(* brings back leave room for the server entries added after them, when    *)
(* those are as many as they were.                                         *)
(***************************************************************************)
WithinMaximum ==
  Cardinality(Stored) < CacheSize \/ Stored \subseteq servers

(***************************************************************************)
(* Once Deadwood serves, every server entry of its configuration is in the *)
(* cache, never expires and cannot be removed: without them nothing can be *)
(* resolved.                                                               *)
(***************************************************************************)
ServersStay ==
  pc \in {"serving", "writing"} =>
    \A k \in servers : /\ k \in Stored
                       /\ elements[k] = [expire |-> 0, immutable |-> 1]

(***************************************************************************)
(* A process with the same dwood3rc as before starts: no cache file that   *)
(* Deadwood wrote holds the key of a server entry ("Same entry can not be  *)
(* in both" ends the program).                                             *)
(***************************************************************************)
NeverRefused == pc # "refused"

\* j was used more recently than k.
Ahead(j, k) == \E x, y \in 1..Len(fila) : x < y /\ fila[x] = j /\ fila[y] = k

(***************************************************************************)
(* A step other than its own removal makes k disappear only when the hash  *)
(* is full, and then every record that stays in the fila, but the one the  *)
(* step puts in front, was used more recently than k.                      *)
(***************************************************************************)
DropsOnlyTheOldest ==
  [][pc' = pc => \A k \in Stored \ DOMAIN elements' :
       \/ Zap(k)
       \/ /\ size + 1 >= max
          /\ \A j \in ToSet(fila') \ {Head(fila')} : Ahead(j, k)]_vars

(***************************************************************************)
(* No step makes up an expiry time: a record that is new in memory, or has *)
(* another expiry time than before, was added now with a life between      *)
(* MinTtl and MaxTtl, or is in the file, or is a server entry; and what a  *)
(* step puts in the file is in memory.  So a record neither outlives the   *)
(* TTL it was added with nor changes by being rotated, saved or restored.  *)
(***************************************************************************)
NothingInvented ==
  [][ /\ \A k \in DOMAIN elements' :
           LET e == elements'[k].expire
           IN  \/ k \in Stored /\ e = elements[k].expire
               \/ pc = "serving" /\ e \in (now + MinTtl)..(now + MaxTtl)
               \/ pc = "reading" /\ [key |-> k, expire |-> e] \in ToSet(file)
               \/ pc = "configuring" /\ k \in servers /\ e = 0
      /\ \A r \in ToSet(file') \ ToSet(file) :
           r.key \in Stored /\ r.expire = elements[r.key].expire ]_vars

\* The keys of the file, the last one first.
Backwards == [i \in 1..Len(file) |-> file[Len(file) + 1 - i].key]

(***************************************************************************)
(* A restart keeps the order of use: a file that is written to its end is  *)
(* the fila backwards, all of it, and so is the fila when a file has been  *)
(* read to its end.  So the first record given up after a restart is the   *)
(* one that would have been given up before it.                            *)
(***************************************************************************)
RestartKeepsOrder ==
  [][EndWrite \/ ExitAfterWrite \/ EndRead => fila = Backwards]_vars
=============================================================================
