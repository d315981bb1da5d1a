------------------------------- MODULE DwFila -------------------------------
(***************************************************************************)
(* The circular doubly linked list ("fila") in which a Deadwood hash keeps *)
(* its records in the order of their last use, pointer by pointer          *)
(* (DwHash.c, dwh_fila_new, dwh_fila_zap and dwh_fila_fetch).              *)
(*                                                                         *)
(* head is hash->fila; next and last are the two pointers of every struct  *)
(* dw_fila that malloc() has ever returned, so those of a freed one keep   *)
(* the address they had; live is what is allocated now.                    *)
(***************************************************************************)
EXTENDS Naturals, Sequences, FiniteSets

CONSTANTS Fila,    \* the addresses malloc() can give to a struct dw_fila
          Null     \* the null pointer

ASSUME FilaAssumption ==
  /\ IsFiniteSet(Fila)
  /\ Null \notin Fila

VARIABLES head, next, last, live

vars == <<head, next, last, live>>

TypeOK ==
  /\ live \subseteq Fila
  /\ head \in live \union {Null}
  /\ next \in [Fila -> Fila \union {Null}]
  /\ last \in [Fila -> Fila \union {Null}]

Init ==
  /\ head = Null
  /\ live = {}
  /\ next = [f \in Fila |-> Null]
  /\ last = [f \in Fila |-> Null]

-----------------------------------------------------------------------------
(***************************************************************************)
(* The two pointer arrays after f is cut out of the ring, and those after  *)
(* f is put in front of head in the arrays nx and lt.  Each is the         *)
(* sequence of assignments of the code: the list of one node and the list  *)
(* of two alias the pointers that are read.                                *)
(***************************************************************************)
NextCut(f) == [next EXCEPT ![last[f]] = next[f]]

\* Mutant: the node behind keeps its pointer to the one that is freed.
LastCut_forgotten(f) == last

LastCut(f) == [last EXCEPT ![next[f]] = last[f]]

NextPut(nx, lt, f) == [nx EXCEPT ![f] = head, ![lt[head]] = f]

LastPut(lt, f) == [lt EXCEPT ![f] = lt[head], ![head] = f]

\* Mutants: the pointer to the freed node stays in hash->fila; the last node
\* of the ring is taken for the only one.
HeadCut_stale(f) ==
  IF f # head THEN head ELSE IF next[f] = f THEN head ELSE next[f]

HeadCut_emptied(f) == IF f # head THEN head ELSE Null

\* hash->fila once f is cut: the next node if f was the first one, null if
\* f was also the only one.
HeadCut(f) ==
  IF f # head THEN head
  ELSE IF next[f] = f THEN Null ELSE next[f]

\* dwh_fila_new
New(f) ==
  /\ f \notin live
  /\ live' = live \union {f}
  /\ head' = f
  /\ IF head = Null
     THEN /\ next' = [next EXCEPT ![f] = f]
          /\ last' = [last EXCEPT ![f] = f]
     ELSE /\ next' = NextPut(next, last, f)
          /\ last' = LastPut(last, f)

\* dwh_fila_zap
Zap(f) ==
  /\ f \in live
  /\ next' = NextCut(f)
  /\ last' = LastCut(f)
  /\ head' = HeadCut(f)
  /\ live' = live \ {f}

\* dwh_fila_fetch: the first node is already where it belongs.
Fetch(f) ==
  /\ f \in live
  /\ f # head
  /\ next' = NextPut(NextCut(f), LastCut(f), f)
  /\ last' = LastPut(LastCut(f), f)
  /\ head' = f
  /\ UNCHANGED live

\* Mutant: the newest record is given up.
Evict_newest == head # Null /\ Zap(head)

\* dwh_place_new on a full hash: dwh_fila_zap(hash,hash->fila->last,1).
Evict ==
  /\ head # Null
  /\ Zap(last[head])

Next ==
  \/ \E f \in Fila : New(f) \/ Fetch(f) \/ Zap(f)
  \/ Evict

Spec == Init /\ [][Next]_vars

-----------------------------------------------------------------------------
(***************************************************************************)
(* What dwh_hsck_onefila reports on, for every allocated node and not only *)
(* for those it reaches: both neighbours are allocated and point back.     *)
(***************************************************************************)
RingLinked ==
  \A f \in live :
    /\ next[f] \in live
    /\ last[f] \in live
    /\ last[next[f]] = f
    /\ next[last[f]] = f

(***************************************************************************)
(* There is one ring: whatever contains head and is closed under next      *)
(* holds every allocated node.  A node outside it could never be evicted,  *)
(* and dwh_fila_zap would lose the ring with the node it takes for the     *)
(* last one (DwHash.c, "Corner case: Zapping only fila element").          *)
(***************************************************************************)
RingWhole ==
  /\ head = Null <=> live = {}
  /\ \A S \in SUBSET live :
       (head \in S /\ \A f \in S : next[f] \in S) => S = live

(***************************************************************************)
(* The order that the ring stands for: follow next from head, as many      *)
(* steps as there are nodes.                                               *)
(***************************************************************************)
Order ==
  LET walk[i \in 1..Cardinality(live)] ==
        IF i = 1 THEN head ELSE next[walk[i - 1]]
  IN  walk

Abstract == INSTANCE FilaQueue WITH queue <- Order

(***************************************************************************)
(* The ring behaves as the queue of records by last use, call by call: a   *)
(* fetch moves one record to the front and keeps the order of the others,  *)
(* and the record that a full hash evicts, hash->fila->last, is the least  *)
(* recently used.                                                          *)
(***************************************************************************)
RefinesQueue ==
  /\ Abstract!Spec
  /\ [][ /\ Evict => Abstract!Evict
         /\ \A f \in Fila : /\ New(f) => Abstract!New(f)
                            /\ Fetch(f) => Abstract!Fetch(f)
                            /\ Zap(f) => Abstract!Zap(f) ]_vars
=============================================================================
