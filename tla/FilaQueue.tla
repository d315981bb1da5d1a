------------------------------ MODULE FilaQueue ------------------------------
(***************************************************************************)
(* What Deadwood's "fila" promises (DwHash.h, struct dw_fila): the nodes   *)
(* of a hash in the order of their last use, the most recent one first,    *)
(* and the least recent one as the only one a full hash gives up.          *)
(* DwFila implements this with a ring of pointers.                         *)
(***************************************************************************)
EXTENDS FilaOrder

CONSTANT Fila    \* the addresses malloc() can give to a struct dw_fila

VARIABLE queue

New(f) ==
  /\ f \notin ToSet(queue)
  /\ queue' = AtFront(queue, f)

Fetch(f) ==
  /\ f \in ToSet(queue)
  /\ queue' = MovedToFront(queue, f)

Zap(f) ==
  /\ f \in ToSet(queue)
  /\ queue' = Unlinked(queue, f)

Evict ==
  /\ queue # <<>>
  /\ queue' = Front(queue)

Init == queue = <<>>

Next ==
  \/ \E f \in Fila : New(f) \/ Fetch(f) \/ Zap(f)
  \/ Evict

Spec == Init /\ [][Next]_queue
=============================================================================
