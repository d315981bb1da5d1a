------------------------------ MODULE FilaOrder ------------------------------
(***************************************************************************)
(* The order of last use of a hash's records as a sequence, the most       *)
(* recently used first, and what a call of DwHash.c does to it.            *)
(***************************************************************************)
EXTENDS Naturals, Sequences, SequencesExt

\* dwh_fila_new: f becomes the most recently used one.
AtFront(q, f) == <<f>> \o q

\* dwh_fila_zap: f, which occurs once in q, leaves; the others keep their order.
Unlinked(q, f) ==
  LET at == CHOOSE i \in 1..Len(q) : q[i] = f
  IN  [i \in 1..(Len(q) - 1) |-> IF i < at THEN q[i] ELSE q[i + 1]]

\* dwh_fila_fetch
MovedToFront(q, f) == AtFront(Unlinked(q, f), f)

NoDuplicate(q) == \A i, j \in 1..Len(q) : q[i] = q[j] => i = j
=============================================================================
