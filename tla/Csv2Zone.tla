------------------------------ MODULE Csv2Zone ------------------------------
(***************************************************************************)
(* A zone file, written by the rules of the manual page csv2, and read     *)
(* record by record.                                                       *)
(***************************************************************************)
EXTENDS Csv2, FiniteSets

CONSTANTS
  Entries,       \* what a line may say; one line of a file does
  Common,        \* what any line may say: the slash commands, and Plain
  Plain,         \* a record
  Included,      \* the entries of the files beside the zone file, by name
  Layouts,       \* how lines may be written
  Scribbles,     \* what may be between two records in the place of an end
  Zone,          \* the name of the zone
  MaxLines

VARIABLES
  layout,        \* how this file is written
  zonefile,      \* its text
  means,         \* the origin, default TTL, stack and records so far
  gaps,          \* the scribbles so far
  reader         \* csv2_read and csv2_add_state; no record before the file is opened

vars == <<layout, zonefile, means, gaps, reader>>

-----------------------------------------------------------------------------
(* Writing *)

Full(name, origin) ==
  IF name # <<>> /\ Last(name) = "%" THEN Front(name) \o origin ELSE name

\* The fields of an entry with what the layout has between them.
Line(fields) ==
  FlattenSeq([i \in 1..Len(fields) |-> IF i = 1 THEN fields[i] ELSE layout.gap \o fields[i]])

\* The end of a line: a tilde where the layout has them, and perhaps a comment.
\* WKS records and /read need a blank before it, and no comment.
End(bare) ==
  (IF bare \/ layout.comment \/ layout.tilde THEN <<" ">> ELSE <<>>)
    \o (IF layout.comment /\ ~bare THEN <<"#", "~", "\n">> ELSE <<>>)
    \o (IF layout.tilde THEN <<"~">> ELSE <<>>) \o <<"\n">>

\* What one entry means after others.
Meaning(m, e) ==
  CASE e.kind = "ttl" -> [m EXCEPT !.ttl = e.value]
    [] e.kind = "origin" -> [m EXCEPT !.origin = Full(e.value, @)]
    [] e.kind = "opush" -> [m EXCEPT !.origin = Full(e.value, @), !.stack = <<m.origin>> \o @]
    [] e.kind = "opop" -> [m EXCEPT !.origin = Head(m.stack), !.stack = Tail(@)]
    [] e.kind = "rr" ->
         [m EXCEPT !.rrs = Append(@,
            [name |-> Full(e.name, m.origin), ttl |-> IF e.ttl = <<>> THEN m.ttl ELSE e.ttl,
             type |-> e.type, data |-> [i \in 1..Len(e.data) |-> Full(e.data[i], m.origin)]])]

\* What the manual page says of a place: no /opop without /opush, and what may
\* come first while it is open whether there are tildes.
Allowed(e) ==
  /\ e.kind = "opop" => means.stack # <<>>
  /\ e.late => layout.handling # 2 \/ zonefile # <<>>

Write(e) ==
  /\ reader = <<>>
  /\ ~layout.scribbled
  /\ Len(means.lines) < MaxLines
  /\ e \in Entries => \A i \in 1..Len(means.lines) : means.lines[i] = "common"
  /\ Allowed(e)
  /\ zonefile' = zonefile \o Line(e.fields) \o End(e.bare)
  /\ means' = [Meaning(means, e) EXCEPT !.lines = Append(@, IF e \in Entries THEN "entry" ELSE "common")]
  /\ UNCHANGED <<layout, gaps, reader>>

\* /read: a file with tildes if this one has them.
WriteRead(name) ==
  LET file == <<name, IF layout.tilde THEN "with" ELSE "without">>
  IN /\ reader = <<>>
     /\ ~layout.scribbled
     /\ Len(means.lines) < MaxLines
     /\ layout.handling # 2 \/ zonefile # <<>>
     /\ zonefile' = zonefile \o Line(<<<<"/", "read">>, file>>) \o End(TRUE)
     /\ means' = [FoldLeft(Meaning, means, Included[name]) EXCEPT !.lines = Append(@, "common")]
     /\ UNCHANGED <<layout, gaps, reader>>

\* A record, and something that may or may not separate it from the next.
Scribble(s) ==
  /\ reader = <<>>
  /\ layout.scribbled
  /\ Len(gaps) < MaxLines
  /\ zonefile' = zonefile \o Line(Plain.fields) \o <<" ">> \o s \o <<"\n">>
  /\ gaps' = Append(gaps, s)
  /\ means' = Meaning(means, Plain)
  /\ UNCHANGED <<layout, reader>>

-----------------------------------------------------------------------------
(* Reading *)

Start ==
  /\ reader = <<>>
  /\ zonefile # <<>>
  /\ reader' = <<Open(zonefile, Zone, layout.handling)>>
  /\ UNCHANGED <<layout, zonefile, means, gaps>>

\* The loop over csv2_read_rr ends with the first that gives no record.
ReadNext ==
  /\ reader # <<>>
  /\ reader[1].res = "ok"
  /\ reader' = <<ReadRr(reader[1])>>
  /\ UNCHANGED <<layout, zonefile, means, gaps>>

Init ==
  /\ layout \in Layouts
  /\ zonefile = <<>>
  /\ means = [origin |-> Zone, ttl |-> <<"86400">>, stack |-> <<>>, rrs |-> <<>>, lines |-> <<>>]
  /\ gaps = <<>>
  /\ reader = <<>>

Next ==
  \/ \E e \in Entries \cup Common : Write(e)
  \/ \E name \in DOMAIN Included : WriteRead(name)
  \/ \E s \in Scribbles : Scribble(s)
  \/ Start
  \/ ReadNext

Spec == Init /\ [][Next]_vars

-----------------------------------------------------------------------------
(* Properties *)

(***************************************************************************)
(* csv2_read_rr gives the records that the manual page says a file has,    *)
(* in their order, with the TTL and the origin of their place, and no      *)
(* other; and it gives all of them.                                        *)
(***************************************************************************)
ReadsAsWritten ==
  reader # <<>> /\ ~layout.scribbled =>
    /\ IsPrefix(reader[1].rrs, means.rrs)
    /\ reader[1].res # "ok" => reader[1].res = "end" /\ reader[1].rrs = means.rrs

\* The tildes of a scribble that are not in a comment.
Tildes(s) ==
  Cardinality({i \in 1..Len(s) : s[i] = "~" /\
    ~\E k \in 1..i : s[k] = "#" /\ \A l \in k..i : s[l] # "\n"})

(***************************************************************************)
(* csv2_tilde_handling (mararc): what is between two records that were     *)
(* read has no tilde outside of comments with 0 and 1, one with 3, and     *)
(* with 2 either no gap has one or each has one.                           *)
(***************************************************************************)
TildesSeparate ==
  reader # <<>> /\ layout.scribbled =>
    \A i \in 1..(Len(reader[1].rrs) - 1) :
      Tildes(gaps[i]) \in CASE layout.handling \in {0, 1} -> {0}
                            [] layout.handling = 2 -> {0, 1} \cap {Tildes(gaps[1])}
                            [] layout.handling = 3 -> {1}
=============================================================================
