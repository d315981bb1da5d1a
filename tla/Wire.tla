-------------------------------- MODULE Wire --------------------------------
(***************************************************************************)
(* DNS packets, as far as names and their compression go.  A packet is a   *)
(* sequence of cells, and an offset counts the cells before it.  A label   *)
(* has as many cells as Width gives it; its end, a pointer, the header,    *)
(* each field of fixed size and each character of a text have one each.    *)
(***************************************************************************)
EXTENDS Integers, SequencesExt

CONSTANT Width   \* cells of a label, by label

Cell(kind, of, n) == [kind |-> kind, of |-> of, n |-> n]
Root == Cell("root", "", 0)
Pointer(n) == Cell("pointer", "", n)
Header(n) == Cell("header", "", n)      \* with the number of records
Type(type) == Cell("type", type, 0)     \* with class and TTL
Class == Cell("class", "", 0)
Length(n) == Cell("length", "", n)
Count(n) == Cell("count", "", n)        \* of the characters of a text
Data(d) == Cell("data", d, 0)
LabelCells(l) == <<Cell("label", l, 0)>> \o [i \in 1..(Width[l] - 1) |-> Cell("rest", l, 0)]

At(p, off) == p[off + 1]
From(p, off, n) == SubSeq(p, off + 1, off + n)
NameCells(name) == FlattenSeq([i \in DOMAIN name |-> LabelCells(name[i])]) \o <<Root>>

(***************************************************************************)
(* Messages: a question and records, whose data is a sequence of parts,    *)
(* names or cells.                                                         *)
(***************************************************************************)
NamePart(name) == [isName |-> TRUE, name |-> name, cells |-> <<>>]
DataPart(cells) == [isName |-> FALSE, name |-> <<>>, cells |-> cells]
Record(owner, type, parts) == [owner |-> owner, type |-> type, parts |-> parts]

PartCells(part) == IF part.isName THEN NameCells(part.name) ELSE part.cells
DataCells(rr) == FlattenSeq([i \in DOMAIN rr.parts |-> PartCells(rr.parts[i])])
RecordCells(rr) ==
  NameCells(rr.owner) \o <<Type(rr.type), Length(Len(DataCells(rr)))>> \o DataCells(rr)

Question(m) == NameCells(m.q) \o <<Type(m.type)>>
Plain(m) ==
  <<Header(Len(m.rrs))>> \o Question(m) \o <<Class>>
  \o FlattenSeq([i \in DOMAIN m.rrs |-> RecordCells(m.rrs[i])])

(***************************************************************************)
(* The packets that RFC 1035 allows for a message: a name may end in a     *)
(* pointer to where the rest of it was written before.                     *)
(***************************************************************************)
RECURSIVE NameAt(_, _)
NameAt(p, off) ==
  CASE At(p, off).kind = "label" -> <<At(p, off).of>> \o NameAt(p, off + Width[At(p, off).of])
    [] At(p, off).kind = "pointer" -> NameAt(p, At(p, off).n)
    [] OTHER -> <<>>

Targets(p, name) ==
  {off \in 1..(Len(p) - 1) : At(p, off).kind = "label" /\ NameAt(p, off) = name}

WrittenNames(p, name) ==
  {p \o NameCells(name)}
  \cup UNION {{p \o FlattenSeq([i \in 1..k |-> LabelCells(name[i])]) \o <<Pointer(off)>> :
                 off \in Targets(p, SubSeq(name, k + 1, Len(name)))} :
              k \in 0..(Len(name) - 1)}

RECURSIVE WrittenParts(_, _)
WrittenParts(p, parts) ==
  IF parts = <<>> THEN {p}
  ELSE UNION {WrittenParts(w, Tail(parts)) :
                w \in IF Head(parts).isName THEN WrittenNames(p, Head(parts).name)
                                            ELSE {p \o Head(parts).cells}}

\* Which records may have pointers in their data (RFC 3597).
MayPoint == {"NS", "CNAME", "PTR", "MX", "SOA"}

Measured(p, at) == [p EXCEPT ![at + 1] = Length(Len(p) - at - 1)]

WrittenRecord(p, rr) ==
  UNION {LET head == w \o <<Type(rr.type), Length(0)>>
         IN {Measured(d, Len(head) - 1) :
               d \in IF rr.type \in MayPoint THEN WrittenParts(head, rr.parts)
                                             ELSE {head \o DataCells(rr)}} :
         w \in WrittenNames(p, rr.owner)}

RECURSIVE WrittenRecords(_, _)
WrittenRecords(p, rrs) ==
  IF rrs = <<>> THEN {p}
  ELSE UNION {WrittenRecords(w, Tail(rrs)) : w \in WrittenRecord(p, Head(rrs))}

Written(m) ==
  WrittenRecords(<<Header(Len(m.rrs))>> \o Question(m) \o <<Class>>, m.rrs)
=============================================================================
