----------------------------- MODULE MaraCodec ------------------------------
(***************************************************************************)
(* The packet codec of MaraDNS: compress_data of dns/Compress.c, which     *)
(* gives names pointers, and decompress_data of dns/Decompress.c, which    *)
(* takes them out.  Both work on the packet as it goes over the wire.      *)
(***************************************************************************)
EXTENDS Wire

CONSTANTS
  MaxPoints,     \* MAX_DLABEL_POINTS - 10: names that can be pointed to
  MaxCompressed, \* MAX_COMPRESSED_LEN: what fits in a packet
  MaxDlabel      \* MAX_DLABEL_LEN: what fits in a name

Failed == <<>>

\* rr_descs: the fields of a record's data, and whether its names are
\* compressed.  Neighbours of fixed size are one field.
Descriptions ==
  [A |-> <<"fixed">>, NS |-> <<"name">>, CNAME |-> <<"name">>, PTR |-> <<"name">>,
   MX |-> <<"fixed", "name">>, SOA |-> <<"name", "name", "fixed">>,
   TXT |-> <<"text", "rest">>, SRV |-> <<"fixed", "name">>,
   RP |-> <<"name", "name">>]
ToCompress == {"MX", "NS", "SOA", "PTR", "CNAME"}

Fields(type) ==
  IF type \in DOMAIN Descriptions THEN Descriptions[type] ELSE <<"rest">>

\* decomp_get_label: the labels of a name, from the one at off on; pointers
\* have to go back, and not into the header.
RECURSIVE Labels(_, _, _)
Labels(p, off, room) ==
  IF off >= Len(p) THEN [ok |-> FALSE, name |-> <<>>]
  ELSE LET cell == At(p, off) IN
    CASE cell.kind = "root" /\ room > 0 -> [ok |-> TRUE, name |-> <<>>]
      [] cell.kind = "pointer" /\ cell.n \in 1..(off - 1) -> Labels(p, cell.n, room)
      [] cell.kind = "label" /\ room > Width[cell.of] /\ off + Width[cell.of] < Len(p) ->
           LET rest == Labels(p, off + Width[cell.of], room - Width[cell.of])
           IN [ok |-> rest.ok, name |-> <<cell.of>> \o rest.name]
      [] OTHER -> [ok |-> FALSE, name |-> <<>>]
GetLabel(p, off) == Labels(p, off, MaxDlabel)

\* dlabel_length: the cells of a name up to its end or its pointer.
RECURSIVE DlabelLength(_, _)
DlabelLength(p, off) ==
  IF At(p, off).kind = "label"
    THEN Width[At(p, off).of] + DlabelLength(p, off + Width[At(p, off).of])
    ELSE 1

-----------------------------------------------------------------------------
(***************************************************************************)
(* compress_data.  Its state has the packet as it was (whole), the offset  *)
(* in it (at), what is compressed so far (out) and the names in that which *)
(* can be pointed to (points).                                             *)
(***************************************************************************)
Fails(s) == [s EXCEPT !.ok = FALSE]

Append1(s, cells) ==
  IF Len(s.out) + Len(cells) > MaxCompressed THEN Fails(s)
                                             ELSE [s EXCEPT !.out = @ \o cells]

Copy(s, n) == [Append1(s, From(s.whole, s.at, n)) EXCEPT !.at = @ + n]

\* compress_add_dlabel_points
RECURSIVE AddPoints(_, _)
AddPoints(s, off) ==
  IF off >= Len(s.out) THEN Fails(s)
  ELSE IF At(s.out, off).kind = "pointer" THEN s
  ELSE IF Len(s.points) >= MaxPoints THEN Fails(s)
  ELSE LET added == [s EXCEPT !.points = Append(@, off)]
       IN IF At(s.out, off).kind = "root" THEN added
          ELSE AddPoints(added, off + Width[At(s.out, off).of])

\* The points from the first on that lie before the name being compressed.
Eligible(s) ==
  {i \in DOMAIN s.points : \A j \in 1..i : s.points[j] < s.begin}

\* Mutant: only the first label of a name is compared.
Matches_first(s) ==
  {i \in Eligible(s) : At(s.out, s.points[i]) = At(s.whole, s.at)}

Matches(s) ==
  {i \in Eligible(s) : GetLabel(s.out, s.points[i]) = GetLabel(s.whole, s.at)}

\* compress_sub_dlabel, for all labels of the name.
RECURSIVE SubDlabels(_)
SubDlabels(s) ==
  IF ~ s.ok THEN s
  ELSE IF At(s.whole, s.at).kind = "root" THEN Copy(s, 1)
  ELSE IF Matches(s) # {}
    THEN [Append1(s, <<Pointer(s.points[Min(Matches(s))])>>)
            EXCEPT !.at = @ + DlabelLength(s.whole, s.at)]
  ELSE SubDlabels(Copy(s, Width[At(s.whole, s.at).of]))

\* compress_dlabel.  A name at the very end of the packet that ends in a
\* pointer is not kept, nothing comes after it.
Dlabel(s) ==
  LET done == SubDlabels([s EXCEPT !.begin = s.at])
  IN IF ~ done.ok \/ (done.at = Len(s.whole) /\ Last(done.out).kind = "pointer") THEN done
     ELSE AddPoints(done, Len(s.out))

\* compress_rddata, field by field; a name that is not compressed can be
\* pointed to.  A text is taken without its last character, which the rest
\* brings.
PlainName(s) ==
  LET length == DlabelLength(s.whole, s.at)
  IN AddPoints(Copy(s, length), Len(s.out))

Field(s, field, type, end) ==
  CASE field = "fixed" -> Copy(s, 1)
    [] field = "name" -> IF type \in ToCompress THEN Dlabel(s) ELSE PlainName(s)
    [] field = "text" -> Copy(s, At(s.whole, s.at).n)
    [] field = "rest" -> Copy(s, end - s.at)

Rddata(s, type, rdlength) ==
  LET start == Len(s.out)
      end == s.at + rdlength
      done == FoldLeft(LAMBDA t, f : IF t.ok THEN Field(t, f, type, end) ELSE t,
                       s, Fields(type))
  IN IF ~ done.ok \/ done.at # end THEN Fails(done)
     ELSE [done EXCEPT !.out[start] = Length(Len(done.out) - start)]

\* compress_answers, for one record: name, type, class, TTL and length, data.
CompressRecord(s) ==
  LET named == Dlabel(s)
  IN IF ~ named.ok THEN named
     ELSE LET typed == Copy(named, 2)
          IN IF ~ typed.ok THEN typed
             ELSE Rddata(typed, At(typed.whole, named.at).of,
                         At(typed.whole, named.at + 1).n)

CompressData(whole) ==
  LET start == [whole |-> whole, at |-> 0, begin |-> 0, out |-> <<>>,
                points |-> <<>>, ok |-> TRUE]
      named == Dlabel(Copy(start, 1))
      asked == IF named.ok THEN Copy(named, 2) ELSE named
      done == FoldLeft(LAMBDA s, i : IF s.ok THEN CompressRecord(s) ELSE s, asked,
                       [i \in 1..At(whole, 0).n |-> i])
  IN IF done.ok THEN done.out ELSE Failed

-----------------------------------------------------------------------------
(***************************************************************************)
(* decompress_data: the offset in the packet (at) and what is read so far. *)
(***************************************************************************)
Read(s, n) ==
  IF s.at + n > Len(s.whole) THEN Fails(s)
  ELSE [s EXCEPT !.out = @ \o From(s.whole, s.at, n), !.at = @ + n]

\* decomp_append_dlabel
ReadName(s) ==
  LET got == GetLabel(s.whole, s.at)
  IN IF ~ got.ok THEN Fails(s)
     ELSE [s EXCEPT !.out = @ \o NameCells(got.name),
                    !.at = @ + DlabelLength(s.whole, s.at)]

ReadField(s, field, end) ==
  CASE field = "fixed" -> Read(s, 1)
    [] field = "name" -> ReadName(s)
    [] field = "text" -> Read(s, At(s.whole, s.at).n + 1)
    [] field = "rest" -> IF end < s.at THEN Fails(s) ELSE Read(s, end - s.at)

\* decomp_get_rddata
ReadRddata(s, type, rdlength) ==
  LET start == Len(s.out)
      end == s.at + rdlength
      done == FoldLeft(LAMBDA t, f : IF t.ok THEN ReadField(t, f, end) ELSE t,
                       s, Fields(type))
  IN IF ~ done.ok \/ done.at # end THEN Fails(done)
     ELSE [done EXCEPT !.out[start] = Length(Len(done.out) - start)]

ReadRecord(s) ==
  LET named == ReadName(s)
  IN IF ~ named.ok THEN named
     ELSE LET typed == Read(named, 2)
          IN IF ~ typed.ok \/ At(s.whole, named.at).kind # "type"
                \/ At(s.whole, named.at + 1).kind # "length"
               THEN Fails(typed)
             ELSE ReadRddata(typed, At(s.whole, named.at).of, At(s.whole, named.at + 1).n)

\* decomp_decompress_packet
DecompressData(p) ==
  LET start == [whole |-> p, at |-> 0, out |-> <<>>, ok |-> TRUE]
      named == ReadName(Read(start, 1))
      asked == IF named.ok THEN Read(named, 2) ELSE named
      done == FoldLeft(LAMBDA s, i : IF s.ok THEN ReadRecord(s) ELSE s, asked,
                       [i \in 1..At(p, 0).n |-> i])
  IN IF done.ok THEN done.out ELSE Failed
=============================================================================
