------------------------------ MODULE DwCodec -------------------------------
(***************************************************************************)
(* The packet codec of Deadwood, DwCompress.c.  Upstream's reply, without  *)
(* header and question, is decompressed for the cache, together with the   *)
(* offsets of each record; for a client it is compressed again.  Offsets   *)
(* count from the end of the question, so a pointer goes either into the   *)
(* question or, less the header and the question, into the records.        *)
(***************************************************************************)
EXTENDS Wire

CONSTANTS
  OutRoom,     \* dw_create(515): the compressed records, and the packet
  StackRoom    \* dw_create(1024): labels that can be pointed to

\* dwc_type_desc: data before the names of a record, how many names there
\* are, data after them, and whether the names are compressed.
Desc(lead, names, tail, compress) ==
  [lead |-> lead, names |-> names, tail |-> tail, compress |-> compress]
TypeDescs ==
  [MX |-> Desc(1, 1, 0, TRUE), NS |-> Desc(0, 1, 0, TRUE), PTR |-> Desc(0, 1, 0, TRUE),
   CNAME |-> Desc(0, 1, 0, TRUE), SOA |-> Desc(0, 2, 1, TRUE),
   RP |-> Desc(0, 2, 0, FALSE), SRV |-> Desc(1, 1, 0, FALSE)]
Described(type) == type \in DOMAIN TypeDescs

Place(inQ, at) == [inQ |-> inQ, at |-> at]

\* Mutant: the class of the question, which q does not have, is forgotten.
DecompOffset_class(in, off, q) ==
  LET n == At(in, off).n - 1
  IN IF n < Len(q) THEN Place(TRUE, n) ELSE Place(FALSE, n - Len(q))

\* dwc_decomp_offset, for a pointer.
DecompOffset(in, off, q) ==
  LET n == At(in, off).n - 1
  IN IF n < Len(q) THEN Place(TRUE, n) ELSE Place(FALSE, n - Len(q) - 1)

-----------------------------------------------------------------------------
(***************************************************************************)
(* Decompression.                                                          *)
(***************************************************************************)

\* dwc_decomp_dname: the cells of the name, and the cells that it takes in
\* the packet; 200 steps are made at most.
RECURSIVE Labels(_, _, _, _)
Labels(in, q, place, steps) ==
  LET p == IF place.inQ THEN q ELSE in
      cell == At(p, place.at)
  IN IF steps = 0 THEN <<>>
     ELSE CASE cell.kind = "pointer" -> Labels(in, q, DecompOffset(in, place.at, q), steps - 1)
            [] cell.kind = "label" ->
                 LabelCells(cell.of)
                 \o Labels(in, q, Place(place.inQ, place.at + Width[cell.of]), steps - 1)
            [] OTHER -> <<Root>>

RECURSIVE DnEnd(_, _)
DnEnd(p, off) ==
  IF At(p, off).kind = "label" THEN DnEnd(p, off + Width[At(p, off).of]) ELSE off + 1

Dname(s) ==
  [s EXCEPT !.out = @ \o Labels(s.in, s.q, Place(FALSE, s.at), 200),
            !.at = DnEnd(s.in, s.at)]

Taken(s, n) == [s EXCEPT !.out = @ \o From(s.in, s.at, n), !.at = @ + n]

\* dwc_decomp_rddata: the length becomes that of the names written out.
DecompRddata(s, desc) ==
  LET start == Len(s.out)
      names == FoldLeft(LAMBDA t, i : Dname(t), Taken(s, desc.lead),
                        [i \in 1..desc.names |-> i])
      delta == (Len(names.out) - start) - (names.at - s.at)
  IN Taken([names EXCEPT !.out[start] = Length(@.n + delta)], desc.tail)

\* dwc_decomp_rr, which notes where the name and the rest of the record are.
DecompRr(s) ==
  LET named == Dname(s)
      typed == [Taken(named, 2) EXCEPT !.offsets = Append(@, <<Len(s.out), Len(named.out)>>)]
      type == At(s.in, named.at).of
  IN IF Described(type) THEN DecompRddata(typed, TypeDescs[type])
     ELSE Taken(typed, At(s.in, named.at + 1).n)

\* dwc_decompress, of all records that dw_packet_to_cache found.
RECURSIVE DecompRrs(_)
DecompRrs(s) == IF s.at >= Len(s.in) THEN s ELSE DecompRrs(DecompRr(s))

Decompress(q, in) ==
  LET done == DecompRrs([in |-> in, q |-> q, at |-> 0, out |-> <<>>, offsets |-> <<>>])
  IN [cells |-> done.out, offsets |-> done.offsets]

-----------------------------------------------------------------------------
(***************************************************************************)
(* Compression.  Its state has what is compressed so far (c), the labels   *)
(* that can be pointed to (stack) and the offset in the plain records u.   *)
(* A name may be compared with one whose end is not written yet: what is   *)
(* read there is what malloc left behind (stale).                          *)
(***************************************************************************)
Fails(s) == [s EXCEPT !.ok = FALSE]
Fits(c, cells) == Len(c) + Len(cells) < OutRoom

\* dw_append: what does not fit is left out, and only some callers look.
Put(s, cells) == IF Fits(s.c, cells) THEN [s EXCEPT !.c = @ \o cells] ELSE s
PutOrFail(s, cells) == IF Fits(s.c, cells) THEN Put(s, cells) ELSE Fails(s)

Found(c, place, q, stale) ==
  IF place.inQ THEN At(q, place.at)
  ELSE IF place.at < Len(c) THEN At(c, place.at) ELSE stale

\* dwc_dname_same, with the dwc_decomp_offset of each of its steps.
RECURSIVE DnameSame(_, _, _, _, _, _)
DnameSame(u, at, c, place, q, stale) ==
  LET cell == Found(c, place, q, stale)
      there == IF cell.kind = "pointer" THEN DecompOffset(c, place.at, q) ELSE place
  IN /\ ~ (~ place.inQ /\ place.at > Len(c))
     /\ At(u, at) = Found(c, there, q, stale)
     /\ \/ At(u, at).kind = "root"
        \/ DnameSame(u, at + Width[At(u, at).of], c,
                     Place(there.inQ, there.at + Width[At(u, at).of]), q, stale)

Same(s, q, stale) ==
  {i \in DOMAIN s.stack : DnameSame(s.u, s.at, s.c, s.stack[i], q, stale)}

\* Mutant: the class of the question is forgotten.
CompPointer_class(place, q) ==
  Pointer(IF place.inQ THEN 1 + place.at ELSE 1 + Len(q) + place.at)

\* dwc_seek_comp_pointer
CompPointer(place, q) ==
  Pointer(IF place.inQ THEN 1 + place.at ELSE 1 + Len(q) + 1 + place.at)

\* dwc_compress_dlabels
RECURSIVE CompressDlabels(_, _, _, _)
CompressDlabels(s, names, q, stale) ==
  LET cell == At(s.u, s.at) IN
  IF ~ s.ok \/ names = 0 THEN s
  ELSE IF Same(s, q, stale) # {}
    THEN CompressDlabels(
           [PutOrFail(s, <<CompPointer(s.stack[Min(Same(s, q, stale))], q)>>)
              EXCEPT !.at = DnEnd(s.u, s.at)],
           names - 1, q, stale)
  ELSE IF cell.kind = "root"
    THEN CompressDlabels([Put(s, <<Root>>) EXCEPT !.at = @ + 1], names - 1, q, stale)
  ELSE IF Len(s.stack) >= StackRoom THEN Fails(s)
  ELSE CompressDlabels(
         [Put(s, LabelCells(cell.of)) EXCEPT !.at = @ + Width[cell.of],
                                             !.stack = Append(@, Place(FALSE, Len(s.c)))],
         names, q, stale)

\* dwc_comp_rddata
Copied(s, n) == [PutOrFail(s, From(s.u, s.at, n)) EXCEPT !.at = @ + n]

CompRddata(s, desc, q, stale) ==
  LET start == Len(s.c)
      done == Copied(CompressDlabels(Copied(s, desc.lead), desc.names, q, stale), desc.tail)
  IN IF start = 0 THEN done ELSE [done EXCEPT !.c[start] = Length(Len(done.c) - start)]

\* dwc_compress_rr, for a record at the offsets o.
CompressRr(s, o, q, stale) ==
  LET named == CompressDlabels([s EXCEPT !.at = o[1]], 1, q, stale)
      typed == [Put(named, From(s.u, o[2], 2)) EXCEPT !.at = o[2] + 2]
      type == At(s.u, o[2]).of
  IN IF ~ named.ok \/ named.at # o[2] THEN Fails(named)
     ELSE IF Described(type) /\ TypeDescs[type].compress
       THEN CompRddata(typed, TypeDescs[type], q, stale)
     ELSE Copied(typed, At(s.u, o[2] + 1).n)

\* dwc_push_offsets: the labels of the question come first.
RECURSIVE PushOffsets(_, _)
PushOffsets(q, at) ==
  IF At(q, at).kind # "label" THEN <<>>
  ELSE <<Place(TRUE, at)>> \o PushOffsets(q, at + Width[At(q, at).of])

\* dwc_compress
Compress(q, value, stale) ==
  FoldLeft(LAMBDA s, o : IF s.ok THEN CompressRr(s, o, q, stale) ELSE s,
           [u |-> value.cells, at |-> 0, c |-> <<>>, stack |-> PushOffsets(q, 0),
            ok |-> TRUE],
           value.offsets)

\* make_dns_packet: header, question and records have to fit; the empty
\* sequence stands for no packet.
DnsPacket(q, value, stale) ==
  LET s == Compress(q, value, stale)
      front == <<Header(Len(value.offsets))>> \o q \o <<Class>>
  IN IF s.ok /\ Fits(s.c, <<Class>>) /\ Fits(front, s.c) THEN front \o s.c ELSE <<>>

\* dw_packet_to_cache: what comes after the question.
PacketToCache(p) == SubSeq(p, DnEnd(p, 1) + 2 + 1, Len(p))
=============================================================================
