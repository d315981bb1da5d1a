----------------------------- MODULE MCJourney ------------------------------
(***************************************************************************)
(* Messages about w.c and c, with records of each form that the codecs     *)
(* treat in a way of its own.                                              *)
(***************************************************************************)
EXTENDS Journey

C == <<"c">>
WC == <<"w", "c">>
LC == <<"long", "c">>
WLC == <<"w", "long", "c">>

MCWidth == [w |-> 1, c |-> 1, long |-> 3]

Chars(n) == <<Count(n)>> \o [i \in 1..n |-> Data("d")]
Forms(owner, name, other) ==
  {Record(owner, "A", <<DataPart(<<Data("d")>>)>>),
   Record(owner, "NS", <<NamePart(name)>>),
   Record(owner, "MX", <<DataPart(<<Data("d")>>), NamePart(name)>>),
   Record(owner, "SOA", <<NamePart(name), NamePart(other), DataPart(<<Data("d")>>)>>),
   Record(owner, "RP", <<NamePart(name), NamePart(other)>>),
   Record(owner, "SRV", <<DataPart(<<Data("d")>>), NamePart(name)>>),
   Record(owner, "TXT", <<DataPart(Chars(2))>>),
   Record(owner, "TXT", <<DataPart(Chars(0))>>),
   Record(owner, "AAAA", <<DataPart(<<Data("d"), Data("d")>>)>>)}

Message(q, rrs) == [q |-> q, type |-> "ANY", rrs |-> rrs]

MCMessages ==
  {Message(WC, <<r, s>>) : r \in Forms(WC, LC, WLC), s \in Forms(LC, WLC, C)}
  \cup {Message(<<>>, <<r>>) : r \in Forms(<<>>, WC, C) \cup Forms(C, <<>>, WC)}

\* A name whose two last labels are the same.
CC == <<"c", "c">>
WCC == <<"w", "c", "c">>
MCTwins ==
  {Message(q, <<r>>) : q \in {<<>>, <<"w">>}, r \in Forms(<<"w">>, WCC, CC)}
  \cup {Message(<<"w">>, <<r, s>>) : r \in Forms(<<"w">>, CC, WCC), s \in Forms(WCC, CC, <<"w">>)}

\* A label that may not fit where a pointer still does.
MCWide == [w |-> 1, c |-> 1, long |-> 12]

MCStale == {Root, Cell("stale", "", 0)}
=============================================================================
