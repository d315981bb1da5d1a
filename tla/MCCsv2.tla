------------------------------- MODULE MCCsv2 -------------------------------
(***************************************************************************)
(* Files of up to three lines: a record of any type, among records with an *)
(* address and slash commands.                                             *)
(***************************************************************************)
EXTENDS Csv2Zone

MCWords ==
  {"w", "c", "a", "x", "n", "s", "e", "m", "in", "aaaa", "ns", "mx", "soa", "txt", "raw", "srv",
   "hinfo", "gpos", "px", "md", "rp", "mg", "wks", "loc", "nsap", "naptr",
   "ttl", "origin", "opush", "opop", "read", "serial", "with", "without"}
MCNumbers == {"0", "1", "2", "80", "86400"}

Zone1 == <<"c", ".">>
Ip == <<"1", ".", "1", ".", "1", ".", "2">>
Www == <<"w", ".", "%">>
Host3 == <<"w", ".", "c", ".">>
Mail == <<"w", "@", "%">>

\* A record: its owner, TTL, type and data as text; type and data as meant.
Rr(name, ttl, text, type, data) ==
  [kind |-> "rr", name |-> name, ttl |-> ttl, type |-> <<type>>, data |-> data,
   fields |-> <<name>> \o (IF ttl = <<>> THEN <<>> ELSE <<<<"+">> \o ttl>>) \o text,
   bare |-> type = "wks", late |-> type \in {"txt", "wks", "loc"}]
Of(type, fields) == Rr(<<"%">>, <<>>, <<<<type>>>> \o fields, type, fields)
Textual(type, text, data) == Rr(Www, <<>>, <<<<type>>, text>>, type, data)

Slash(kind, value) ==
  [kind |-> kind, value |-> value, bare |-> FALSE, late |-> FALSE,
   fields |-> <<<<"/", kind>>>> \o IF value = <<>> THEN <<>> ELSE <<value>>]

PlainRr == Rr(Www, <<>>, <<Ip>>, "a", <<Ip>>)
MCCommon ==
  {PlainRr, Slash("ttl", <<"80">>), Slash("origin", <<"a", ".", "%">>),
   Slash("opush", <<"x", ".", "%">>), Slash("opop", <<>>)}

Quoted == <<"'", "w", " ", ";", "'">>
MCEntries ==
  {Rr(<<"*", ".", "%">>, <<>>, <<<<"in">>, <<"a">>, Ip>>, "a", <<Ip>>),
   Rr(Host3, <<"1">>, <<Ip>>, "a", <<Ip>>),
   Rr(<<".">>, <<"2">>, <<<<"ns">>, Www>>, "ns", <<Www>>),
   Of("aaaa", <<<<"1", ":", ":", "a">>>>),
   Of("ns", <<Www>>),
   Of("mx", <<<<"1">>, <<"%">>>>),
   Rr(Www, <<>>, <<<<"md">>, Host3>>, "mx", <<<<"0">>, Host3>>),
   Of("px", <<<<"1">>, Host3, Www>>),
   Of("srv", <<<<"1">>, <<"2">>, <<"80">>, Www>>),
   Rr(<<"%">>, <<>>, <<<<"soa">>, Www, Mail, <<"/", "serial">>, <<"1">>, <<"2">>, <<"1">>, <<"2">>>>,
      "soa", <<Www, Mail, <<"/serial">>, <<"1">>, <<"2">>, <<"1">>, <<"2">>>>),
   Of("rp", <<Mail, Host3>>),
   Of("mg", <<<<".">>>>),
   Textual("txt", Quoted, <<<<"w", " ", ";">>>>),
   Textual("txt", Quoted \o <<";">> \o Quoted, <<<<"w", " ", ";">>, <<"w", " ", ";">>>>),
   Textual("txt", <<"\\", "1", "0", "1", "'", " ", "'", "\\", "x", "1", "a">>,
           <<<<"octal", "1", "0", "1", " ", "hex", "1", "a">>>>),
   Textual("txt", <<"w", "\\", " ", "\n", "'", "x", "'", "\\", "'">>, <<<<"w", "x", "'">>>>),
   Textual("txt", <<";", "w", ";">>, <<<<>>, <<"w">>, <<>>>>),
   Textual("hinfo", <<"w", ";">> \o Quoted, <<<<"w">>, <<"w", " ", ";">>>>),
   Textual("gpos", <<"1", ";", "2", ";", "1">>, <<<<"1">>, <<"2">>, <<"1">>>>),
   [Textual("raw", <<"w", "\\", "x", "0", "1">>, <<<<"w", "hex", "0", "1">>>>)
     EXCEPT !.type = <<"raw", "80">>, !.fields = <<Www, <<"raw">>, <<"80">>, <<"w", "\\", "x", "0", "1">>>>],
   Rr(Www, <<>>, <<<<"wks">>, Ip, <<"2">>, <<"80", ",", "1">>>>, "wks", <<Ip, <<"2">>, <<"80">>, <<"1">>>>),
   Rr(Www, <<>>, <<<<"loc">>, <<"1">>, <<"2">>, <<"1", ".", "1">>, <<"n">>, <<"2">>, <<"e">>,
                   <<"1", ".", "2", "m", " ", "1", "m", " ", "2", "m">>>>, "loc",
      <<<<"1", "2", "1", ".", "1", "n">>, <<"2", "e">>, <<"1", ".", "2">>, <<"1">>, <<"2">>>>),
   Rr(Www, <<>>, <<<<"nsap">>, <<"0", "x", "1", "0", ".", "0", "1">>>>, "nsap", <<<<"1", "0", "0", "1">>>>),
   Rr(Www, <<>>, <<<<"naptr">>, <<"1">>, <<"2">>, <<"'", "s", "'", ";", "'", "'", ";", "'", "'">>, Host3>>,
      "naptr", <<<<"1">>, <<"2">>, <<"s">>, <<>>, <<>>, Host3>>)}

\* What these leave of the origin, its stack and the TTL is there for the lines
\* after /read.
MCIncluded ==
  [a |-> <<PlainRr, Slash("opush", <<"x", ".", "%">>), Slash("opush", <<"n", ".", "%">>), PlainRr,
           Slash("opop", <<>>)>>,
   w |-> <<Slash("ttl", <<"1">>), PlainRr>>]
MCFiles ==
  LET Text1(name, end) ==
        FlattenSeq([i \in 1..Len(MCIncluded[name]) |->
          LET f == MCIncluded[name][i].fields
          IN FlattenSeq([k \in 1..Len(f) |-> f[k] \o <<" ">>]) \o end])
  IN [f \in {<<n, t>> : n \in {"a", "w"}, t \in {"with", "without"}} |->
        Text1(f[1], IF f[2] = "with" THEN <<"~", "\n">> ELSE <<"\n">>)]

Layout(h, t, g, c) == [handling |-> h, tilde |-> t, gap |-> g, comment |-> c, scribbled |-> FALSE]
MCLayouts ==
  {Layout(ht[1], ht[2], gc[1], gc[2]) :
     ht \in {<<0, FALSE>>, <<1, FALSE>>, <<2, FALSE>>, <<2, TRUE>>, <<3, TRUE>>},
     gc \in {<<<<" ">>, FALSE>>, <<<<"|">>, TRUE>>,
             <<<<" ", "#", "~", "\n", " ">>, FALSE>>, <<<<"\n", " ">>, TRUE>>}}
  \cup {[Layout(h, FALSE, <<" ">>, FALSE) EXCEPT !.scribbled = TRUE] : h \in 0..3}

MCScribbles ==
  UNION {[1..n -> {" ", "~", "#", "\n"}] : n \in 0..2}
    \cup {<<"#", "~", "\n">>, <<"#", "\n", "~">>, <<"~", "#", "~">>, <<"~", "|", "~">>}
=============================================================================
