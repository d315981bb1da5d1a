---------------------------- MODULE MCMaraQuery ----------------------------
(***************************************************************************)
(* A small world for MaraQuery: a zone with a delegation, the zone that is *)
(* delegated, which maradns may serve as well, and a default zone.         *)
(***************************************************************************)
EXTENDS MaraQuery

Com == <<"com">>
Sub == <<"sub">> \o Com
Www == <<"www">> \o Com
Ns == <<"ns">> \o Sub

MC_Zone == {Com, Sub}
MC_SynthIp == <<"127.0.0.1">>

\* A file in order, with several addresses; one that leaves out what is made
\* up, has its NS record too late, glue after it and a star CNAME.
ComFile ==
  <<Record(Com, "SOA", "soa"), Record(Com, "NS", Www),
    Record(Www, "A", "ip1"), Record(Www, "A", "ip2"), Record(Www, "A", "ip3"),
    Record(<<"alias">> \o Com, "CNAME", Www), Record(Com, "MX", Www),
    Record(Sub, "NS", Ns), Record(Ns, "A", "old"),
    Record(<<"*">> \o Com, "A", "star")>>
LateFile ==
  <<Record(Www, "A", "ip1"), Record(Com, "NS", Www),
    Record(Sub, "NS", Ns), Record(Ns, "A", "old"),
    Record(<<"*">> \o Com, "CNAME", Www)>>
SubFile ==
  <<Record(Sub, "SOA", "soa"), Record(Sub, "NS", Ns), Record(Ns, "A", "new"),
    Record(<<"*">> \o Sub, "TXT", "star")>>
SubLate == <<Record(Ns, "A", "new"), Record(Ns, "A", "newer")>>
SubNsOnly == <<Record(Sub, "NS", Ns)>>

MC_Files == Com :> {ComFile, LateFile} @@ Sub :> {SubFile, SubLate, SubNsOnly}

AnyStar == <<"mail", "*">>
MC_DefaultFiles ==
  {<<Record(DefaultZone, "SOA", "soa"), Record(DefaultZone, "NS", Www),
     Record(AnyStar, "A", "default"), Record(AnyStar, "CNAME", Www)>>,
   <<Record(DefaultZone, "SOA", "soa"), Record(AnyStar, "A", "default")>>}

Q(name, type) == [name |-> name, type |-> type, rd |-> FALSE,
                  allowed |-> FALSE, form |-> "query"]
MC_Query ==
  {Q(Www, "A"), Q(Www, "ANY"), Q(Www, "TXT"), Q(<<"alias">> \o Com, "A"),
   Q(<<"alias">> \o Com, "MX"), Q(Com, "MX"), Q(Ns, "A"),
   Q(<<"x">> \o Sub, "A"), Q(<<"x">> \o Com, "A"),
   Q(<<"x">> \o Www, "A"), Q(<<"mail", "net">>, "A"), Q(<<"net">>, "A"),
   [Q(<<"x">> \o Sub, "A") EXCEPT !.rd = TRUE, !.allowed = TRUE],
   [Q(Www, "A") EXCEPT !.form = "malformed"],
   [Q(Www, "A") EXCEPT !.form = "opcode"]}
MC_Patient == {Q(Www, "A")}

Default == [bind_star_handling |-> 1, dos_protection_level |-> 0,
            recurse_delegation |-> FALSE, no_fingerprint |-> FALSE,
            max_chain |-> 8, max_ar_chain |-> 1]
MC_Mararc ==
  {Default, [Default EXCEPT !.max_chain = 1, !.bind_star_handling = 2],
   [Default EXCEPT !.bind_star_handling = 0, !.no_fingerprint = TRUE,
                   !.recurse_delegation = TRUE, !.max_chain = 2],
   [Default EXCEPT !.dos_protection_level = 14, !.max_ar_chain = 2]}
=============================================================================
