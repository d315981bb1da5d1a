----------------------------- MODULE MCDwAnswer -----------------------------
(***************************************************************************)
(* An instance of DwAnswer: the name w.a.c, whose zone a.c is served by    *)
(* n.o, in another part of the tree; the root servers are configured, and  *)
(* in some runs servers for o as well.                                     *)
(***************************************************************************)
EXTENDS DwAnswer

MCLabels == {"a", "c", "n", "o", "w", "1", "2", "3", "4", "10", "11"}
Root == <<>>
C == <<"c">>
AC == <<"a", "c">>
WAC == <<"w", "a", "c">>
O == <<"o">>
NO == <<"n", "o">>

\* Every label of a name has one byte, and another with its length before it.
MCBytes == [n \in {Root, C, AC, WAC, O, NO} |-> 2 * Len(n) + 1]

RR(owner, type, data) == [owner |-> owner, type |-> type, data |-> data]
List(zone, hosts, upstream) ==
  [servers |-> hosts, zone |-> zone, from |-> zone, upstream |-> upstream,
   configured |-> TRUE]
Reply(an, ns, ar) == [nx |-> FALSE, an |-> an, ns |-> ns, ar |-> ar]
Q(name, type) == [name |-> name, type |-> type]

MCConfigured == Root :> List(Root, {Address(<<"10">>)}, FALSE)
MCForwarded == MCConfigured @@ (O :> List(O, {Address(<<"11">>)}, TRUE))
MCQuestions == {Q(WAC, "A"), Q(NO, "A")}
MCAllQuestions == MCQuestions \cup {Q(WAC, "ANY")}

WwwA == RR(WAC, "A", <<"1">>)
WwwCname == RR(WAC, "CNAME", NO)
HostCname == RR(NO, "CNAME", AC)
TopA == RR(AC, "A", <<"3">>)
BadA == RR(WAC, "A", <<"4">>)

\* Answers of servers that agree: w.a.c is an alias of n.o at times, and n.o
\* always one of a.c.
MCAnswers == {<<WwwA>>, <<WwwCname>>, <<WwwCname, HostCname>>, <<WwwCname, WwwA>>,
              <<WwwCname, HostCname, TopA>>, <<HostCname>>, <<HostCname, TopA>>,
              <<TopA>>, <<BadA>>}

Delegation(zone, host) == RR(zone, "NS", host)
Soa == RR(AC, "SOA", AC)
MCReferrals ==
  {<<Delegation(z, NO)>> : z \in {Root, AC, O}}
  \cup {<<Delegation(AC, WAC)>>, <<Soa>>,
        <<Delegation(AC, NO), Delegation(C, WAC)>>, <<Delegation(O, NO), Delegation(AC, NO)>>,
        <<Delegation(O, NO), Soa>>}

MCPackets ==
  {Reply(an, <<>>, <<>>) : an \in MCAnswers}
  \cup {Reply(<<>>, ns, <<>>) : ns \in MCReferrals}
  \cup {Reply(<<>>, <<Delegation(AC, NO)>>, <<RR(NO, "A", <<"2">>)>>)}
  \cup {Reply(<<>>, <<>>, <<>>)}

Junk == RR(Root, "CNAME", AC)
MCJunkPackets == {Reply(an, <<>>, <<>>) : an \in {<<Junk, WwwCname, TopA>>, <<TopA>>}}
MCBlacklisted == {<<"4">>}
=============================================================================
