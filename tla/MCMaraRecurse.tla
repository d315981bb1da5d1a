--------------------------- MODULE MCMaraRecurse ---------------------------
(***************************************************************************)
(* A small world for MaraRecurse: a root server, a zone com whose servers  *)
(* are named in net, one of them with an address, and names in com that    *)
(* have addresses or are a CNAME of a name in net.                         *)
(***************************************************************************)
EXTENDS MaraRecurse

Www == <<"www", "com">>
Host == <<"host", "net">>
Ns == <<"ns", "net">>

MC_Address == {<<"root">>, <<"c">>, <<"n">>}
MC_Hardcoded == (Root :> <<<<"root">>>>)

Ptr == <<"1", "arpa">>
Target == <<"1", "0", "arpa">>

\* What the servers of com say of www, and what is said of names in net and
\* arpa; com has a server whose name is in com, with its address, as well.
Com(type) ==
  CASE type = "A" -> {Says_answer(<<<<"1">>, <<"2">>>>), Says_cname(Host)}
    [] type = "CNAME" -> {Says_cname(Host)}
    [] OTHER -> {Says_negative}
Net(name, type) ==
  CASE name = Ns /\ type = "A" -> {Says_answer(<<<<"c">>>>)}
    [] name = Host /\ type = "A" -> {Says_answer(<<<<"3">>>>), Says_negative}
    [] OTHER -> {Says_negative}
Arpa(name, type) ==
  CASE name = Ptr -> {Says_cname(Target), Says_other}
    [] name = Target /\ type = "PTR" -> {Says_answer(<<Host>>)}
    [] OTHER -> {Says_negative}
MC_Says(server, name, type) ==
  CASE Last(name) = "com" /\ server = <<"root">> /\ type = "MX" ->
         {Says_referral(Root, <<Ns>>, <<Server(Ns, <<"n">>)>>)}
    [] Last(name) = "com" /\ server = <<"root">> ->
         {Says_referral(<<"com">>, <<Ns, <<"ns", "com">>>>,
                        <<Server(<<"ns", "com">>, <<"c">>)>>)}
    [] name = Www /\ server # <<"root">> -> Com(type)
    [] Last(name) = "net" -> Net(name, type)
    [] Last(name) = "arpa" -> Arpa(name, type)
    [] OTHER -> {}

A(name) == [name |-> name, type |-> "A"]
MC_Client == 1..2
MC_Query == <<{A(Www)}, {[name |-> Www, type |-> "ANY"],
                         [name |-> Ptr, type |-> "PTR"]}>>
=============================================================================
