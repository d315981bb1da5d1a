---------------------------- MODULE MCZoneServer ----------------------------
(***************************************************************************)
(* A small world for ZoneServer: a zone to fetch, a connection that asks   *)
(* for something else, and files in and out of order.                      *)
(***************************************************************************)
EXTENDS ZoneServer

CONSTANTS c1, c2, c3

Soa == Record("SOA", "zone", "soa")
Ns(x) == Record("NS", "zone", x)
Sub == Record("NS", "below", "sub")
Www == Record("A", "below", "www")
Glue == Record("A", "elsewhere", "glue")
Host == Record("FQDN4", "below", "host")

MC_Files ==
  { <<Soa, Ns("a"), Www, Sub>>,
    <<Www, Ns("late"), Glue, Soa, Sub>>,
    <<Ns("a"), Ns("b"), Host, Bad, Www>>,
    <<Soa>>, <<Bad, Www>> }

\* The SOA reply takes the NS record of a delegation for one of the zone.
MC_Delegation == { <<Soa, Ns("a"), Sub, Www>> }

Nothing == [zone |-> 0, convert |-> 0, recursive |-> 0]
Zone == [Nothing EXCEPT !.zone = 1]
MC_Acls == { [c \in Conn |-> CASE c = c1 -> Zone [] c = c2 -> Zone
                               [] OTHER -> a] :
             a \in { [Nothing EXCEPT !.recursive = 1],
                     [zone |-> 1, convert |-> 1, recursive |-> 1] } }

MC_Kinds == { [c \in Conn |-> CASE c = c1 -> k [] c = c2 -> "silent"
                                [] OTHER -> "other"] : k \in {"axfr", "soa"} }
MC_Overlap == { [c \in Conn |-> [zone |-> 0, convert |-> 2, recursive |-> 0]] }
MC_Hold == { [c \in Conn |-> IF c = c3 THEN "axfr" ELSE "hold"] }
MC_Ip == <<"127.0.0.1">>
MC_SecondaryIp == <<"10.0.0.1">>

\* The world is one that the theorems of ZoneServer_proofs are about.
ASSUME WorldAssumption ==
  /\ Roomy /\ \A f \in MC_Files : SoaAtTop(f) /\ Begins(f)
  /\ SecondaryIp # << >> => SynthIp # << >>
=============================================================================
