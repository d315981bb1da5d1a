------------------------------ MODULE MCDwTcp ------------------------------
(***************************************************************************)
(* Instances of DwTcp for TLC.                                             *)
(***************************************************************************)
EXTENDS DwTcp, TLC

\* Two clients that ask for one name or for two, with questions of 17 bytes.
MC_Asks == {[c \in Client |-> IF c = "ann" THEN "www" ELSE n] : n \in Name}
MC_QuestionLen == [c \in Client |-> 17]
\* Counts of bytes sent that fall two below 0.
MC_LeastGot == -2

=============================================================================
