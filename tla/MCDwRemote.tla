----------------------------- MODULE MCDwRemote -----------------------------
(***************************************************************************)
(* The small worlds in which DwRemote is checked: what the servers of each *)
(* query may say, and where they are.                                      *)
(***************************************************************************)
EXTENDS DwRemote

\* Every query has a server with an address.
NsOf_ip == [q \in Query |-> {"ip"}]

\* "www" lives on servers with an address, or on the host "ns".
NsOf_glueless == [q \in Query |-> IF q = "www" THEN {"ip", "ns"} ELSE {"ip"}]

\* Every query has a server with an address, and one on the host "ns".
NsOf_loop == [q \in Query |-> {"ip", "ns"}]

\* "www" lives on servers of which only the name is known.
NsOf_unglued == [q \in Query |-> IF q = "www" THEN {"ns"} ELSE {"ip"}]

\* Servers that answer, deny, fail and refer.
Says_plain ==
  [q \in Query |-> {"answer", "negative", "bad", "badip", "refer"}]

\* Servers that answer, deny, or fail.
Says_direct == [q \in Query |-> {"answer", "negative", "bad"}]

\* Servers that answer or deny.
Says_final == [q \in Query |-> {"answer", "negative"}]

\* "www" is a CNAME for "web".
Says_cname ==
  [q \in Query |-> IF q = "www" THEN {"web"} ELSE {"answer"}]

\* "www" is a CNAME for "web", that one for "cdn"; "ftp" for "mirror".
Says_chain ==
  [q \in Query |-> CASE q = "www" -> {"web"} [] q = "web" -> {"cdn"}
                     [] q = "ftp" -> {"mirror"} [] OTHER -> {"answer"}]

\* "www" is a CNAME for "ns", which is at times one for "web"; so is "ftp".
Says_crossed ==
  [q \in Query |-> CASE q = "www" -> {"ns"} [] q = "ns" -> {"answer", "web"}
                     [] q = "ftp" -> {"web"} [] OTHER -> {"answer"}]
=============================================================================
