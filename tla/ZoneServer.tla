----------------------------- MODULE ZoneServer -----------------------------
(***************************************************************************)
(* Zone transfer over TCP: src/tcp/zoneserver.c, the part of               *)
(* src/parse/Csv2_main.c it calls, and the client src/tcp/fetchzone.c.     *)
(*                                                                         *)
(* The zone server accepts one connection at a time, forks a child for it, *)
(* counts its children and reaps them, in a signal handler and after each  *)
(* fork.  A child reads one query and sends the zone record by record, as  *)
(* it reads the file, or forwards the query over UDP.  Connections break,  *)
(* clients leave, signals of children that end together are one signal.    *)
(***************************************************************************)
EXTENDS ZoneFile, Integers

CONSTANTS
  Conn,         \* connections, one for each client
  Nobody,       \* no connection
  Leavers,      \* bound: the clients that may leave
  Kinds,        \* what clients may be: a set of functions Conn -> Kind
  Acls,         \* how many entries of the three ACLs match: a set of functions
  Files,        \* zone files there may be
  FirstRead,    \* lines read at most before the SOA is sent (29)
  Round,        \* lines read before what they gave is sent (20)
  maxprocs,
  SecondaryIp   \* the SynthIp of a server that serves what was fetched

\* axfr and soa ask for the zone (soa for its SOA record first); hold asks
\* for the SOA record and then nothing; other asks something else.
Kind == {"axfr", "soa", "hold", "other", "silent"}

ASSUME ZoneServerAssumption ==
  /\ Nobody \notin Conn /\ IsFiniteSet(Conn)
  /\ Kinds \subseteq [Conn -> Kind]
  /\ Acls \subseteq [Conn -> [zone : Nat, convert : Nat, recursive : Nat]]
  /\ {FirstRead, Round} \subseteq Nat \ {0} /\ maxprocs \in Nat
  /\ SecondaryIp \in Seq(Range(SecondaryIp))
  /\ \A f \in Files :
       /\ f \in Seq(Range(f)) /\ Comment \notin Range(f)
       /\ \A i \in DOMAIN f : DOMAIN f[i] = DOMAIN Bad

VARIABLES
  main,          \* where the loop of main() is
  connection,    \* the connection it has accepted
  num_children,  \* its count
  sigchld,       \* a SIGCHLD is pending
  child,         \* the process for each connection
  client,        \* what each client has done and received
  kind, acl, disk

vars == <<main, connection, num_children, sigchld, child, client,
          kind, acl, disk>>
given == <<kind, acl, disk>>

\* Clients connect and ask; when they are accepted is the server's affair.
NoChild == [proc |-> "none", at |-> "query", file |-> Opened(<< >>),
            read |-> 0, soa |-> << >>]

Init ==
  /\ main = "accept" /\ connection = Nobody
  /\ num_children = 0 /\ sigchld = FALSE
  /\ child = [c \in Conn |-> NoChild]
  /\ kind \in Kinds /\ acl \in Acls /\ disk \in Files
  /\ client = [c \in Conn |-> [at |-> "queued", perm |-> 0,
                               asked |-> IF kind[c] = "silent" THEN 0 ELSE 1,
                               reply |-> << >>, got |-> << >>,
                               forwarded |-> "no", ended |-> "no"]]

-----------------------------------------------------------------------------
(***************************************************************************)
(* main().                                                                 *)
(***************************************************************************)
\* gettcp: 1 for the first list; 2 and 4 are added for each entry that matches.
Permissions(a) == (IF a.zone > 0 THEN 1 ELSE 0) + 2 * a.convert + 4 * a.recursive
Bit(perm, b) == (perm \div b) % 2 = 1

Accept(c) ==
  /\ main = "accept" /\ client[c].at = "queued"
  /\ LET perm == Permissions(acl[c]) IN
     IF perm % 4 = 0
     THEN /\ client' = [client EXCEPT ![c].at = "refused"]
          /\ UNCHANGED <<main, connection>>
     ELSE /\ client' = [client EXCEPT ![c].at = "accepted", ![c].perm = perm]
          /\ main' = "wait" /\ connection' = c
  /\ UNCHANGED <<num_children, sigchld, child, given>>

\* `while(num_children > maxprocs) sleep(1)'.
Wait ==
  /\ main = "wait" /\ num_children <= maxprocs
  /\ main' = "fork"
  /\ UNCHANGED <<connection, num_children, sigchld, child, client, given>>

Fork ==
  /\ main = "fork"
  /\ child' = [child EXCEPT ![connection].proc = "live"]
  /\ main' = "count"
  /\ UNCHANGED <<connection, num_children, sigchld, client, given>>

Count ==
  /\ main = "count"
  /\ num_children' = num_children + 1
  /\ main' = "reap"
  /\ UNCHANGED <<connection, sigchld, child, client, given>>

Zombies == {c \in Conn : child[c].proc = "zombie"}

\* waitpid(0, NULL, WNOHANG) for child c.
Waited(c) ==
  /\ child' = [child EXCEPT ![c] = NoChild]
  /\ num_children' = num_children - 1

\* `while(waitpid(...) > 0) num_children--', then the connection is closed.
Reap ==
  /\ main = "reap"
  /\ \/ \E c \in Zombies : Waited(c) /\ UNCHANGED <<main, connection>>
     \/ /\ Zombies = {} /\ main' = "accept" /\ connection' = Nobody
        /\ UNCHANGED <<child, num_children>>
  /\ UNCHANGED <<sigchld, client, given>>

\* handle_childs: one waitpid, however many children have ended.
\* Mutant: the count goes down when there is no child to wait for as well.
HandleChilds_always ==
  /\ sigchld
  /\ sigchld' = FALSE
  /\ num_children' = num_children - 1
  /\ IF Zombies = {} THEN UNCHANGED child
     ELSE \E c \in Zombies : child' = [child EXCEPT ![c] = NoChild]
  /\ UNCHANGED <<main, connection, client, given>>
HandleChilds ==
  /\ sigchld
  /\ sigchld' = FALSE
  /\ \/ \E c \in Zombies : Waited(c)
     \/ Zombies = {} /\ UNCHANGED <<child, num_children>>
  /\ UNCHANGED <<main, connection, client, given>>

-----------------------------------------------------------------------------
(***************************************************************************)
(* A child: serve_zone.                                                    *)
(***************************************************************************)
At(c, stage) == child[c].proc = "live" /\ child[c].at = stage

Goes(c, stage) == child' = [child EXCEPT ![c].at = stage]

\* The connection is closed and the process ends.
Ends(c) == /\ child' = [child EXCEPT ![c] = [NoChild EXCEPT !.proc = "zombie"]]
           /\ sigchld' = TRUE

Own == <<main, connection, num_children, given>>

\* The query is read.  It may be no query at all (too long, cut off, a reply),
\* or alarm(30) comes first.
ReadQuery(c) ==
  /\ At(c, "query") /\ client[c].asked = 1
  /\ LET perm == client[c].perm
         zone == Bit(perm, 1) /\ kind[c] # "other"
         stage == IF zone THEN "open" ELSE "forward" IN
     IF zone \/ Bit(perm, 2) THEN Goes(c, stage) /\ UNCHANGED sigchld
     ELSE Ends(c)
  /\ UNCHANGED <<Own, client>>

\* Mutant: the alarm is set when the query has come.
QueryFails_later(c) ==
  At(c, "query") /\ client[c].asked = 1 /\ Ends(c) /\ UNCHANGED <<Own, client>>
QueryFails(c) == At(c, "query") /\ Ends(c) /\ UNCHANGED <<Own, client>>

\* convert_query: one try over UDP, five seconds; recursion desired only for
\* clients of the third list.
Forward(c) ==
  /\ At(c, "forward")
  /\ Ends(c)
  /\ \/ UNCHANGED client
     \/ client' = [client EXCEPT ![c].forwarded =
                     IF Bit(client[c].perm, 4) THEN "recursive" ELSE "plain"]
  /\ UNCHANGED Own

\* csv2_parse_zone_zoneserver: no such zone, no such file, or its beginning.
Open(c) ==
  /\ At(c, "open")
  /\ \/ /\ child' = [child EXCEPT ![c].file = Opened(disk), ![c].at = "begin"]
        /\ UNCHANGED sigchld
     \/ Ends(c)
  /\ UNCHANGED <<Own, client>>

\* One more line is read.
ReadLine(c) ==
  child' = [child EXCEPT ![c].file = ReadRr(@, SynthIp, 2), ![c].read = @ + 1]

\* Lines are read until one is not the SOA record or an NS record of the zone.
\* Mutant: only the SOA is read before the reply.
ReadBeginning_soa(c) ==
  /\ At(c, "begin")
  /\ LET s == child[c].file
         after == IF kind[c] = "axfr" THEN "first" ELSE "soa" IN
     IF s.rrnum = 0 /\ ~s.ended THEN ReadLine(c)
     ELSE child' = [child EXCEPT ![c].at = after, ![c].read = 0]
  /\ UNCHANGED <<Own, client, sigchld>>
ReadBeginning(c) ==
  /\ At(c, "begin")
  /\ LET s == child[c].file
         after == IF kind[c] = "axfr" THEN "first" ELSE "soa" IN
     IF s.in_ns /\ ~s.ended /\ child[c].read < FirstRead THEN ReadLine(c)
     ELSE child' = [child EXCEPT ![c].at = after, ![c].read = 0]
  /\ UNCHANGED <<Own, client, sigchld>>

\* Writing to a client that has left ends the child, by SIGPIPE.  (A write or
\* two may be lost first, which nobody sees.)
Gone(c) == client[c].at = "gone"

SpitSoa(c) ==
  /\ At(c, "soa")
  /\ IF child[c].file.buffer = << >> \/ Gone(c)
     THEN Ends(c) /\ UNCHANGED client
     ELSE /\ Goes(c, "next") /\ UNCHANGED sigchld
          /\ client' = [client EXCEPT ![c].reply = SoaReply(child[c].file.buffer)]
  /\ UNCHANGED Own

\* The second query is read and thrown away, whatever it is; the alarm is off.
\* Its length has to come in one piece.
ReadNext(c) ==
  /\ At(c, "next")
  /\ \/ client[c].asked = 2 /\ Goes(c, "first") /\ UNCHANGED sigchld
     \/ (client[c].asked = 2 \/ Gone(c)) /\ Ends(c)
  /\ UNCHANGED <<Own, client>>

\* copy_csv2_rr(state->buffer); of an empty buffer it reads a null pointer.
First(c) ==
  /\ At(c, "first")
  /\ IF child[c].file.buffer = << >> THEN Ends(c)
     ELSE /\ child' = [child EXCEPT ![c].soa = <<Head(child[c].file.buffer)>>,
                                    ![c].at = "spit"]
          /\ UNCHANGED sigchld
  /\ UNCHANGED <<Own, client>>

\* What fetchzone does with a record: it stops at the second SOA.
Fetched(k, r) ==
  IF r.type = "SOA" /\ \E i \in DOMAIN k.got : k.got[i].type = "SOA"
  THEN [k EXCEPT !.ended = "whole", !.at = "done"]
  ELSE [k EXCEPT !.got = Append(@, r)]

\* A record is written.
Written(c, r) ==
  client' = IF client[c].at # "accepted" THEN client
            ELSE [client EXCEPT ![c] = Fetched(@, r)]

\* csv2_tcp_spit_buffer, one record of it.
SpitBuffer(c) ==
  /\ At(c, "spit")
  /\ LET buffer == child[c].file.buffer IN
     CASE buffer = << >> -> Goes(c, "round") /\ UNCHANGED <<sigchld, client>>
       [] buffer # << >> /\ Gone(c) -> Ends(c) /\ UNCHANGED client
       [] OTHER -> /\ Written(c, Head(buffer))
                   /\ child' = [child EXCEPT ![c].file.buffer = Tail(@)]
                   /\ UNCHANGED sigchld
  /\ UNCHANGED Own

\* Some more lines are read, and what they gave is sent; after the round in
\* which a line was not there comes the end.
\* Mutant: what that round gave is not sent.
ReadRound_last(c) ==
  /\ At(c, "round")
  /\ LET s == child[c].file IN
     IF s.ended THEN child' = [child EXCEPT ![c].at = "last",
                                           ![c].file.buffer = << >>]
     ELSE IF child[c].read < Round THEN ReadLine(c)
     ELSE child' = [child EXCEPT ![c].at = "spit", ![c].read = 0]
  /\ UNCHANGED <<Own, client, sigchld>>
ReadRound(c) ==
  /\ At(c, "round")
  /\ LET s == child[c].file IN
     IF s.ended /\ s.buffer = << >> THEN Goes(c, "last")
     ELSE IF ~s.ended /\ child[c].read < Round THEN ReadLine(c)
     ELSE child' = [child EXCEPT ![c].at = "spit", ![c].read = 0]
  /\ UNCHANGED <<Own, client, sigchld>>

\* The saved SOA once more.
SpitLast(c) ==
  /\ At(c, "last")
  /\ Written(c, child[c].soa[1])
  /\ Ends(c)
  /\ UNCHANGED Own

Child(c) == \/ ReadQuery(c) \/ Forward(c) \/ Open(c)
            \/ ReadBeginning(c) \/ SpitSoa(c) \/ ReadNext(c) \/ First(c)
            \/ SpitBuffer(c) \/ ReadRound(c) \/ SpitLast(c)

-----------------------------------------------------------------------------
(***************************************************************************)
(* Clients.                                                                *)
(***************************************************************************)
Server == <<main, connection, num_children, sigchld, child, given>>

\* A secondary that has the SOA record asks for the zone.
AskZone(c) ==
  /\ kind[c] = "soa" /\ client[c].at = "accepted"
  /\ client[c].reply # << >> /\ client[c].asked = 1
  /\ client' = [client EXCEPT ![c].asked = 2]
  /\ UNCHANGED Server

\* It leaves, or the connection breaks, or alarm(300) ends it.
Leave(c) ==
  /\ c \in Leavers /\ client[c].at = "accepted"
  /\ client' = [client EXCEPT ![c].at = "gone"]
  /\ UNCHANGED Server

\* The end of what was sent: fetchzone returns 0.
EndOfFile(c) ==
  /\ client[c].at = "accepted" /\ connection # c
  /\ child[c].proc \in {"none", "zombie"}
  /\ client' = [client EXCEPT ![c].at = "done", ![c].ended = "early"]
  /\ UNCHANGED Server

Main == \/ \E c \in Conn : Accept(c)
        \/ Wait \/ Fork \/ Count \/ Reap

Next ==
  \/ Main \/ HandleChilds
  \/ \E c \in Conn : \/ Child(c) \/ QueryFails(c)
                     \/ AskZone(c) \/ Leave(c) \/ EndOfFile(c)

\* The kernel runs the server's processes and delivers its signals; accept()
\* takes connections in their order, so each has its turn.  An alarm rings
\* when a query does not come.  A client asks for the zone when it has the
\* SOA record, and reads to the end; nothing is assumed of when it leaves.
Spec ==
  /\ Init /\ [][Next]_vars
  /\ WF_vars(Main) /\ WF_vars(HandleChilds)
  /\ \A c \in Conn : /\ SF_vars(Accept(c))
                     /\ WF_vars(Child(c)) /\ WF_vars(QueryFails(c))
                     /\ WF_vars(AskZone(c)) /\ WF_vars(EndOfFile(c))

-----------------------------------------------------------------------------
(***************************************************************************)
(* What files and addresses must be like for a transfer to be right.       *)
(***************************************************************************)
\* The buffer takes what may be read before it is sent: the beginning, the
\* records behind it that are synthesized, and a round.
Roomy ==
  /\ FirstRead + 2 <= BufferMax /\ 3 + 2 * Len(SynthIp) <= BufferMax
  /\ 2 * Round + 2 * Len(SynthIp) <= BufferMax
\* A SOA record that comes first is the SOA record of the zone.
SoaAtTop(file) == file # << >> /\ file[1].type = "SOA" => file[1].at = "zone"
Sound == Roomy /\ \A f \in Files : SoaAtTop(f)

Heading(r) == r.type = "SOA" \/ ZoneNs(r)

\* A file that can be told from its beginning: it has SOA and NS records of the
\* zone, not too many of them unless it has nothing else, and the record behind
\* them is not the NS record of a delegation.
Begins(file) ==
  \E n \in 0..FirstRead :
    /\ n <= Len(file) /\ \A i \in 1..n : Heading(file[i])
    /\ \/ n = Len(file)
       \/ n < FirstRead /\ file[n + 1].type \notin {"SOA", "NS"}
HeadingsFirst == \A f \in Files : Begins(f)

-----------------------------------------------------------------------------
(***************************************************************************)
(* Properties.                                                             *)
(***************************************************************************)
\* What fetchzone writes: records outside of the zone become comments.
Output(got) ==
  [i \in DOMAIN got |-> IF got[i].at = "elsewhere" THEN Comment ELSE got[i]]
InZone(rrs) == {r \in rrs : r.at # "elsewhere"}

(***************************************************************************)
(* A zone that was fetched to the end, loaded by another maradns, is the   *)
(* zone the first one serves: what csv2_parse_zone and                     *)
(* csv2_parse_zone_zoneserver make of a file with synthesized, late and    *)
(* misplaced records, in rounds, through a buffer, is the same.            *)
(***************************************************************************)
FetchedIsServed ==
  \A c \in Conn : client[c].ended = "whole" =>
    Served(Output(client[c].got), SecondaryIp) = InZone(Served(disk, SynthIp))

(***************************************************************************)
(* num_children is the number of children that run or have not been waited *)
(* for, whatever the interleaving of fork, of deaths, of coalesced signals *)
(* and of the two places that wait for children.                           *)
(***************************************************************************)
ChildrenCounted ==
  LET children == Cardinality({c \in Conn : child[c].proc # "none"})
  IN num_children = children - (IF main = "count" THEN 1 ELSE 0)

(***************************************************************************)
(* The SOA reply, which is made before the zone is read, has the SOA and   *)
(* the NS records of the zone that is sent after it.                       *)
(***************************************************************************)
SoaReplyFits ==
  \A c \in Conn : client[c].reply # << >> =>
    ToSet(client[c].reply) =
      {r \in Served(disk, SynthIp) : r.at = "zone" /\ r.type \in {"SOA", "NS"}}

(***************************************************************************)
(* gettcp: "LSB: On 1st ACL list, 2nd bit: on second ACL list, 3rd bit: on *)
(* 3rd ACL list".  It holds when no list has two entries for one address.  *)
(***************************************************************************)
Permitted ==
  \A c \in Conn :
    /\ client[c].got # << >> => acl[c].zone > 0
    /\ client[c].forwarded # "no" => acl[c].convert > 0
    /\ client[c].forwarded = "recursive" => acl[c].recursive > 0
    /\ client[c].at = "refused" => acl[c].zone = 0 /\ acl[c].convert = 0

(***************************************************************************)
(* Whoever connects is refused, or has all that is sent and then the end   *)
(* of the connection: the server neither runs out of processes nor waits   *)
(* for one for ever, although clients are silent and signals coalesce.     *)
(* (Each client connects once, and what it has come to stays so.)          *)
(***************************************************************************)
EveryoneServed ==
  <>(\A c \in Conn : /\ client[c].at \in {"refused", "gone", "done"}
                     /\ child[c].proc # "live")
=============================================================================
