-------------------------- MODULE ZoneServer_proofs --------------------------
(***************************************************************************)
(* Proofs about ZoneServer, for any number of clients and any files: the   *)
(* count of children is right at every moment, and maxprocs bounds it; a   *)
(* zone that was fetched is the zone that is served; and the SOA reply     *)
(* fits it.                                                                *)
(***************************************************************************)
EXTENDS ZoneServer, FilaOrder_proofs

\* A record with the fields of S, whatever their values.
HasFields(r, S) == r = [f \in S |-> r[f]]
ChildFields == {"proc", "at", "file", "read", "soa"}
ClientFields == {"at", "perm", "asked", "reply", "got", "forwarded", "ended"}

\* The clients for which a process runs or has not been waited for.
Children == {c \in Conn : child[c].proc # "none"}

ChildOK ==
  /\ child = [c \in Conn |-> child[c]]
  /\ \A c \in Conn : HasFields(child[c], ChildFields)
ClientOK ==
  /\ client = [c \in Conn |-> client[c]]
  /\ \A c \in Conn : HasFields(client[c], ClientFields)

\* Between accept() and fork() there is no child for the connection, because
\* no process begins before its client has been accepted.
ConnectionOK ==
  /\ \A c \in Conn : client[c].at = "queued" => child[c].proc = "none"
  /\ main # "accept" => connection \in Conn
  /\ main \in {"wait", "fork"} => /\ child[connection].proc = "none"
                                  /\ client[connection].at # "queued"

\* The count before fork() and before its child is counted, and at other times.
CountOK ==
  /\ num_children \in Int
  /\ ChildrenCounted
  /\ num_children <= maxprocs + (IF main \in {"fork", "count"} THEN 0 ELSE 1)

IInv == ChildOK /\ ClientOK /\ ConnectionOK /\ CountOK

-----------------------------------------------------------------------------
(***************************************************************************)
(* A step in which nobody is forked, counted or waited for, and no client  *)
(* comes back into the queue.                                              *)
(***************************************************************************)
Steady ==
  /\ ChildOK' /\ ClientOK'
  /\ \A c \in Conn : child'[c].proc = "none" <=> child[c].proc = "none"
  /\ \A c \in Conn : client'[c].at = "queued" => client[c].at = "queued"
  /\ UNCHANGED <<main, connection, num_children>>

LEMMA SteadyOK == ASSUME IInv, Steady PROVE IInv'
<1>1. Children' = Children
  BY DEF Steady, Children
<1>2. ConnectionOK'
  BY DEF IInv, ConnectionOK, Steady
<1>3. CountOK'
  BY <1>1 DEF IInv, CountOK, ChildrenCounted, Children, Steady
<1> QED BY <1>2, <1>3 DEF IInv, Steady

\* What a running child does to its own record.
LEMMA ChildStep ==
  ASSUME IInv, NEW c \in Conn, child[c].proc = "live",
         NEW r, HasFields(r, ChildFields), r.proc # "none",
         child' = [child EXCEPT ![c] = r]
  PROVE  /\ ChildOK'
         /\ \A d \in Conn : child'[d].proc = "none" <=> child[d].proc = "none"
<1>1. \A d \in Conn : child'[d] = IF d = c THEN r ELSE child[d]
  BY DEF IInv, ChildOK
<1>2. ChildOK'
  BY <1>1 DEF IInv, ChildOK
<1> QED BY <1>1, <1>2

LEMMA EndsStep ==
  ASSUME IInv, NEW c \in Conn, child[c].proc = "live", Ends(c)
  PROVE  /\ ChildOK'
         /\ \A d \in Conn : child'[d].proc = "none" <=> child[d].proc = "none"
<1> DEFINE r == [NoChild EXCEPT !.proc = "zombie"]
<1>1. r.proc = "zombie" /\ HasFields(r, ChildFields)
  BY DEF NoChild, HasFields, ChildFields
<1> HIDE DEF r
<1> QED BY <1>1, ChildStep DEF Ends, r

LEMMA GoesStep ==
  ASSUME IInv, NEW c \in Conn, child[c].proc = "live", NEW stage, Goes(c, stage)
  PROVE  /\ ChildOK'
         /\ \A d \in Conn : child'[d].proc = "none" <=> child[d].proc = "none"
<1> DEFINE r == [child[c] EXCEPT !.at = stage]
<1>1. r.proc = "live" /\ HasFields(r, ChildFields)
  BY DEF IInv, ChildOK, HasFields, ChildFields
<1> HIDE DEF r
<1> QED BY <1>1, ChildStep DEF Goes, r

LEMMA SameClient ==
  ASSUME IInv, UNCHANGED client
  PROVE  ClientOK' /\ \A c \in Conn : client'[c].at = "queued" => client[c].at = "queued"
BY DEF IInv, ClientOK

LEMMA SameChild ==
  ASSUME IInv, UNCHANGED child
  PROVE  ChildOK' /\ \A c \in Conn : child'[c].proc = "none" <=> child[c].proc = "none"
BY DEF IInv, ChildOK

-----------------------------------------------------------------------------
(***************************************************************************)
(* The actions of children.                                                *)
(***************************************************************************)
LEMMA LiveAt == ASSUME NEW c, NEW stage, At(c, stage) PROVE child[c].proc = "live"
BY DEF At

LEMMA ReadLineStep ==
  ASSUME IInv, NEW c \in Conn, child[c].proc = "live", ReadLine(c)
  PROVE  /\ ChildOK'
         /\ \A d \in Conn : child'[d].proc = "none" <=> child[d].proc = "none"
<1> DEFINE f == ReadRr(child[c].file, SynthIp, 2)
           r == [child[c] EXCEPT !.file = f, !.read = child[c].read + 1]
<1>1. child' = [child EXCEPT ![c] = r]
  BY DEF ReadLine, IInv, ChildOK, HasFields, ChildFields
<1> HIDE DEF f
<1>2. r.proc = "live" /\ HasFields(r, ChildFields)
  BY DEF IInv, ChildOK, HasFields, ChildFields
<1> HIDE DEF r
<1> QED BY <1>1, <1>2, ChildStep

LEMMA ReadQuerySteady == ASSUME IInv, NEW c \in Conn, ReadQuery(c) PROVE Steady
<1>1. child[c].proc = "live"
  BY LiveAt DEF ReadQuery
<1>2. (\E stage : Goes(c, stage)) \/ Ends(c)
  BY DEF ReadQuery
<1>3. UNCHANGED <<main, connection, num_children, client>>
  BY DEF ReadQuery, Own
<1> QED BY <1>1, <1>2, <1>3, GoesStep, EndsStep, SameClient DEF Steady

LEMMA QueryFailsSteady == ASSUME IInv, NEW c \in Conn, QueryFails(c) PROVE Steady
BY LiveAt, EndsStep, SameClient DEF QueryFails, Steady, Own

\* A client that is given more does not queue again.
LEMMA ClientStep ==
  ASSUME IInv, NEW c \in Conn, NEW r, HasFields(r, ClientFields),
         r.at = "queued" => client[c].at = "queued",
         client' = [client EXCEPT ![c] = r]
  PROVE  ClientOK' /\ \A d \in Conn : client'[d].at = "queued" => client[d].at = "queued"
<1>1. \A d \in Conn : client'[d] = IF d = c THEN r ELSE client[d]
  BY DEF IInv, ClientOK
<1> QED BY <1>1 DEF IInv, ClientOK

LEMMA ForwardSteady == ASSUME IInv, NEW c \in Conn, Forward(c) PROVE Steady
<1>1. PICK how : UNCHANGED client \/ client' = [client EXCEPT ![c].forwarded = how]
  BY DEF Forward
<1> DEFINE r == [client[c] EXCEPT !.forwarded = how]
<1>2. HasFields(r, ClientFields) /\ r.at = client[c].at
  BY DEF IInv, ClientOK, HasFields, ClientFields
<1>3. UNCHANGED client \/ client' = [client EXCEPT ![c] = r]
  BY <1>1
<1> HIDE DEF r
<1>4. ClientOK' /\ \A d \in Conn : client'[d].at = "queued" => client[d].at = "queued"
  BY <1>2, <1>3, ClientStep, SameClient
<1> QED BY <1>4, LiveAt, EndsStep DEF Forward, Steady, Own

LEMMA OpenSteady == ASSUME IInv, NEW c \in Conn, Open(c) PROVE Steady
<1> DEFINE f == Opened(disk)
           r == [child[c] EXCEPT !.file = f, !.at = "begin"]
<1>1. child' = [child EXCEPT ![c] = r] \/ Ends(c)
  BY DEF Open, IInv, ChildOK, HasFields, ChildFields
<1> HIDE DEF f
<1>2. child[c].proc = "live"
  BY LiveAt DEF Open
<1>3. r.proc = "live" /\ HasFields(r, ChildFields)
  BY <1>2 DEF IInv, ChildOK, HasFields, ChildFields
<1> HIDE DEF r
<1>4. UNCHANGED <<main, connection, num_children, client>>
  BY DEF Open, Own
<1> QED BY <1>1, <1>2, <1>3, <1>4, ChildStep, EndsStep, SameClient DEF Steady

\* Another stage and another count of lines.
LEMMA StageStep ==
  ASSUME IInv, NEW c \in Conn, child[c].proc = "live", NEW stage,
         child' = [child EXCEPT ![c].at = stage, ![c].read = 0]
  PROVE  /\ ChildOK'
         /\ \A d \in Conn : child'[d].proc = "none" <=> child[d].proc = "none"
<1> DEFINE r == [child[c] EXCEPT !.at = stage, !.read = 0]
<1>1. child' = [child EXCEPT ![c] = r]
  BY DEF IInv, ChildOK, HasFields, ChildFields
<1>2. r.proc = "live" /\ HasFields(r, ChildFields)
  BY DEF IInv, ChildOK, HasFields, ChildFields
<1> HIDE DEF r
<1> QED BY <1>1, <1>2, ChildStep

LEMMA ReadBeginningSteady == ASSUME IInv, NEW c \in Conn, ReadBeginning(c) PROVE Steady
<1>1. child[c].proc = "live"
  BY LiveAt DEF ReadBeginning
<1>2. ReadLine(c) \/ \E stage : child' = [child EXCEPT ![c].at = stage, ![c].read = 0]
  BY DEF ReadBeginning
<1>3. UNCHANGED <<main, connection, num_children, client>>
  BY DEF ReadBeginning, Own
<1> QED BY <1>1, <1>2, <1>3, ReadLineStep, StageStep, SameClient DEF Steady

LEMMA SpitSoaSteady == ASSUME IInv, NEW c \in Conn, SpitSoa(c) PROVE Steady
<1> DEFINE reply == SoaReply(child[c].file.buffer)
           r == [client[c] EXCEPT !.reply = reply]
<1>1. UNCHANGED client \/ client' = [client EXCEPT ![c] = r]
  BY DEF SpitSoa
<1> HIDE DEF reply
<1>2. HasFields(r, ClientFields) /\ r.at = client[c].at
  BY DEF IInv, ClientOK, HasFields, ClientFields
<1> HIDE DEF r
<1>3. ClientOK' /\ \A d \in Conn : client'[d].at = "queued" => client[d].at = "queued"
  BY <1>1, <1>2, ClientStep, SameClient
<1>4. child[c].proc = "live" /\ (Goes(c, "next") \/ Ends(c))
  BY LiveAt DEF SpitSoa
<1> QED BY <1>3, <1>4, GoesStep, EndsStep DEF SpitSoa, Steady, Own

LEMMA ReadNextSteady == ASSUME IInv, NEW c \in Conn, ReadNext(c) PROVE Steady
<1>1. child[c].proc = "live" /\ (Goes(c, "first") \/ Ends(c))
  BY LiveAt DEF ReadNext
<1> QED BY <1>1, GoesStep, EndsStep, SameClient DEF ReadNext, Steady, Own

LEMMA FirstSteady == ASSUME IInv, NEW c \in Conn, First(c) PROVE Steady
<1> DEFINE soa == <<Head(child[c].file.buffer)>>
           r == [child[c] EXCEPT !.soa = soa, !.at = "spit"]
<1>1. Ends(c) \/ child' = [child EXCEPT ![c] = r]
  BY DEF First, IInv, ChildOK, HasFields, ChildFields
<1> HIDE DEF soa
<1>2. child[c].proc = "live"
  BY LiveAt DEF First
<1>3. r.proc = "live" /\ HasFields(r, ChildFields)
  BY <1>2 DEF IInv, ChildOK, HasFields, ChildFields
<1> HIDE DEF r
<1>4. UNCHANGED <<main, connection, num_children, client>>
  BY DEF First, Own
<1> QED BY <1>1, <1>2, <1>3, <1>4, ChildStep, EndsStep, SameClient DEF Steady

LEMMA WrittenStep ==
  ASSUME IInv, NEW c \in Conn, NEW rr, Written(c, rr)
  PROVE  ClientOK' /\ \A d \in Conn : client'[d].at = "queued" => client[d].at = "queued"
<1> DEFINE r == Fetched(client[c], rr)
<1>1. UNCHANGED client \/ client' = [client EXCEPT ![c] = r]
  BY DEF Written
<1>2. HasFields(r, ClientFields) /\ (r.at = "queued" => client[c].at = "queued")
  BY DEF Fetched, IInv, ClientOK, HasFields, ClientFields
<1> HIDE DEF r
<1> QED BY <1>1, <1>2, ClientStep, SameClient

LEMMA SpitBufferSteady == ASSUME IInv, NEW c \in Conn, SpitBuffer(c) PROVE Steady
<1> DEFINE buffer == child[c].file.buffer
           f == [child[c].file EXCEPT !.buffer = Tail(buffer)]
           r == [child[c] EXCEPT !.file = f]
<1>1. child[c].proc = "live"
  BY LiveAt DEF SpitBuffer
<1>2. \/ Goes(c, "round") /\ UNCHANGED client
      \/ Ends(c) /\ UNCHANGED client
      \/ child' = [child EXCEPT ![c] = r] /\ Written(c, Head(buffer))
  BY DEF SpitBuffer
<1> HIDE DEF buffer, f
<1>3. r.proc = "live" /\ HasFields(r, ChildFields)
  BY <1>1 DEF IInv, ChildOK, HasFields, ChildFields
<1> HIDE DEF r
<1>4. ClientOK' /\ \A d \in Conn : client'[d].at = "queued" => client[d].at = "queued"
  BY <1>2, WrittenStep, SameClient
<1> QED BY <1>1, <1>2, <1>3, <1>4, ChildStep, GoesStep, EndsStep DEF SpitBuffer, Steady, Own

LEMMA ReadRoundSteady == ASSUME IInv, NEW c \in Conn, ReadRound(c) PROVE Steady
<1>1. child[c].proc = "live"
  BY LiveAt DEF ReadRound
<1>2. \/ Goes(c, "last") \/ ReadLine(c)
      \/ child' = [child EXCEPT ![c].at = "spit", ![c].read = 0]
  BY DEF ReadRound
<1>3. UNCHANGED <<main, connection, num_children, client>>
  BY DEF ReadRound, Own
<1> QED BY <1>1, <1>2, <1>3, GoesStep, ReadLineStep, StageStep, SameClient DEF Steady

LEMMA SpitLastSteady == ASSUME IInv, NEW c \in Conn, SpitLast(c) PROVE Steady
BY LiveAt, EndsStep, WrittenStep DEF SpitLast, Steady, Own

LEMMA ChildSteady == ASSUME IInv, NEW c \in Conn, Child(c) PROVE Steady
BY ReadQuerySteady, ForwardSteady, OpenSteady, ReadBeginningSteady, SpitSoaSteady,
   ReadNextSteady, FirstSteady, SpitBufferSteady, ReadRoundSteady, SpitLastSteady DEF Child

-----------------------------------------------------------------------------
(***************************************************************************)
(* Clients.                                                                *)
(***************************************************************************)
LEMMA AskZoneSteady == ASSUME IInv, NEW c \in Conn, AskZone(c) PROVE Steady
<1> DEFINE r == [client[c] EXCEPT !.asked = 2]
<1>1. client' = [client EXCEPT ![c] = r]
  BY DEF AskZone
<1>2. HasFields(r, ClientFields) /\ r.at = client[c].at
  BY DEF IInv, ClientOK, HasFields, ClientFields
<1> HIDE DEF r
<1> QED BY <1>1, <1>2, ClientStep, SameChild DEF AskZone, Server, Steady

LEMMA LeaveSteady == ASSUME IInv, NEW c \in Conn, Leave(c) PROVE Steady
<1> DEFINE r == [client[c] EXCEPT !.at = "gone"]
<1>1. client' = [client EXCEPT ![c] = r]
  BY DEF Leave
<1>2. HasFields(r, ClientFields) /\ r.at = "gone"
  BY DEF IInv, ClientOK, HasFields, ClientFields
<1> HIDE DEF r
<1> QED BY <1>1, <1>2, ClientStep, SameChild DEF Leave, Server, Steady

LEMMA EndOfFileSteady == ASSUME IInv, NEW c \in Conn, EndOfFile(c) PROVE Steady
<1> DEFINE r == [client[c] EXCEPT !.at = "done", !.ended = "early"]
<1>1. client' = [client EXCEPT ![c] = r]
  BY DEF EndOfFile, IInv, ClientOK, HasFields, ClientFields
<1>2. HasFields(r, ClientFields) /\ r.at = "done"
  BY DEF IInv, ClientOK, HasFields, ClientFields
<1> HIDE DEF r
<1> QED BY <1>1, <1>2, ClientStep, SameChild DEF EndOfFile, Server, Steady

-----------------------------------------------------------------------------
(***************************************************************************)
(* The process that counts.                                                *)
(***************************************************************************)
LEMMA ChildrenFinite == IsFiniteSet(Children)
BY ZoneServerAssumption, FS_Subset DEF Children

LEMMA AcceptOK == ASSUME IInv, NEW c \in Conn, Accept(c) PROVE IInv'
<1> DEFINE refused == [client[c] EXCEPT !.at = "refused"]
           accepted(p) == [client[c] EXCEPT !.at = "accepted", !.perm = p]
<1>1. CASE client' = [client EXCEPT ![c] = refused] /\ UNCHANGED <<main, connection>>
  <2>1. HasFields(refused, ClientFields) /\ refused.at = "refused"
    BY DEF IInv, ClientOK, HasFields, ClientFields
  <2> HIDE DEF refused
  <2>2. Steady
    BY <1>1, <2>1, ClientStep, SameChild DEF Accept, Steady
  <2> QED BY <2>2, SteadyOK
<1>2. CASE \E p : client' = [client EXCEPT ![c] = accepted(p)] /\ main' = "wait" /\ connection' = c
  <2>1. PICK p : client' = [client EXCEPT ![c] = accepted(p)]
    BY <1>2
  <2>2. HasFields(accepted(p), ClientFields) /\ accepted(p).at = "accepted"
    BY DEF IInv, ClientOK, HasFields, ClientFields
  <2>3. child[c].proc = "none" /\ main = "accept" /\ UNCHANGED <<child, num_children>>
    BY DEF Accept, IInv, ConnectionOK
  <2> DEFINE r == accepted(p)
  <2> HIDE DEF r
  <2>4. ClientOK' /\ \A d \in Conn : client'[d].at = "queued" => client[d].at = "queued"
    BY <2>1, <2>2, ClientStep DEF r
  <2>5. client'[c].at = "accepted"
    BY <2>1, <2>2 DEF IInv, ClientOK, r
  <2>6. ConnectionOK'
    BY <1>2, <2>3, <2>4, <2>5 DEF IInv, ConnectionOK
  <2>7. CountOK'
    BY <1>2, <2>3 DEF IInv, CountOK, ChildrenCounted
  <2> QED BY <2>3, <2>4, <2>6, <2>7, SameChild DEF IInv
<1> QED BY <1>1, <1>2 DEF Accept, IInv, ClientOK, HasFields, ClientFields

LEMMA WaitOK == ASSUME IInv, Wait PROVE IInv'
<1>1. ChildOK' /\ ClientOK'
  BY SameChild, SameClient DEF Wait
<1>2. ConnectionOK'
  BY DEF Wait, IInv, ConnectionOK
<1>3. CountOK'
  BY ZoneServerAssumption DEF Wait, IInv, CountOK, ChildrenCounted
<1> QED BY <1>1, <1>2, <1>3 DEF IInv

\* The child of the connection is new, and the count is one behind.
LEMMA ForkOK == ASSUME IInv, Fork PROVE IInv'
<1>1. connection \in Conn /\ child[connection].proc = "none"
  BY DEF Fork, IInv, ConnectionOK
<1> DEFINE r == [child[connection] EXCEPT !.proc = "live"]
<1>2. HasFields(r, ChildFields) /\ r.proc = "live"
  BY <1>1 DEF IInv, ChildOK, HasFields, ChildFields
<1>3. child' = [child EXCEPT ![connection] = r]
  BY DEF Fork
<1> HIDE DEF r
<1>4. \A d \in Conn : child'[d] = IF d = connection THEN r ELSE child[d]
  BY <1>1, <1>3 DEF IInv, ChildOK
<1>5. ChildOK' /\ ClientOK'
  BY <1>2, <1>3, <1>4, SameClient DEF Fork, IInv, ChildOK
<1>6. ConnectionOK'
  BY <1>1, <1>4 DEF Fork, IInv, ConnectionOK
<1>7. Children' = Children \union {connection} /\ connection \notin Children
  BY <1>1, <1>2, <1>4 DEF Fork, Children
<1>8. Cardinality(Children') = Cardinality(Children) + 1
  BY <1>7, ChildrenFinite, FS_AddElement
<1>9. Cardinality(Children') \in Nat /\ Cardinality(Children) \in Nat
  BY <1>7, ChildrenFinite, FS_AddElement, FS_CardinalityType
<1>10. num_children = Cardinality(Children) /\ num_children' = num_children /\ num_children <= maxprocs
  BY <1>9, ZoneServerAssumption DEF Fork, IInv, CountOK, ChildrenCounted, Children
<1>11. CountOK'
  BY <1>8, <1>9, <1>10 DEF Fork, IInv, CountOK, ChildrenCounted, Children
<1> QED BY <1>5, <1>6, <1>11 DEF IInv

LEMMA CountedOK == ASSUME IInv, Count PROVE IInv'
<1>1. ChildOK' /\ ClientOK'
  BY SameChild, SameClient DEF Count
<1>2. ConnectionOK'
  BY DEF Count, IInv, ConnectionOK
<1>3. Cardinality(Children) \in Nat
  BY ChildrenFinite, FS_CardinalityType
<1>4. CountOK'
  BY <1>3, ZoneServerAssumption DEF Count, IInv, CountOK, ChildrenCounted, Children
<1> QED BY <1>1, <1>2, <1>4 DEF IInv

\* Wherever main() is when a child is waited for, that child is another one
\* than the one it is about to fork.
LEMMA WaitedOK ==
  ASSUME IInv, NEW c \in Zombies, Waited(c), UNCHANGED <<main, connection, client>>
  PROVE  IInv'
<1>1. c \in Conn /\ c \in Children
  BY DEF Zombies, Children
<1>2. NoChild.proc = "none" /\ HasFields(NoChild, ChildFields)
  BY DEF NoChild, HasFields, ChildFields
<1>3. \A d \in Conn : child'[d] = IF d = c THEN NoChild ELSE child[d]
  BY <1>1 DEF Waited, IInv, ChildOK
<1>4. child' = [d \in Conn |-> child'[d]]
  BY DEF Waited, IInv, ChildOK
<1>5. ChildOK' /\ ClientOK'
  BY <1>2, <1>3, <1>4, SameClient DEF IInv, ChildOK
<1>6. ConnectionOK'
  BY <1>2, <1>3 DEF IInv, ConnectionOK
<1>7. Children' = Children \ {c}
  BY <1>1, <1>2, <1>3 DEF Children
<1>8. Cardinality(Children') = Cardinality(Children) - 1
  BY <1>1, <1>7, ChildrenFinite, FS_RemoveElement
<1>9. Cardinality(Children) \in Nat
  BY ChildrenFinite, FS_CardinalityType
<1>10. num_children' = num_children - 1
  BY DEF Waited
<1>11. CountOK'
  BY <1>8, <1>9, <1>10, ZoneServerAssumption DEF IInv, CountOK, ChildrenCounted, Children
<1> QED BY <1>5, <1>6, <1>11 DEF IInv

LEMMA ReapOK == ASSUME IInv, Reap PROVE IInv'
<1>1. CASE \E c \in Zombies : Waited(c) /\ UNCHANGED <<main, connection>>
  BY <1>1, WaitedOK DEF Reap
<1>2. CASE main' = "accept" /\ UNCHANGED <<child, num_children>>
  <2>1. ChildOK' /\ ClientOK'
    BY <1>2, SameChild, SameClient DEF Reap
  <2>2. ConnectionOK'
    BY <1>2 DEF Reap, IInv, ConnectionOK
  <2>3. CountOK'
    BY <1>2 DEF Reap, IInv, CountOK, ChildrenCounted
  <2> QED BY <2>1, <2>2, <2>3 DEF IInv
<1> QED BY <1>1, <1>2 DEF Reap

LEMMA HandleChildsOK == ASSUME IInv, HandleChilds PROVE IInv'
<1>1. CASE \E c \in Zombies : Waited(c)
  BY <1>1, WaitedOK DEF HandleChilds
<1>2. CASE UNCHANGED <<child, num_children>>
  <2>1. Steady
    BY <1>2, SameChild, SameClient DEF HandleChilds, Steady
  <2> QED BY <2>1, SteadyOK
<1> QED BY <1>1, <1>2 DEF HandleChilds

-----------------------------------------------------------------------------
LEMMA InitOK == ASSUME Init PROVE IInv
<1>1. ChildOK /\ \A c \in Conn : child[c].proc = "none"
  BY DEF Init, NoChild, ChildOK, HasFields, ChildFields
<1>2. ClientOK
  BY DEF Init, ClientOK, HasFields, ClientFields
<1>3. ConnectionOK
  BY <1>1 DEF Init, ConnectionOK
<1>4. Cardinality(Children) = 0
  BY <1>1, FS_EmptySet DEF Children
<1>5. CountOK
  BY <1>4, ZoneServerAssumption DEF Init, CountOK, ChildrenCounted, Children
<1> QED BY <1>1, <1>2, <1>3, <1>5 DEF IInv

LEMMA NextOK == ASSUME IInv, [Next]_vars PROVE IInv'
<1>1. CASE Main
  BY <1>1, AcceptOK, WaitOK, ForkOK, CountedOK, ReapOK DEF Main
<1>2. CASE HandleChilds
  BY <1>2, HandleChildsOK
<1>3. CASE \E c \in Conn : Child(c) \/ QueryFails(c)
  BY <1>3, ChildSteady, QueryFailsSteady, SteadyOK
<1>4. CASE \E c \in Conn : AskZone(c) \/ Leave(c) \/ EndOfFile(c)
  BY <1>4, AskZoneSteady, LeaveSteady, EndOfFileSteady, SteadyOK
<1>5. CASE UNCHANGED vars
  <2>1. Steady
    BY <1>5, SameChild, SameClient DEF vars, Steady
  <2> QED BY <2>1, SteadyOK
<1> QED BY <1>1, <1>2, <1>3, <1>4, <1>5 DEF Next

(***************************************************************************)
(* Whatever the interleaving of fork, deaths, coalesced signals and the    *)
(* two places that wait, num_children is the number of children (main()    *)
(* and handle_childs of zoneserver.c).                                     *)
(***************************************************************************)
THEOREM CountInvariant == Spec => []ChildrenCounted
<1>1. IInv => ChildrenCounted
  BY DEF IInv, CountOK
<1> QED BY <1>1, InitOK, NextOK, PTL DEF Spec

(***************************************************************************)
(* There are never more processes than maxprocs and one: the wait in       *)
(* main() lets a connection through that finds maxprocs of them.           *)
(***************************************************************************)
ChildrenBounded == Cardinality(Children) <= maxprocs + 1

THEOREM BoundInvariant == Spec => []ChildrenBounded
<1>1. ASSUME IInv PROVE ChildrenBounded
  <2>1. Cardinality(Children) \in Nat
    BY ChildrenFinite, FS_CardinalityType
  <2> QED BY <1>1, <2>1, ZoneServerAssumption
          DEF IInv, CountOK, ChildrenCounted, Children, ChildrenBounded
<1> QED BY <1>1, InitOK, NextOK, PTL DEF Spec
-----------------------------------------------------------------------------
(***************************************************************************)
(* What a line of a file makes, by whichever method it is read: a SOA if   *)
(* it is the first, and the records behind it.                             *)
(***************************************************************************)
FileFields == {"rest", "rrnum", "in_ns", "nses", "buffer", "hash", "ended"}

StateOK(s) ==
  /\ DOMAIN s = FileFields
  /\ s.rrnum \in Nat /\ s.in_ns \in BOOLEAN /\ s.nses \in BOOLEAN
  /\ s.rrnum = 0 => s.in_ns /\ ~ s.nses
  /\ IsSeq(s.buffer)

SoaOf(s, r) ==
  IF s.rrnum # 0 THEN << >> ELSE IF r.type = "SOA" THEN <<r>> ELSE <<SynthSoa>>
Body(s, r, ips) ==
  CASE r.type = "SOA" \/ (ZoneNs(r) /\ ~ s.in_ns) -> << >>
    [] ZoneNs(r) /\ s.in_ns -> <<r>>
    [] OTHER -> (IF s.in_ns /\ ~ s.nses THEN Synth(ips) ELSE << >>) \o Records(r)

\* t is s after line r, but for what it puts into the buffer or the hash.
AfterLine(t, s, r) ==
  /\ DOMAIN t = FileFields /\ t.rest = s.rest /\ t.ended = s.ended
  /\ t.rrnum = s.rrnum + 1
  /\ t.in_ns = (s.in_ns /\ (r.type = "SOA" \/ ZoneNs(r)))
  /\ t.nses = (s.nses \/ (s.in_ns /\ ZoneNs(r)))

LEMMA SynthIs ==
  ASSUME NEW ips, IsSeq(ips)
  PROVE  /\ IsSeq(Synth(ips)) /\ Len(Synth(ips)) = 2 * Len(ips) /\ Len(ips) \in Nat
         /\ \A i \in 1..Len(ips) : Synth(ips)[i] = SynthNs(ips[i])
         /\ \A i \in 1..Len(ips) : Synth(ips)[i + Len(ips)] = SynthA(ips[i])
<1> DEFINE n == Len(ips)
           a == [i \in 1..n |-> SynthNs(ips[i])]
           b == [i \in 1..n |-> SynthA(ips[i])]
           A == {SynthNs(ips[i]) : i \in 1..n}
           B == {SynthA(ips[i]) : i \in 1..n}
<1>1. n \in Nat
  BY SeqRange DEF IsSeq
<1>2. /\ a \in Seq(A) /\ Len(a) = n /\ \A i \in 1..n : a[i] = SynthNs(ips[i])
      /\ b \in Seq(B) /\ Len(b) = n /\ \A i \in 1..n : b[i] = SynthA(ips[i])
  <2> HIDE DEF n
  <2> QED BY <1>1
<1>3. Synth(ips) = a \o b
  BY DEF Synth
<1> HIDE DEF a, b, A, B
<1>4. IsSeq(a) /\ IsSeq(b)
  BY <1>2, SeqRange
<1>5. Joined(Synth(ips), a, b)
  BY <1>3, <1>4, ConcatIs
<1>6. IsSeq(Synth(ips)) /\ Len(Synth(ips)) = n + n
  BY <1>2, <1>5 DEF Joined
<1>7. \A i \in 1..n : Synth(ips)[i] = SynthNs(ips[i])
  BY <1>2, <1>5, Zenon DEF Joined
<1>8. \A i \in 1..n : Synth(ips)[i + n] = SynthA(ips[i])
  BY <1>2, <1>5, Zenon DEF Joined
<1> HIDE DEF n
<1>9. Len(Synth(ips)) = 2 * n
  BY <1>1, <1>6
<1> QED BY <1>1, <1>6, <1>7, <1>8, <1>9 DEF n

LEMMA RecordsIs ==
  ASSUME NEW r
  PROVE  /\ IsSeq(Records(r)) /\ Len(Records(r)) \in 1..2
         /\ r.type # "FQDN4" => Records(r) = <<r>>
         /\ r.type = "FQDN4" =>
              /\ Len(Records(r)) = 2 /\ Records(r)[2] = [r EXCEPT !.type = "A"]
              /\ Records(r)[1] = Record("PTR", "elsewhere", r.data)
<1>1. CASE r.type = "FQDN4"
  <2> DEFINE p == Record("PTR", "elsewhere", r.data)
             a == [r EXCEPT !.type = "A"]
  <2>1. Records(r) = <<p, a>>
    BY <1>1 DEF Records
  <2> HIDE DEF p, a
  <2>2. <<p, a>> \in Seq({p, a}) /\ Len(<<p, a>>) = 2
    OBVIOUS
  <2>3. <<p, a>>[1] = p /\ <<p, a>>[2] = a
    OBVIOUS
  <2>4. IsSeq(Records(r)) /\ Len(Records(r)) = 2
    BY <2>1, <2>2, SeqRange
  <2> QED BY <1>1, <2>1, <2>3, <2>4 DEF p, a
<1>2. CASE r.type # "FQDN4"
  BY <1>2, OneIs DEF Records
<1> QED BY <1>1, <1>2

LEMMA MadeIs ==
  ASSUME NEW s, NEW r, NEW ips, IsSeq(ips)
  PROVE  IsSeq(SoaOf(s, r)) /\ IsSeq(Body(s, r, ips))
<1>1. IsSeq(SoaOf(s, r))
  BY EmptyIs, OneIs DEF SoaOf
<1>2. ASSUME NEW q, IsSeq(q) PROVE IsSeq(q \o Records(r))
  BY <1>2, RecordsIs, ConcatIs DEF Joined
<1> DEFINE q == IF s.in_ns /\ ~ s.nses THEN Synth(ips) ELSE << >>
<1>3. IsSeq(q)
  BY EmptyIs, SynthIs
<1>4. Body(s, r, ips) \in {<< >>, <<r>>, q \o Records(r)}
  BY DEF Body
<1> HIDE DEF q
<1> QED BY <1>1, <1>2, <1>3, <1>4, EmptyIs, OneIs

-----------------------------------------------------------------------------
(***************************************************************************)
(* The zone server: a line puts what it makes at the end of the buffer.    *)
(***************************************************************************)
\* All but buffer and hash.
Like(t, s) ==
  /\ DOMAIN t = FileFields /\ t.rest = s.rest /\ t.ended = s.ended
  /\ t.rrnum = s.rrnum /\ t.in_ns = s.in_ns /\ t.nses = s.nses

LEMMA PushIs ==
  ASSUME NEW s, DOMAIN s = FileFields, NEW rrs, Len(s.buffer \o rrs) <= BufferMax
  PROVE  /\ Like(Push(s, rrs), s) /\ Push(s, rrs).hash = s.hash
         /\ Push(s, rrs).buffer = s.buffer \o rrs
<1> DEFINE all == s.buffer \o rrs
<1>1. Push(s, rrs) = [s EXCEPT !.buffer = all]
  BY DEF Push
<1> HIDE DEF all
<1> QED BY <1>1 DEF Like, FileFields, all

LEMMA PushedLine ==
  ASSUME NEW s, StateOK(s), NEW r, NEW ips, IsSeq(ips),
         Len((s.buffer \o SoaOf(s, r)) \o Body(s, r, ips)) <= BufferMax
  PROVE  /\ AfterLine(AddRr(s, r, ips, 2), s, r)
         /\ AddRr(s, r, ips, 2).hash = s.hash
         /\ AddRr(s, r, ips, 2).buffer = (s.buffer \o SoaOf(s, r)) \o Body(s, r, ips)
<1> DEFINE n == [s EXCEPT !.rrnum = @ + 1]
           t == IF s.rrnum = 0 THEN Push(n, <<SynthSoa>>) ELSE n
           u == IF t.nses THEN t ELSE SynthesizeNs(t, ips, 2)
           w == [u EXCEPT !.in_ns = FALSE]
           soa == SoaOf(s, r)
           body == Body(s, r, ips)
           b == s.buffer \o soa
<1>1. /\ DOMAIN n = FileFields /\ n.rest = s.rest /\ n.ended = s.ended
      /\ n.rrnum = s.rrnum + 1 /\ n.in_ns = s.in_ns /\ n.nses = s.nses
      /\ n.hash = s.hash /\ n.buffer = s.buffer
  BY DEF StateOK, FileFields
<1>2. IsSeq(s.buffer) /\ IsSeq(soa) /\ IsSeq(body)
  BY MadeIs DEF StateOK
<1>3. IsSeq(b) /\ Len(b) \in Nat /\ Len(body) \in Nat
      /\ Len(b \o body) = Len(b) + Len(body)
  BY <1>2, ConcatIs, SeqRange DEF Joined, IsSeq
<1>4. Len(b \o body) <= BufferMax /\ Len(b) <= BufferMax
  BY <1>3, ZoneFileAssumption DEF ZoneFileAssumption
<1>5. AddRr(s, r, ips, 2) =
        IF r.type = "SOA" THEN IF s.rrnum = 0 THEN Push(n, <<r>>) ELSE n
        ELSE IF ZoneNs(r)
        THEN IF t.in_ns THEN Push([t EXCEPT !.nses = TRUE], <<r>>) ELSE n
        ELSE Push(IF t.in_ns THEN w ELSE t, Records(r))
  BY DEF AddRr, AddRrW
<1>6. s.buffer \o << >> = s.buffer /\ b \o << >> = b
  BY <1>2, <1>3, EmptyJoined
<1>7. ASSUME r.type # "SOA"
      PROVE  /\ Like(t, n) /\ t.hash = s.hash /\ t.buffer = b
  <2>1. CASE s.rrnum = 0
    <3>1. soa = <<SynthSoa>> /\ t = Push(n, <<SynthSoa>>)
      BY <1>7, <2>1 DEF SoaOf
    <3> HIDE DEF n, t
    <3>2. Len(n.buffer \o <<SynthSoa>>) <= BufferMax
      BY <1>1, <1>4, <3>1
    <3> QED BY <1>1, <3>1, <3>2, PushIs
  <2>2. CASE s.rrnum # 0
    <3>1. soa = << >> /\ t = n
      BY <2>2 DEF SoaOf
    <3> HIDE DEF n, t
    <3> QED BY <1>1, <1>6, <3>1 DEF Like
  <2> QED BY <2>1, <2>2
<1>8. CASE r.type = "SOA"
  <2>1. body = << >> /\ ~ ZoneNs(r)
    BY <1>8 DEF Body, ZoneNs
  <2>2. CASE s.rrnum = 0
    <3>1. soa = <<r>> /\ AddRr(s, r, ips, 2) = Push(n, <<r>>)
      BY <1>5, <1>8, <2>2 DEF SoaOf
    <3> HIDE DEF n, t, u, w
    <3>2. Len(n.buffer \o <<r>>) <= BufferMax
      BY <1>1, <1>4, <3>1
    <3>3. /\ Like(Push(n, <<r>>), n) /\ Push(n, <<r>>).hash = n.hash
          /\ Push(n, <<r>>).buffer = n.buffer \o <<r>>
      BY <1>1, <3>2, PushIs
    <3> QED BY <1>1, <1>6, <1>8, <2>1, <3>1, <3>3 DEF Like, AfterLine, StateOK
  <2>3. CASE s.rrnum # 0
    <3>1. soa = << >> /\ AddRr(s, r, ips, 2) = n
      BY <1>5, <1>8, <2>3 DEF SoaOf
    <3> HIDE DEF n, t, u, w
    <3> QED BY <1>1, <1>6, <1>8, <2>1, <3>1 DEF AfterLine, StateOK
  <2> QED BY <2>2, <2>3
<1>9. CASE ZoneNs(r) /\ ~ s.in_ns
  <2>1. body = << >> /\ r.type # "SOA" /\ s.rrnum # 0 /\ soa = << >>
    BY <1>9 DEF Body, ZoneNs, StateOK, SoaOf
  <2>2. AddRr(s, r, ips, 2) = n
    <3>1. t.in_ns = s.in_ns
      BY <1>1, <1>7, <2>1 DEF Like
    <3> HIDE DEF n, t, u, w
    <3> QED BY <1>5, <1>9, <2>1, <3>1
  <2> HIDE DEF n, t, u, w
  <2> QED BY <1>1, <1>6, <1>9, <2>1, <2>2 DEF AfterLine, StateOK
<1>10. CASE ZoneNs(r) /\ s.in_ns
  <2>1. body = <<r>> /\ r.type # "SOA"
    BY <1>10 DEF Body, ZoneNs
  <2> DEFINE m == [t EXCEPT !.nses = TRUE]
  <2>2. t.in_ns = s.in_ns /\ DOMAIN t = FileFields
    BY <1>1, <1>7, <2>1 DEF Like
  <2>3. AddRr(s, r, ips, 2) = Push(m, <<r>>)
    BY <1>5, <1>10, <2>1, <2>2
  <2> HIDE DEF t
  <2>4. /\ DOMAIN m = FileFields /\ m.rest = t.rest /\ m.ended = t.ended
        /\ m.rrnum = t.rrnum /\ m.in_ns = t.in_ns /\ m.nses = TRUE
        /\ m.hash = t.hash /\ m.buffer = t.buffer
    BY <2>2 DEF FileFields
  <2> HIDE DEF n, u, w, m
  <2>5. Len(m.buffer \o <<r>>) <= BufferMax
    BY <1>4, <1>7, <2>1, <2>4
  <2>6. /\ Like(Push(m, <<r>>), m) /\ Push(m, <<r>>).hash = m.hash
        /\ Push(m, <<r>>).buffer = m.buffer \o <<r>>
    BY <2>4, <2>5, PushIs
  <2> QED BY <1>1, <1>7, <1>10, <2>1, <2>3, <2>4, <2>6 DEF Like, AfterLine, StateOK
<1>11. CASE r.type # "SOA" /\ ~ ZoneNs(r)
  <2> DEFINE q == IF s.in_ns /\ ~ s.nses THEN Synth(ips) ELSE << >>
             v == IF t.in_ns THEN w ELSE t
  <2>1. body = q \o Records(r)
    BY <1>11 DEF Body
  <2>2. AddRr(s, r, ips, 2) = Push(v, Records(r))
    BY <1>5, <1>11
  <2>3. t.in_ns = s.in_ns /\ t.nses = s.nses /\ DOMAIN t = FileFields
    BY <1>1, <1>7, <1>11 DEF Like
  <2>4. IsSeq(q) /\ IsSeq(Records(r))
    BY EmptyIs, SynthIs, RecordsIs
  <2>5. /\ b \o body = (b \o q) \o Records(r)
        /\ Len(b \o q) <= BufferMax
    <3> HIDE DEF q, b, body
    <3>1. b \o body = (b \o q) \o Records(r)
      <4>1. (b \o q) \o Records(r) = b \o (q \o Records(r))
        BY <1>3, <2>4, Regrouped
      <4> QED BY <2>1, <4>1
    <3>2. /\ IsSeq(b \o q) /\ Len(b \o q) \in Nat /\ Len(Records(r)) \in Nat
          /\ Len((b \o q) \o Records(r)) = Len(b \o q) + Len(Records(r))
      BY <1>3, <2>4, ConcatIs, SeqRange DEF Joined, IsSeq
    <3> QED BY <1>4, <3>1, <3>2, ZoneFileAssumption DEF ZoneFileAssumption
  <2>6. /\ DOMAIN v = FileFields /\ v.rest = t.rest /\ v.ended = t.ended
        /\ v.rrnum = t.rrnum /\ v.in_ns = FALSE /\ v.nses = s.nses
        /\ v.hash = t.hash /\ v.buffer = b \o q
    <3>1. CASE ~ s.in_ns
      <4>1. q = << >> /\ v = t /\ v.in_ns = FALSE
        BY <2>3, <3>1 DEF StateOK
      <4> HIDE DEF t, q, v, b
      <4> QED BY <1>6, <1>7, <1>11, <2>3, <4>1
    <3>2. CASE s.in_ns
      <4>1. v = w
        BY <2>3, <3>2
      <4>2. Like(u, t) /\ u.hash = t.hash /\ u.buffer = b \o q
        <5>1. CASE s.nses
          <6>1. u = t /\ q = << >>
            BY <2>3, <5>1
          <6> HIDE DEF u, t, q, b
          <6> QED BY <1>6, <1>7, <1>11, <2>3, <6>1 DEF Like
        <5>2. CASE ~ s.nses
          <6>1. u = Push(t, Synth(ips)) /\ q = Synth(ips)
            BY <2>3, <3>2, <5>2 DEF SynthesizeNs, AddRrW
          <6> HIDE DEF u, t, q, b
          <6>2. Len(t.buffer \o Synth(ips)) <= BufferMax
            BY <1>7, <1>11, <2>5, <6>1
          <6> QED BY <1>7, <1>11, <2>3, <6>1, <6>2, PushIs
        <5> QED BY <5>1, <5>2
      <4> HIDE DEF u, t, q, v, b
      <4>3. /\ DOMAIN w = FileFields /\ w.rest = u.rest /\ w.ended = u.ended
            /\ w.rrnum = u.rrnum /\ w.in_ns = FALSE /\ w.nses = u.nses
            /\ w.hash = u.hash /\ w.buffer = u.buffer
        BY <4>2 DEF Like, FileFields
      <4> QED BY <2>3, <4>1, <4>2, <4>3 DEF Like
    <3> QED BY <3>1, <3>2
  <2> HIDE DEF n, u, w, t, v, q, b
  <2>7. Len(v.buffer \o Records(r)) <= BufferMax
    BY <1>4, <2>5, <2>6
  <2>8. /\ Like(Push(v, Records(r)), v) /\ Push(v, Records(r)).hash = v.hash
        /\ Push(v, Records(r)).buffer = v.buffer \o Records(r)
    BY <2>6, <2>7, PushIs
  <2>9. s.nses = (s.nses \/ (s.in_ns /\ ZoneNs(r)))
    BY <1>11 DEF StateOK
  <2> QED BY <1>1, <1>7, <1>11, <2>2, <2>5, <2>6, <2>8, <2>9
       DEF Like, AfterLine, b
<1> QED BY <1>8, <1>9, <1>10, <1>11 DEF b
-----------------------------------------------------------------------------
(***************************************************************************)
(* maradns: a line puts what it makes into the hash; the SOA waits in the  *)
(* buffer until the NS records are in.                                     *)
(***************************************************************************)
Had(s) == s.hash \union Range(s.buffer)

Waits(s) == IF s.in_ns /\ s.rrnum # 0 THEN Len(s.buffer) = 1 ELSE s.buffer = << >>

LEMMA OneLeft ==
  ASSUME NEW b, IsSeq(b), Len(b) = 1
  PROVE  b # << >> /\ Range(b) = {Head(b)} /\ Tail(b) = << >>
<1>1. b # << >>
  BY EmptyIs
<1>2. Tail(b) \in Seq(Range(b)) /\ Len(Tail(b)) = 0 /\ Head(b) = b[1]
  BY <1>1, TailIs
<1>3. Tail(b) = << >>
  BY <1>2, EmptySeq
<1>4. DOMAIN b = 1..1
  BY SeqRange DEF IsSeq
<1>5. Range(b) = {b[1]}
  BY <1>4 DEF Range
<1> QED BY <1>1, <1>2, <1>3, <1>5

LEMMA AddSoaIs ==
  ASSUME NEW s, DOMAIN s = FileFields, IsSeq(s.buffer),
         s.buffer = << >> \/ (s.in_ns /\ Len(s.buffer) = 1)
  PROVE  /\ DOMAIN AddSoa(s) = FileFields /\ AddSoa(s).rest = s.rest
         /\ AddSoa(s).ended = s.ended /\ AddSoa(s).rrnum = s.rrnum
         /\ AddSoa(s).nses = s.nses /\ AddSoa(s).buffer = << >>
         /\ AddSoa(s).hash = Had(s)
<1>1. CASE s.buffer = << >>
  BY <1>1, EmptyIs DEF AddSoa, Had
<1>2. CASE s.in_ns /\ Len(s.buffer) = 1
  <2> DEFINE hash == s.hash \union {Head(s.buffer)}
             buffer == Tail(s.buffer)
  <2>1. s.buffer # << >> /\ hash = Had(s) /\ buffer = << >>
    BY <1>2, OneLeft DEF Had
  <2>2. AddSoa(s) = [s EXCEPT !.hash = hash, !.buffer = buffer, !.in_ns = FALSE]
    BY <1>2, <2>1 DEF AddSoa
  <2> HIDE DEF hash, buffer
  <2> QED BY <2>1, <2>2 DEF FileFields
<1> QED BY <1>1, <1>2

LEMMA HashIs ==
  ASSUME NEW s, DOMAIN s = FileFields, NEW rrs
  PROVE  /\ Like(AddRrW(s, rrs, 1), s) /\ AddRrW(s, rrs, 1).buffer = s.buffer
         /\ AddRrW(s, rrs, 1).hash = s.hash \union Range(rrs)
<1> DEFINE hash == s.hash \union Range(rrs)
<1>1. AddRrW(s, rrs, 1) = [s EXCEPT !.hash = hash]
  BY DEF AddRrW
<1> HIDE DEF hash
<1> QED BY <1>1 DEF Like, FileFields, hash

LEMMA HashedLine ==
  ASSUME NEW s, StateOK(s), Waits(s), NEW r, NEW ips, IsSeq(ips), BufferMax >= 1
  PROVE  /\ AfterLine(AddRr(s, r, ips, 1), s, r)
         /\ Waits(AddRr(s, r, ips, 1)) /\ IsSeq(AddRr(s, r, ips, 1).buffer)
         /\ Had(AddRr(s, r, ips, 1)) =
              Had(s) \union Range(SoaOf(s, r)) \union Range(Body(s, r, ips))
<1> DEFINE n == [s EXCEPT !.rrnum = @ + 1]
           t == IF s.rrnum = 0 THEN Push(n, <<SynthSoa>>) ELSE n
           u == IF t.nses THEN t ELSE SynthesizeNs(t, ips, 1)
           v == AddSoa(u)
           w == [v EXCEPT !.in_ns = FALSE]
           soa == SoaOf(s, r)
           body == Body(s, r, ips)
           z == AddRr(s, r, ips, 1)
<1>1. /\ DOMAIN n = FileFields /\ n.rest = s.rest /\ n.ended = s.ended
      /\ n.rrnum = s.rrnum + 1 /\ n.in_ns = s.in_ns /\ n.nses = s.nses
      /\ n.hash = s.hash /\ n.buffer = s.buffer
  BY DEF StateOK, FileFields
<1>2. IsSeq(s.buffer) /\ s.rrnum \in Nat /\ s.rrnum + 1 # 0
  BY DEF StateOK
<1>3. z = IF r.type = "SOA" THEN IF s.rrnum = 0 THEN Push(n, <<r>>) ELSE n
          ELSE IF ZoneNs(r)
          THEN IF t.in_ns THEN AddRrW([t EXCEPT !.nses = TRUE], <<r>>, 1) ELSE n
          ELSE AddRrW(IF t.in_ns THEN w ELSE t, Records(r), 1)
  BY DEF AddRr
<1> HIDE DEF n, z
<1>4. ASSUME s.rrnum = 0, NEW x
      PROVE  /\ Like(Push(n, <<x>>), n) /\ Push(n, <<x>>).hash = s.hash
             /\ Push(n, <<x>>).buffer = <<x>> /\ s.buffer = << >>
  <2>1. s.buffer = << >> /\ n.buffer \o <<x>> = <<x>>
    <3>1. s.buffer = << >> /\ n.buffer = << >>
      BY <1>1, <1>4 DEF Waits
    <3>2. << >> \o <<x>> = <<x>>
      BY OneIs, EmptyJoined
    <3> QED BY <3>1, <3>2
  <2>2. Len(n.buffer \o <<x>>) <= BufferMax
    BY <2>1, OneIs
  <2> QED BY <1>1, <2>1, <2>2, PushIs
<1>5. ASSUME r.type # "SOA", s.in_ns
      PROVE  /\ Like(t, n) /\ t.hash = s.hash /\ IsSeq(t.buffer)
             /\ Len(t.buffer) = 1 /\ Range(t.buffer) = Range(s.buffer) \union Range(soa)
  <2>1. CASE s.rrnum = 0
    <3>1. soa = <<SynthSoa>> /\ t = Push(n, <<SynthSoa>>)
      BY <1>5, <2>1 DEF SoaOf
    <3> HIDE DEF t, soa
    <3>2. t.buffer = <<SynthSoa>> /\ s.buffer = << >> /\ Like(t, n) /\ t.hash = s.hash
      BY <1>4, <2>1, <3>1
    <3> QED BY <3>1, <3>2, OneIs, EmptyIs
  <2>2. CASE s.rrnum # 0
    <3>1. soa = << >> /\ t = n
      BY <2>2 DEF SoaOf
    <3> HIDE DEF t, soa
    <3> QED BY <1>1, <1>2, <1>5, <2>2, <3>1, EmptyIs DEF Like, Waits
  <2> QED BY <2>1, <2>2
<1>6. CASE r.type = "SOA"
  <2>1. body = << >> /\ Range(body) = {}
    BY <1>6, EmptyIs DEF Body, ZoneNs
  <2>2. CASE s.rrnum = 0
    <3>1. soa = <<r>> /\ z = Push(n, <<r>>)
      BY <1>3, <1>6, <2>2 DEF SoaOf
    <3> HIDE DEF soa, body
    <3>2. z.buffer = <<r>> /\ s.buffer = << >> /\ Like(z, n) /\ z.hash = s.hash
      BY <1>4, <2>2, <3>1
    <3>3. AfterLine(z, s, r) /\ z.in_ns
      BY <1>1, <1>6, <2>2, <3>2 DEF Like, AfterLine, StateOK, ZoneNs
    <3>4. IsSeq(z.buffer) /\ Len(z.buffer) = 1 /\ Range(z.buffer) = {r} /\ Range(s.buffer) = {}
          /\ Range(soa) = {r}
      BY <3>1, <3>2, OneIs, EmptyIs
    <3>5. Waits(z)
      BY <1>2, <3>3, <3>4 DEF Waits, AfterLine
    <3>6. Had(z) = Had(s) \union Range(soa) \union Range(body)
      BY <2>1, <3>2, <3>4 DEF Had
    <3> QED BY <3>3, <3>4, <3>5, <3>6 DEF z, soa, body
  <2>3. CASE s.rrnum # 0
    <3>1. soa = << >> /\ z = n
      BY <1>3, <1>6, <2>3 DEF SoaOf
    <3> HIDE DEF soa, body
    <3>2. AfterLine(z, s, r) /\ z.in_ns = s.in_ns /\ z.buffer = s.buffer /\ z.hash = s.hash
      BY <1>1, <1>6, <3>1 DEF AfterLine, StateOK, ZoneNs
    <3>3. Waits(z)
      BY <1>2, <2>3, <3>2 DEF Waits, AfterLine
    <3>4. Had(z) = Had(s) \union Range(soa) \union Range(body)
      BY <2>1, <3>1, <3>2, EmptyIs DEF Had
    <3> QED BY <1>2, <3>2, <3>3, <3>4 DEF z, soa, body
  <2> QED BY <2>2, <2>3
<1>7. CASE ZoneNs(r) /\ ~ s.in_ns
  <2>1. body = << >> /\ soa = << >> /\ r.type # "SOA" /\ s.rrnum # 0
    BY <1>7 DEF Body, SoaOf, StateOK, ZoneNs
  <2>2. z = n
    <3>1. t = n
      BY <2>1
    <3> QED BY <1>1, <1>3, <1>7, <2>1, <3>1
  <2> HIDE DEF soa, body
  <2>3. AfterLine(z, s, r) /\ z.in_ns = s.in_ns /\ z.buffer = s.buffer /\ z.hash = s.hash
    BY <1>1, <1>7, <2>2 DEF AfterLine, StateOK
  <2>4. Waits(z)
    BY <1>2, <1>7, <2>3 DEF Waits
  <2>5. Had(z) = Had(s) \union Range(soa) \union Range(body)
    BY <2>1, <2>3, EmptyIs DEF Had
  <2> QED BY <1>2, <2>3, <2>4, <2>5 DEF z, soa, body
<1>8. CASE ZoneNs(r) /\ s.in_ns
  <2>1. body = <<r>> /\ r.type # "SOA"
    BY <1>8 DEF Body, ZoneNs
  <2> DEFINE m == [t EXCEPT !.nses = TRUE]
  <2>2. t.in_ns /\ DOMAIN t = FileFields
    BY <1>1, <1>5, <1>8, <2>1 DEF Like
  <2>3. z = AddRrW(m, <<r>>, 1)
    BY <1>3, <1>8, <2>1, <2>2
  <2> HIDE DEF t, soa, body
  <2>4. /\ DOMAIN m = FileFields /\ m.rest = t.rest /\ m.ended = t.ended
        /\ m.rrnum = t.rrnum /\ m.in_ns = t.in_ns /\ m.nses = TRUE
        /\ m.hash = t.hash /\ m.buffer = t.buffer
    BY <2>2 DEF FileFields
  <2> HIDE DEF m
  <2>5. Like(z, m) /\ z.buffer = m.buffer /\ z.hash = m.hash \union Range(<<r>>)
    BY <2>3, <2>4, HashIs
  <2>6. AfterLine(z, s, r)
    BY <1>1, <1>5, <1>8, <2>1, <2>4, <2>5 DEF Like, AfterLine, StateOK
  <2>7. IsSeq(z.buffer) /\ Len(z.buffer) = 1 /\ z.in_ns
    BY <1>5, <1>8, <2>1, <2>2, <2>4, <2>5 DEF Like
  <2>8. Waits(z)
    BY <1>2, <2>6, <2>7 DEF Waits, AfterLine
  <2>9. Had(z) = Had(s) \union Range(soa) \union Range(body)
    BY <1>5, <1>8, <2>1, <2>4, <2>5, Zenon DEF Had
  <2> QED BY <2>6, <2>7, <2>8, <2>9 DEF z, soa, body
<1>9. CASE r.type # "SOA" /\ ~ ZoneNs(r) /\ ~ s.in_ns
  <2>1. soa = << >> /\ s.rrnum # 0 /\ body = << >> \o Records(r) /\ s.in_ns = FALSE
    BY <1>9 DEF Body, SoaOf, StateOK
  <2>2. z = AddRrW(n, Records(r), 1)
    <3>1. t = n
      BY <2>1
    <3> QED BY <1>1, <1>3, <1>9, <3>1
  <2>3. body = Records(r)
    BY <2>1, RecordsIs, EmptyJoined
  <2> HIDE DEF soa, body, t
  <2>4. Like(z, n) /\ z.buffer = s.buffer /\ z.hash = s.hash \union Range(Records(r))
    BY <1>1, <2>2, HashIs
  <2>5. AfterLine(z, s, r) /\ z.in_ns = FALSE
    BY <1>1, <1>9, <2>1, <2>4 DEF Like, AfterLine, StateOK
  <2>6. Waits(z)
    BY <1>9, <2>4, <2>5 DEF Waits
  <2>7. Had(z) = Had(s) \union Range(soa) \union Range(body)
    BY <2>1, <2>3, <2>4, EmptyIs DEF Had
  <2> QED BY <1>2, <2>4, <2>5, <2>6, <2>7 DEF z, soa, body
<1>10. CASE r.type # "SOA" /\ ~ ZoneNs(r) /\ s.in_ns
  <2> DEFINE q == IF s.in_ns /\ ~ s.nses THEN Synth(ips) ELSE << >>
  <2>1. body = q \o Records(r) /\ s.in_ns = TRUE /\ s.nses \in BOOLEAN
    BY <1>10 DEF Body, StateOK
  <2>2. z = AddRrW(w, Records(r), 1)
    <3>1. t.in_ns
      BY <1>1, <1>5, <1>10 DEF Like
    <3> HIDE DEF t, w
    <3> QED BY <1>3, <1>10, <3>1
  <2>3. Range(body) = Range(q) \union Range(Records(r))
    <3>1. IsSeq(q) /\ IsSeq(Records(r))
      BY EmptyIs, SynthIs, RecordsIs
    <3> HIDE DEF q, body
    <3>2. Joined(q \o Records(r), q, Records(r))
      BY <3>1, ConcatIs
    <3> QED BY <2>1, <3>2 DEF Joined
  <2>4. DOMAIN t = FileFields /\ t.nses = s.nses /\ t.in_ns
    BY <1>1, <1>5, <1>10 DEF Like
  <2>5. Like(u, t) /\ u.buffer = t.buffer /\ u.hash = t.hash \union Range(q)
    <3>1. CASE s.nses
      <4>1. u = t /\ q = << >>
        BY <2>4, <3>1
      <4> HIDE DEF u, t, q
      <4> QED BY <2>4, <4>1, EmptyIs DEF Like
    <3>2. CASE ~ s.nses
      <4>1. u = AddRrW(t, Synth(ips), 1) /\ q = Synth(ips)
        BY <1>10, <2>4, <3>2 DEF SynthesizeNs
      <4> HIDE DEF u, t, q
      <4> QED BY <2>4, <4>1, HashIs
    <3> QED BY <3>1, <3>2
  <2> HIDE DEF q, body, soa, t, u
  <2>6. /\ DOMAIN v = FileFields /\ v.rest = u.rest /\ v.ended = u.ended
        /\ v.rrnum = u.rrnum /\ v.nses = u.nses /\ v.buffer = << >>
        /\ v.hash = Had(u)
    BY <1>5, <1>10, <2>4, <2>5, AddSoaIs DEF Like
  <2> HIDE DEF v
  <2>7. /\ DOMAIN w = FileFields /\ w.rest = v.rest /\ w.ended = v.ended
        /\ w.rrnum = v.rrnum /\ w.nses = v.nses /\ w.in_ns = FALSE
        /\ w.buffer = v.buffer /\ w.hash = v.hash
    BY <2>6 DEF FileFields
  <2> HIDE DEF w
  <2>8. Like(z, w) /\ z.buffer = << >> /\ z.hash = v.hash \union Range(Records(r))
    BY <2>2, <2>6, <2>7, HashIs
  <2>9. z.nses = s.nses /\ z.nses = (s.nses \/ (s.in_ns /\ ZoneNs(r)))
    BY <1>10, <2>1, <2>4, <2>5, <2>6, <2>7, <2>8 DEF Like
  <2>10. AfterLine(z, s, r) /\ z.in_ns = FALSE
    BY <1>1, <1>5, <1>10, <2>5, <2>6, <2>7, <2>8, <2>9 DEF Like, AfterLine
  <2>11. Waits(z) /\ IsSeq(z.buffer)
    BY <2>8, <2>10, EmptyIs DEF Waits
  <2>12. Had(z) = Had(s) \union Range(soa) \union Range(body)
    <3>1. Had(z) = v.hash \union Range(Records(r))
      BY <2>8, EmptyIs DEF Had
    <3>2. v.hash = s.hash \union Range(q) \union (Range(s.buffer) \union Range(soa))
      BY <1>5, <1>10, <2>5, <2>6 DEF Had
    <3> QED BY <2>3, <3>1, <3>2 DEF Had
  <2> QED BY <2>10, <2>11, <2>12 DEF z, soa, body
<1> QED BY <1>6, <1>7, <1>8, <1>9, <1>10
-----------------------------------------------------------------------------
(***************************************************************************)
(* Reading one line: the end, an error, a comment, or a record.            *)
(***************************************************************************)
Stops(s) == s.rest = << >> \/ (s.rest # << >> /\ Head(s.rest) = Bad)

\* t is s after the record that its next line is.
RecordRead(t, s) ==
  LET r == Head(s.rest) IN
  /\ DOMAIN t = FileFields /\ t.rest = Tail(s.rest) /\ t.ended = s.ended
  /\ t.rrnum = s.rrnum + 1
  /\ t.in_ns = (s.in_ns /\ (r.type = "SOA" \/ ZoneNs(r)))
  /\ t.nses = (s.nses \/ (s.in_ns /\ ZoneNs(r)))

\* All but what is left of the file.
SameSoFar(t, s) ==
  /\ DOMAIN t = FileFields
  /\ t.rrnum = s.rrnum /\ t.in_ns = s.in_ns /\ t.nses = s.nses
  /\ t.buffer = s.buffer /\ t.hash = s.hash

LEMMA StoppedIs ==
  ASSUME NEW s, DOMAIN s = FileFields, Stops(s), NEW ips, NEW method
  PROVE  /\ SameSoFar(ReadRr(s, ips, method), s)
         /\ ReadRr(s, ips, method).ended = TRUE
         /\ ReadRr(s, ips, method).rest = << >>
<1>1. ~ (s.rest # << >> /\ Head(s.rest) = Comment)
  <2>1. Bad.type = "bad" /\ Comment.type = "comment"
    BY DEF Bad, Comment, Record
  <2> QED BY <2>1 DEF Stops
<1>2. ReadRr(s, ips, method) = [s EXCEPT !.ended = TRUE, !.rest = << >>]
  BY <1>1 DEF ReadRr, Stops
<1> QED BY <1>2 DEF SameSoFar, FileFields

\* The state that is left to csv2_add_rr.
Behind(s) == [s EXCEPT !.rest = Tail(@)]

LEMMA BehindIs ==
  ASSUME NEW s, DOMAIN s = FileFields
  PROVE  /\ SameSoFar(Behind(s), s) /\ Behind(s).ended = s.ended
         /\ Behind(s).rest = Tail(s.rest)
<1> DEFINE rest == Tail(s.rest)
<1>1. Behind(s) = [s EXCEPT !.rest = rest]
  BY DEF Behind
<1> HIDE DEF rest
<1> QED BY <1>1 DEF SameSoFar, FileFields, rest

LEMMA LineIs ==
  ASSUME NEW s, ~ Stops(s), NEW ips, NEW method
  PROVE  /\ Head(s.rest) = Comment => ReadRr(s, ips, method) = Behind(s)
         /\ Head(s.rest) # Comment =>
              ReadRr(s, ips, method) = AddRr(Behind(s), Head(s.rest), ips, method)
<1>1. s.rest # << >> /\ Head(s.rest) # Bad
  BY DEF Stops
<1> DEFINE r == Head(s.rest)
<1>2. CASE r = Comment
  BY <1>1, <1>2 DEF ReadRr, Behind
<1>3. CASE r # Comment
  BY <1>1, <1>3 DEF ReadRr, Behind
<1> QED BY <1>2, <1>3

LEMMA BehindSame ==
  ASSUME NEW s, StateOK(s), NEW r, NEW ips
  PROVE  /\ StateOK(Behind(s)) /\ SoaOf(Behind(s), r) = SoaOf(s, r)
         /\ Body(Behind(s), r, ips) = Body(s, r, ips)
         /\ Had(Behind(s)) = Had(s) /\ (Waits(s) => Waits(Behind(s)))
<1>1. SameSoFar(Behind(s), s)
  BY BehindIs DEF StateOK
<1>2. StateOK(Behind(s)) /\ Had(Behind(s)) = Had(s) /\ (Waits(s) => Waits(Behind(s)))
  BY <1>1 DEF SameSoFar, StateOK, Had, Waits
<1>3. SoaOf(Behind(s), r) = SoaOf(s, r)
  BY <1>1 DEF SameSoFar, SoaOf
<1>4. Body(Behind(s), r, ips) = Body(s, r, ips)
  BY <1>1 DEF SameSoFar, Body
<1> QED BY <1>2, <1>3, <1>4

\* maradns reads a record.
LEMMA HashedRecord ==
  ASSUME NEW s, StateOK(s), Waits(s), ~ Stops(s), Head(s.rest) # Comment,
         NEW ips, IsSeq(ips), BufferMax >= 1
  PROVE  LET t == ReadRr(s, ips, 1)
             r == Head(s.rest)
         IN /\ RecordRead(t, s) /\ StateOK(t) /\ Waits(t)
            /\ Had(t) = Had(s) \union Range(SoaOf(s, r)) \union Range(Body(s, r, ips))
<1> DEFINE b == Behind(s)
           r == Head(s.rest)
           t == AddRr(b, r, ips, 1)
<1>1. ReadRr(s, ips, 1) = t
  BY LineIs
<1>2. /\ StateOK(b) /\ Waits(b) /\ SoaOf(b, r) = SoaOf(s, r)
      /\ Body(b, r, ips) = Body(s, r, ips) /\ Had(b) = Had(s)
  BY BehindSame
<1>3. SameSoFar(b, s) /\ b.ended = s.ended /\ b.rest = Tail(s.rest)
  BY BehindIs DEF StateOK
<1> HIDE DEF b, r
<1>4. /\ AfterLine(t, b, r) /\ Waits(t) /\ IsSeq(t.buffer)
      /\ Had(t) = Had(b) \union Range(SoaOf(b, r)) \union Range(Body(b, r, ips))
  BY <1>2, HashedLine
<1> HIDE DEF t
<1>5. RecordRead(t, s)
  BY <1>3, <1>4 DEF AfterLine, SameSoFar, RecordRead, r
<1>6. StateOK(t)
  BY <1>4, <1>5 DEF RecordRead, StateOK
<1> QED BY <1>1, <1>2, <1>4, <1>5, <1>6 DEF r

\* The zone server reads one.
LEMMA PushedRecord ==
  ASSUME NEW s, StateOK(s), ~ Stops(s), Head(s.rest) # Comment,
         NEW ips, IsSeq(ips),
         Len((s.buffer \o SoaOf(s, Head(s.rest))) \o Body(s, Head(s.rest), ips))
           <= BufferMax
  PROVE  LET t == ReadRr(s, ips, 2)
             r == Head(s.rest)
         IN /\ RecordRead(t, s) /\ StateOK(t)
            /\ t.buffer = (s.buffer \o SoaOf(s, r)) \o Body(s, r, ips)
<1> DEFINE b == Behind(s)
           r == Head(s.rest)
           t == AddRr(b, r, ips, 2)
<1>1. ReadRr(s, ips, 2) = t
  BY LineIs
<1>2. /\ StateOK(b) /\ SoaOf(b, r) = SoaOf(s, r) /\ Body(b, r, ips) = Body(s, r, ips)
  BY BehindSame
<1>3. SameSoFar(b, s) /\ b.ended = s.ended /\ b.rest = Tail(s.rest)
  BY BehindIs DEF StateOK
<1>4. b.buffer = s.buffer
  BY <1>3 DEF SameSoFar
<1> HIDE DEF b
<1>5. AfterLine(t, b, r) /\ t.buffer = (s.buffer \o SoaOf(s, r)) \o Body(s, r, ips)
  <2>1. Len((b.buffer \o SoaOf(b, r)) \o Body(b, r, ips)) <= BufferMax
    BY <1>2, <1>4
  <2> HIDE DEF r
  <2>2. /\ AfterLine(t, b, r)
        /\ t.buffer = (b.buffer \o SoaOf(b, r)) \o Body(b, r, ips)
    BY <1>2, <2>1, PushedLine
  <2> HIDE DEF t
  <2> QED BY <1>2, <1>4, <2>2
<1> HIDE DEF t
<1>6. RecordRead(t, s)
  <2> HIDE DEF r
  <2> QED BY <1>3, <1>5 DEF AfterLine, SameSoFar, RecordRead, r
<1>7. IsSeq(t.buffer)
  <2>1. IsSeq(s.buffer) /\ IsSeq(SoaOf(s, r)) /\ IsSeq(Body(s, r, ips))
    BY MadeIs DEF StateOK
  <2> HIDE DEF r
  <2>2. IsSeq(s.buffer \o SoaOf(s, r))
    BY <2>1, ConcatIs DEF Joined
  <2> QED BY <1>5, <2>1, <2>2, ConcatIs DEF Joined
<1>8. StateOK(t)
  BY <1>6, <1>7 DEF RecordRead, StateOK
<1> QED BY <1>1, <1>5, <1>6, <1>8

-----------------------------------------------------------------------------
(***************************************************************************)
(* Reading a file: what maradns has after each of its lines.               *)
(***************************************************************************)
ReadsUp(f, n, file, ips) ==
  f = [i \in 0..n |-> IF i = 0 THEN Opened(file) ELSE ReadRr(f[i - 1], ips, 1)]

LEMMA ReadsUpExists ==
  ASSUME NEW N \in Nat, NEW file, NEW ips
  PROVE  \E f : ReadsUp(f, N, file, ips)
<1> DEFINE T == {k \in 0..N : \E f : ReadsUp(f, k, file, ips)}
           next(f, i) == IF i = 0 THEN Opened(file) ELSE ReadRr(f[i - 1], ips, 1)
<1>1. 0 \in T
  <2> DEFINE f == [i \in 0..0 |-> Opened(file)]
  <2>1. f = [i \in 0..0 |-> next(f, i)]
    OBVIOUS
  <2> HIDE DEF f
  <2>2. ReadsUp(f, 0, file, ips)
    BY <2>1 DEF ReadsUp
  <2> QED BY <2>2
<1>2. ASSUME NEW k \in 0..(N - 1), k \in T PROVE k + 1 \in T
  <2>1. PICK f : ReadsUp(f, k, file, ips)
    BY <1>2
  <2> DEFINE g == [i \in 0..(k + 1) |-> IF i = k + 1 THEN next(f, k + 1) ELSE f[i]]
  <2>2. \A i \in 0..k : f[i] = next(f, i)
    BY <2>1 DEF ReadsUp
  <2>3. ASSUME NEW i \in 0..(k + 1) PROVE g[i] = next(g, i)
    <3>1. i # 0 => i - 1 \in 0..(k + 1) /\ i - 1 # k + 1
      OBVIOUS
    <3>2. i # 0 => g[i - 1] = f[i - 1]
      <4> HIDE DEF next
      <4> QED BY <3>1
    <3>3. next(g, i) = next(f, i)
      <4> HIDE DEF g
      <4> QED BY <3>2
    <3>4. CASE i = k + 1
      <4> HIDE DEF next
      <4> QED BY <3>3, <3>4
    <3>5. CASE i # k + 1
      <4>1. i \in 0..k
        BY <3>5
      <4> HIDE DEF next
      <4> QED BY <2>2, <3>3, <3>5, <4>1
    <3> QED BY <3>4, <3>5
  <2>4. g = [i \in 0..(k + 1) |-> next(g, i)]
    <3>1. g = [i \in 0..(k + 1) |-> g[i]]
      OBVIOUS
    <3> HIDE DEF g, next
    <3> QED BY <2>3, <3>1
  <2> HIDE DEF g
  <2>5. ReadsUp(g, k + 1, file, ips)
    BY <2>4 DEF ReadsUp
  <2>6. k + 1 \in 0..N
    OBVIOUS
  <2> QED BY <2>5, <2>6
<1>3. N \in T
  <2> HIDE DEF T
  <2>1. \A n \in 0..N : n \in T
    BY <1>1, <1>2, UpTo
  <2> QED BY <2>1
<1> QED BY <1>3

LEMMA ReadingIs ==
  ASSUME NEW file, IsSeq(file), NEW ips
  PROVE  /\ Len(file) \in Nat /\ Reading(file, ips)[0] = Opened(file)
         /\ \A n \in 0..(Len(file) - 1) :
              Reading(file, ips)[n + 1] = ReadRr(Reading(file, ips)[n], ips, 1)
<1> DEFINE N == Len(file)
           Reads(f) == f = [n \in 0..N |-> IF n = 0 THEN Opened(file)
                                           ELSE ReadRr(f[n - 1], ips, 1)]
           read == CHOOSE f : Reads(f)
<1>1. N \in Nat
  BY SeqRange DEF IsSeq
<1>2. Reads(read)
  <2>1. \E f : Reads(f)
    <3>1. \E f : ReadsUp(f, N, file, ips)
      BY <1>1, ReadsUpExists
    <3>2. \A f : ReadsUp(f, N, file, ips) => Reads(f)
      BY DEF ReadsUp
    <3> HIDE DEF Reads
    <3> QED BY <3>1, <3>2
  <2> HIDE DEF Reads
  <2> QED BY <2>1
<1>3. Reading(file, ips) = read
  BY DEF Reading
<1> HIDE DEF read, N
<1>4. \A n \in 0..N : read[n] = IF n = 0 THEN Opened(file)
                                ELSE ReadRr(read[n - 1], ips, 1)
  BY <1>2
<1>5. ASSUME NEW n \in 0..(N - 1) PROVE read[n + 1] = ReadRr(read[n], ips, 1)
  <2> DEFINE m == n + 1
  <2>1. m \in 0..N /\ m # 0 /\ m - 1 = n
    BY <1>1
  <2> HIDE DEF m
  <2>2. read[m] = ReadRr(read[n], ips, 1)
    BY <1>4, <2>1
  <2> QED BY <2>2 DEF m
<1>6. read[0] = Opened(file)
  <2>1. 0 \in 0..N
    BY <1>1
  <2> QED BY <1>4, <2>1
<1> QED BY <1>1, <1>3, <1>5, <1>6 DEF N
\* After n lines: what is left is the file from line n + 1 on, or nothing.
UpToLine(h, file, n) ==
  /\ StateOK(h) /\ Waits(h) /\ h.ended \in BOOLEAN
  /\ h.ended => h.rest = << >>
  /\ ~ h.ended => /\ IsSeq(h.rest) /\ Len(h.rest) = Len(file) - n
                  /\ \A i \in 1..(Len(file) - n) : h.rest[i] = file[i + n]

LEMMA LessLeft ==
  ASSUME NEW file, IsSeq(file), NEW n \in 0..(Len(file) - 1),
         NEW rest, IsSeq(rest), Len(rest) = Len(file) - n,
         \A i \in 1..(Len(file) - n) : rest[i] = file[i + n]
  PROVE  /\ rest # << >> /\ Head(rest) = file[n + 1]
         /\ IsSeq(Tail(rest)) /\ Len(Tail(rest)) = Len(file) - (n + 1)
         /\ \A i \in 1..(Len(file) - (n + 1)) : Tail(rest)[i] = file[i + (n + 1)]
<1> DEFINE N == Len(file)
<1>1. N \in Nat
  BY SeqRange DEF IsSeq
<1> HIDE DEF N
<1>2. Len(rest) = N - n /\ n \in 0..(N - 1) /\ \A i \in 1..(N - n) : rest[i] = file[i + n]
  BY DEF N
<1>3. rest # << >>
  BY <1>1, <1>2, EmptyIs
<1>4. /\ Tail(rest) \in Seq(Range(rest)) /\ Len(Tail(rest)) = N - n - 1
      /\ Head(rest) = rest[1] /\ \A i \in 1..(N - n - 1) : Tail(rest)[i] = rest[i + 1]
  BY <1>2, <1>3, TailIs
<1>5. Head(rest) = file[n + 1]
  <2>1. 1 \in 1..(N - n) /\ 1 + n = n + 1
    BY <1>1, <1>2
  <2>2. rest[1] = file[1 + n]
    BY <1>2, <2>1, Zenon
  <2> QED BY <1>4, <2>1, <2>2
<1>6. ASSUME NEW i \in 1..(N - (n + 1)) PROVE Tail(rest)[i] = file[i + (n + 1)]
  <2>1. i \in 1..(N - n - 1) /\ i + 1 \in 1..(N - n) /\ i + 1 + n = i + (n + 1)
    BY <1>1, <1>2
  <2>2. Tail(rest)[i] = rest[i + 1] /\ rest[i + 1] = file[i + 1 + n]
    BY <1>2, <1>4, <2>1, Zenon
  <2> QED BY <2>1, <2>2
<1>7. N - n - 1 = N - (n + 1)
  BY <1>1, <1>2
<1>8. IsSeq(Tail(rest))
  BY <1>4, SeqRange
<1> QED BY <1>3, <1>4, <1>5, <1>6, <1>7, <1>8 DEF N

LEMMA NextLine ==
  ASSUME NEW file, IsSeq(file), NEW n \in 0..(Len(file) - 1), NEW h,
         UpToLine(h, file, n), NEW ips, IsSeq(ips), BufferMax >= 1
  PROVE  UpToLine(ReadRr(h, ips, 1), file, n + 1)
<1> DEFINE t == ReadRr(h, ips, 1)
<1>1. DOMAIN h = FileFields
  BY DEF UpToLine, StateOK
<1>2. CASE Stops(h)
  <2>1. SameSoFar(t, h) /\ t.ended = TRUE /\ t.rest = << >>
    <3> DEFINE method == 1
    <3> HIDE DEF method
    <3>1. /\ SameSoFar(ReadRr(h, ips, method), h)
          /\ ReadRr(h, ips, method).ended = TRUE
          /\ ReadRr(h, ips, method).rest = << >>
      BY <1>1, <1>2, StoppedIs
    <3> QED BY <3>1 DEF method
  <2> HIDE DEF t
  <2>2. StateOK(t) /\ Waits(t)
    BY <2>1 DEF SameSoFar, UpToLine, StateOK, Waits
  <2> QED BY <2>1, <2>2 DEF UpToLine, t
<1>3. CASE ~ Stops(h)
  <2>1. ~ h.ended
    BY <1>3 DEF UpToLine, Stops
  <2>2. /\ IsSeq(Tail(h.rest)) /\ Len(Tail(h.rest)) = Len(file) - (n + 1)
        /\ \A i \in 1..(Len(file) - (n + 1)) : Tail(h.rest)[i] = file[i + (n + 1)]
    BY <2>1, LessLeft DEF UpToLine
  <2>3. StateOK(t) /\ Waits(t) /\ t.rest = Tail(h.rest) /\ t.ended = h.ended
    <3>1. CASE Head(h.rest) = Comment
      <4>1. t = Behind(h)
        BY <1>3, <3>1, LineIs
      <4> HIDE DEF t
      <4> QED BY <1>1, <4>1, BehindIs, BehindSame DEF UpToLine
    <3>2. CASE Head(h.rest) # Comment
      BY <1>3, <3>2, HashedRecord DEF UpToLine, RecordRead
    <3> QED BY <3>1, <3>2
  <2> HIDE DEF t
  <2>4. UpToLine(t, file, n + 1)
    BY <2>1, <2>2, <2>3 DEF UpToLine
  <2> QED BY <2>4 DEF t
<1> QED BY <1>2, <1>3

LEMMA ReadingOK ==
  ASSUME NEW file, IsSeq(file), NEW ips, IsSeq(ips), BufferMax >= 1
  PROVE  \A n \in 0..Len(file) : UpToLine(Reading(file, ips)[n], file, n)
<1> DEFINE N == Len(file)
           h(n) == Reading(file, ips)[n]
           T == {n \in 0..N : UpToLine(h(n), file, n)}
<1>1. /\ N \in Nat /\ h(0) = Opened(file)
      /\ \A n \in 0..(N - 1) : h(n + 1) = ReadRr(h(n), ips, 1)
  BY ReadingIs
<1> HIDE DEF h
<1>2. 0 \in T
  <2>1. /\ DOMAIN Opened(file) = FileFields /\ Opened(file).rest = file
        /\ Opened(file).rrnum = 0 /\ Opened(file).in_ns = TRUE
        /\ Opened(file).nses = FALSE /\ Opened(file).buffer = << >>
        /\ Opened(file).ended = FALSE
    BY DEF Opened, FileFields
  <2> DEFINE o == Opened(file)
  <2> HIDE DEF o
  <2>2. StateOK(o)
    <3>1. IsSeq(o.buffer)
      BY <2>1, EmptyIs DEF o
    <3>2. DOMAIN o = FileFields /\ o.rrnum = 0 /\ o.in_ns = TRUE /\ o.nses = FALSE
      BY <2>1 DEF o
    <3>3. o.in_ns /\ ~ o.nses
      BY <3>2, Zenon
    <3>4. o.in_ns \in BOOLEAN /\ o.nses \in BOOLEAN
      BY <3>2, Zenon
    <3>5. o.rrnum \in Nat
      BY <3>2
    <3> QED BY <3>1, <3>2, <3>3, <3>4, <3>5 DEF StateOK
  <2>3. Waits(o)
    BY <2>1 DEF Waits, o
  <2>4. UpToLine(o, file, 0)
    <3>1. o.rest = file /\ o.ended = FALSE /\ N - 0 = N /\ \A i \in 1..N : i + 0 = i
      BY <1>1, <2>1 DEF o
    <3>2. IsSeq(o.rest) /\ Len(o.rest) = N - 0 /\ \A i \in 1..(N - 0) : o.rest[i] = file[i + 0]
      BY <3>1
    <3> QED BY <2>2, <2>3, <3>1, <3>2 DEF UpToLine
  <2>5. h(0) = o /\ 0 \in 0..N
    BY <1>1 DEF o
  <2> QED BY <2>4, <2>5
<1>3. ASSUME NEW n \in 0..(N - 1), n \in T PROVE n + 1 \in T
  <2>1. UpToLine(h(n), file, n)
    BY <1>3
  <2>2. UpToLine(h(n + 1), file, n + 1)
    BY <1>1, <2>1, NextLine
  <2>3. n + 1 \in 0..N
    BY <1>1
  <2> QED BY <2>2, <2>3
<1>4. \A n \in 0..N : n \in T
  <2> HIDE DEF T, N
  <2> QED BY <1>1, <1>2, <1>3, UpTo
<1> QED BY <1>4 DEF h

\* What is served is what maradns has when the reading stops.
LEMMA ServedIs ==
  ASSUME NEW file, IsSeq(file), NEW ips, IsSeq(ips), BufferMax >= 1,
         NEW n \in 0..Len(file),
         n = Len(file) \/ Stops(Reading(file, ips)[n])
  PROVE  Served(file, ips) = Had(Reading(file, ips)[n])
<1> DEFINE N == Len(file)
           h(m) == Reading(file, ips)[m]
           T == {i \in 0..(N - n) : Had(h(n + i)) = Had(h(n)) /\ (i = 0 \/ Stops(h(n + i)))}
<1>1. /\ N \in Nat
      /\ \A m \in 0..(N - 1) : h(m + 1) = ReadRr(h(m), ips, 1)
      /\ \A m \in 0..N : UpToLine(h(m), file, m)
  BY ReadingIs, ReadingOK
<1>2. Served(file, ips) = Had(h(N))
  <2>1. /\ DOMAIN h(N) = FileFields /\ IsSeq(h(N).buffer)
        /\ h(N).buffer = << >> \/ (h(N).in_ns /\ Len(h(N).buffer) = 1)
    <3>1. UpToLine(h(N), file, N)
      BY <1>1
    <3> QED BY <3>1 DEF UpToLine, StateOK, Waits
  <2>2. AddSoa(h(N)).hash = Had(h(N))
    BY <2>1, AddSoaIs
  <2> QED BY <2>2 DEF Served
<1>3. CASE n = N
  BY <1>2, <1>3
<1>4. CASE Stops(h(n))
  <2> HIDE DEF h
  <2>1. ASSUME NEW m \in 0..(N - 1), Stops(h(m))
        PROVE  Had(h(m + 1)) = Had(h(m)) /\ Stops(h(m + 1))
    <3>1. DOMAIN h(m) = FileFields
      <4>1. UpToLine(h(m), file, m)
        BY <1>1
      <4> QED BY <4>1 DEF UpToLine, StateOK
    <3>2. h(m + 1) = ReadRr(h(m), ips, 1)
      BY <1>1
    <3>3. SameSoFar(h(m + 1), h(m)) /\ h(m + 1).rest = << >>
      <4> DEFINE s == h(m)
                 method == 1
      <4>1. DOMAIN s = FileFields /\ Stops(s)
        BY <2>1, <3>1
      <4> HIDE DEF s, method
      <4>2. /\ SameSoFar(ReadRr(s, ips, method), s)
            /\ ReadRr(s, ips, method).rest = << >>
        BY <4>1, StoppedIs
      <4> QED BY <3>2, <4>2 DEF s, method
    <3> QED BY <3>3 DEF SameSoFar, Had, Stops
  <2>2. n \in 0..N /\ N - n \in Nat
    BY <1>1
  <2> HIDE DEF N
  <2>3. 0 \in T
    BY <1>1, <2>2
  <2>4. ASSUME NEW i \in 0..((N - n) - 1), i \in T PROVE i + 1 \in T
    <3> DEFINE m == n + i
    <3>1. m \in 0..(N - 1) /\ n + (i + 1) = m + 1 /\ i + 1 \in 0..(N - n)
          /\ n + 0 = n
      BY <1>1, <2>2
    <3>2. Had(h(m)) = Had(h(n)) /\ Stops(h(m))
      BY <1>4, <2>4, <3>1
    <3> HIDE DEF m
    <3>3. Had(h(m + 1)) = Had(h(m)) /\ Stops(h(m + 1))
      BY <2>1, <3>1, <3>2
    <3> QED BY <3>1, <3>2, <3>3
  <2>5. N - n \in T
    <3> HIDE DEF T
    <3>1. \A i \in 0..(N - n) : i \in T
      BY <2>2, <2>3, <2>4, UpTo
    <3> QED BY <2>2, <3>1
  <2>6. n + (N - n) = N
    BY <1>1, <2>2
  <2> QED BY <1>2, <2>5, <2>6 DEF h
<1> QED BY <1>3, <1>4 DEF N
-----------------------------------------------------------------------------
(***************************************************************************)
(* What the zone server sends of a file: one SOA, then the NS records of   *)
(* the zone, then the rest.                                                *)
(***************************************************************************)
Plain(x) == x.type \notin {"SOA", "FQDN4"} /\ x # Bad /\ x # Comment

\* Records behind the SOA, NS records of the zone first.
Items(B) ==
  /\ IsSeq(B) /\ \A i \in 1..Len(B) : Plain(B[i])
  /\ \A i, j \in 1..Len(B) : j <= i /\ ZoneNs(B[i]) => ZoneNs(B[j])
AllNs(B) == \A i \in 1..Len(B) : ZoneNs(B[i])
NoNs(B) == \A i \in 1..Len(B) : ~ ZoneNs(B[i])

\* ... as far as they have come.
SoFar(B, in_ns, nses) ==
  /\ Items(B)
  /\ in_ns => AllNs(B) /\ (nses <=> B # << >>)
  /\ ~ in_ns => B # << >> /\ (ZoneNs(B[1]) \/ SynthIp = << >>)
TopSoa(a) == a.type = "SOA" /\ a.at = "zone"
Shape(P, in_ns, nses) ==
  \E a, B : P = <<a>> \o B /\ TopSoa(a) /\ SoFar(B, in_ns, nses)
Shaped(P, s) == IF s.rrnum = 0 THEN P = << >> ELSE Shape(P, s.in_ns, s.nses)

LEMMA ItemsJoined ==
  ASSUME NEW B, Items(B), NEW Q, Items(Q), AllNs(B) \/ NoNs(Q)
  PROVE  Items(B \o Q)
<1> DEFINE U == B \o Q
           m == Len(B)
           n == Len(Q)
<1>1. IsSeq(B) /\ IsSeq(Q) /\ m \in Nat /\ n \in Nat
  BY SeqRange DEF Items, IsSeq
<1>2. /\ IsSeq(U) /\ Len(U) = m + n
      /\ \A i \in 1..m : U[i] = B[i]
      /\ \A i \in 1..n : U[i + m] = Q[i]
  BY <1>1, ConcatIs DEF Joined
<1> HIDE DEF U, m, n
<1>3. /\ \A i \in 1..m : Plain(B[i])
      /\ \A i, j \in 1..m : j <= i /\ ZoneNs(B[i]) => ZoneNs(B[j])
      /\ \A i \in 1..n : Plain(Q[i])
      /\ \A i, j \in 1..n : j <= i /\ ZoneNs(Q[i]) => ZoneNs(Q[j])
      /\ (\A i \in 1..m : ZoneNs(B[i])) \/ (\A i \in 1..n : ~ ZoneNs(Q[i]))
  BY DEF Items, AllNs, NoNs, m, n
<1>4. ASSUME NEW i \in 1..(m + n)
      PROVE  \/ i \in 1..m /\ U[i] = B[i]
             \/ i - m \in 1..n /\ U[i] = Q[i - m]
  <2>1. CASE i <= m
    BY <1>1, <1>2, <2>1
  <2>2. CASE ~ (i <= m)
    <3> DEFINE k == i - m
    <3>1. k \in 1..n /\ k + m = i
      BY <1>1, <2>2
    <3> HIDE DEF k
    <3>2. U[k + m] = Q[k]
      BY <1>2, <3>1, Zenon
    <3> QED BY <3>1, <3>2 DEF k
  <2> QED BY <2>1, <2>2
<1>5. \A i \in 1..(m + n) : Plain(U[i])
  BY <1>3, <1>4, Zenon
<1>6. ASSUME NEW i \in 1..(m + n), NEW j \in 1..(m + n), j <= i, ZoneNs(U[i])
      PROVE  ZoneNs(U[j])
  <2>1. CASE j \in 1..m /\ U[j] = B[j]
    <3>1. CASE i \in 1..m /\ U[i] = B[i]
      BY <1>3, <1>6, <2>1, <3>1
    <3>2. CASE i - m \in 1..n /\ U[i] = Q[i - m]
      BY <1>3, <1>6, <2>1, <3>2, Zenon
    <3> QED BY <1>4, <3>1, <3>2
  <2>2. CASE j - m \in 1..n /\ U[j] = Q[j - m]
    <3>1. i - m \in 1..n /\ U[i] = Q[i - m] /\ j - m <= i - m
      <4>1. ~ (i \in 1..m)
        BY <1>1, <1>6, <2>2
      <4>2. i - m \in 1..n /\ U[i] = Q[i - m]
        BY <1>4, <4>1, Zenon
      <4> QED BY <1>1, <1>6, <4>2
    <3> DEFINE k == i - m
               l == j - m
    <3>2. k \in 1..n /\ l \in 1..n /\ l <= k /\ ZoneNs(Q[k]) /\ U[j] = Q[l]
      BY <1>6, <2>2, <3>1
    <3> HIDE DEF k, l
    <3> QED BY <1>3, <3>2
  <2> QED BY <1>4, <2>1, <2>2
<1> QED BY <1>2, <1>5, <1>6 DEF Items, U

LEMMA RecordsItems ==
  ASSUME NEW r, DOMAIN r = DOMAIN Bad, r # Bad, r # Comment, r.type # "SOA", ~ ZoneNs(r)
  PROVE  Items(Records(r)) /\ NoNs(Records(r)) /\ Len(Records(r)) >= 1
<1> DEFINE q == Records(r)
<1>1. IsSeq(q) /\ Len(q) \in 1..2
  BY RecordsIs
<1>2. \A i \in 1..Len(q) : Plain(q[i]) /\ ~ ZoneNs(q[i])
  <2>1. CASE r.type = "FQDN4"
    <3> DEFINE p == Record("PTR", "elsewhere", r.data)
               a == [r EXCEPT !.type = "A"]
    <3>1. Len(q) = 2 /\ q[2] = a /\ q[1] = p
      BY <2>1, RecordsIs
    <3>2. p.type = "PTR" /\ a.type = "A"
      <4>1. "type" \in DOMAIN r
        BY DEF Bad, Record
      <4> QED BY <4>1 DEF Record
    <3>3. Bad.type = "bad" /\ Comment.type = "comment"
      BY DEF Bad, Comment, Record
    <3> HIDE DEF p, a, q
    <3>4. Plain(p) /\ ~ ZoneNs(p)
      BY <3>2, <3>3 DEF Plain, ZoneNs
    <3>5. Plain(a) /\ ~ ZoneNs(a)
      BY <3>2, <3>3 DEF Plain, ZoneNs
    <3>6. \A i \in 1..Len(q) : i = 1 \/ i = 2
      BY <3>1
    <3> QED BY <3>1, <3>4, <3>5, <3>6
  <2>2. CASE r.type # "FQDN4"
    <3>1. q = <<r>>
      BY <2>2, RecordsIs
    <3>2. Plain(r)
      BY <2>2 DEF Plain
    <3> HIDE DEF q
    <3>3. Len(q) = 1 /\ q[1] = r
      BY <3>1, OneIs
    <3>4. \A i \in 1..Len(q) : i = 1
      BY <3>3
    <3> QED BY <3>2, <3>3, <3>4
  <2> QED BY <2>1, <2>2
<1> HIDE DEF q
<1>3. Items(q) /\ NoNs(q) /\ Len(q) >= 1
  BY <1>1, <1>2 DEF Items, NoNs
<1> QED BY <1>3 DEF q

LEMMA SynthItems ==
  ASSUME NEW ips, IsSeq(ips)
  PROVE  /\ Items(Synth(ips)) /\ (ips = << >> => Synth(ips) = << >>)
         /\ ips # << >> => Len(Synth(ips)) >= 1 /\ ZoneNs(Synth(ips)[1])
<1> DEFINE q == Synth(ips)
           n == Len(ips)
<1>1. /\ IsSeq(q) /\ Len(q) = 2 * n /\ n \in Nat
      /\ \A i \in 1..n : q[i] = SynthNs(ips[i])
      /\ \A i \in 1..n : q[i + n] = SynthA(ips[i])
  BY SynthIs
<1>2. Bad.type = "bad" /\ Comment.type = "comment"
  BY DEF Bad, Comment, Record
<1>3. \A x : /\ Plain(SynthNs(x)) /\ ZoneNs(SynthNs(x))
             /\ Plain(SynthA(x)) /\ ~ ZoneNs(SynthA(x))
  <2> TAKE x
  <2>1. SynthNs(x).type = "NS" /\ SynthNs(x).at = "zone" /\ SynthA(x).type = "A"
    BY DEF SynthNs, SynthA, Record
  <2> QED BY <1>2, <2>1 DEF Plain, ZoneNs
<1> HIDE DEF q
<1>4. ips # << >> => n >= 1
  BY <1>1, EmptySeq DEF IsSeq
<1> HIDE DEF n
<1>5. ASSUME NEW i \in 1..Len(q)
      PROVE  \/ i \in 1..n /\ q[i] = SynthNs(ips[i])
             \/ i - n \in 1..n /\ q[i] = SynthA(ips[i - n])
  <2>1. CASE i <= n
    BY <1>1, <2>1
  <2>2. CASE ~ (i <= n)
    <3> DEFINE k == i - n
    <3>1. k \in 1..n /\ k + n = i
      BY <1>1, <2>2
    <3> HIDE DEF k
    <3>2. q[k + n] = SynthA(ips[k])
      BY <1>1, <3>1, Zenon
    <3> QED BY <3>1, <3>2 DEF k
  <2> QED BY <2>1, <2>2
<1>6. \A i \in 1..Len(q) : Plain(q[i])
  BY <1>3, <1>5
<1>7. ASSUME NEW i \in 1..Len(q), NEW j \in 1..Len(q), j <= i, ZoneNs(q[i])
      PROVE  ZoneNs(q[j])
  <2>1. i \in 1..n
    BY <1>3, <1>5, <1>7, Zenon
  <2>2. j \in 1..n
    BY <1>1, <1>7, <2>1
  <2> QED BY <1>1, <1>3, <2>2
<1>8. Items(q)
  BY <1>1, <1>6, <1>7 DEF Items
<1>9. ips = << >> => q = << >>
  <2> SUFFICES ASSUME ips = << >> PROVE q = << >>
    OBVIOUS
  <2>1. Len(q) = 0
    BY <1>1, EmptyIs DEF n
  <2> QED BY <1>1, <2>1, EmptySeq DEF IsSeq
<1>10. ips # << >> => Len(q) >= 1 /\ ZoneNs(q[1])
  <2> SUFFICES ASSUME ips # << >> PROVE Len(q) >= 1 /\ ZoneNs(q[1])
    OBVIOUS
  <2>1. 1 \in 1..n /\ Len(q) >= 1
    BY <1>1, <1>4
  <2> QED BY <1>1, <1>3, <2>1
<1> QED BY <1>8, <1>9, <1>10 DEF q

\* A record that a line may be, once it is known not to end the reading.
LineOK(r) == DOMAIN r = DOMAIN Bad /\ r # Bad /\ r # Comment

LEMMA OneItem ==
  ASSUME NEW r, LineOK(r), ZoneNs(r)
  PROVE  Items(<<r>>) /\ AllNs(<<r>>) /\ Len(<<r>>) = 1
<1>1. Plain(r)
  BY DEF Plain, ZoneNs, LineOK
<1>2. IsSeq(<<r>>) /\ Len(<<r>>) = 1 /\ <<r>>[1] = r
  BY OneIs
<1> DEFINE q == <<r>>
<1> HIDE DEF q
<1>3. IsSeq(q) /\ Len(q) = 1 /\ q[1] = r
  BY <1>2 DEF q
<1>4. \A i \in 1..Len(q) : i = 1
  BY <1>3
<1>5. Items(q) /\ AllNs(q)
  BY <1>1, <1>3, <1>4 DEF Items, AllNs
<1> QED BY <1>3, <1>5 DEF q

LEMMA NoItem == Items(<< >>) /\ AllNs(<< >>) /\ NoNs(<< >>)
<1>1. IsSeq(<< >>) /\ Len(<< >>) = 0
  BY EmptyIs
<1> DEFINE q == << >>
<1> HIDE DEF q
<1>2. IsSeq(q) /\ \A i \in 1..Len(q) : FALSE
  BY <1>1 DEF q
<1>3. Items(q) /\ AllNs(q) /\ NoNs(q)
  BY <1>2 DEF Items, AllNs, NoNs
<1> QED BY <1>3 DEF q

LEMMA SomeLeft == ASSUME NEW s, IsSeq(s) PROVE s # << >> <=> Len(s) >= 1
<1>1. Len(s) \in Nat /\ (Len(s) = 0 => s = << >>)
  BY SeqRange, EmptySeq DEF IsSeq
<1>2. s = << >> => Len(s) = 0
  BY EmptyIs
<1> QED BY <1>1, <1>2

LEMMA FirstOf ==
  ASSUME NEW q, IsSeq(q), NEW p, IsSeq(p), q # << >>
  PROVE  (q \o p)[1] = q[1] /\ q \o p # << >>
<1>1. Joined(q \o p, q, p)
  BY ConcatIs
<1>2. Len(q) \in Nat /\ Len(q) >= 1 /\ Len(p) \in Nat
  BY SomeLeft, SeqRange DEF IsSeq
<1>3. 1 \in 1..Len(q) /\ Len(q \o p) >= 1 /\ IsSeq(q \o p)
  BY <1>1, <1>2 DEF Joined
<1>4. (q \o p)[1] = q[1]
  BY <1>1, <1>3, Zenon DEF Joined
<1> QED BY <1>3, <1>4, SomeLeft

\* What a data record puts behind what is there.
LEMMA DataLine ==
  ASSUME NEW B, NEW in_ns, NEW nses, SoFar(B, in_ns, nses), in_ns \in BOOLEAN,
         NEW r, LineOK(r), r.type # "SOA", ~ ZoneNs(r), IsSeq(SynthIp)
  PROVE  SoFar(B \o ((IF in_ns /\ ~ nses THEN Synth(SynthIp) ELSE << >>) \o Records(r)),
               FALSE, nses)
<1> DEFINE q == Records(r)
           y == Synth(SynthIp)
<1>1. Items(q) /\ NoNs(q) /\ Len(q) >= 1 /\ IsSeq(q) /\ q # << >>
  BY RecordsItems, SomeLeft, RecordsIs DEF LineOK
<1>2. /\ Items(y) /\ (SynthIp = << >> => y = << >>) /\ IsSeq(y)
      /\ SynthIp # << >> => Len(y) >= 1 /\ ZoneNs(y[1]) /\ y # << >>
  BY SynthItems, SynthIs, SomeLeft
<1>3. Items(B) /\ IsSeq(B)
  BY DEF SoFar, Items
<1> HIDE DEF q, y
<1>4. CASE in_ns /\ ~ nses
  <2>1. B = << >>
    BY <1>4 DEF SoFar
  <2> DEFINE U == y \o q
  <2>2. Items(U)
    BY <1>1, <1>2, ItemsJoined
  <2>3. U # << >> /\ (ZoneNs(U[1]) \/ SynthIp = << >>)
    <3>1. CASE SynthIp = << >>
      <4>1. U = q
        BY <1>1, <1>2, <3>1, EmptyJoined
      <4> HIDE DEF U
      <4> QED BY <1>1, <3>1, <4>1
    <3>2. CASE SynthIp # << >>
      <4>1. U[1] = y[1] /\ U # << >>
        BY <1>1, <1>2, <3>2, FirstOf
      <4> HIDE DEF U
      <4> QED BY <1>2, <3>2, <4>1
    <3> QED BY <3>1, <3>2
  <2>4. B \o U = U
    <3>1. IsSeq(U)
      BY <2>2 DEF Items
    <3> HIDE DEF U
    <3>2. << >> \o U = U
      BY <3>1, EmptyJoined
    <3> QED BY <2>1, <3>2
  <2> HIDE DEF U
  <2>5. SoFar(B \o U, FALSE, nses)
    BY <2>2, <2>3, <2>4 DEF SoFar
  <2> QED BY <1>4, <2>5 DEF U, q, y
<1>5. CASE ~ (in_ns /\ ~ nses)
  <2>1. << >> \o q = q
    BY <1>1, EmptyJoined
  <2>2. Items(B \o q)
    BY <1>1, <1>3, ItemsJoined
  <2>3. B # << >> /\ (ZoneNs(B[1]) \/ SynthIp = << >>)
    <3>1. CASE in_ns
      <4>1. B # << >> /\ AllNs(B)
        BY <1>5, <3>1 DEF SoFar
      <4>2. Len(B) \in Nat /\ Len(B) >= 1
        BY <1>3, <4>1, SomeLeft, SeqRange DEF IsSeq
      <4>3. 1 \in 1..Len(B)
        BY <4>2
      <4> QED BY <4>1, <4>3 DEF AllNs
    <3>2. CASE ~ in_ns
      BY <3>2 DEF SoFar
    <3> QED BY <3>1, <3>2
  <2>4. B \o q # << >> /\ (B \o q)[1] = B[1]
    BY <1>1, <1>3, <2>3, FirstOf
  <2> DEFINE U == B \o q
  <2> HIDE DEF U
  <2>5. SoFar(U, FALSE, nses)
    BY <2>2, <2>3, <2>4 DEF SoFar, U
  <2> QED BY <1>5, <2>1, <2>5 DEF U, q
<1> QED BY <1>4, <1>5

\* A line with a record of any kind.
LEMMA BodyLine ==
  ASSUME NEW s, StateOK(s), NEW B, SoFar(B, s.in_ns, s.nses),
         NEW r, LineOK(r), IsSeq(SynthIp)
  PROVE  SoFar(B \o Body(s, r, SynthIp),
               s.in_ns /\ (r.type = "SOA" \/ ZoneNs(r)),
               s.nses \/ (s.in_ns /\ ZoneNs(r)))
<1>1. IsSeq(B) /\ Items(B)
  BY DEF SoFar, Items
<1>2. s.in_ns \in BOOLEAN /\ s.nses \in BOOLEAN
  BY DEF StateOK
<1>3. CASE r.type = "SOA" \/ (ZoneNs(r) /\ ~ s.in_ns)
  <2>1. Body(s, r, SynthIp) = << >>
    BY <1>3 DEF Body, ZoneNs
  <2>2. B \o << >> = B
    BY <1>1, EmptyJoined
  <2>3. /\ (s.in_ns /\ (r.type = "SOA" \/ ZoneNs(r))) = s.in_ns
        /\ (s.nses \/ (s.in_ns /\ ZoneNs(r))) = s.nses
    BY <1>2, <1>3, Zenon DEF ZoneNs
  <2> QED BY <2>1, <2>2, <2>3
<1>4. CASE ZoneNs(r) /\ s.in_ns
  <2>1. Body(s, r, SynthIp) = <<r>>
    BY <1>4 DEF Body, ZoneNs
  <2>2. Items(<<r>>) /\ AllNs(<<r>>) /\ Len(<<r>>) = 1 /\ IsSeq(<<r>>)
    BY <1>4, OneItem, OneIs
  <2>3. AllNs(B)
    BY <1>4 DEF SoFar
  <2> DEFINE U == B \o <<r>>
  <2>4. Items(U)
    BY <1>1, <2>2, <2>3, ItemsJoined
  <2>5. U = Append(B, r)
    BY <1>1 DEF IsSeq
  <2>6. /\ Len(Append(B, r)) = Len(B) + 1 /\ Append(B, r)[Len(B) + 1] = r
        /\ \A i \in 1..Len(B) : Append(B, r)[i] = B[i]
        /\ Len(B) \in Nat
    BY <1>1, AppendIs, SeqRange DEF IsSeq
  <2> HIDE DEF U
  <2>7. AllNs(U)
    <3>1. Len(U) = Len(B) + 1
      BY <2>5, <2>6
    <3>2. ASSUME NEW i \in 1..Len(U) PROVE ZoneNs(U[i])
      <4>1. i \in 1..Len(B) \/ i = Len(B) + 1
        BY <2>6, <3>1
      <4> QED BY <1>4, <2>3, <2>5, <2>6, <4>1 DEF AllNs
    <3> QED BY <3>2 DEF AllNs
  <2>8. U # << >>
    <3>1. IsSeq(U) /\ Len(U) >= 1
      BY <2>4, <2>5, <2>6 DEF Items
    <3> QED BY <3>1, SomeLeft
  <2>9. SoFar(U, TRUE, TRUE)
    BY <2>4, <2>7, <2>8 DEF SoFar
  <2>10. /\ (s.in_ns /\ (r.type = "SOA" \/ ZoneNs(r))) = TRUE
         /\ (s.nses \/ (s.in_ns /\ ZoneNs(r))) = TRUE
    BY <1>2, <1>4, Zenon
  <2> QED BY <2>1, <2>9, <2>10 DEF U
<1>5. CASE r.type # "SOA" /\ ~ ZoneNs(r)
  <2> DEFINE q == (IF s.in_ns /\ ~ s.nses THEN Synth(SynthIp) ELSE << >>) \o Records(r)
  <2>1. Body(s, r, SynthIp) = q
    BY <1>5 DEF Body
  <2>2. SoFar(B \o q, FALSE, s.nses)
    BY <1>2, <1>5, DataLine
  <2> HIDE DEF q
  <2>3. /\ (s.in_ns /\ (r.type = "SOA" \/ ZoneNs(r))) = FALSE
        /\ (s.nses \/ (s.in_ns /\ ZoneNs(r))) = s.nses
    BY <1>2, <1>5, Zenon
  <2> QED BY <2>1, <2>2, <2>3
<1> QED BY <1>3, <1>4, <1>5

\* The first line makes the SOA.
LEMMA ShapedLine ==
  ASSUME NEW s, StateOK(s), NEW P, IsSeq(P), Shaped(P, s),
         NEW t, RecordRead(t, s), LineOK(Head(s.rest)), IsSeq(SynthIp),
         s.rrnum = 0 /\ Head(s.rest).type = "SOA" => Head(s.rest).at = "zone"
  PROVE  Shaped((P \o SoaOf(s, Head(s.rest))) \o Body(s, Head(s.rest), SynthIp), t)
<1> DEFINE r == Head(s.rest)
           soa == SoaOf(s, r)
           body == Body(s, r, SynthIp)
<1>1. IsSeq(soa) /\ IsSeq(body)
  BY MadeIs
<1>2. /\ t.rrnum # 0
      /\ t.in_ns = (s.in_ns /\ (r.type = "SOA" \/ ZoneNs(r)))
      /\ t.nses = (s.nses \/ (s.in_ns /\ ZoneNs(r)))
  BY DEF RecordRead, StateOK
<1>3. \E a, B : P \o soa = <<a>> \o B /\ TopSoa(a) /\ SoFar(B, s.in_ns, s.nses)
  <2>1. CASE s.rrnum = 0
    <3> DEFINE a == IF r.type = "SOA" THEN r ELSE SynthSoa
    <3>1. TopSoa(a)
      BY <2>1 DEF TopSoa, SynthSoa, Record
    <3>2. P = << >> /\ soa = <<a>>
      BY <2>1 DEF SoaOf, Shaped
    <3> HIDE DEF a, soa
    <3>3. P \o soa = <<a>> \o << >>
      <4>1. << >> \o <<a>> = <<a>> /\ <<a>> \o << >> = <<a>>
        BY OneIs, EmptyJoined
      <4> QED BY <3>2, <4>1
    <3>4. SoFar(<< >>, s.in_ns, s.nses)
      BY <2>1, NoItem DEF SoFar, StateOK
    <3> QED BY <3>1, <3>3, <3>4
  <2>2. CASE s.rrnum # 0
    <3>1. soa = << >>
      BY <2>2 DEF SoaOf
    <3> HIDE DEF soa
    <3>2. P \o soa = P
      BY <3>1, EmptyJoined
    <3> QED BY <2>2, <3>2 DEF Shaped, Shape
  <2> QED BY <2>1, <2>2
<1> HIDE DEF r, soa, body
<1>4. PICK a, B : P \o soa = <<a>> \o B /\ TopSoa(a) /\ SoFar(B, s.in_ns, s.nses)
  BY <1>3
<1>5. SoFar(B \o body, t.in_ns, t.nses)
  BY <1>2, <1>4, BodyLine DEF r, body
<1>6. (P \o soa) \o body = <<a>> \o (B \o body)
  <2>1. IsSeq(B) /\ IsSeq(<<a>>)
    BY <1>4, OneIs DEF SoFar, Items
  <2>2. (<<a>> \o B) \o body = <<a>> \o (B \o body)
    BY <1>1, <2>1, Regrouped
  <2> QED BY <1>4, <2>2
<1>7. Shape((P \o soa) \o body, t.in_ns, t.nses)
  BY <1>4, <1>5, <1>6 DEF Shape
<1>8. Shaped((P \o soa) \o body, t)
  BY <1>2, <1>7 DEF Shaped
<1> QED BY <1>8 DEF r, soa, body
-----------------------------------------------------------------------------
(***************************************************************************)
(* A secondary that reads what was sent: the records of the zone again.    *)
(***************************************************************************)
Ordered(P) ==
  /\ IsSeq(P) /\ Len(P) \in Nat /\ Len(P) >= 1 /\ TopSoa(P[1])
  /\ \A i \in 2..Len(P) : Plain(P[i])
  /\ \A i, j \in 2..Len(P) : j <= i /\ ZoneNs(P[i]) => ZoneNs(P[j])
  /\ Len(P) >= 2 /\ ~ ZoneNs(P[2]) => SynthIp = << >>

LEMMA ShapeOrdered ==
  ASSUME NEW P, NEW in_ns \in BOOLEAN, NEW nses, Shape(P, in_ns, nses)
  PROVE  Ordered(P)
<1>1. PICK a, B : P = <<a>> \o B /\ TopSoa(a) /\ SoFar(B, in_ns, nses)
  BY DEF Shape
<1> DEFINE m == Len(B)
<1>2. IsSeq(B) /\ m \in Nat /\ Items(B)
  BY <1>1, SeqRange DEF SoFar, Items, IsSeq
<1>3. IsSeq(<<a>>) /\ Len(<<a>>) = 1 /\ <<a>>[1] = a
  BY OneIs
<1>4. Joined(P, <<a>>, B)
  BY <1>1, <1>2, <1>3, ConcatIs
<1> DEFINE one == <<a>>
<1> HIDE DEF one, m
<1>5. /\ IsSeq(P) /\ Len(P) = Len(one) + m
      /\ \A i \in 1..Len(one) : P[i] = one[i]
      /\ \A i \in 1..m : P[i + Len(one)] = B[i]
  BY <1>4 DEF Joined, one, m
<1>6. Len(P) = m + 1 /\ P[1] = a
  <2>1. Len(one) = 1 /\ one[1] = a /\ 1 \in 1..Len(one)
    BY <1>3 DEF one
  <2> QED BY <1>2, <1>5, <2>1
<1>7. ASSUME NEW i \in 2..(m + 1)
      PROVE  i - 1 \in 1..m /\ P[i] = B[i - 1]
  <2> DEFINE k == i - 1
  <2>1. k \in 1..m /\ k + 1 = i /\ Len(one) = 1
    BY <1>2, <1>3 DEF one
  <2> HIDE DEF k
  <2>2. P[k + Len(one)] = B[k]
    BY <1>5, <2>1, Zenon
  <2> QED BY <2>1, <2>2 DEF k
<1>8. /\ \A i \in 1..m : Plain(B[i])
      /\ \A i, j \in 1..m : j <= i /\ ZoneNs(B[i]) => ZoneNs(B[j])
  BY <1>2 DEF Items, m
<1>9. \A i \in 2..(m + 1) : Plain(P[i])
  BY <1>7, <1>8
<1>10. ASSUME NEW i \in 2..(m + 1), NEW j \in 2..(m + 1), j <= i, ZoneNs(P[i])
       PROVE  ZoneNs(P[j])
  <2> DEFINE k == i - 1
             l == j - 1
  <2>1. k \in 1..m /\ l \in 1..m /\ l <= k /\ P[i] = B[k] /\ P[j] = B[l]
    BY <1>2, <1>7, <1>10
  <2> HIDE DEF k, l
  <2> QED BY <1>8, <1>10, <2>1
<1>11. ASSUME m + 1 >= 2, ~ ZoneNs(P[2]) PROVE SynthIp = << >>
  <2>1. 1 \in 1..m /\ P[2] = B[1]
    <3>1. 2 \in 2..(m + 1) /\ 1 \in 1..m
      BY <1>2, <1>11
    <3>2. P[2] = B[2 - 1]
      BY <1>7, <3>1
    <3> QED BY <3>1, <3>2
  <2>2. ~ in_ns
    BY <1>1, <1>11, <2>1 DEF SoFar, AllNs, m
  <2> QED BY <1>1, <1>11, <2>1, <2>2 DEF SoFar
<1> DEFINE N == Len(P)
<1>12. N = m + 1 /\ TopSoa(P[1]) /\ N \in Nat /\ N >= 1
  BY <1>1, <1>2, <1>6
<1> HIDE DEF N
<1>13. /\ \A i \in 2..N : Plain(P[i])
       /\ \A i, j \in 2..N : j <= i /\ ZoneNs(P[i]) => ZoneNs(P[j])
       /\ N >= 2 /\ ~ ZoneNs(P[2]) => SynthIp = << >>
  BY <1>9, <1>10, <1>11, <1>12
<1> QED BY <1>5, <1>12, <1>13 DEF Ordered, N

LEMMA OutputIs ==
  ASSUME NEW P, IsSeq(P)
  PROVE  /\ IsSeq(Output(P)) /\ Len(Output(P)) = Len(P)
         /\ \A i \in 1..Len(P) :
              Output(P)[i] = IF P[i].at = "elsewhere" THEN Comment ELSE P[i]
<1> DEFINE n == Len(P)
           item(i) == IF P[i].at = "elsewhere" THEN Comment ELSE P[i]
           S == {item(i) : i \in 1..n}
           F == [i \in 1..n |-> item(i)]
<1>1. DOMAIN P = 1..n /\ n \in Nat
  BY SeqRange DEF IsSeq
<1>2. Output(P) = F
  BY <1>1 DEF Output
<1>3. F \in Seq(S) /\ Len(F) = n /\ \A i \in 1..n : F[i] = item(i)
  <2> HIDE DEF n, item
  <2> QED BY <1>1
<1> HIDE DEF F, S
<1>4. IsSeq(F)
  BY <1>3, SeqRange
<1> QED BY <1>2, <1>3, <1>4

\* The first n records that are in the zone.
InZoneUpTo(P, n) == {P[i] : i \in {j \in 1..n : P[j].at # "elsewhere"}}

\* What a secondary has after n lines.
Again(h, P, n) ==
  /\ ~ h.ended /\ Had(h) = InZoneUpTo(P, n)
  /\ h.rrnum = 0 <=> n = 0
  /\ (\A i \in 2..n : ZoneNs(P[i])) => h.in_ns
  /\ n >= 2 /\ ZoneNs(P[2]) => h.nses

LEMMA InZoneNext ==
  ASSUME NEW P, NEW n \in Nat
  PROVE  InZoneUpTo(P, n + 1) =
           InZoneUpTo(P, n) \union (IF P[n + 1].at = "elsewhere" THEN {} ELSE {P[n + 1]})
<1>1. 1..(n + 1) = (1..n) \union {n + 1}
  OBVIOUS
<1> DEFINE m == n + 1
<1> HIDE DEF m
<1>2. 1..m = (1..n) \union {m}
  BY <1>1 DEF m
<1>3. InZoneUpTo(P, m) =
        InZoneUpTo(P, n) \union (IF P[m].at = "elsewhere" THEN {} ELSE {P[m]})
  BY <1>2, Zenon DEF InZoneUpTo
<1> QED BY <1>3 DEF m

\* One more line, a record in the zone or a comment.
LEMMA AgainLine ==
  ASSUME NEW P, Ordered(P), SecondaryIp # << >> => SynthIp # << >>,
         IsSeq(SecondaryIp), BufferMax >= 1,
         NEW n \in 0..(Len(P) - 1), NEW h, StateOK(h), Waits(h), Again(h, P, n),
         h.rest # << >>,
         Head(h.rest) = IF P[n + 1].at = "elsewhere" THEN Comment ELSE P[n + 1]
  PROVE  Again(ReadRr(h, SecondaryIp, 1), P, n + 1)
<1> DEFINE N == Len(P)
           x == P[n + 1]
           m == n + 1
           t == ReadRr(h, SecondaryIp, 1)
<1>1. N \in Nat /\ m \in 1..N /\ n \in Nat /\ m # 0
  BY DEF Ordered
<1>2. /\ \A i \in 2..N : Plain(P[i])
      /\ \A i, j \in 2..N : j <= i /\ ZoneNs(P[i]) => ZoneNs(P[j])
      /\ N >= 2 /\ ~ ZoneNs(P[2]) => SynthIp = << >>
      /\ TopSoa(P[1])
  BY DEF Ordered
<1>3. Bad.type = "bad" /\ Bad.at = "zone" /\ Comment.type = "comment"
  BY DEF Bad, Comment, Record
<1>4. x # Bad /\ x # Comment /\ x.type # "FQDN4" /\ (n # 0 => m \in 2..N /\ Plain(x) /\ x.type # "SOA")
  <2>1. CASE n = 0
    <3>1. TopSoa(x)
      BY <1>2, <2>1
    <3> QED BY <1>3, <2>1, <3>1 DEF TopSoa
  <2>2. CASE n # 0
    <3>1. m \in 2..N
      BY <1>1, <2>2
    <3>2. Plain(x)
      BY <1>2, <3>1
    <3> QED BY <3>1, <3>2 DEF Plain
  <2> QED BY <2>1, <2>2
<1>5. InZoneUpTo(P, m) = InZoneUpTo(P, n) \union (IF x.at = "elsewhere" THEN {} ELSE {x})
  BY <1>1, InZoneNext
<1>6. P[m] = x /\ m = n + 1
  OBVIOUS
<1>7. /\ ~ h.ended /\ Had(h) = InZoneUpTo(P, n)
      /\ h.rrnum = 0 <=> n = 0
      /\ (\A i \in 2..n : ZoneNs(P[i])) => h.in_ns
      /\ n >= 2 /\ ZoneNs(P[2]) => h.nses
  BY DEF Again
<1> HIDE DEF x, m
<1>8. ~ Stops(h)
  <2>1. Bad.type = "bad" /\ Comment # Bad
    BY <1>3
  <2> QED BY <1>4, <2>1, <1>6 DEF Stops, x, m
<1>9. CASE x.at = "elsewhere"
  <2>1. Head(h.rest) = Comment
    BY <1>9 DEF x
  <2>2. t = Behind(h)
    BY <1>8, <2>1, LineIs
  <2> HIDE DEF t
  <2>3. t.rrnum = h.rrnum /\ t.in_ns = h.in_ns /\ t.nses = h.nses /\ t.ended = h.ended
        /\ Had(t) = Had(h)
    BY <2>2, BehindIs, BehindSame DEF StateOK, SameSoFar
  <2>4. n # 0 /\ ~ ZoneNs(P[m]) /\ m \in 2..N
    <3>1. n # 0
      BY <1>2, <1>9 DEF TopSoa, x
    <3> QED BY <1>4, <1>6, <1>9, <3>1 DEF ZoneNs
  <2>5. ~ (\A i \in 2..m : ZoneNs(P[i]))
    <3>1. m \in 2..m
      BY <1>1, <2>4
    <3> QED BY <2>4, <3>1
  <2>6. m >= 2 /\ ZoneNs(P[2]) => t.nses
    <3> SUFFICES ASSUME ZoneNs(P[2]) PROVE t.nses
      OBVIOUS
    <3>1. m # 2
      BY <2>4
    <3>2. n >= 2
      BY <1>1, <1>6, <2>4, <3>1
    <3> QED BY <1>7, <2>3, <3>2
  <2>7. Had(t) = InZoneUpTo(P, m)
    BY <1>5, <1>7, <1>9, <2>3
  <2>8. ~ t.ended /\ (t.rrnum = 0 <=> m = 0)
    BY <1>1, <1>7, <2>3, <2>4
  <2>9. Again(t, P, m)
    BY <2>5, <2>6, <2>7, <2>8 DEF Again
  <2> QED BY <2>9 DEF t, m
<1>10. CASE x.at # "elsewhere"
  <2>1. Head(h.rest) = x
    BY <1>10 DEF x
  <2>2. /\ RecordRead(t, h)
        /\ Had(t) = Had(h) \union Range(SoaOf(h, x)) \union Range(Body(h, x, SecondaryIp))
    <3>1. /\ RecordRead(t, h)
          /\ Had(t) = Had(h) \union Range(SoaOf(h, Head(h.rest)))
                      \union Range(Body(h, Head(h.rest), SecondaryIp))
      BY <1>4, <1>8, <2>1, HashedRecord
    <3> HIDE DEF t
    <3> QED BY <2>1, <3>1
  <2> HIDE DEF t
  <2>3. /\ t.ended = h.ended /\ t.rrnum = h.rrnum + 1
        /\ t.in_ns = (h.in_ns /\ (x.type = "SOA" \/ ZoneNs(x)))
        /\ t.nses = (h.nses \/ (h.in_ns /\ ZoneNs(x)))
    BY <2>1, <2>2 DEF RecordRead
  <2>4. ~ t.ended /\ (t.rrnum = 0 <=> m = 0)
    BY <1>1, <1>7, <2>3 DEF StateOK
  <2>5. /\ Range(SoaOf(h, x)) \union Range(Body(h, x, SecondaryIp)) = {x}
        /\ (\A i \in 2..m : ZoneNs(P[i])) => t.in_ns
        /\ m >= 2 /\ ZoneNs(P[2]) => t.nses
    <3>1. CASE n = 0
      <4>1. x.type = "SOA" /\ h.rrnum = 0 /\ m = 1
        BY <1>2, <1>6, <1>7, <3>1 DEF TopSoa
      <4>2. SoaOf(h, x) = <<x>> /\ Body(h, x, SecondaryIp) = << >>
        BY <4>1 DEF SoaOf, Body, ZoneNs
      <4>3. Range(<<x>>) = {x} /\ Range(<< >>) = {}
        BY OneIs, EmptyIs
      <4>4. t.in_ns
        BY <2>3, <4>1 DEF StateOK
      <4>5. ~ (m >= 2)
        BY <4>1
      <4> QED BY <4>2, <4>3, <4>4, <4>5
    <3>2. CASE n # 0 /\ ZoneNs(x)
      <4>1. m \in 2..N /\ h.rrnum # 0
        BY <1>4, <1>7, <3>2
      <4>2. h.in_ns
        <5>1. \A i \in 2..n : i \in 2..N /\ i <= m
          BY <1>1, <1>6
        <5>2. \A i \in 2..n : ZoneNs(P[i])
          BY <1>2, <1>6, <3>2, <4>1, <5>1
        <5> QED BY <1>7, <5>2
      <4>3. SoaOf(h, x) = << >> /\ Body(h, x, SecondaryIp) = <<x>>
        BY <3>2, <4>1, <4>2 DEF SoaOf, Body, ZoneNs
      <4>4. Range(<<x>>) = {x} /\ Range(<< >>) = {}
        BY OneIs, EmptyIs
      <4>5. t.in_ns /\ t.nses
        BY <2>3, <3>2, <4>2
      <4> QED BY <4>3, <4>4, <4>5
    <3>3. CASE n # 0 /\ ~ ZoneNs(x)
      <4>1. m \in 2..N /\ h.rrnum # 0 /\ x.type # "SOA" /\ 2 \in 2..N
        BY <1>1, <1>4, <1>7, <3>3
      <4>2. SoaOf(h, x) = << >>
        BY <4>1 DEF SoaOf
      <4> DEFINE q == IF h.in_ns /\ ~ h.nses THEN Synth(SecondaryIp) ELSE << >>
      <4>3. Body(h, x, SecondaryIp) = q \o <<x>>
        <5>1. Records(x) = <<x>>
          BY <1>4, RecordsIs
        <5> QED BY <3>3, <4>1, <5>1 DEF Body
      <4>4. q = << >>
        <5>1. CASE h.in_ns /\ ~ h.nses
          <6>1. ~ ZoneNs(P[2])
            <7>1. CASE n >= 2
              BY <1>7, <5>1, <7>1
            <7>2. CASE ~ (n >= 2)
              <8>1. m = 2
                BY <1>1, <1>6, <3>3, <7>2
              <8> QED BY <1>6, <3>3, <8>1
            <7> QED BY <7>1, <7>2
          <6>2. SecondaryIp = << >>
            BY <1>2, <4>1, <6>1
          <6> QED BY <6>2, SynthItems
        <5>2. CASE ~ (h.in_ns /\ ~ h.nses)
          BY <5>2
        <5> QED BY <5>1, <5>2
      <4> HIDE DEF q
      <4>5. q \o <<x>> = <<x>>
        BY <4>4, OneIs, EmptyJoined
      <4>6. Range(<<x>>) = {x} /\ Range(<< >>) = {}
        BY OneIs, EmptyIs
      <4>7. ~ (\A i \in 2..m : ZoneNs(P[i]))
        <5>1. m \in 2..m
          BY <1>1, <4>1
        <5> QED BY <1>6, <3>3, <5>1
      <4>8. m >= 2 /\ ZoneNs(P[2]) => t.nses
        <5> SUFFICES ASSUME ZoneNs(P[2]) PROVE t.nses
          OBVIOUS
        <5>1. m # 2
          BY <1>6, <3>3
        <5>2. n >= 2
          BY <1>1, <1>6, <4>1, <5>1
        <5> QED BY <1>7, <2>3, <5>2
      <4> QED BY <4>2, <4>3, <4>5, <4>6, <4>7, <4>8
    <3> QED BY <3>1, <3>2, <3>3
  <2>6. Had(t) = InZoneUpTo(P, m)
    BY <1>5, <1>7, <1>10, <2>2, <2>5
  <2>7. Again(t, P, m)
    BY <2>4, <2>5, <2>6 DEF Again
  <2> QED BY <2>7 DEF t, m
<1> QED BY <1>9, <1>10

LEMMA ServedAgain ==
  ASSUME NEW P, Ordered(P), SecondaryIp # << >> => SynthIp # << >>,
         IsSeq(SecondaryIp), BufferMax >= 1
  PROVE  Served(Output(P), SecondaryIp) = InZone(Range(P))
<1> DEFINE N == Len(P)
           F == Output(P)
           h(n) == Reading(F, SecondaryIp)[n]
           T == {n \in 0..N : Again(h(n), P, n)}
<1>1. IsSeq(P) /\ N \in Nat /\ DOMAIN P = 1..N
  BY SeqRange DEF Ordered, IsSeq
<1>2. /\ IsSeq(F) /\ Len(F) = N
      /\ \A i \in 1..N : F[i] = IF P[i].at = "elsewhere" THEN Comment ELSE P[i]
  BY <1>1, OutputIs
<1> HIDE DEF F
<1>3. /\ h(0) = Opened(F)
      /\ \A n \in 0..(N - 1) : h(n + 1) = ReadRr(h(n), SecondaryIp, 1)
      /\ \A n \in 0..N : UpToLine(h(n), F, n)
  BY <1>2, ReadingIs, ReadingOK
<1> HIDE DEF h, N
<1>4. 0 \in T
  <2> DEFINE o == Opened(F)
  <2>1. /\ o.ended = FALSE /\ o.rrnum = 0 /\ o.in_ns = TRUE
        /\ o.hash = {} /\ o.buffer = << >>
    BY DEF Opened
  <2> HIDE DEF o
  <2>2. Had(o) = {}
    BY <2>1, EmptyIs DEF Had
  <2>3. InZoneUpTo(P, 0) = {}
    BY DEF InZoneUpTo
  <2>4. ~ o.ended /\ o.in_ns
    BY <2>1, Zenon
  <2>5. Again(o, P, 0)
    BY <2>1, <2>2, <2>3, <2>4 DEF Again
  <2>6. h(0) = o /\ 0 \in 0..N
    BY <1>1, <1>3 DEF o
  <2> QED BY <2>5, <2>6
<1>5. ASSUME NEW n \in 0..(N - 1), n \in T PROVE n + 1 \in T
  <2> DEFINE s == h(n)
  <2>1. Again(s, P, n) /\ UpToLine(s, F, n) /\ h(n + 1) = ReadRr(s, SecondaryIp, 1)
        /\ n + 1 \in 0..N /\ n + 1 \in 1..N
    BY <1>1, <1>3, <1>5
  <2> HIDE DEF s
  <2>2. StateOK(s) /\ Waits(s) /\ ~ s.ended /\ IsSeq(s.rest) /\ Len(s.rest) = N - n
        /\ \A i \in 1..(N - n) : s.rest[i] = F[i + n]
    BY <1>2, <2>1 DEF UpToLine, Again
  <2>3. s.rest # << >> /\ Head(s.rest) = F[n + 1]
    BY <1>2, <2>2, LessLeft
  <2>4. Head(s.rest) = IF P[n + 1].at = "elsewhere" THEN Comment ELSE P[n + 1]
    BY <1>2, <2>1, <2>3, Zenon
  <2>5. Again(ReadRr(s, SecondaryIp, 1), P, n + 1)
    BY <2>1, <2>2, <2>3, <2>4, AgainLine DEF N
  <2> QED BY <2>1, <2>5
<1>6. Again(h(N), P, N)
  <2> HIDE DEF T
  <2>1. \A n \in 0..N : n \in T
    BY <1>1, <1>4, <1>5, UpTo
  <2>2. N \in T
    BY <1>1, <2>1
  <2> QED BY <2>2 DEF T
<1>7. Served(F, SecondaryIp) = Had(h(N))
  <2>1. N \in 0..Len(F) /\ N = Len(F)
    BY <1>1, <1>2
  <2> QED BY <1>2, <2>1, ServedIs DEF h
<1>8. InZoneUpTo(P, N) = InZone(Range(P))
  BY <1>1 DEF InZoneUpTo, InZone, Range
<1> QED BY <1>6, <1>7, <1>8 DEF Again, F
-----------------------------------------------------------------------------
(***************************************************************************)
(* The zone server and maradns side by side, line by line.                 *)
(***************************************************************************)
FileOK(file) ==
  /\ IsSeq(file) /\ Comment \notin Range(file)
  /\ \A i \in 1..Len(file) : DOMAIN file[i] = DOMAIN Bad

\* P, the records that have been made, are those that maradns has of the lines
\* read; and when reading has ended, all that it serves.
Reads(s, P, file) ==
  /\ StateOK(s) /\ s.ended \in BOOLEAN /\ Shaped(P, s)
  /\ s.ended => Range(P) = Served(file, SynthIp)
  /\ ~ s.ended =>
       LET h == Reading(file, SynthIp)[s.rrnum] IN
       /\ s.rrnum <= Len(file) /\ ~ h.ended /\ h.rest = s.rest
       /\ h.rrnum = s.rrnum /\ h.in_ns = s.in_ns /\ h.nses = s.nses
       /\ Range(P) = Had(h)

\* The next line is a line of the file.
LEMMA NextRecord ==
  ASSUME NEW file, FileOK(file), IsSeq(SynthIp), BufferMax >= 1,
         NEW s, NEW P, Reads(s, P, file), ~ s.ended, ~ Stops(s)
  PROVE  /\ s.rrnum \in 0..(Len(file) - 1) /\ LineOK(Head(s.rest))
         /\ Head(s.rest) = file[s.rrnum + 1]
<1> DEFINE n == s.rrnum
           h == Reading(file, SynthIp)[n]
           N == Len(file)
<1>1. N \in Nat /\ DOMAIN file = 1..N /\ IsSeq(file)
  BY SeqRange DEF FileOK, IsSeq
<1>2. /\ n \in Nat /\ n <= N /\ ~ h.ended /\ h.rest = s.rest /\ s.rest # << >>
      /\ Head(s.rest) # Bad
  BY DEF Reads, StateOK, Stops
<1>3. UpToLine(h, file, n)
  <2>1. n \in 0..N
    BY <1>1, <1>2
  <2> QED BY <1>1, <2>1, ReadingOK
<1> HIDE DEF h, n
<1>4. IsSeq(s.rest) /\ Len(s.rest) = N - n /\ \A i \in 1..(N - n) : s.rest[i] = file[i + n]
  BY <1>2, <1>3 DEF UpToLine
<1>5. n \in 0..(N - 1)
  <2>1. Len(s.rest) >= 1
    BY <1>2, <1>4, SomeLeft
  <2>2. N - n >= 1 /\ N \in Nat /\ n \in Nat
    BY <1>1, <1>2, <1>4, <2>1
  <2> HIDE DEF N
  <2> QED BY <2>2
<1>6. Head(s.rest) = file[n + 1]
  BY <1>1, <1>4, <1>5, LessLeft
<1>7. n + 1 \in 1..N
  BY <1>1, <1>5
<1>8. file[n + 1] # Comment /\ DOMAIN file[n + 1] = DOMAIN Bad
  BY <1>1, <1>7 DEF FileOK, Range
<1> QED BY <1>2, <1>5, <1>6, <1>8 DEF LineOK, n

LEMMA ServerLine ==
  ASSUME NEW file, FileOK(file), SoaAtTop(file), IsSeq(SynthIp), BufferMax >= 1,
         NEW s, NEW g, IsSeq(g), Reads(s, g \o s.buffer, file), ~ s.ended,
         ~ Stops(s) =>
           Len((s.buffer \o SoaOf(s, Head(s.rest))) \o Body(s, Head(s.rest), SynthIp))
             <= BufferMax
  PROVE  LET t == ReadRr(s, SynthIp, 2) IN
         /\ Reads(t, g \o t.buffer, file)
         /\ Stops(s) => SameSoFar(t, s) /\ t.ended = TRUE
         /\ ~ Stops(s) =>
              /\ RecordRead(t, s) /\ StateOK(t)
              /\ t.buffer = (s.buffer \o SoaOf(s, Head(s.rest)))
                              \o Body(s, Head(s.rest), SynthIp)
<1> DEFINE t == ReadRr(s, SynthIp, 2)
           n == s.rrnum
           H == Reading(file, SynthIp)
           h == H[n]
           N == Len(file)
           P == g \o s.buffer
<1>1. /\ StateOK(s) /\ s.ended \in BOOLEAN /\ Shaped(P, s)
      /\ n <= N /\ ~ h.ended /\ h.rest = s.rest
      /\ h.rrnum = n /\ h.in_ns = s.in_ns /\ h.nses = s.nses
      /\ Range(P) = Had(h) /\ n \in Nat /\ DOMAIN s = FileFields /\ IsSeq(s.buffer)
  BY DEF Reads, StateOK
<1>2. N \in Nat /\ IsSeq(file) /\ DOMAIN file = 1..N
  BY SeqRange DEF FileOK, IsSeq
<1>3. UpToLine(h, file, n)
  <2>1. n \in 0..N
    BY <1>1, <1>2
  <2> QED BY <1>2, <2>1, ReadingOK
<1>4. StateOK(h) /\ Waits(h)
  BY <1>3 DEF UpToLine
<1>5. CASE Stops(s)
  <2>1. SameSoFar(t, s) /\ t.ended = TRUE /\ t.rest = << >>
    <3> DEFINE method == 2
    <3> HIDE DEF method
    <3>1. /\ SameSoFar(ReadRr(s, SynthIp, method), s)
          /\ ReadRr(s, SynthIp, method).ended = TRUE
          /\ ReadRr(s, SynthIp, method).rest = << >>
      BY <1>1, <1>5, StoppedIs
    <3> QED BY <3>1 DEF method
  <2> HIDE DEF t
  <2>2. Served(file, SynthIp) = Had(h)
    <3>1. Stops(H[n]) /\ n \in 0..N
      BY <1>1, <1>2, <1>5 DEF Stops
    <3> HIDE DEF n
    <3> QED BY <1>2, <3>1, ServedIs
  <2> HIDE DEF h
  <2>3. g \o t.buffer = P
    BY <2>1 DEF SameSoFar
  <2> HIDE DEF P
  <2>4. StateOK(t)
    BY <1>1, <2>1 DEF SameSoFar, StateOK
  <2>5. Shaped(P, t)
    BY <1>1, <2>1 DEF SameSoFar, Shaped
  <2>6. Reads(t, P, file)
    <3>1. t.ended \in BOOLEAN /\ t.ended
      BY <2>1, Zenon
    <3> QED BY <1>1, <2>2, <2>4, <2>5, <3>1 DEF Reads
  <2> QED BY <1>5, <2>1, <2>3, <2>6 DEF t
<1>6. CASE ~ Stops(s)
  <2> DEFINE r == Head(s.rest)
             soa == SoaOf(s, r)
             body == Body(s, r, SynthIp)
             H1 == H[n + 1]
  <2>1. n \in 0..(N - 1) /\ LineOK(r) /\ r = file[n + 1]
    BY <1>6, NextRecord
  <2>2. RecordRead(t, s) /\ StateOK(t) /\ t.buffer = (s.buffer \o soa) \o body
    BY <1>1, <1>6, <2>1, PushedRecord DEF LineOK
  <2>3. /\ RecordRead(H1, h) /\ StateOK(H1) /\ Waits(H1)
        /\ Had(H1) = Had(h) \union Range(SoaOf(h, r)) \union Range(Body(h, r, SynthIp))
    <3>1. H1 = ReadRr(h, SynthIp, 1)
      BY <1>2, <2>1, ReadingIs
    <3>2. ~ Stops(h) /\ Head(h.rest) = r /\ r # Comment
      BY <1>1, <1>6, <2>1 DEF Stops, LineOK
    <3> HIDE DEF h, H1, r
    <3>3. LET T == ReadRr(h, SynthIp, 1)
              R == Head(h.rest)
          IN /\ RecordRead(T, h) /\ StateOK(T) /\ Waits(T)
             /\ Had(T) = Had(h) \union Range(SoaOf(h, R)) \union Range(Body(h, R, SynthIp))
      BY <1>4, <3>2, HashedRecord
    <3> QED BY <3>1, <3>2, <3>3
  <2>4. SoaOf(h, r) = soa /\ Body(h, r, SynthIp) = body
    BY <1>1 DEF SoaOf, Body
  <2>5. IsSeq(soa) /\ IsSeq(body)
    BY MadeIs
  <2>6. n = 0 /\ r.type = "SOA" => r.at = "zone"
    <3>1. file # << >>
      BY <1>2, <2>1, SomeLeft
    <3> QED BY <2>1, <3>1 DEF SoaAtTop
  <2>7. IsSeq(P)
    BY <1>1, ConcatIs DEF Joined
  <2> HIDE DEF h, H1, t
  <2>8. Shaped((P \o soa) \o body, t)
    BY <1>1, <2>1, <2>2, <2>6, <2>7, ShapedLine
  <2>9. g \o t.buffer = (P \o soa) \o body
    <3> HIDE DEF soa, body, r
    <3>1. IsSeq(s.buffer \o soa) /\ (g \o s.buffer) \o soa = g \o (s.buffer \o soa)
      <4>1. IsSeq(s.buffer \o soa)
        BY <1>1, <2>5, ConcatIs DEF Joined
      <4>2. (g \o s.buffer) \o soa = g \o (s.buffer \o soa)
        <5> DEFINE b == s.buffer
        <5>1. IsSeq(b)
          BY <1>1
        <5> HIDE DEF b
        <5>2. (g \o b) \o soa = g \o (b \o soa)
          BY <2>5, <5>1, Regrouped
        <5> QED BY <5>2 DEF b
      <4> QED BY <4>1, <4>2
    <3> DEFINE b == s.buffer \o soa
    <3>2. (g \o b) \o body = g \o (b \o body)
      <4>1. IsSeq(b)
        BY <3>1
      <4> HIDE DEF b
      <4> QED BY <2>5, <4>1, Regrouped
    <3> QED BY <2>2, <3>1, <3>2
  <2>10. Range((P \o soa) \o body) = Had(H1)
    <3> HIDE DEF soa, body, P, r
    <3>1. IsSeq(P \o soa) /\ Range(P \o soa) = Range(P) \union Range(soa)
      BY <2>5, <2>7, ConcatIs DEF Joined
    <3>2. Range((P \o soa) \o body) = Range(P \o soa) \union Range(body)
      BY <2>5, <3>1, ConcatIs DEF Joined
    <3> QED BY <1>1, <2>3, <2>4, <3>1, <3>2
  <2>11. /\ t.rrnum = n + 1 /\ t.ended = s.ended /\ t.rest = Tail(s.rest)
         /\ H1.rrnum = n + 1 /\ H1.ended = h.ended /\ H1.rest = Tail(s.rest)
         /\ H1.in_ns = t.in_ns /\ H1.nses = t.nses
    BY <1>1, <2>2, <2>3 DEF RecordRead
  <2>12. Reads(t, g \o t.buffer, file)
    <3> DEFINE Q == (P \o soa) \o body
               k == n + 1
    <3>1. k <= N /\ k = t.rrnum /\ H1 = H[k]
      BY <1>2, <2>1, <2>11 DEF H1
    <3> HIDE DEF Q, k, P, soa, body, r, n, N, H
    <3>2. t.ended \in BOOLEAN /\ ~ t.ended /\ ~ H1.ended
      BY <1>1, <2>11
    <3>3. Shaped(Q, t) /\ Range(Q) = Had(H1) /\ g \o t.buffer = Q
      BY <2>8, <2>9, <2>10 DEF Q
    <3>4. Reads(t, Q, file)
      BY <2>2, <2>11, <3>1, <3>2, <3>3 DEF Reads, H, N, k
    <3> QED BY <3>3, <3>4
  <2> QED BY <1>6, <2>2, <2>12 DEF t
<1> QED BY <1>5, <1>6

-----------------------------------------------------------------------------
(***************************************************************************)
(* The buffer has room for what is read between one sending and the next.  *)
(***************************************************************************)
LEMMA LineLen ==
  ASSUME NEW s, StateOK(s), NEW r, NEW ips, IsSeq(ips), NEW b, IsSeq(b)
  PROVE  /\ Len((b \o SoaOf(s, r)) \o Body(s, r, ips)) =
              Len(b) + Len(SoaOf(s, r)) + Len(Body(s, r, ips))
         /\ Len(b) \in Nat /\ Len(SoaOf(s, r)) \in 0..1 /\ Len(Body(s, r, ips)) \in Nat
         /\ s.rrnum # 0 => Len(SoaOf(s, r)) = 0
         /\ r.type = "SOA" => Len(Body(s, r, ips)) = 0
         /\ ZoneNs(r) => Len(Body(s, r, ips)) <= 1
         /\ ~ (s.in_ns /\ ~ s.nses) => Len(Body(s, r, ips)) <= 2
         /\ Len(ips) \in Nat /\ Len(Body(s, r, ips)) <= 2 + 2 * Len(ips)
<1> DEFINE soa == SoaOf(s, r)
           body == Body(s, r, ips)
           y == IF s.in_ns /\ ~ s.nses THEN Synth(ips) ELSE << >>
           n == Len(ips)
<1>1. IsSeq(soa) /\ IsSeq(body) /\ n \in Nat
  BY MadeIs, SeqRange DEF IsSeq
<1>2. Len(<< >>) = 0 /\ Len(<<r>>) = 1 /\ Len(<<SynthSoa>>) = 1
  BY EmptyIs, OneIs
<1>3. Len(soa) \in 0..1 /\ (s.rrnum # 0 => Len(soa) = 0)
  BY <1>2 DEF SoaOf
<1>4. /\ IsSeq(y) /\ Len(y) \in Nat /\ Len(y) <= 2 * n
      /\ ~ (s.in_ns /\ ~ s.nses) => Len(y) = 0
  <2>1. IsSeq(Synth(ips)) /\ Len(Synth(ips)) = 2 * n
    BY SynthIs
  <2> HIDE DEF n
  <2> QED BY <1>1, <1>2, <2>1, EmptyIs
<1>5. Len(y \o Records(r)) = Len(y) + Len(Records(r)) /\ Len(Records(r)) \in 1..2
  <2> HIDE DEF y
  <2> QED BY <1>4, RecordsIs, ConcatIs DEF Joined
<1>6. CASE r.type = "SOA" \/ (ZoneNs(r) /\ ~ s.in_ns)
  <2>1. body = << >>
    BY <1>6 DEF Body, ZoneNs
  <2> HIDE DEF body, soa, n
  <2>2. Len(body) = 0
    BY <1>2, <2>1
  <2> HIDE DEF y
  <2>3. Len((b \o soa) \o body) = Len(b) + Len(soa) + Len(body)
    <3>1. IsSeq(b \o soa) /\ Len(b \o soa) = Len(b) + Len(soa)
      BY <1>1, ConcatIs DEF Joined
    <3>2. Len((b \o soa) \o body) = Len(b \o soa) + Len(body)
      BY <1>1, <3>1, ConcatIs DEF Joined
    <3> QED BY <3>1, <3>2
  <2>4. Len(b) \in Nat
    BY SeqRange DEF IsSeq
  <2> QED BY <1>1, <1>3, <2>2, <2>3, <2>4 DEF body, soa, n
<1>7. CASE ~ (r.type = "SOA" \/ (ZoneNs(r) /\ ~ s.in_ns))
  <2>1. /\ ZoneNs(r) => body = <<r>>
        /\ ~ ZoneNs(r) => body = y \o Records(r)
    BY <1>7 DEF Body
  <2> HIDE DEF body, soa, n, y
  <2>2. Len(body) \in Nat /\ (ZoneNs(r) => Len(body) = 1)
        /\ (~ ZoneNs(r) => Len(body) = Len(y) + Len(Records(r)))
    BY <1>1, <1>2, <1>5, <2>1, SeqRange DEF IsSeq
  <2>3. Len((b \o soa) \o body) = Len(b) + Len(soa) + Len(body)
    <3>1. IsSeq(b \o soa) /\ Len(b \o soa) = Len(b) + Len(soa)
      BY <1>1, ConcatIs DEF Joined
    <3>2. Len((b \o soa) \o body) = Len(b \o soa) + Len(body)
      BY <1>1, <3>1, ConcatIs DEF Joined
    <3> QED BY <3>1, <3>2
  <2>4. Len(b) \in Nat
    BY SeqRange DEF IsSeq
  <2>5. Len(y) = 0 => Len(body) <= 2
    <3>1. CASE ZoneNs(r)
      BY <2>2, <3>1
    <3>2. CASE ~ ZoneNs(r)
      BY <1>5, <2>2, <3>2
    <3> QED BY <3>1, <3>2
  <2>6. Len(body) <= 2 + 2 * n
    <3> DEFINE l == Len(body)
               m == Len(y)
               o == Len(Records(r))
    <3>1. n \in Nat /\ m \in Nat /\ m <= 2 * n /\ o \in 1..2 /\ (l = 1 \/ l = m + o)
      <4>1. l = 1 \/ l = m + o
        BY <2>2
      <4> HIDE DEF l
      <4> QED BY <1>1, <1>4, <1>5, <4>1
    <3> HIDE DEF l, m, o
    <3>2. l <= 2 + 2 * n
      BY <3>1
    <3> QED BY <3>2 DEF l
  <2>7. ~ (s.in_ns /\ ~ s.nses) => Len(body) <= 2
    BY <1>4, <2>5, Zenon
  <2>8. r.type # "SOA" /\ (ZoneNs(r) => Len(body) <= 1)
    <3>1. r.type # "SOA"
      BY <1>7, Zenon
    <3>2. ZoneNs(r) => Len(body) <= 1
      BY <2>2
    <3> QED BY <3>1, <3>2
  <2> QED BY <1>1, <1>3, <2>2, <2>3, <2>4, <2>6, <2>7, <2>8, Zenon DEF body, soa, n
<1> QED BY <1>6, <1>7

\* After n lines of the beginning, while all are its SOA and NS records.
BeginRoom(s, n) ==
  /\ n \in Nat /\ n <= FirstRead
  /\ s.in_ns /\ ~ s.ended => /\ s.rrnum = n /\ Len(s.buffer) <= n + 1
                             /\ ~ s.nses => Len(s.buffer) <= 1
\* After n lines of a round.
RoundRoom(s, n) ==
  /\ n \in Nat /\ n <= Round /\ s.rrnum # 0
  /\ Len(s.buffer) <= 2 * n + (IF s.in_ns THEN 0 ELSE 2 * Len(SynthIp))

LEMMA BeginLine ==
  ASSUME Roomy, IsSeq(SynthIp), FirstRead \in Nat, BufferMax \in Nat,
         NEW s, StateOK(s), s.in_ns, ~ s.ended, NEW n, BeginRoom(s, n), n < FirstRead,
         s.rrnum = 0 => s.buffer = << >>
  PROVE  LET r == Head(s.rest)
             all == (s.buffer \o SoaOf(s, r)) \o Body(s, r, SynthIp)
         IN /\ Len(all) <= BufferMax
            /\ \A t : RecordRead(t, s) /\ t.buffer = all => BeginRoom(t, n + 1)
<1> DEFINE r == Head(s.rest)
           all == (s.buffer \o SoaOf(s, r)) \o Body(s, r, SynthIp)
           l == Len(s.buffer)
           a == Len(SoaOf(s, r))
           b == Len(Body(s, r, SynthIp))
           k == Len(SynthIp)
<1>1. /\ Len(all) = l + a + b /\ l \in Nat /\ a \in 0..1 /\ b \in Nat /\ k \in Nat
      /\ s.rrnum # 0 => a = 0
      /\ r.type = "SOA" => b = 0
      /\ ZoneNs(r) => b <= 1
      /\ ~ (s.in_ns /\ ~ s.nses) => b <= 2
      /\ b <= 2 + 2 * k
  <2>1. IsSeq(s.buffer)
    BY DEF StateOK
  <2> QED BY <2>1, LineLen
<1>2. n \in Nat /\ s.rrnum = n /\ l <= n + 1 /\ (~ s.nses => l <= 1)
  BY DEF BeginRoom
<1>3. s.rrnum = 0 => l = 0 /\ ~ s.nses
  BY EmptyIs DEF StateOK
<1>4. FirstRead + 2 <= BufferMax /\ 3 + 2 * k <= BufferMax
  BY DEF Roomy
<1> HIDE DEF all, a, b, k, l
<1>5. l + a <= n + 1 /\ (~ s.nses => l + a <= 1)
  BY <1>1, <1>2, <1>3
<1>6. Len(all) <= BufferMax
  <2>1. CASE s.nses
    BY <1>1, <1>2, <1>4, <1>5, <2>1
  <2>2. CASE ~ s.nses
    BY <1>1, <1>2, <1>4, <1>5, <2>2
  <2> QED BY <2>1, <2>2
<1>7. ASSUME NEW t, RecordRead(t, s), t.buffer = all PROVE BeginRoom(t, n + 1)
  <2>1. /\ t.rrnum = n + 1 /\ t.in_ns = (s.in_ns /\ (r.type = "SOA" \/ ZoneNs(r)))
        /\ t.nses = (s.nses \/ (s.in_ns /\ ZoneNs(r)))
    BY <1>2, <1>7 DEF RecordRead
  <2> HIDE DEF r
  <2>2. ASSUME t.in_ns PROVE Len(all) <= n + 1 + 1 /\ (~ t.nses => Len(all) <= 1)
    <3>1. r.type = "SOA" \/ ZoneNs(r)
      BY <2>1, <2>2, Zenon
    <3>2. ~ t.nses => ~ s.nses /\ ~ ZoneNs(r)
      BY <2>1, Zenon
    <3>3. b <= 1 /\ (~ t.nses => b = 0)
      BY <1>1, <3>1, <3>2 DEF r
    <3>4. CASE t.nses
      BY <1>1, <1>2, <1>5, <3>3, <3>4
    <3>5. CASE ~ t.nses
      BY <1>1, <1>2, <1>5, <3>2, <3>3, <3>5
    <3> QED BY <3>4, <3>5
  <2> DEFINE m == n + 1
  <2>3. m \in Nat /\ m <= FirstRead /\ t.rrnum = m
    BY <1>2, <2>1
  <2> HIDE DEF m
  <2>4. BeginRoom(t, m)
    BY <1>7, <2>2, <2>3 DEF BeginRoom, m
  <2> QED BY <2>4 DEF m
<1> QED BY <1>6, <1>7 DEF all

LEMMA RoundLine ==
  ASSUME Roomy, IsSeq(SynthIp), Round \in Nat, BufferMax \in Nat,
         NEW s, StateOK(s), NEW n, RoundRoom(s, n), n < Round
  PROVE  LET r == Head(s.rest)
             all == (s.buffer \o SoaOf(s, r)) \o Body(s, r, SynthIp)
         IN /\ Len(all) <= BufferMax
            /\ \A t : RecordRead(t, s) /\ t.buffer = all => RoundRoom(t, n + 1)
<1> DEFINE r == Head(s.rest)
           all == (s.buffer \o SoaOf(s, r)) \o Body(s, r, SynthIp)
           l == Len(s.buffer)
           a == Len(SoaOf(s, r))
           b == Len(Body(s, r, SynthIp))
           k == Len(SynthIp)
<1>1. /\ Len(all) = l + a + b /\ l \in Nat /\ a \in 0..1 /\ b \in Nat /\ k \in Nat
      /\ s.rrnum # 0 => a = 0
      /\ r.type = "SOA" => b = 0
      /\ ZoneNs(r) => b <= 1
      /\ ~ (s.in_ns /\ ~ s.nses) => b <= 2
      /\ b <= 2 + 2 * k
  <2>1. IsSeq(s.buffer)
    BY DEF StateOK
  <2> QED BY <2>1, LineLen
<1>2. /\ n \in Nat /\ a = 0 /\ s.rrnum \in Nat
      /\ l <= 2 * n + (IF s.in_ns THEN 0 ELSE 2 * k)
  BY <1>1 DEF RoundRoom, StateOK
<1>3. 2 * Round + 2 * k <= BufferMax
  BY DEF Roomy
<1> HIDE DEF all, a, b, k, l
<1>4. Len(all) <= 2 * (n + 1) + 2 * k
  <2>1. CASE s.in_ns
    BY <1>1, <1>2, <2>1
  <2>2. CASE ~ s.in_ns
    BY <1>1, <1>2, <2>2
  <2> QED BY <2>1, <2>2
<1>5. 2 * (n + 1) <= 2 * Round
  BY <1>2
<1>6. Len(all) <= BufferMax
  BY <1>1, <1>2, <1>3, <1>4, <1>5
<1>7. ASSUME NEW t, RecordRead(t, s), t.buffer = all PROVE RoundRoom(t, n + 1)
  <2>1. /\ t.rrnum = s.rrnum + 1 /\ t.in_ns = (s.in_ns /\ (r.type = "SOA" \/ ZoneNs(r)))
    BY <1>7 DEF RecordRead
  <2> HIDE DEF r
  <2>2. ASSUME t.in_ns PROVE Len(all) <= 2 * (n + 1)
    <3>1. s.in_ns /\ (r.type = "SOA" \/ ZoneNs(r))
      BY <2>1, <2>2, Zenon
    <3>2. b <= 1
      BY <1>1, <3>1 DEF r
    <3> QED BY <1>1, <1>2, <3>1, <3>2
  <2> DEFINE m == n + 1
  <2>3. m \in Nat /\ m <= Round /\ t.rrnum # 0
    BY <1>2, <2>1
  <2> HIDE DEF m
  <2>4. Len(t.buffer) <= 2 * m + (IF t.in_ns THEN 0 ELSE 2 * k)
    <3>1. CASE t.in_ns
      <4>1. Len(all) <= 2 * m
        BY <2>2, <3>1 DEF m
      <4> QED BY <1>7, <2>3, <3>1, <4>1
    <3>2. CASE ~ t.in_ns
      <4>1. Len(all) <= 2 * m + 2 * k
        BY <1>4 DEF m
      <4> QED BY <1>7, <3>2, <4>1
    <3> QED BY <3>1, <3>2
  <2>5. RoundRoom(t, m)
    BY <2>3, <2>4 DEF RoundRoom, k
  <2> QED BY <2>5 DEF m
<1> QED BY <1>6, <1>7 DEF all

-----------------------------------------------------------------------------
(***************************************************************************)
(* Each child and its client: what has arrived and what is in the buffer   *)
(* are the records of the lines that were read.                            *)
(***************************************************************************)
Early == {"query", "forward", "open", "begin", "soa", "next", "first"}
Beginning == {"begin", "soa", "next", "first"}
Sending == {"spit", "round", "last"}

Begun(k, file) ==
  /\ Reads(k.file, k.file.buffer, file)
  /\ k.at = "begin" => BeginRoom(k.file, k.read)
  /\ k.at # "begin" => k.read = 0
Sent(k, got, file) ==
  /\ IsSeq(got) /\ got \o k.file.buffer # << >>
  /\ Reads(k.file, got \o k.file.buffer, file)
  /\ k.soa = <<(got \o k.file.buffer)[1]>>
  /\ k.at = "spit" => k.read = 0
  /\ k.at = "round" => RoundRoom(k.file, k.read)
  /\ k.at = "last" => k.file.ended /\ k.file.buffer = << >>
Whole(got, file) ==
  /\ \E in_ns, nses \in BOOLEAN : Shape(got, in_ns, nses)
  /\ Range(got) = Served(file, SynthIp)

FineAt(k, m, file) ==
  /\ k.proc = "none" => k = NoChild
  /\ k.proc = "live" =>
       /\ k.at \in Early => m.got = << >>
       /\ k.at \in {"query", "open"} => k.read = 0
       /\ k.at \in Beginning => Begun(k, file)
       /\ k.at \in Sending /\ m.at = "accepted" => Sent(k, m.got, file)
  /\ m.ended = "whole" => m.at \notin {"queued", "accepted"} /\ Whole(m.got, file)

\* The connection of c has been accepted, and nothing is forked for it yet.
Taken(c) == main \in {"wait", "fork"} /\ connection = c

SendOK ==
  /\ disk \in Files
  /\ \A c \in Conn : FineAt(child[c], client[c], disk)
  /\ \A c \in Conn : client[c].at = "queued" \/ Taken(c) => client[c].got = << >>

LEMMA Given ==
  ASSUME Sound, SendOK
  PROVE  /\ FileOK(disk) /\ SoaAtTop(disk) /\ IsSeq(SynthIp) /\ BufferMax >= 1
         /\ Roomy /\ BufferMax \in Nat /\ FirstRead \in Nat \ {0} /\ Round \in Nat \ {0}
<1>1. disk \in Files
  BY DEF SendOK
<1>2. /\ IsSeq(disk) /\ Comment \notin Range(disk)
      /\ \A i \in DOMAIN disk : DOMAIN disk[i] = DOMAIN Bad
  BY <1>1, ZoneServerAssumption DEF ZoneServerAssumption, IsSeq
<1>3. DOMAIN disk = 1..Len(disk)
  BY <1>2, SeqRange DEF IsSeq
<1>4. FileOK(disk)
  BY <1>2, <1>3 DEF FileOK
<1>5. BufferMax \in Nat /\ IsSeq(SynthIp) /\ FirstRead \in Nat \ {0} /\ Round \in Nat \ {0}
  BY ZoneFileAssumption, ZoneServerAssumption
     DEF ZoneFileAssumption, ZoneServerAssumption, IsSeq
<1>6. BufferMax >= 1
  BY <1>5 DEF Sound, Roomy
<1> QED BY <1>1, <1>4, <1>5, <1>6 DEF Sound

\* A step of one child, of its client, or of both.
LEMMA FineStep ==
  ASSUME IInv, SendOK, NEW c \in Conn, NEW k, NEW m,
         child' = [child EXCEPT ![c] = k] \/ (UNCHANGED child /\ k = child[c]),
         client' = [client EXCEPT ![c] = m] \/ (UNCHANGED client /\ m = client[c]),
         UNCHANGED <<main, connection, disk>>,
         child[c].proc = "live" \/ m.got = client[c].got,
         m.at = "queued" => client[c].at = "queued",
         FineAt(k, m, disk)
  PROVE  SendOK'
<1>1. \A d \in Conn : child'[d] = IF d = c THEN k ELSE child[d]
  BY DEF IInv, ChildOK
<1>2. \A d \in Conn : client'[d] = IF d = c THEN m ELSE client[d]
  BY DEF IInv, ClientOK
<1>3. disk' = disk /\ \A d : Taken(d)' <=> Taken(d)
  BY DEF Taken
<1>4. ASSUME NEW d \in Conn PROVE FineAt(child'[d], client'[d], disk')
  BY <1>1, <1>2, <1>3 DEF SendOK
<1>5. ASSUME NEW d \in Conn, client'[d].at = "queued" \/ Taken(d)'
      PROVE  client'[d].got = << >>
  <2>1. client[d].at = "queued" \/ Taken(d)
    BY <1>2, <1>3, <1>5
  <2>2. child[d].proc = "none" /\ client[d].got = << >>
    BY <2>1 DEF IInv, ConnectionOK, Taken, SendOK
  <2> QED BY <1>2, <2>2
<1> QED BY <1>3, <1>4, <1>5 DEF SendOK

LEMMA FineOf ==
  ASSUME IInv, SendOK, NEW c \in Conn
  PROVE  /\ FineAt(child[c], client[c], disk)
         /\ DOMAIN child[c] = ChildFields /\ DOMAIN client[c] = ClientFields
<1>1. child[c] = [f \in ChildFields |-> child[c][f]]
      /\ client[c] = [f \in ClientFields |-> client[c][f]]
  BY DEF IInv, ChildOK, ClientOK, HasFields
<1>2. DOMAIN [f \in ChildFields |-> child[c][f]] = ChildFields
      /\ DOMAIN [f \in ClientFields |-> client[c][f]] = ClientFields
  OBVIOUS
<1>3. DOMAIN child[c] = ChildFields /\ DOMAIN client[c] = ClientFields
  BY <1>1, <1>2, Zenon
<1> QED BY <1>3 DEF SendOK

Zombie == [NoChild EXCEPT !.proc = "zombie"]

LEMMA ZombieFine ==
  ASSUME NEW m, NEW file, m.ended = "whole" => m.at \notin {"queued", "accepted"} /\ Whole(m.got, file)
  PROVE  FineAt(Zombie, m, file) /\ FineAt(NoChild, m, file)
<1>1. Zombie.proc = "zombie" /\ NoChild.proc = "none"
  BY DEF Zombie, NoChild
<1> HIDE DEF Zombie
<1> QED BY <1>1 DEF FineAt

LEMMA EndsFine ==
  ASSUME IInv, SendOK, NEW c \in Conn, Ends(c), UNCHANGED <<main, connection, disk>>,
         NEW m, client' = [client EXCEPT ![c] = m] \/ (UNCHANGED client /\ m = client[c]),
         child[c].proc = "live" \/ m.got = client[c].got,
         m.at = "queued" => client[c].at = "queued",
         m.ended = "whole" => m.at \notin {"queued", "accepted"} /\ Whole(m.got, disk)
  PROVE  SendOK'
<1>1. child' = [child EXCEPT ![c] = Zombie]
  BY DEF Ends, Zombie
<1> QED BY <1>1, ZombieFine, FineStep

LEMMA EndsOnly ==
  ASSUME IInv, SendOK, NEW c \in Conn, Ends(c), UNCHANGED <<main, connection, disk, client>>
  PROVE  SendOK'
<1>1. FineAt(child[c], client[c], disk)
  BY FineOf
<1> QED BY <1>1, EndsFine DEF FineAt

\* The child goes on, the client is as it was.
LEMMA ChildFine ==
  ASSUME IInv, SendOK, NEW c \in Conn, NEW k, child' = [child EXCEPT ![c] = k],
         UNCHANGED <<main, connection, disk, client>>, FineAt(k, client[c], disk)
  PROVE  SendOK'
BY FineStep

\* It goes to another stage.
LEMMA Staged ==
  ASSUME IInv, SendOK, NEW c \in Conn, NEW stage
  PROVE  LET k == [child[c] EXCEPT !.at = stage] IN
         /\ k.proc = child[c].proc /\ k.at = stage /\ k.file = child[c].file
         /\ k.read = child[c].read /\ k.soa = child[c].soa
BY FineOf DEF ChildFields

LEMMA ReadQueryFine == ASSUME IInv, SendOK, NEW c \in Conn, ReadQuery(c) PROVE SendOK'
<1>1. /\ child[c].proc = "live" /\ child[c].at = "query"
      /\ UNCHANGED <<main, connection, disk, client>>
      /\ Goes(c, "open") \/ Goes(c, "forward") \/ Ends(c)
  BY DEF ReadQuery, At, Own, given
<1>2. ASSUME NEW stage \in {"open", "forward"}, Goes(c, stage) PROVE SendOK'
  <2> DEFINE k == [child[c] EXCEPT !.at = stage]
  <2>1. /\ k.proc = "live" /\ k.at = stage /\ k.read = child[c].read
    BY <1>1, Staged
  <2>2. child' = [child EXCEPT ![c] = k]
    BY <1>2 DEF Goes
  <2>3. FineAt(child[c], client[c], disk)
    BY FineOf
  <2> HIDE DEF k
  <2>4. FineAt(k, client[c], disk)
    BY <1>1, <2>1, <2>3 DEF FineAt, Early, Beginning, Sending
  <2> QED BY <1>1, <2>2, <2>4, ChildFine
<1> QED BY <1>1, <1>2, EndsOnly

LEMMA QueryFailsFine == ASSUME IInv, SendOK, NEW c \in Conn, QueryFails(c) PROVE SendOK'
BY EndsOnly DEF QueryFails, Own, given

LEMMA ForwardFine == ASSUME IInv, SendOK, NEW c \in Conn, Forward(c) PROVE SendOK'
<1>1. /\ Ends(c) /\ UNCHANGED <<main, connection, disk>>
      /\ \E how : UNCHANGED client \/ client' = [client EXCEPT ![c].forwarded = how]
  BY DEF Forward, Own, given
<1>2. PICK how : UNCHANGED client \/ client' = [client EXCEPT ![c].forwarded = how]
  BY <1>1
<1> DEFINE m == [client[c] EXCEPT !.forwarded = how]
<1>3. m.got = client[c].got /\ m.at = client[c].at /\ m.ended = client[c].ended
  BY FineOf DEF ClientFields
<1>4. FineAt(child[c], client[c], disk)
  BY FineOf
<1>5. UNCHANGED client \/ client' = [client EXCEPT ![c] = m]
  BY <1>2
<1> HIDE DEF m
<1>6. m.ended = "whole" => m.at \notin {"queued", "accepted"} /\ Whole(m.got, disk)
  BY <1>3, <1>4 DEF FineAt
<1> QED BY <1>1, <1>3, <1>5, <1>6, EndsFine, EndsOnly

\* Nothing of the file has been read.
LEMMA OpenedReads ==
  ASSUME NEW file, FileOK(file), IsSeq(SynthIp), BufferMax >= 1
  PROVE  Reads(Opened(file), Opened(file).buffer, file) /\ Opened(file).buffer = << >>
         /\ BeginRoom(Opened(file), 0) <=> 0 <= FirstRead
<1> DEFINE o == Opened(file)
           N == Len(file)
<1>1. /\ DOMAIN o = FileFields /\ o.rest = file /\ o.rrnum = 0 /\ o.in_ns = TRUE
      /\ o.nses = FALSE /\ o.buffer = << >> /\ o.ended = FALSE /\ o.hash = {}
  BY DEF Opened, FileFields
<1>2. N \in Nat /\ IsSeq(file)
  BY SeqRange DEF FileOK, IsSeq
<1>3. Reading(file, SynthIp)[0] = o
  BY <1>2, ReadingIs
<1>4. UpToLine(o, file, 0)
  <2>1. 0 \in 0..N
    BY <1>2
  <2>2. UpToLine(Reading(file, SynthIp)[0], file, 0)
    BY <1>2, <2>1, ReadingOK
  <2> QED BY <1>3, <2>2
<1>5. StateOK(o) /\ o.ended \in BOOLEAN
  BY <1>4 DEF UpToLine
<1> HIDE DEF o
<1>6. Range(o.buffer) = Had(o) /\ Len(o.buffer) = 0
  BY <1>1, EmptyIs DEF Had
<1>7. Shaped(o.buffer, o)
  BY <1>1 DEF Shaped
<1>8. ~ o.ended /\ 0 <= N
  BY <1>1, <1>2
<1>9. Reads(o, o.buffer, file)
  BY <1>1, <1>3, <1>5, <1>6, <1>7, <1>8 DEF Reads
<1>10. BeginRoom(o, 0) <=> 0 <= FirstRead
  BY <1>1, <1>6 DEF BeginRoom
<1> QED BY <1>1, <1>9, <1>10 DEF o

LEMMA OpenFine == ASSUME Sound, IInv, SendOK, NEW c \in Conn, Open(c) PROVE SendOK'
<1>1. /\ child[c].proc = "live" /\ child[c].at = "open"
      /\ UNCHANGED <<main, connection, disk, client>>
      /\ Ends(c) \/ child' = [child EXCEPT ![c].file = Opened(disk), ![c].at = "begin"]
  BY DEF Open, At, Own, given
<1>2. CASE child' = [child EXCEPT ![c].file = Opened(disk), ![c].at = "begin"]
  <2> DEFINE o == Opened(disk)
             k == [child[c] EXCEPT !.file = o, !.at = "begin"]
  <2>1. child' = [child EXCEPT ![c] = k]
    BY <1>2, FineOf DEF IInv, ChildOK, ChildFields
  <2>2. Reads(o, o.buffer, disk) /\ BeginRoom(o, 0)
    <3>1. FileOK(disk) /\ IsSeq(SynthIp) /\ BufferMax >= 1 /\ 0 <= FirstRead
      BY Given
    <3> QED BY <3>1, OpenedReads
  <2> HIDE DEF o
  <2>3. k.proc = "live" /\ k.at = "begin" /\ k.file = o /\ k.read = child[c].read
    BY <1>1, FineOf DEF ChildFields
  <2>4. FineAt(child[c], client[c], disk)
    BY FineOf
  <2> HIDE DEF k
  <2>5. Begun(k, disk)
    <3>1. k.read = 0
      BY <1>1, <2>3, <2>4 DEF FineAt
    <3> QED BY <2>2, <2>3, <3>1 DEF Begun
  <2>6. FineAt(k, client[c], disk)
    BY <1>1, <2>3, <2>4, <2>5 DEF FineAt, Early, Beginning, Sending
  <2> QED BY <1>1, <2>1, <2>6, ChildFine
<1> QED BY <1>1, <1>2, EndsOnly

\* A line is read.
LEMMA ReadLineIs ==
  ASSUME IInv, SendOK, NEW c \in Conn, ReadLine(c)
  PROVE  LET f == ReadRr(child[c].file, SynthIp, 2)
             k == [child[c] EXCEPT !.file = f, !.read = child[c].read + 1]
         IN /\ child' = [child EXCEPT ![c] = k]
            /\ k.proc = child[c].proc /\ k.at = child[c].at /\ k.file = f
            /\ k.read = child[c].read + 1 /\ k.soa = child[c].soa
<1> DEFINE f == ReadRr(child[c].file, SynthIp, 2)
           n == child[c].read + 1
           k == [child[c] EXCEPT !.file = f, !.read = n]
<1>1. child' = [child EXCEPT ![c] = k]
  BY FineOf DEF ReadLine, IInv, ChildOK, ChildFields
<1> HIDE DEF f, n
<1>2. k.proc = child[c].proc /\ k.at = child[c].at /\ k.file = f /\ k.read = n
      /\ k.soa = child[c].soa
  BY FineOf DEF ChildFields
<1> QED BY <1>1, <1>2 DEF f, n

LEMMA ReadBeginningFine ==
  ASSUME Sound, IInv, SendOK, NEW c \in Conn, ReadBeginning(c) PROVE SendOK'
<1> DEFINE s == child[c].file
           n == child[c].read
<1>1. /\ child[c].proc = "live" /\ child[c].at = "begin"
      /\ UNCHANGED <<main, connection, disk, client>>
      /\ \/ s.in_ns /\ ~ s.ended /\ n < FirstRead /\ ReadLine(c)
         \/ \E stage \in {"first", "soa"} :
              child' = [child EXCEPT ![c].at = stage, ![c].read = 0]
  BY DEF ReadBeginning, At, Own, given
<1>2. FineAt(child[c], client[c], disk)
  BY FineOf
<1>3. Reads(s, s.buffer, disk) /\ BeginRoom(s, n) /\ client[c].got = << >>
  BY <1>1, <1>2 DEF FineAt, Begun, Early, Beginning
<1>4. CASE s.in_ns /\ ~ s.ended /\ n < FirstRead /\ ReadLine(c)
  <2> DEFINE t == ReadRr(s, SynthIp, 2)
             k == [child[c] EXCEPT !.file = t, !.read = n + 1]
             r == Head(s.rest)
             all == (s.buffer \o SoaOf(s, r)) \o Body(s, r, SynthIp)
  <2>1. child' = [child EXCEPT ![c] = k] /\ k.proc = "live" /\ k.at = "begin"
        /\ k.file = t /\ k.read = n + 1
    BY <1>1, <1>4, ReadLineIs
  <2> HIDE DEF k
  <2>2. FileOK(disk) /\ SoaAtTop(disk) /\ IsSeq(SynthIp) /\ BufferMax >= 1
        /\ Roomy /\ BufferMax \in Nat /\ FirstRead \in Nat
    BY Given
  <2>3. StateOK(s) /\ (s.rrnum = 0 => s.buffer = << >>) /\ IsSeq(s.buffer)
    BY <1>3 DEF Reads, Shaped, StateOK
  <2> HIDE DEF s, n
  <2>4. /\ Len(all) <= BufferMax
        /\ \A u : RecordRead(u, s) /\ u.buffer = all => BeginRoom(u, n + 1)
    BY <1>3, <1>4, <2>2, <2>3, BeginLine
  <2> HIDE DEF all, r
  <2>5. /\ Reads(t, << >> \o t.buffer, disk)
        /\ Stops(s) => SameSoFar(t, s) /\ t.ended = TRUE
        /\ ~ Stops(s) => RecordRead(t, s) /\ StateOK(t) /\ t.buffer = all
    <3> DEFINE g == << >>
    <3>1. IsSeq(g) /\ g \o s.buffer = s.buffer
      BY <2>3, EmptyIs, EmptyJoined
    <3> HIDE DEF g
    <3>2. Reads(s, g \o s.buffer, disk)
      BY <1>3, <3>1
    <3> HIDE DEF t
    <3>3. LET T == ReadRr(s, SynthIp, 2) IN
         /\ Reads(T, g \o T.buffer, disk)
         /\ Stops(s) => SameSoFar(T, s) /\ T.ended = TRUE
         /\ ~ Stops(s) =>
              /\ RecordRead(T, s) /\ StateOK(T)
              /\ T.buffer = (s.buffer \o SoaOf(s, Head(s.rest)))
                              \o Body(s, Head(s.rest), SynthIp)
      BY <1>4, <2>2, <2>4, <3>1, <3>2, ServerLine DEF all, r
    <3> QED BY <3>3 DEF g, t, all, r
  <2> HIDE DEF t
  <2>6. Reads(t, t.buffer, disk)
    <3>1. IsSeq(t.buffer)
      BY <2>5 DEF Reads, StateOK
    <3>2. << >> \o t.buffer = t.buffer
      <4> DEFINE b == t.buffer
      <4>1. IsSeq(b)
        BY <3>1
      <4> HIDE DEF b
      <4>2. << >> \o b = b
        BY <4>1, EmptyJoined
      <4> QED BY <4>2 DEF b
    <3> QED BY <2>5, <3>2
  <2>7. BeginRoom(t, n + 1)
    <3>1. CASE Stops(s)
      <4> DEFINE m == n + 1
      <4>1. m \in Nat /\ m <= FirstRead
        BY <1>3, <1>4, <2>2 DEF BeginRoom
      <4> HIDE DEF m
      <4>2. t.ended
        BY <2>5, <3>1, Zenon
      <4>3. BeginRoom(t, m)
        BY <4>1, <4>2 DEF BeginRoom
      <4> QED BY <4>3 DEF m
    <3>2. CASE ~ Stops(s)
      BY <2>4, <2>5, <3>2
    <3> QED BY <3>1, <3>2
  <2>8. Begun(k, disk)
    BY <2>1, <2>6, <2>7 DEF Begun
  <2>9. FineAt(k, client[c], disk)
    BY <1>2, <1>3, <2>1, <2>8 DEF FineAt, Early, Beginning, Sending
  <2> QED BY <1>1, <2>1, <2>9, ChildFine
<1>5. ASSUME NEW stage \in {"first", "soa"},
             child' = [child EXCEPT ![c].at = stage, ![c].read = 0]
      PROVE  SendOK'
  <2> DEFINE k == [child[c] EXCEPT !.at = stage, !.read = 0]
  <2>1. child' = [child EXCEPT ![c] = k]
    BY <1>5, FineOf DEF IInv, ChildOK, ChildFields
  <2>2. k.proc = "live" /\ k.at = stage /\ k.file = s /\ k.read = 0
    BY <1>1, FineOf DEF ChildFields
  <2> HIDE DEF k, s, n
  <2>3. Begun(k, disk)
    BY <1>3, <2>2 DEF Begun
  <2>4. FineAt(k, client[c], disk)
    BY <1>2, <1>3, <2>2, <2>3 DEF FineAt, Early, Beginning, Sending
  <2> QED BY <1>1, <2>1, <2>4, ChildFine
<1> QED BY <1>1, <1>4, <1>5

LEMMA SpitSoaFine == ASSUME IInv, SendOK, NEW c \in Conn, SpitSoa(c) PROVE SendOK'
<1>1. /\ child[c].proc = "live" /\ child[c].at = "soa"
      /\ UNCHANGED <<main, connection, disk>>
      /\ \/ Ends(c) /\ UNCHANGED client
         \/ /\ Goes(c, "next")
            /\ \E x : client' = [client EXCEPT ![c].reply = x]
  BY DEF SpitSoa, At, Own, given
<1>2. ASSUME NEW x, Goes(c, "next"), client' = [client EXCEPT ![c].reply = x]
      PROVE  SendOK'
  <2> DEFINE k == [child[c] EXCEPT !.at = "next"]
             m == [client[c] EXCEPT !.reply = x]
  <2>1. /\ k.proc = "live" /\ k.at = "next" /\ k.read = child[c].read
        /\ k.file = child[c].file
    BY <1>1, Staged
  <2>2. m.got = client[c].got /\ m.at = client[c].at /\ m.ended = client[c].ended
    BY FineOf DEF ClientFields
  <2>3. child' = [child EXCEPT ![c] = k] /\ client' = [client EXCEPT ![c] = m]
    BY <1>2 DEF Goes
  <2>4. FineAt(child[c], client[c], disk)
    BY FineOf
  <2> HIDE DEF k, m
  <2>5. Begun(k, disk)
    BY <1>1, <2>1, <2>4 DEF FineAt, Begun, Beginning
  <2>6. FineAt(k, m, disk)
    BY <1>1, <2>1, <2>2, <2>4, <2>5 DEF FineAt, Early, Beginning, Sending
  <2> QED BY <1>1, <2>2, <2>3, <2>6, FineStep
<1> QED BY <1>1, <1>2, EndsOnly

LEMMA ReadNextFine == ASSUME IInv, SendOK, NEW c \in Conn, ReadNext(c) PROVE SendOK'
<1>1. /\ child[c].proc = "live" /\ child[c].at = "next"
      /\ UNCHANGED <<main, connection, disk, client>>
      /\ Ends(c) \/ Goes(c, "first")
  BY DEF ReadNext, At, Own, given
<1>2. CASE Goes(c, "first")
  <2> DEFINE k == [child[c] EXCEPT !.at = "first"]
  <2>1. /\ k.proc = "live" /\ k.at = "first" /\ k.read = child[c].read
        /\ k.file = child[c].file
    BY <1>1, Staged
  <2>2. child' = [child EXCEPT ![c] = k]
    BY <1>2 DEF Goes
  <2>3. FineAt(child[c], client[c], disk)
    BY FineOf
  <2> HIDE DEF k
  <2>4. Begun(k, disk)
    BY <1>1, <2>1, <2>3 DEF FineAt, Begun, Beginning
  <2>5. FineAt(k, client[c], disk)
    BY <1>1, <2>1, <2>3, <2>4 DEF FineAt, Early, Beginning, Sending
  <2> QED BY <1>1, <2>2, <2>5, ChildFine
<1> QED BY <1>1, <1>2, EndsOnly

LEMMA FirstFine == ASSUME IInv, SendOK, NEW c \in Conn, First(c) PROVE SendOK'
<1> DEFINE b == child[c].file.buffer
<1>1. /\ child[c].proc = "live" /\ child[c].at = "first"
      /\ UNCHANGED <<main, connection, disk, client>>
      /\ \/ Ends(c)
         \/ /\ b # << >>
            /\ child' = [child EXCEPT ![c].soa = <<Head(b)>>, ![c].at = "spit"]
  BY DEF First, At, Own, given
<1>2. ASSUME b # << >>, child' = [child EXCEPT ![c].soa = <<Head(b)>>, ![c].at = "spit"]
      PROVE  SendOK'
  <2> DEFINE soa == <<Head(b)>>
             k == [child[c] EXCEPT !.soa = soa, !.at = "spit"]
  <2>1. child' = [child EXCEPT ![c] = k]
    BY <1>2, FineOf DEF IInv, ChildOK, ChildFields
  <2> HIDE DEF soa
  <2>2. k.proc = "live" /\ k.at = "spit" /\ k.file = child[c].file
        /\ k.read = child[c].read /\ k.soa = soa
    BY <1>1, FineOf DEF ChildFields
  <2>3. FineAt(child[c], client[c], disk)
    BY FineOf
  <2> HIDE DEF k
  <2>4. /\ Reads(child[c].file, b, disk) /\ child[c].read = 0 /\ client[c].got = << >>
    BY <1>1, <2>3 DEF FineAt, Begun, Early, Beginning
  <2>5. IsSeq(b)
    BY <2>4 DEF Reads, StateOK
  <2>6. << >> \o b = b /\ Head(b) = b[1] /\ IsSeq(<< >>)
    <3> HIDE DEF b
    <3> QED BY <1>2, <2>5, EmptyIs, EmptyJoined, TailIs
  <2>7. Sent(k, << >>, disk)
    <3> DEFINE P == << >> \o b
    <3>1. P = b /\ << >> \o k.file.buffer = P /\ P # << >>
      BY <1>2, <2>2, <2>6
    <3>2. soa = <<P[1]>>
      BY <2>6, <3>1 DEF soa
    <3> HIDE DEF P, b
    <3> QED BY <2>2, <2>4, <2>6, <3>1, <3>2 DEF Sent
  <2>8. FineAt(k, client[c], disk)
    BY <1>1, <2>2, <2>3, <2>4, <2>7 DEF FineAt, Early, Beginning, Sending
  <2> QED BY <1>1, <2>1, <2>8, ChildFine
<1> QED BY <1>1, <1>2, EndsOnly

\* Of the SOA there is one, the first record.
LEMMA FetchedIs ==
  ASSUME NEW m, DOMAIN m = ClientFields, IsSeq(m.got), NEW b, IsSeq(b), b # << >>,
         NEW s, Shaped(m.got \o b, s), StateOK(s)
  PROVE  LET r == Fetched(m, Head(b)) IN
         /\ r.got = Append(m.got, Head(b)) /\ r.at = m.at /\ r.ended = m.ended
<1> DEFINE x == Head(b)
           P == m.got \o b
           g == Append(m.got, x)
<1>1. ~ (x.type = "SOA" /\ \E i \in DOMAIN m.got : m.got[i].type = "SOA")
  <2> SUFFICES ASSUME x.type = "SOA", NEW i \in DOMAIN m.got PROVE FALSE
    OBVIOUS
  <2> DEFINE l == Len(m.got)
  <2>1. l \in Nat /\ DOMAIN m.got = 1..l /\ l >= 1
    <3>1. l \in Nat /\ DOMAIN m.got = 1..l
      BY SeqRange DEF IsSeq
    <3> HIDE DEF l
    <3> QED BY <3>1
  <2>2. P # << >>
    <3>1. m.got # << >>
      BY <2>1, SomeLeft
    <3> QED BY <3>1, FirstOf
  <2>3. s.in_ns \in BOOLEAN /\ Shape(P, s.in_ns, s.nses)
    BY <2>2 DEF Shaped, StateOK
  <2>4. Ordered(P)
    <3> HIDE DEF P
    <3> QED BY <2>3, ShapeOrdered
  <2>5. P[l + 1] = x
    BY MovedOver
  <2>6. l + 1 \in 2..Len(P)
    <3>1. Len(P) = l + Len(b) /\ Len(b) \in Nat /\ Len(b) >= 1
      BY ConcatIs, SomeLeft, SeqRange DEF Joined, IsSeq
    <3> HIDE DEF P, l
    <3> QED BY <2>1, <3>1
  <2>7. Plain(x)
    <3> HIDE DEF P, x, l
    <3> QED BY <2>4, <2>5, <2>6 DEF Ordered
  <2> QED BY <2>7 DEF Plain
<1>2. Fetched(m, x) = [m EXCEPT !.got = g]
  BY <1>1 DEF Fetched
<1> HIDE DEF g, P, x
<1>3. Fetched(m, x).got = g /\ Fetched(m, x).at = m.at /\ Fetched(m, x).ended = m.ended
  BY <1>2 DEF ClientFields
<1> QED BY <1>3 DEF g, x

\* One record less in the buffer.
LEMMA LessBuffer ==
  ASSUME NEW s, StateOK(s), IsSeq(Tail(s.buffer)), NEW P, NEW file, Reads(s, P, file)
  PROVE  LET t == [s EXCEPT !.buffer = Tail(@)] IN
         Reads(t, P, file) /\ t.buffer = Tail(s.buffer)
<1> DEFINE b == Tail(s.buffer)
           t == [s EXCEPT !.buffer = b]
<1> HIDE DEF b
<1>1. /\ DOMAIN t = FileFields /\ t.rest = s.rest /\ t.ended = s.ended
      /\ t.rrnum = s.rrnum /\ t.in_ns = s.in_ns /\ t.nses = s.nses /\ t.buffer = b
  BY DEF StateOK, FileFields
<1> HIDE DEF t
<1>2. StateOK(t)
  BY <1>1 DEF StateOK, b
<1>3. Shaped(P, t)
  BY <1>1 DEF Reads, Shaped
<1>4. Reads(t, P, file)
  BY <1>1, <1>2, <1>3 DEF Reads
<1> QED BY <1>1, <1>4 DEF t, b

LEMMA SpitBufferFine == ASSUME IInv, SendOK, NEW c \in Conn, SpitBuffer(c) PROVE SendOK'
<1> DEFINE s == child[c].file
           b == s.buffer
           got == client[c].got
<1>1. /\ child[c].proc = "live" /\ child[c].at = "spit"
      /\ UNCHANGED <<main, connection, disk>>
      /\ \/ b = << >> /\ Goes(c, "round") /\ UNCHANGED client
         \/ Ends(c) /\ UNCHANGED client
         \/ /\ b # << >> /\ Written(c, Head(b))
            /\ child' = [child EXCEPT ![c].file.buffer = Tail(@)]
  BY DEF SpitBuffer, At, Own, given
<1>2. FineAt(child[c], client[c], disk) /\ DOMAIN client[c] = ClientFields
  BY FineOf
<1>3. client[c].at = "accepted" => Sent(child[c], got, disk) /\ child[c].read = 0
  BY <1>1, <1>2 DEF FineAt, Sent, Sending
<1>4. CASE b = << >> /\ Goes(c, "round") /\ UNCHANGED client
  <2> DEFINE k == [child[c] EXCEPT !.at = "round"]
  <2>1. /\ k.proc = "live" /\ k.at = "round" /\ k.read = child[c].read
        /\ k.file = s /\ k.soa = child[c].soa
    BY <1>1, Staged
  <2>2. child' = [child EXCEPT ![c] = k]
    BY <1>4 DEF Goes
  <2> HIDE DEF k
  <2>3. ASSUME client[c].at = "accepted" PROVE Sent(k, got, disk)
    <3>1. Sent(child[c], got, disk) /\ child[c].read = 0
      BY <1>3, <2>3
    <3>2. /\ IsSeq(got) /\ got \o b # << >> /\ Reads(s, got \o b, disk)
          /\ child[c].soa = <<(got \o b)[1]>>
      BY <3>1 DEF Sent
    <3>3. RoundRoom(s, 0)
      <4>1. s.rrnum # 0
        BY <3>2 DEF Reads, Shaped
      <4>2. Len(b) = 0 /\ Len(SynthIp) \in Nat /\ Round \in Nat
        BY <1>4, EmptyIs, SeqRange, ZoneFileAssumption, ZoneServerAssumption
           DEF ZoneFileAssumption, ZoneServerAssumption
      <4> QED BY <4>1, <4>2 DEF RoundRoom
    <3> HIDE DEF s, got
    <3>4. RoundRoom(k.file, k.read)
      BY <2>1, <3>1, <3>3
    <3> QED BY <2>1, <3>2, <3>4 DEF Sent, b, s
  <2>4. FineAt(k, client[c], disk)
    BY <1>1, <1>2, <2>1, <2>3 DEF FineAt, Early, Beginning, Sending
  <2> QED BY <1>1, <1>4, <2>2, <2>4, ChildFine
<1>5. CASE b # << >> /\ Written(c, Head(b))
           /\ child' = [child EXCEPT ![c].file.buffer = Tail(@)]
  <2> DEFINE t == [s EXCEPT !.buffer = Tail(@)]
             k == [child[c] EXCEPT !.file = t]
  <2>1. child' = [child EXCEPT ![c] = k]
    BY <1>5
  <2> HIDE DEF t
  <2>2. /\ k.proc = "live" /\ k.at = "spit" /\ k.read = child[c].read
        /\ k.file = t /\ k.soa = child[c].soa
    BY <1>1, FineOf DEF ChildFields
  <2> HIDE DEF k
  <2>3. CASE client[c].at # "accepted"
    <3>1. UNCHANGED client
      BY <1>5, <2>3 DEF Written
    <3>2. FineAt(k, client[c], disk)
      BY <1>1, <1>2, <2>2, <2>3 DEF FineAt, Early, Beginning, Sending
    <3> QED BY <1>1, <2>1, <3>1, <3>2, ChildFine
  <2>4. CASE client[c].at = "accepted"
    <3> DEFINE m == Fetched(client[c], Head(b))
    <3>1. client' = [client EXCEPT ![c] = m]
      BY <1>5, <2>4 DEF Written
    <3>2. /\ IsSeq(got) /\ got \o b # << >> /\ Reads(s, got \o b, disk)
          /\ child[c].soa = <<(got \o b)[1]>> /\ child[c].read = 0
      BY <1>3, <2>4 DEF Sent
    <3>3. StateOK(s) /\ Shaped(got \o b, s) /\ IsSeq(b)
      BY <3>2 DEF Reads, StateOK
    <3>4. m.got = Append(got, Head(b)) /\ m.at = "accepted" /\ m.ended = client[c].ended
      BY <1>2, <1>5, <2>4, <3>2, <3>3, FetchedIs
    <3> HIDE DEF m
    <3>5. IsSeq(Tail(b)) /\ Append(got, Head(b)) \o Tail(b) = got \o b
          /\ IsSeq(Append(got, Head(b)))
      <4> HIDE DEF b, got
      <4> QED BY <1>5, <3>2, <3>3, MovedOver, AppendIs
    <3>6. Reads(t, got \o b, disk) /\ t.buffer = Tail(b)
      <4> DEFINE P == got \o b
      <4>1. Reads(s, P, disk) /\ IsSeq(Tail(s.buffer))
        BY <3>2, <3>5
      <4> HIDE DEF P, s
      <4>2. Reads(t, P, disk) /\ t.buffer = Tail(s.buffer)
        BY <3>3, <4>1, LessBuffer DEF t
      <4> QED BY <4>2 DEF P
    <3>7. Sent(k, m.got, disk)
      <4> DEFINE P == got \o b
      <4>1. m.got \o k.file.buffer = P /\ IsSeq(m.got)
        BY <2>2, <3>4, <3>5, <3>6
      <4>2. /\ P # << >> /\ Reads(k.file, P, disk) /\ k.soa = <<P[1]>>
            /\ k.at = "spit" /\ k.read = 0
        BY <2>2, <3>2, <3>6
      <4> HIDE DEF P
      <4> QED BY <4>1, <4>2 DEF Sent
    <3>8. m.ended # "whole"
      BY <1>2, <2>4, <3>4 DEF FineAt
    <3>9. FineAt(k, m, disk)
      BY <2>2, <3>7, <3>8 DEF FineAt, Early, Beginning, Sending
    <3> QED BY <1>1, <2>1, <2>4, <3>1, <3>4, <3>9, FineStep
  <2> QED BY <2>3, <2>4
<1> QED BY <1>1, <1>4, <1>5, EndsOnly

LEMMA ReadRoundFine ==
  ASSUME Sound, IInv, SendOK, NEW c \in Conn, ReadRound(c) PROVE SendOK'
<1> DEFINE s == child[c].file
           n == child[c].read
           got == client[c].got
<1>1. /\ child[c].proc = "live" /\ child[c].at = "round"
      /\ UNCHANGED <<main, connection, disk, client>>
      /\ \/ s.ended /\ s.buffer = << >> /\ Goes(c, "last")
         \/ ~ s.ended /\ n < Round /\ ReadLine(c)
         \/ child' = [child EXCEPT ![c].at = "spit", ![c].read = 0]
  BY DEF ReadRound, At, Own, given
<1>2. FineAt(child[c], client[c], disk)
  BY FineOf
<1>3. client[c].at = "accepted" =>
        /\ IsSeq(got) /\ got \o s.buffer # << >> /\ Reads(s, got \o s.buffer, disk)
        /\ child[c].soa = <<(got \o s.buffer)[1]>> /\ RoundRoom(s, n)
  BY <1>1, <1>2 DEF FineAt, Sent, Sending
<1>4. CASE s.ended /\ s.buffer = << >> /\ Goes(c, "last")
  <2> DEFINE k == [child[c] EXCEPT !.at = "last"]
  <2>1. /\ k.proc = "live" /\ k.at = "last" /\ k.read = n
        /\ k.file = s /\ k.soa = child[c].soa
    BY <1>1, Staged
  <2>2. child' = [child EXCEPT ![c] = k]
    BY <1>4 DEF Goes
  <2> HIDE DEF k, s, n
  <2>3. client[c].at = "accepted" => Sent(k, got, disk)
    BY <1>3, <1>4, <2>1 DEF Sent
  <2>4. FineAt(k, client[c], disk)
    BY <1>1, <1>2, <2>1, <2>3 DEF FineAt, Early, Beginning, Sending
  <2> QED BY <1>1, <2>2, <2>4, ChildFine
<1>5. CASE ~ s.ended /\ n < Round /\ ReadLine(c)
  <2> DEFINE t == ReadRr(s, SynthIp, 2)
             k == [child[c] EXCEPT !.file = t, !.read = n + 1]
             r == Head(s.rest)
             all == (s.buffer \o SoaOf(s, r)) \o Body(s, r, SynthIp)
  <2>1. child' = [child EXCEPT ![c] = k] /\ k.proc = "live" /\ k.at = "round"
        /\ k.file = t /\ k.read = n + 1 /\ k.soa = child[c].soa
    BY <1>1, <1>5, ReadLineIs
  <2> HIDE DEF k
  <2>2. FileOK(disk) /\ SoaAtTop(disk) /\ IsSeq(SynthIp) /\ BufferMax >= 1
        /\ Roomy /\ BufferMax \in Nat /\ Round \in Nat
    BY Given
  <2> HIDE DEF s, n, got, t
  <2>3. ASSUME client[c].at = "accepted" PROVE Sent(k, got, disk)
    <3>1. /\ IsSeq(got) /\ got \o s.buffer # << >> /\ Reads(s, got \o s.buffer, disk)
          /\ child[c].soa = <<(got \o s.buffer)[1]>> /\ RoundRoom(s, n)
      BY <1>3, <2>3
    <3>2. StateOK(s) /\ IsSeq(s.buffer)
      BY <3>1 DEF Reads, StateOK
    <3>3. /\ Len(all) <= BufferMax
          /\ \A u : RecordRead(u, s) /\ u.buffer = all => RoundRoom(u, n + 1)
      BY <1>5, <2>2, <3>1, <3>2, RoundLine
    <3> HIDE DEF all, r
    <3>4. /\ Reads(t, got \o t.buffer, disk)
          /\ Stops(s) => SameSoFar(t, s) /\ t.ended = TRUE
          /\ ~ Stops(s) => RecordRead(t, s) /\ StateOK(t) /\ t.buffer = all
      BY <1>5, <2>2, <3>1, <3>3, ServerLine DEF t, all, r
    <3>5. RoundRoom(t, n + 1)
      <4>1. CASE Stops(s)
        <5> DEFINE m == n + 1
                   l == IF s.in_ns THEN 0 ELSE 2 * Len(SynthIp)
        <5>1. n \in Nat /\ s.rrnum # 0 /\ Len(s.buffer) <= 2 * n + l
          BY <3>1 DEF RoundRoom
        <5>2. l \in Nat /\ Len(s.buffer) \in Nat
          <6>1. Len(SynthIp) \in Nat /\ Len(s.buffer) \in Nat
            BY <2>2, <3>2, SeqRange DEF IsSeq
          <6> QED BY <6>1
        <5>3. t.rrnum = s.rrnum /\ t.in_ns = s.in_ns /\ t.buffer = s.buffer
          BY <3>4, <4>1 DEF SameSoFar
        <5>4. l = IF t.in_ns THEN 0 ELSE 2 * Len(SynthIp)
          BY <5>3
        <5> HIDE DEF l
        <5>5. m \in Nat /\ m <= Round /\ Len(s.buffer) <= 2 * m + l
          BY <1>5, <2>2, <5>1, <5>2
        <5> HIDE DEF m
        <5>6. Len(t.buffer) <= 2 * m + (IF t.in_ns THEN 0 ELSE 2 * Len(SynthIp))
          BY <5>3, <5>4, <5>5
        <5>7. RoundRoom(t, m)
          BY <5>1, <5>3, <5>5, <5>6 DEF RoundRoom
        <5> QED BY <5>7 DEF m
      <4>2. CASE ~ Stops(s)
        BY <3>3, <3>4, <4>2
      <4> QED BY <4>1, <4>2
    <3>6. got \o t.buffer # << >> /\ (got \o t.buffer)[1] = (got \o s.buffer)[1]
      <4>1. CASE Stops(s)
        <5>1. t.buffer = s.buffer
          BY <3>4, <4>1 DEF SameSoFar
        <5> QED BY <3>1, <5>1
      <4>2. CASE ~ Stops(s)
        <5> DEFINE soa == SoaOf(s, r)
                   body == Body(s, r, SynthIp)
                   b == s.buffer
                   P == got \o b
        <5>1. IsSeq(soa) /\ IsSeq(body) /\ IsSeq(b)
          BY <2>2, <3>2, MadeIs
        <5>2. t.buffer = (b \o soa) \o body
          BY <3>4, <4>2 DEF all
        <5>3. P # << >>
          BY <3>1
        <5> HIDE DEF soa, body, b
        <5>4. got \o t.buffer = P \o (soa \o body) /\ IsSeq(soa \o body) /\ IsSeq(P)
          <6>1. IsSeq(soa \o body) /\ IsSeq(P)
            BY <3>1, <5>1, ConcatIs DEF Joined
          <6>2. (b \o soa) \o body = b \o (soa \o body)
            BY <5>1, Regrouped
          <6>3. (got \o b) \o (soa \o body) = got \o (b \o (soa \o body))
            <7> DEFINE u == soa \o body
            <7>1. IsSeq(u)
              BY <6>1
            <7> HIDE DEF u
            <7>2. IsSeq(got) /\ IsSeq(b)
              BY <3>1, <5>1
            <7>3. (got \o b) \o u = got \o (b \o u)
              BY <7>1, <7>2, Regrouped
            <7> QED BY <7>3 DEF u
          <6> QED BY <5>2, <6>1, <6>2, <6>3
        <5> DEFINE u == soa \o body
        <5> HIDE DEF u, P
        <5>5. (P \o u)[1] = P[1] /\ P \o u # << >>
          BY <5>3, <5>4, FirstOf DEF u
        <5> QED BY <5>4, <5>5 DEF u, P, b
      <4> QED BY <4>1, <4>2
    <3> DEFINE P == got \o t.buffer
    <3>7. /\ P # << >> /\ Reads(k.file, P, disk) /\ k.soa = <<P[1]>>
          /\ got \o k.file.buffer = P /\ k.at = "round" /\ RoundRoom(k.file, k.read)
      BY <2>1, <3>1, <3>4, <3>5, <3>6
    <3> HIDE DEF P
    <3> QED BY <3>1, <3>7 DEF Sent
  <2>4. FineAt(k, client[c], disk)
    BY <1>1, <1>2, <2>1, <2>3 DEF FineAt, Early, Beginning, Sending, got
  <2> QED BY <1>1, <2>1, <2>4, ChildFine
<1>6. CASE child' = [child EXCEPT ![c].at = "spit", ![c].read = 0]
  <2> DEFINE k == [child[c] EXCEPT !.at = "spit", !.read = 0]
  <2>1. child' = [child EXCEPT ![c] = k]
    BY <1>6, FineOf DEF IInv, ChildOK, ChildFields
  <2>2. k.proc = "live" /\ k.at = "spit" /\ k.file = s /\ k.read = 0
        /\ k.soa = child[c].soa
    BY <1>1, FineOf DEF ChildFields
  <2> HIDE DEF k, s, n
  <2>3. client[c].at = "accepted" => Sent(k, got, disk)
    BY <1>3, <2>2 DEF Sent
  <2>4. FineAt(k, client[c], disk)
    BY <1>1, <1>2, <2>2, <2>3 DEF FineAt, Early, Beginning, Sending
  <2> QED BY <1>1, <2>1, <2>4, ChildFine
<1> QED BY <1>1, <1>4, <1>5, <1>6

\* The SOA once more: what has arrived is all there is.
LEMMA SpitLastFine == ASSUME IInv, SendOK, NEW c \in Conn, SpitLast(c) PROVE SendOK'
<1> DEFINE s == child[c].file
           got == client[c].got
           x == child[c].soa[1]
           m == Fetched(client[c], x)
<1>1. /\ child[c].proc = "live" /\ child[c].at = "last"
      /\ UNCHANGED <<main, connection, disk>> /\ Ends(c) /\ Written(c, x)
  BY DEF SpitLast, At, Own, given
<1>2. FineAt(child[c], client[c], disk) /\ DOMAIN client[c] = ClientFields
  BY FineOf
<1>3. CASE client[c].at # "accepted"
  <2>1. UNCHANGED client
    BY <1>1, <1>3 DEF Written
  <2> QED BY <1>1, <2>1, EndsOnly
<1>4. CASE client[c].at = "accepted"
  <2>1. client' = [client EXCEPT ![c] = m]
    BY <1>1, <1>4 DEF Written
  <2>2. Sent(child[c], got, disk)
    BY <1>1, <1>2, <1>4 DEF FineAt, Sending
  <2>3. IsSeq(got) /\ s.buffer = << >> /\ s.ended
    BY <1>1, <2>2 DEF Sent
  <2>4. got \o s.buffer = got
    BY <2>3, EmptyJoined
  <2>5. got # << >> /\ Reads(s, got, disk) /\ child[c].soa = <<got[1]>>
    BY <2>2, <2>4 DEF Sent
  <2>6. x = got[1]
    BY <2>5
  <2>7. s.in_ns \in BOOLEAN /\ s.nses \in BOOLEAN /\ Shape(got, s.in_ns, s.nses)
    BY <2>5 DEF Reads, StateOK, Shaped
  <2>8. Ordered(got)
    <3> HIDE DEF got, s
    <3> QED BY <2>7, ShapeOrdered
  <2>9. x.type = "SOA" /\ \E i \in DOMAIN got : got[i].type = "SOA"
    <3>1. got[1].type = "SOA" /\ 1 \in 1..Len(got)
      BY <2>8 DEF Ordered, TopSoa
    <3>2. DOMAIN got = 1..Len(got)
      BY <2>3, SeqRange DEF IsSeq
    <3> HIDE DEF got
    <3> QED BY <2>6, <3>1, <3>2
  <2>10. Whole(got, disk)
    <3>1. Range(got) = Served(disk, SynthIp)
      BY <2>3, <2>5 DEF Reads
    <3> QED BY <2>7, <3>1 DEF Whole
  <2>11. m.got = got /\ m.at = "done" /\ m.ended = "whole"
    <3>1. m = [client[c] EXCEPT !.ended = "whole", !.at = "done"]
      BY <2>9 DEF Fetched
    <3> QED BY <1>2, <3>1 DEF ClientFields
  <2> HIDE DEF m, got
  <2>12. Whole(m.got, disk)
    BY <2>10, <2>11
  <2> QED BY <1>1, <2>1, <2>11, <2>12, EndsFine
<1> QED BY <1>3, <1>4

LEMMA ChildKeeps == ASSUME Sound, IInv, SendOK, NEW c \in Conn, Child(c) PROVE SendOK'
BY ReadQueryFine, ForwardFine, OpenFine, ReadBeginningFine, SpitSoaFine, ReadNextFine,
   FirstFine, SpitBufferFine, ReadRoundFine, SpitLastFine DEF Child

LEMMA AskZoneFine == ASSUME IInv, SendOK, NEW c \in Conn, AskZone(c) PROVE SendOK'
<1> DEFINE m == [client[c] EXCEPT !.asked = 2]
<1>1. client' = [client EXCEPT ![c] = m] /\ UNCHANGED <<main, connection, disk, child>>
  BY DEF AskZone, Server, given
<1>2. FineAt(child[c], client[c], disk) /\ DOMAIN client[c] = ClientFields
  BY FineOf
<1>3. m.got = client[c].got /\ m.at = client[c].at /\ m.ended = client[c].ended
  BY <1>2 DEF ClientFields
<1> HIDE DEF m
<1>4. FineAt(child[c], m, disk)
  BY <1>2, <1>3 DEF FineAt
<1> QED BY <1>1, <1>3, <1>4, FineStep

LEMMA LeaveFine == ASSUME IInv, SendOK, NEW c \in Conn, Leave(c) PROVE SendOK'
<1> DEFINE m == [client[c] EXCEPT !.at = "gone"]
<1>1. client' = [client EXCEPT ![c] = m] /\ UNCHANGED <<main, connection, disk, child>>
  BY DEF Leave, Server, given
<1>2. FineAt(child[c], client[c], disk) /\ DOMAIN client[c] = ClientFields
  BY FineOf
<1>3. m.got = client[c].got /\ m.at = "gone" /\ m.ended = client[c].ended
  BY <1>2 DEF ClientFields
<1> HIDE DEF m
<1>4. FineAt(child[c], m, disk)
  BY <1>2, <1>3 DEF FineAt
<1> QED BY <1>1, <1>3, <1>4, FineStep

LEMMA EndOfFileFine == ASSUME IInv, SendOK, NEW c \in Conn, EndOfFile(c) PROVE SendOK'
<1> DEFINE m == [client[c] EXCEPT !.at = "done", !.ended = "early"]
<1>1. client' = [client EXCEPT ![c] = m] /\ UNCHANGED <<main, connection, disk, child>>
  BY DEF EndOfFile, Server, given, IInv, ClientOK
<1>2. FineAt(child[c], client[c], disk) /\ DOMAIN client[c] = ClientFields
  BY FineOf
<1>3. m.got = client[c].got /\ m.at = "done" /\ m.ended = "early"
  BY <1>2 DEF ClientFields
<1> HIDE DEF m
<1>4. FineAt(child[c], m, disk)
  BY <1>2, <1>3 DEF FineAt
<1> QED BY <1>1, <1>3, <1>4, FineStep

\* The process that accepts, forks and waits.
LEMMA AcceptFine == ASSUME IInv, SendOK, NEW c \in Conn, Accept(c) PROVE SendOK'
<1>1. /\ main = "accept" /\ client[c].at = "queued" /\ UNCHANGED <<child, disk>>
      /\ child[c].proc = "none"
  BY DEF Accept, given, IInv, ConnectionOK
<1>2. FineAt(child[c], client[c], disk) /\ DOMAIN client[c] = ClientFields
  BY FineOf
<1>3. \E m : /\ client' = [client EXCEPT ![c] = m] /\ m.got = client[c].got
             /\ m.ended = client[c].ended /\ m.at # "queued"
             /\ \A d \in Conn : Taken(d)' => d = c
  <2>1. CASE client' = [client EXCEPT ![c].at = "refused"] /\ UNCHANGED <<main, connection>>
    <3> DEFINE m == [client[c] EXCEPT !.at = "refused"]
    <3>1. m.got = client[c].got /\ m.at = "refused" /\ m.ended = client[c].ended
      BY <1>2 DEF ClientFields
    <3>2. client' = [client EXCEPT ![c] = m]
      BY <2>1
    <3> HIDE DEF m
    <3> QED BY <1>1, <2>1, <3>1, <3>2 DEF Taken
  <2>2. CASE /\ main' = "wait" /\ connection' = c
             /\ \E p : client' = [client EXCEPT ![c].at = "accepted", ![c].perm = p]
    <3>1. PICK p : client' = [client EXCEPT ![c].at = "accepted", ![c].perm = p]
      BY <2>2
    <3> DEFINE m == [client[c] EXCEPT !.at = "accepted", !.perm = p]
    <3>2. m.got = client[c].got /\ m.at = "accepted" /\ m.ended = client[c].ended
      BY <1>2 DEF ClientFields
    <3>3. client' = [client EXCEPT ![c] = m]
      BY <1>2, <3>1 DEF IInv, ClientOK, ClientFields
    <3> HIDE DEF m
    <3> QED BY <2>2, <3>2, <3>3 DEF Taken
  <2> QED BY <2>1, <2>2 DEF Accept
<1>4. PICK m : /\ client' = [client EXCEPT ![c] = m] /\ m.got = client[c].got
               /\ m.ended = client[c].ended /\ m.at # "queued"
               /\ \A d \in Conn : Taken(d)' => d = c
  BY <1>3
<1>5. \A d \in Conn : client'[d] = IF d = c THEN m ELSE client[d]
  BY <1>4 DEF IInv, ClientOK
<1>6. FineAt(child[c], m, disk)
  <2>1. child[c] = NoChild /\ m.ended # "whole"
    BY <1>1, <1>2, <1>4 DEF FineAt
  <2>2. child[c].proc # "live"
    BY <1>1
  <2> QED BY <2>1, <2>2 DEF FineAt
<1>7. ASSUME NEW d \in Conn PROVE FineAt(child'[d], client'[d], disk')
  BY <1>1, <1>5, <1>6 DEF SendOK
<1>8. ASSUME NEW d \in Conn, client'[d].at = "queued" \/ Taken(d)'
      PROVE  client'[d].got = << >>
  <2>1. CASE d = c
    BY <1>1, <1>4, <1>5, <2>1 DEF SendOK
  <2>2. CASE d # c
    BY <1>4, <1>5, <1>8, <2>2 DEF SendOK
  <2> QED BY <2>1, <2>2
<1> QED BY <1>1, <1>7, <1>8 DEF SendOK

\* Nothing of children or clients changes, and no other connection is taken.
LEMMA QuietFine ==
  ASSUME SendOK, UNCHANGED <<child, client, disk>>, \A d \in Conn : Taken(d)' => Taken(d)
  PROVE  SendOK'
BY DEF SendOK

LEMMA ForkFine == ASSUME IInv, SendOK, Fork PROVE SendOK'
<1> DEFINE c == connection
           k == [child[c] EXCEPT !.proc = "live"]
<1>1. /\ c \in Conn /\ child[c].proc = "none" /\ main = "fork" /\ main' = "count"
      /\ UNCHANGED <<connection, client, disk>> /\ child' = [child EXCEPT ![c] = k]
  BY DEF Fork, given, IInv, ConnectionOK
<1> HIDE DEF c
<1>2. FineAt(child[c], client[c], disk) /\ client[c].got = << >>
  BY <1>1 DEF SendOK, Taken, c
<1>3. child[c] = NoChild
  BY <1>1, <1>2 DEF FineAt
<1>4. k.proc = "live" /\ k.at = "query" /\ k.read = 0
  BY <1>3 DEF NoChild
<1>5. \A d \in Conn : child'[d] = IF d = c THEN k ELSE child[d]
  BY <1>1 DEF IInv, ChildOK
<1> HIDE DEF k
<1>6. FineAt(k, client[c], disk)
  BY <1>2, <1>4 DEF FineAt, Early, Beginning, Sending
<1>7. \A d \in Conn : ~ Taken(d)'
  BY <1>1 DEF Taken
<1>8. ASSUME NEW d \in Conn PROVE FineAt(child'[d], client'[d], disk')
  BY <1>1, <1>5, <1>6 DEF SendOK
<1> QED BY <1>1, <1>7, <1>8 DEF SendOK

LEMMA WaitedFine ==
  ASSUME IInv, SendOK, NEW c \in Zombies, Waited(c),
         UNCHANGED <<main, connection, client, disk>>
  PROVE  SendOK'
<1>1. c \in Conn /\ child' = [child EXCEPT ![c] = NoChild]
  BY DEF Zombies, Waited
<1>2. FineAt(child[c], client[c], disk)
  BY <1>1, FineOf
<1>3. FineAt(NoChild, client[c], disk)
  BY <1>2, ZombieFine DEF FineAt
<1> QED BY <1>1, <1>3, ChildFine

LEMMA MainFine == ASSUME IInv, SendOK, Main PROVE SendOK'
<1>1. CASE Wait
  BY <1>1, QuietFine DEF Wait, Taken, given
<1>2. CASE Count
  BY <1>2, QuietFine DEF Count, Taken, given
<1>3. CASE Reap
  <2>1. CASE \E c \in Zombies : Waited(c) /\ UNCHANGED <<main, connection>>
    BY <1>3, <2>1, WaitedFine DEF Reap, given
  <2>2. CASE main' = "accept" /\ UNCHANGED child
    BY <1>3, <2>2, QuietFine DEF Reap, Taken, given
  <2> QED BY <1>3, <2>1, <2>2 DEF Reap
<1> QED BY <1>1, <1>2, <1>3, AcceptFine, ForkFine DEF Main

LEMMA HandleChildsFine == ASSUME IInv, SendOK, HandleChilds PROVE SendOK'
<1>1. CASE \E c \in Zombies : Waited(c)
  BY <1>1, WaitedFine DEF HandleChilds, given
<1>2. CASE UNCHANGED child
  BY <1>2, QuietFine DEF HandleChilds, Taken, given
<1> QED BY <1>1, <1>2 DEF HandleChilds

LEMMA NextFine == ASSUME Sound, IInv, SendOK, [Next]_vars PROVE SendOK'
<1>1. CASE UNCHANGED vars
  BY <1>1, QuietFine DEF vars, Taken
<1>2. CASE \E c \in Conn : Child(c) \/ QueryFails(c)
  BY <1>2, ChildKeeps, QueryFailsFine
<1>3. CASE \E c \in Conn : AskZone(c) \/ Leave(c) \/ EndOfFile(c)
  BY <1>3, AskZoneFine, LeaveFine, EndOfFileFine
<1> QED BY <1>1, <1>2, <1>3, MainFine, HandleChildsFine DEF Next

LEMMA InitFine == ASSUME Init PROVE SendOK
<1>1. disk \in Files
  BY DEF Init
<1>2. ASSUME NEW c \in Conn
      PROVE  /\ child[c] = NoChild /\ client[c].got = << >> /\ client[c].ended = "no"
  BY DEF Init
<1>3. NoChild.proc = "none"
  BY DEF NoChild
<1>4. \A c \in Conn : FineAt(child[c], client[c], disk)
  <2> SUFFICES ASSUME NEW c \in Conn PROVE FineAt(child[c], client[c], disk)
    OBVIOUS
  <2>1. child[c] = NoChild /\ child[c].proc = "none" /\ client[c].ended # "whole"
    BY <1>2, <1>3
  <2> QED BY <2>1 DEF FineAt
<1> QED BY <1>1, <1>2, <1>4 DEF SendOK

\* What is fetched to the end is all that maradns serves of the file.
EverythingSent ==
  \A c \in Conn : client[c].ended = "whole" =>
    Range(client[c].got) = Served(disk, SynthIp)

(***************************************************************************)
(* A client that sees the second SOA has the records of the zone, all of   *)
(* them: what csv2_parse_zone_zoneserver makes of a file in rounds,        *)
(* through a buffer, is what csv2_parse_zone makes of it, if the buffer    *)
(* has room for a round (Roomy).                                           *)
(***************************************************************************)
THEOREM EverythingSentTheorem == ASSUME Sound PROVE Spec => []EverythingSent
<1>1. SendOK => EverythingSent
  BY DEF SendOK, FineAt, Whole, EverythingSent
<1>2. Init => IInv /\ SendOK
  BY InitOK, InitFine
<1>3. IInv /\ SendOK /\ [Next]_vars => (IInv /\ SendOK)'
  BY NextOK, NextFine
<1> QED BY <1>1, <1>2, <1>3, PTL DEF Spec

(***************************************************************************)
(* A zone that was fetched to the end, loaded by another maradns, is the   *)
(* zone the first one serves (fetchzone and csv2_parse_zone).  The other   *)
(* one must not make up NS records for a zone without any that the first   *)
(* one served without any.                                                 *)
(***************************************************************************)
THEOREM FetchedIsServedTheorem ==
  ASSUME Sound, SecondaryIp # << >> => SynthIp # << >>
  PROVE  Spec => []FetchedIsServed
<1>1. SendOK => FetchedIsServed
  <2> SUFFICES ASSUME SendOK, NEW c \in Conn, client[c].ended = "whole"
               PROVE  Served(Output(client[c].got), SecondaryIp)
                        = InZone(Served(disk, SynthIp))
    BY DEF FetchedIsServed
  <2> DEFINE P == client[c].got
  <2>1. Whole(P, disk)
    BY DEF SendOK, FineAt
  <2> HIDE DEF P
  <2>2. PICK in_ns \in BOOLEAN, nses \in BOOLEAN : Shape(P, in_ns, nses)
    BY <2>1 DEF Whole
  <2>3. Ordered(P)
    BY <2>2, ShapeOrdered
  <2>4. IsSeq(SecondaryIp) /\ BufferMax >= 1
    BY Given, ZoneServerAssumption DEF ZoneServerAssumption, IsSeq
  <2>5. Served(Output(P), SecondaryIp) = InZone(Range(P))
    BY <2>3, <2>4, ServedAgain
  <2> QED BY <2>1, <2>5 DEF Whole, P
<1>2. Init => IInv /\ SendOK
  BY InitOK, InitFine
<1>3. IInv /\ SendOK /\ [Next]_vars => (IInv /\ SendOK)'
  BY NextOK, NextFine
<1> QED BY <1>1, <1>2, <1>3, PTL DEF Spec

-----------------------------------------------------------------------------
(***************************************************************************)
(* The SOA reply.  It is made of the beginning of the file: the SOA and NS *)
(* records, up to the first record of another type.                        *)
(***************************************************************************)
\* The SOA and the NS records of the zone itself.
Top(rrs) == {r \in rrs : r.at = "zone" /\ r.type \in {"SOA", "NS"}}
NsAtTop(rrs) == \A x \in rrs : x.type = "NS" => x.at = "zone"

LEMMA HeadingEnds ==
  ASSUME NEW file, IsSeq(file), Begins(file), FirstRead \in Nat,
         NEW n \in 0..Len(file), n <= FirstRead, \A i \in 1..n : Heading(file[i])
  PROVE  /\ n = FirstRead => n = Len(file)
         /\ n < Len(file) => (file[n + 1].type = "NS" => ZoneNs(file[n + 1]))
<1>1. Len(file) \in Nat
  BY SeqRange DEF IsSeq
<1>2. PICK k \in 0..FirstRead :
        /\ k <= Len(file) /\ \A i \in 1..k : Heading(file[i])
        /\ \/ k = Len(file)
           \/ k < FirstRead /\ file[k + 1].type \notin {"SOA", "NS"}
  BY DEF Begins
<1> DEFINE N == Len(file)
           ok(i) == Heading(file[i])
           data(i) == file[i].type \notin {"SOA", "NS"}
<1>3. \A i \in 1..N : ~ (ok(i) /\ data(i))
  BY DEF Heading, ZoneNs
<1>4. /\ N \in Nat /\ k \in Nat /\ k <= FirstRead /\ k <= N
      /\ \A i \in 1..k : ok(i)
      /\ k = N \/ (k < FirstRead /\ data(k + 1))
      /\ \A i \in 1..n : ok(i)
  BY <1>1, <1>2
<1> HIDE DEF N, ok, data
<1>5. n = FirstRead => n = N
  BY <1>3, <1>4 DEF N
<1>6. n < N => ok(n + 1) \/ data(n + 1)
  BY <1>3, <1>4 DEF N
<1>7. n < N => (file[n + 1].type = "NS" => ZoneNs(file[n + 1]))
  BY <1>6 DEF ok, data, Heading
<1> QED BY <1>5, <1>7 DEF N

\* The reply is the records of the buffer up to the first of another type.
LEMMA SoaReplyIs ==
  ASSUME NEW P, Ordered(P), NsAtTop(Range(P))
  PROVE  ToSet(SoaReply(P)) = Top(Range(P))
<1> DEFINE N == Len(P)
           others == {i \in 2..N : P[i].type # "NS"}
           upto == IF others = {} THEN N
                   ELSE (CHOOSE i \in others : \A j \in others : i <= j) - 1
           Q == SubSeq(P, 1, upto)
<1>1. IsSeq(P) /\ N \in Nat /\ N >= 1 /\ DOMAIN P = 1..N /\ TopSoa(P[1])
  BY SeqRange DEF Ordered, IsSeq
<1>2. \A i \in 1..N : P[i] \in Range(P)
  BY <1>1 DEF Range
<1>3. SoaReply(P) = Q
  BY DEF SoaReply
<1>4. /\ upto \in 1..N
      /\ \A i \in 2..upto : P[i].type = "NS"
      /\ upto < N => upto + 1 \in 2..N /\ P[upto + 1].type # "NS"
  <2>1. CASE others = {}
    <3>1. upto = N
      BY <2>1
    <3> HIDE DEF upto
    <3> QED BY <1>1, <2>1, <3>1
  <2>2. CASE others # {}
    <3> DEFINE m == CHOOSE i \in others : \A j \in others : i <= j
    <3>1. others \in SUBSET Nat
      BY <1>1
    <3>2. \E i \in others : \A j \in others : i <= j
      <4> HIDE DEF others
      <4> QED BY <2>2, <3>1, LeastNatural
    <3>3. m \in others /\ \A j \in others : m <= j
      <4> HIDE DEF others
      <4> QED BY <3>2
    <3>4. upto = m - 1
      BY <2>2
    <3> HIDE DEF m, upto
    <3>5. m \in 2..N /\ P[m].type # "NS"
      BY <3>3
    <3>6. \A i \in 2..(m - 1) : P[i].type = "NS"
      <4> SUFFICES ASSUME NEW i \in 2..(m - 1), P[i].type # "NS" PROVE FALSE
        OBVIOUS
      <4>1. i \in 2..N /\ ~ (m <= i)
        BY <1>1, <3>5
      <4>2. i \in others
        BY <4>1
      <4> QED BY <3>3, <4>1, <4>2
    <3> HIDE DEF others
    <3>7. m - 1 \in 1..N /\ (m - 1) + 1 = m
      BY <1>1, <3>5
    <3> QED BY <3>4, <3>5, <3>6, <3>7
  <2> QED BY <2>1, <2>2
<1> HIDE DEF others, upto
<1>5. \A y : y \in Range(Q) <=> \E i \in 1..upto : P[i] = y
  <2>1. 1 <= upto + 1 /\ upto \in 0..N
    BY <1>1, <1>4
  <2>2. Part(Q, P, 1, upto)
    BY <1>1, <2>1, SubSeqIs
  <2> QED BY <2>2 DEF Part
<1>6. \A i \in 1..upto : P[i] \in Top(Range(P))
  <2> SUFFICES ASSUME NEW i \in 1..upto PROVE P[i] \in Top(Range(P))
    OBVIOUS
  <2>1. i \in 1..N /\ (i = 1 \/ i \in 2..upto)
    BY <1>1, <1>4
  <2>2. P[i] \in Range(P)
    BY <1>2, <2>1
  <2>3. CASE i = 1
    BY <1>1, <2>2, <2>3 DEF Top, TopSoa
  <2>4. CASE i \in 2..upto
    BY <1>4, <2>2, <2>4 DEF Top, NsAtTop
  <2> QED BY <2>1, <2>3, <2>4
<1>7. ASSUME NEW y \in Top(Range(P)) PROVE \E i \in 1..upto : P[i] = y
  <2>1. PICK i \in 1..N : P[i] = y
    BY <1>1 DEF Top, Range
  <2>2. SUFFICES ASSUME ~ (i <= upto) PROVE FALSE
    BY <1>4, <2>1
  <2>3. upto < N /\ i \in 2..N /\ upto + 1 <= i /\ upto + 1 \in 2..N
    BY <1>1, <1>4, <2>1, <2>2
  <2>4. ZoneNs(P[i])
    <3>1. Plain(P[i])
      BY <2>3 DEF Ordered
    <3> QED BY <2>1, <3>1 DEF Plain, Top, ZoneNs
  <2>5. ZoneNs(P[upto + 1])
    <3> DEFINE j == upto + 1
    <3>1. j \in 2..N /\ j <= i
      BY <2>3
    <3> HIDE DEF j
    <3>2. ZoneNs(P[j])
      BY <2>3, <2>4, <3>1 DEF Ordered
    <3> QED BY <3>2 DEF j
  <2> QED BY <1>4, <2>3, <2>5 DEF ZoneNs
<1>8. ToSet(Q) = Range(Q)
  BY DEF ToSet, Range
<1> HIDE DEF Q
<1>9. ToSet(Q) = Top(Range(P))
  <2>1. Range(Q) \subseteq Top(Range(P))
    BY <1>5, <1>6
  <2>2. Top(Range(P)) \subseteq Range(Q)
    BY <1>5, <1>7
  <2> QED BY <1>8, <2>1, <2>2
<1> QED BY <1>3, <1>9

\* What a line makes that is not the NS record of a delegation.
LEMMA LineTop ==
  ASSUME NEW s, NEW r, LineOK(r), r.type = "NS" => ZoneNs(r), IsSeq(SynthIp)
  PROVE  NsAtTop(Range(SoaOf(s, r))) /\ NsAtTop(Range(Body(s, r, SynthIp)))
<1>1. NsAtTop(Range(<< >>))
  BY EmptyIs DEF NsAtTop
<1>2. ASSUME NEW x, x.type # "NS" \/ x.at = "zone" PROVE NsAtTop(Range(<<x>>))
  BY <1>2, OneIs DEF NsAtTop
<1>3. NsAtTop(Range(SoaOf(s, r)))
  <2>1. SynthSoa.type # "NS"
    BY DEF SynthSoa, Record
  <2> QED BY <1>1, <1>2, <2>1 DEF SoaOf
<1>4. NsAtTop(Range(Synth(SynthIp)))
  <2> DEFINE q == Synth(SynthIp)
             n == Len(SynthIp)
  <2>1. /\ IsSeq(q) /\ Len(q) = 2 * n /\ n \in Nat
        /\ \A i \in 1..n : q[i] = SynthNs(SynthIp[i])
        /\ \A i \in 1..n : q[i + n] = SynthA(SynthIp[i])
    BY SynthIs
  <2>2. \A x : SynthNs(x).at = "zone" /\ SynthA(x).type = "A"
    BY DEF SynthNs, SynthA, Record
  <2>3. DOMAIN q = 1..Len(q)
    BY <2>1, SeqRange DEF IsSeq
  <2> HIDE DEF q, n
  <2>4. ASSUME NEW i \in 1..Len(q) PROVE q[i].type # "NS" \/ q[i].at = "zone"
    <3>1. CASE i <= n
      BY <2>1, <2>2, <3>1
    <3>2. CASE ~ (i <= n)
      <4> DEFINE k == i - n
      <4>1. k \in 1..n /\ k + n = i
        BY <2>1, <3>2
      <4> HIDE DEF k
      <4>2. q[k + n] = SynthA(SynthIp[k])
        BY <2>1, <4>1, Zenon
      <4> QED BY <2>2, <4>1, <4>2
    <3> QED BY <3>1, <3>2
  <2>5. NsAtTop(Range(q))
    BY <2>3, <2>4 DEF NsAtTop, Range
  <2> QED BY <2>5 DEF q
<1>5. NsAtTop(Range(Records(r)))
  <2> DEFINE q == Records(r)
  <2>1. IsSeq(q) /\ Len(q) \in 1..2
    BY RecordsIs
  <2>2. CASE r.type = "FQDN4"
    <3> DEFINE p == Record("PTR", "elsewhere", r.data)
               a == [r EXCEPT !.type = "A"]
    <3>1. Len(q) = 2 /\ q[2] = a /\ q[1] = p
      BY <2>2, RecordsIs
    <3>2. p.type = "PTR" /\ a.type = "A"
      <4>1. "type" \in DOMAIN r
        BY DEF LineOK, Bad, Record
      <4> QED BY <4>1 DEF Record
    <3> HIDE DEF p, a, q
    <3>3. \A y \in Range(q) : y = p \/ y = a
      <4>1. DOMAIN q = 1..2
        BY <2>1, <3>1, SeqRange DEF IsSeq
      <4> QED BY <3>1, <4>1 DEF Range
    <3>4. NsAtTop(Range(q))
      BY <3>2, <3>3 DEF NsAtTop
    <3> QED BY <3>4 DEF q
  <2>3. CASE r.type # "FQDN4"
    <3>1. q = <<r>>
      BY <2>3, RecordsIs
    <3>2. r.type # "NS" \/ r.at = "zone"
      BY DEF ZoneNs
    <3> QED BY <1>2, <3>1, <3>2
  <2> QED BY <2>2, <2>3
<1>6. NsAtTop(Range(Body(s, r, SynthIp)))
  <2>1. CASE r.type = "SOA" \/ (ZoneNs(r) /\ ~ s.in_ns)
    <3>1. Body(s, r, SynthIp) = << >>
      BY <2>1 DEF Body, ZoneNs
    <3> QED BY <1>1, <3>1
  <2>2. CASE ZoneNs(r) /\ s.in_ns
    <3>1. Body(s, r, SynthIp) = <<r>>
      BY <2>2 DEF Body, ZoneNs
    <3> QED BY <1>2, <2>2, <3>1 DEF ZoneNs
  <2>3. CASE r.type # "SOA" /\ ~ ZoneNs(r)
    <3> DEFINE q == IF s.in_ns /\ ~ s.nses THEN Synth(SynthIp) ELSE << >>
    <3>1. Body(s, r, SynthIp) = q \o Records(r)
      BY <2>3 DEF Body
    <3>2. IsSeq(q) /\ NsAtTop(Range(q))
      BY <1>1, <1>4, SynthIs, EmptyIs
    <3> HIDE DEF q
    <3>3. Range(q \o Records(r)) = Range(q) \union Range(Records(r))
      BY <3>2, RecordsIs, ConcatIs DEF Joined
    <3> QED BY <1>5, <3>1, <3>2, <3>3 DEF NsAtTop
  <2> QED BY <2>1, <2>2, <2>3
<1> QED BY <1>3, <1>6

LEMMA LinesTop ==
  ASSUME NEW s, NEW r, LineOK(r), r.type = "NS" => ZoneNs(r), IsSeq(SynthIp),
         NEW b, IsSeq(b), NsAtTop(Range(b))
  PROVE  NsAtTop(Range((b \o SoaOf(s, r)) \o Body(s, r, SynthIp)))
<1> DEFINE x == SoaOf(s, r)
           y == Body(s, r, SynthIp)
<1>1. NsAtTop(Range(x)) /\ NsAtTop(Range(y))
  BY LineTop
<1>2. IsSeq(x) /\ IsSeq(y)
  BY MadeIs
<1> HIDE DEF x, y
<1>3. Joined(b \o x, b, x)
  BY <1>2, ConcatIs
<1>4. IsSeq(b \o x) /\ NsAtTop(Range(b \o x))
  BY <1>1, <1>3 DEF Joined, NsAtTop
<1> DEFINE bx == b \o x
<1> HIDE DEF bx
<1>5. Joined(bx \o y, bx, y)
  BY <1>2, <1>4, ConcatIs DEF bx
<1>6. NsAtTop(Range(bx \o y))
  BY <1>1, <1>4, <1>5 DEF Joined, NsAtTop, bx
<1> QED BY <1>6 DEF x, y, bx

\* Behind the beginning no line makes a record of the top.
LEMMA NoTopLine ==
  ASSUME NEW file, FileOK(file), IsSeq(SynthIp), BufferMax >= 1,
         NEW n \in 0..(Len(file) - 1), NEW h, UpToLine(h, file, n), ~ h.in_ns
  PROVE  LET t == ReadRr(h, SynthIp, 1) IN
         ~ t.in_ns /\ Top(Had(t)) = Top(Had(h))
<1> DEFINE t == ReadRr(h, SynthIp, 1)
           r == Head(h.rest)
           method == 1
<1>1. IsSeq(file) /\ StateOK(h) /\ Waits(h) /\ DOMAIN h = FileFields
  BY DEF FileOK, UpToLine, StateOK
<1>2. CASE Stops(h)
  <2> HIDE DEF method
  <2>1. SameSoFar(ReadRr(h, SynthIp, method), h)
    BY <1>1, <1>2, StoppedIs
  <2>2. SameSoFar(t, h)
    BY <2>1 DEF method
  <2> HIDE DEF t
  <2>3. ~ t.in_ns /\ Had(t) = Had(h)
    BY <2>2 DEF SameSoFar, Had
  <2> QED BY <2>3 DEF t
<1>3. CASE ~ Stops(h)
  <2>1. /\ IsSeq(h.rest) /\ Len(h.rest) = Len(file) - n
        /\ \A i \in 1..(Len(file) - n) : h.rest[i] = file[i + n]
    BY <1>3 DEF UpToLine, Stops
  <2>2. r = file[n + 1] /\ n + 1 \in 1..Len(file)
    <3>1. r = file[n + 1]
      BY <1>1, <2>1, LessLeft
    <3>2. Len(file) \in Nat
      BY <1>1, SeqRange DEF IsSeq
    <3> QED BY <3>1, <3>2
  <2>3. LineOK(r)
    <3>1. DOMAIN file = 1..Len(file)
      BY <1>1, SeqRange DEF IsSeq
    <3> DEFINE i == n + 1
    <3>2. i \in 1..Len(file) /\ r = file[i]
      BY <2>2
    <3> HIDE DEF i, r
    <3>3. r # Comment /\ DOMAIN r = DOMAIN Bad
      BY <3>1, <3>2 DEF FileOK, Range
    <3>4. r # Bad
      BY <1>3 DEF Stops, r
    <3> QED BY <3>3, <3>4 DEF LineOK
  <2>4. /\ RecordRead(t, h)
        /\ Had(t) = Had(h) \union Range(SoaOf(h, r)) \union Range(Body(h, r, SynthIp))
    <3>1. Head(h.rest) # Comment
      BY <2>3 DEF LineOK
    <3> QED BY <1>1, <1>3, <3>1, HashedRecord
  <2>5. Range(SoaOf(h, r)) = {}
    <3>1. h.rrnum # 0
      BY <1>1 DEF StateOK
    <3> QED BY <3>1, EmptyIs DEF SoaOf
  <2>6. Top(Range(Body(h, r, SynthIp))) = {}
    <3>1. CASE r.type = "SOA" \/ ZoneNs(r)
      <4>1. Body(h, r, SynthIp) = << >>
        BY <3>1 DEF Body
      <4> QED BY <4>1, EmptyIs DEF Top
    <3>2. CASE r.type # "SOA" /\ ~ ZoneNs(r)
      <4> DEFINE q == Records(r)
      <4>1. Body(h, r, SynthIp) = << >> \o q
        BY <3>2 DEF Body
      <4>2. Items(q) /\ NoNs(q) /\ IsSeq(q)
        BY <2>3, <3>2, RecordsItems, RecordsIs DEF LineOK
      <4> HIDE DEF q, r
      <4>3. Body(h, r, SynthIp) = q
        BY <4>1, <4>2, EmptyJoined
      <4>4. DOMAIN q = 1..Len(q)
        BY <4>2, SeqRange DEF IsSeq
      <4>5. \A i \in 1..Len(q) : q[i].type # "SOA" /\ ~ ZoneNs(q[i])
        BY <4>2 DEF Items, NoNs, Plain
      <4>6. Top(Range(q)) = {}
        BY <4>4, <4>5 DEF Top, Range, ZoneNs
      <4> QED BY <4>3, <4>6
    <3> QED BY <3>1, <3>2
  <2> HIDE DEF t, r
  <2>7. Top(Had(t)) = Top(Had(h))
    BY <2>4, <2>5, <2>6 DEF Top
  <2>8. ~ t.in_ns
    BY <2>4 DEF RecordRead
  <2> QED BY <2>7, <2>8 DEF t
<1> QED BY <1>2, <1>3

LEMMA ServedTop ==
  ASSUME NEW file, FileOK(file), IsSeq(SynthIp), BufferMax >= 1,
         NEW s, NEW P, Reads(s, P, file), ~ s.ended, ~ s.in_ns
  PROVE  Top(Served(file, SynthIp)) = Top(Range(P))
<1> DEFINE N == Len(file)
           n == s.rrnum
           h(m) == Reading(file, SynthIp)[m]
           T == {i \in 0..(N - n) : ~ h(n + i).in_ns /\ Top(Had(h(n + i))) = Top(Had(h(n)))}
<1>1. IsSeq(file)
  BY DEF FileOK
<1>2. /\ N \in Nat
      /\ \A m \in 0..(N - 1) : h(m + 1) = ReadRr(h(m), SynthIp, 1)
      /\ \A m \in 0..N : UpToLine(h(m), file, m)
  BY <1>1, ReadingIs, ReadingOK
<1>3. n \in Nat /\ n <= N /\ ~ h(n).in_ns /\ Range(P) = Had(h(n))
  BY DEF Reads, StateOK
<1>4. Served(file, SynthIp) = Had(h(N))
  BY <1>1, <1>2, ServedIs
<1>5. ASSUME NEW m \in 0..(N - 1), ~ h(m).in_ns
      PROVE  ~ h(m + 1).in_ns /\ Top(Had(h(m + 1))) = Top(Had(h(m)))
  <2>1. UpToLine(h(m), file, m) /\ h(m + 1) = ReadRr(h(m), SynthIp, 1)
    BY <1>2
  <2> DEFINE g == h(m)
  <2>2. UpToLine(g, file, m) /\ ~ g.in_ns
    BY <1>5, <2>1
  <2> HIDE DEF g
  <2>3. LET t == ReadRr(g, SynthIp, 1) IN ~ t.in_ns /\ Top(Had(t)) = Top(Had(g))
    BY <2>2, NoTopLine
  <2> QED BY <2>1, <2>3 DEF g
<1> HIDE DEF h, n, N
<1>6. n \in 0..N /\ N - n \in Nat /\ n + 0 = n /\ n + (N - n) = N
  BY <1>2, <1>3
<1>7. 0 \in T
  BY <1>3, <1>6
<1>8. ASSUME NEW i \in 0..((N - n) - 1), i \in T PROVE i + 1 \in T
  <2> DEFINE m == n + i
  <2>1. m \in 0..(N - 1) /\ n + (i + 1) = m + 1 /\ i + 1 \in 0..(N - n)
    BY <1>2, <1>3
  <2>2. ~ h(m).in_ns /\ Top(Had(h(m))) = Top(Had(h(n)))
    BY <1>8
  <2> HIDE DEF m
  <2>3. ~ h(m + 1).in_ns /\ Top(Had(h(m + 1))) = Top(Had(h(n)))
    BY <1>5, <2>1, <2>2
  <2> QED BY <2>1, <2>3
<1>9. N - n \in T
  <2> HIDE DEF T
  <2>1. \A i \in 0..(N - n) : i \in T
    BY <1>6, <1>7, <1>8, UpTo
  <2> QED BY <1>6, <2>1
<1> QED BY <1>3, <1>4, <1>6, <1>9

\* A file that has been read to its last line: no more is served than was made.
LEMMA AllServed ==
  ASSUME NEW file, FileOK(file), IsSeq(SynthIp), BufferMax >= 1,
         NEW s, NEW P, Reads(s, P, file), ~ s.ended, s.rrnum = Len(file)
  PROVE  Served(file, SynthIp) = Range(P)
<1>1. IsSeq(file) /\ Len(file) \in Nat
  BY SeqRange DEF FileOK, IsSeq
<1>2. Served(file, SynthIp) = Had(Reading(file, SynthIp)[Len(file)])
  BY <1>1, ServedIs
<1> QED BY <1>2 DEF Reads

\* A child that reads the beginning of the file, or is to send the reply.
BeginsAt(k, file) ==
  /\ NsAtTop(Range(k.file.buffer))
  /\ k.file.in_ns /\ ~ k.file.ended =>
       /\ \A i \in 1..k.file.rrnum : Heading(file[i])
       /\ k.at = "soa" => k.file.rrnum = FirstRead
AtBeginning(k) == k.proc = "live" /\ k.at \in {"begin", "soa"}
ReplyFits(m, file) ==
  m.reply # << >> => ToSet(m.reply) = Top(Served(file, SynthIp))

ReplyOK ==
  \A c \in Conn : /\ AtBeginning(child[c]) => BeginsAt(child[c], disk)
                  /\ ReplyFits(client[c], disk)

LEMMA ReplyStep ==
  ASSUME IInv, ReplyOK, UNCHANGED disk, NEW c \in Conn, NEW k, NEW m,
         child' = [child EXCEPT ![c] = k] \/ (UNCHANGED child /\ k = child[c]),
         client' = [client EXCEPT ![c] = m] \/ (UNCHANGED client /\ m = client[c]),
         AtBeginning(k) => BeginsAt(k, disk), ReplyFits(m, disk)
  PROVE  ReplyOK'
<1>1. \A d \in Conn : child'[d] = IF d = c THEN k ELSE child[d]
  BY DEF IInv, ChildOK
<1>2. \A d \in Conn : client'[d] = IF d = c THEN m ELSE client[d]
  BY DEF IInv, ClientOK
<1>3. ASSUME NEW d \in Conn
      PROVE  /\ AtBeginning(child'[d]) => BeginsAt(child'[d], disk')
             /\ ReplyFits(client'[d], disk')
  BY <1>1, <1>2 DEF ReplyOK
<1> QED BY <1>3 DEF ReplyOK

\* No child comes to the beginning, and what clients have of the reply stays.
LEMMA ReplyKept ==
  ASSUME ReplyOK, UNCHANGED disk,
         \A d \in Conn : AtBeginning(child'[d]) => child'[d] = child[d],
         \A d \in Conn : client'[d].reply = client[d].reply
  PROVE  ReplyOK'
<1>1. ASSUME NEW d \in Conn
      PROVE  /\ AtBeginning(child'[d]) => BeginsAt(child'[d], disk')
             /\ ReplyFits(client'[d], disk')
  BY DEF ReplyOK, ReplyFits
<1> QED BY <1>1 DEF ReplyOK

\* The step of one child and its client.
LEMMA ReplyKeptBy ==
  ASSUME IInv, ReplyOK, UNCHANGED disk, NEW c \in Conn, NEW k, NEW m,
         child' = [child EXCEPT ![c] = k] \/ (UNCHANGED child /\ k = child[c]),
         client' = [client EXCEPT ![c] = m] \/ (UNCHANGED client /\ m = client[c]),
         AtBeginning(k) => k = child[c], m.reply = client[c].reply
  PROVE  ReplyOK'
<1>1. AtBeginning(k) => BeginsAt(k, disk)
  BY DEF ReplyOK
<1>2. ReplyFits(m, disk)
  BY DEF ReplyOK, ReplyFits
<1> QED BY <1>1, <1>2, ReplyStep

LEMMA EndsReply ==
  ASSUME IInv, ReplyOK, UNCHANGED disk, NEW c \in Conn, Ends(c), NEW m,
         client' = [client EXCEPT ![c] = m] \/ (UNCHANGED client /\ m = client[c]),
         m.reply = client[c].reply
  PROVE  ReplyOK'
<1>1. child' = [child EXCEPT ![c] = Zombie] /\ Zombie.proc = "zombie"
  BY DEF Ends, Zombie, NoChild
<1>2. ~ AtBeginning(Zombie)
  BY <1>1 DEF AtBeginning
<1> QED BY <1>1, <1>2, ReplyKeptBy

LEMMA GoesReply ==
  ASSUME IInv, SendOK, ReplyOK, NEW c \in Conn,
         NEW stage \in {"open", "forward", "first", "round", "last"}, Goes(c, stage),
         UNCHANGED <<client, disk>>
  PROVE  ReplyOK'
<1> DEFINE k == [child[c] EXCEPT !.at = stage]
<1>1. child' = [child EXCEPT ![c] = k]
  BY DEF Goes
<1>2. k.at = stage
  BY Staged
<1> HIDE DEF k
<1>3. ~ AtBeginning(k)
  BY <1>2 DEF AtBeginning
<1> QED BY <1>1, <1>3, ReplyKeptBy

LEMMA ReadQueryReply == ASSUME IInv, SendOK, ReplyOK, NEW c \in Conn, ReadQuery(c) PROVE ReplyOK'
<1>1. /\ UNCHANGED <<client, disk>>
      /\ Goes(c, "open") \/ Goes(c, "forward") \/ Ends(c)
  BY DEF ReadQuery, Own, given
<1> QED BY <1>1, GoesReply, EndsReply

LEMMA ForwardReply == ASSUME IInv, SendOK, ReplyOK, NEW c \in Conn, Forward(c) PROVE ReplyOK'
<1>1. /\ Ends(c) /\ UNCHANGED disk
      /\ \E how : UNCHANGED client \/ client' = [client EXCEPT ![c].forwarded = how]
  BY DEF Forward, Own, given
<1>2. PICK how : UNCHANGED client \/ client' = [client EXCEPT ![c].forwarded = how]
  BY <1>1
<1> DEFINE m == [client[c] EXCEPT !.forwarded = how]
<1>3. m.reply = client[c].reply
  BY FineOf DEF ClientFields
<1>4. UNCHANGED client \/ client' = [client EXCEPT ![c] = m]
  BY <1>2
<1> HIDE DEF m
<1> QED BY <1>1, <1>3, <1>4, EndsReply

LEMMA ReadNextReply == ASSUME IInv, SendOK, ReplyOK, NEW c \in Conn, ReadNext(c) PROVE ReplyOK'
<1>1. UNCHANGED <<client, disk>> /\ (Goes(c, "first") \/ Ends(c))
  BY DEF ReadNext, Own, given
<1> QED BY <1>1, GoesReply, EndsReply

LEMMA FirstReply == ASSUME IInv, SendOK, ReplyOK, NEW c \in Conn, First(c) PROVE ReplyOK'
<1> DEFINE soa == <<Head(child[c].file.buffer)>>
           k == [child[c] EXCEPT !.soa = soa, !.at = "spit"]
<1>1. /\ UNCHANGED <<client, disk>>
      /\ Ends(c) \/ child' = [child EXCEPT ![c].soa = soa, ![c].at = "spit"]
  BY DEF First, Own, given
<1> HIDE DEF soa
<1>2. [child EXCEPT ![c].soa = soa, ![c].at = "spit"] = [child EXCEPT ![c] = k]
  BY FineOf DEF IInv, ChildOK, ChildFields
<1>3. k.at = "spit"
  BY FineOf DEF ChildFields
<1> HIDE DEF k
<1>4. ~ AtBeginning(k)
  BY <1>3 DEF AtBeginning
<1> QED BY <1>1, <1>2, <1>4, EndsReply, ReplyKeptBy

\* What a client receives behind the reply does not change the reply.
LEMMA WrittenReply ==
  ASSUME IInv, SendOK, NEW c \in Conn, NEW r, Written(c, r)
  PROVE  \E m : /\ client' = [client EXCEPT ![c] = m] \/ (UNCHANGED client /\ m = client[c])
                /\ m.reply = client[c].reply
<1> DEFINE m == Fetched(client[c], r)
<1>1. DOMAIN client[c] = ClientFields
  BY FineOf
<1>2. m.reply = client[c].reply
  BY <1>1 DEF Fetched, ClientFields
<1>3. client' = client \/ client' = [client EXCEPT ![c] = m]
  BY DEF Written
<1> HIDE DEF m
<1> QED BY <1>2, <1>3

LEMMA SpitBufferReply == ASSUME IInv, SendOK, ReplyOK, NEW c \in Conn, SpitBuffer(c) PROVE ReplyOK'
<1> DEFINE b == child[c].file.buffer
           f == [child[c].file EXCEPT !.buffer = Tail(@)]
           k == [child[c] EXCEPT !.file = f]
<1>1. /\ child[c].at = "spit" /\ UNCHANGED disk
      /\ \/ Goes(c, "round") /\ UNCHANGED client
         \/ Ends(c) /\ UNCHANGED client
         \/ /\ Written(c, Head(b))
            /\ child' = [child EXCEPT ![c].file.buffer = Tail(@)]
  BY DEF SpitBuffer, At, Own, given
<1>2. CASE Written(c, Head(b)) /\ child' = [child EXCEPT ![c].file.buffer = Tail(@)]
  <2>1. child' = [child EXCEPT ![c] = k]
    BY <1>2
  <2>2. k.at = "spit"
    BY <1>1, FineOf DEF ChildFields
  <2> HIDE DEF k
  <2>3. ~ AtBeginning(k)
    BY <2>2 DEF AtBeginning
  <2>4. PICK m : /\ \/ client' = [client EXCEPT ![c] = m]
                    \/ UNCHANGED client /\ m = client[c]
                 /\ m.reply = client[c].reply
    BY <1>2, WrittenReply
  <2> QED BY <1>1, <2>1, <2>3, <2>4, ReplyKeptBy
<1> QED BY <1>1, <1>2, GoesReply, EndsReply

LEMMA ReadRoundReply == ASSUME IInv, SendOK, ReplyOK, NEW c \in Conn, ReadRound(c) PROVE ReplyOK'
<1>1. /\ child[c].at = "round" /\ UNCHANGED <<client, disk>>
      /\ \/ Goes(c, "last") \/ ReadLine(c)
         \/ child' = [child EXCEPT ![c].at = "spit", ![c].read = 0]
  BY DEF ReadRound, At, Own, given
<1>2. CASE ReadLine(c)
  <2> DEFINE k == [child[c] EXCEPT !.file = ReadRr(child[c].file, SynthIp, 2),
                                   !.read = child[c].read + 1]
  <2>1. child' = [child EXCEPT ![c] = k] /\ k.at = child[c].at
    BY <1>2, ReadLineIs
  <2> HIDE DEF k
  <2>2. ~ AtBeginning(k)
    BY <1>1, <2>1 DEF AtBeginning
  <2> QED BY <1>1, <2>1, <2>2, ReplyKeptBy
<1>3. CASE child' = [child EXCEPT ![c].at = "spit", ![c].read = 0]
  <2> DEFINE k == [child[c] EXCEPT !.at = "spit", !.read = 0]
  <2>1. child' = [child EXCEPT ![c] = k]
    BY <1>3, FineOf DEF IInv, ChildOK, ChildFields
  <2>2. k.at = "spit"
    BY FineOf DEF ChildFields
  <2> HIDE DEF k
  <2>3. ~ AtBeginning(k)
    BY <2>2 DEF AtBeginning
  <2> QED BY <1>1, <2>1, <2>3, ReplyKeptBy
<1> QED BY <1>1, <1>2, <1>3, GoesReply

LEMMA SpitLastReply == ASSUME IInv, SendOK, ReplyOK, NEW c \in Conn, SpitLast(c) PROVE ReplyOK'
<1>1. UNCHANGED disk /\ Ends(c) /\ Written(c, child[c].soa[1])
  BY DEF SpitLast, Own, given
<1>2. PICK m : /\ \/ client' = [client EXCEPT ![c] = m]
                  \/ UNCHANGED client /\ m = client[c]
               /\ m.reply = client[c].reply
  BY <1>1, WrittenReply
<1> QED BY <1>1, <1>2, EndsReply

LEMMA OpenReply == ASSUME IInv, SendOK, ReplyOK, NEW c \in Conn, Open(c) PROVE ReplyOK'
<1>1. /\ UNCHANGED <<client, disk>>
      /\ Ends(c) \/ child' = [child EXCEPT ![c].file = Opened(disk), ![c].at = "begin"]
  BY DEF Open, Own, given
<1>2. CASE child' = [child EXCEPT ![c].file = Opened(disk), ![c].at = "begin"]
  <2> DEFINE o == Opened(disk)
             k == [child[c] EXCEPT !.file = o, !.at = "begin"]
  <2>1. child' = [child EXCEPT ![c] = k]
    BY <1>2, FineOf DEF IInv, ChildOK, ChildFields
  <2>2. o.buffer = << >> /\ o.rrnum = 0
    BY DEF Opened
  <2> HIDE DEF o
  <2>3. k.file = o /\ k.at = "begin"
    BY FineOf DEF ChildFields
  <2> HIDE DEF k
  <2>4. BeginsAt(k, disk)
    BY <2>2, <2>3, EmptyIs DEF BeginsAt, NsAtTop
  <2>5. ReplyFits(client[c], disk)
    BY DEF ReplyOK
  <2> QED BY <1>1, <2>1, <2>4, <2>5, ReplyStep
<1> QED BY <1>1, <1>2, EndsReply

\* The beginning of a file: one line more.
LEMMA BeginsLine ==
  ASSUME NEW file, FileOK(file), SoaAtTop(file), Begins(file), IsSeq(SynthIp),
         Roomy, BufferMax \in Nat, FirstRead \in Nat, BufferMax >= 1,
         NEW s, Reads(s, s.buffer, file), s.in_ns, ~ s.ended,
         NEW n, BeginRoom(s, n), n < FirstRead,
         NsAtTop(Range(s.buffer)), \A i \in 1..s.rrnum : Heading(file[i])
  PROVE  LET t == ReadRr(s, SynthIp, 2) IN
         /\ NsAtTop(Range(t.buffer))
         /\ t.in_ns /\ ~ t.ended => \A i \in 1..t.rrnum : Heading(file[i])
<1> DEFINE t == ReadRr(s, SynthIp, 2)
           r == Head(s.rest)
           all == (s.buffer \o SoaOf(s, r)) \o Body(s, r, SynthIp)
           method == 2
<1>1. StateOK(s) /\ (s.rrnum = 0 => s.buffer = << >>) /\ IsSeq(s.buffer)
      /\ DOMAIN s = FileFields
  BY DEF Reads, Shaped, StateOK
<1>2. CASE Stops(s)
  <2> HIDE DEF method
  <2>1. SameSoFar(ReadRr(s, SynthIp, method), s) /\ ReadRr(s, SynthIp, method).ended = TRUE
    BY <1>1, <1>2, StoppedIs
  <2>2. t.buffer = s.buffer /\ t.ended
    BY <2>1 DEF SameSoFar, method
  <2> HIDE DEF t
  <2>3. /\ NsAtTop(Range(t.buffer))
        /\ t.in_ns /\ ~ t.ended => \A i \in 1..t.rrnum : Heading(file[i])
    BY <2>2
  <2> QED BY <2>3 DEF t
<1>3. CASE ~ Stops(s)
  <2>1. s.rrnum \in 0..(Len(file) - 1) /\ LineOK(r) /\ r = file[s.rrnum + 1]
    BY <1>3, NextRecord
  <2>2. Len(all) <= BufferMax
    BY <1>1, BeginLine
  <2>3. RecordRead(t, s) /\ t.buffer = all
    <3>1. Head(s.rest) # Comment
      BY <2>1 DEF LineOK
    <3> QED BY <1>1, <1>3, <2>2, <3>1, PushedRecord
  <2>4. s.rrnum <= FirstRead /\ s.rrnum \in 0..Len(file) /\ s.rrnum < Len(file)
        /\ IsSeq(file)
    <3>1. Len(file) \in Nat /\ IsSeq(file)
      BY SeqRange DEF FileOK, IsSeq
    <3>2. s.rrnum = n
      BY DEF BeginRoom
    <3> QED BY <2>1, <3>1, <3>2
  <2>5. r.type = "NS" => ZoneNs(r)
    <3> DEFINE m == s.rrnum
    <3> HIDE DEF m
    <3>1. m \in 0..Len(file) /\ m <= FirstRead /\ \A i \in 1..m : Heading(file[i])
      BY <2>4 DEF m
    <3>2. m < Len(file) => (file[m + 1].type = "NS" => ZoneNs(file[m + 1]))
      BY <2>4, <3>1, HeadingEnds
    <3> QED BY <2>1, <2>4, <3>2 DEF m
  <2>6. NsAtTop(Range(all))
    BY <1>1, <2>1, <2>5, LinesTop
  <2>7. t.in_ns => \A i \in 1..t.rrnum : Heading(file[i])
    <3> SUFFICES ASSUME t.in_ns PROVE \A i \in 1..t.rrnum : Heading(file[i])
      OBVIOUS
    <3>1. t.rrnum = s.rrnum + 1 /\ (r.type = "SOA" \/ ZoneNs(r))
      <4> HIDE DEF t
      <4> QED BY <2>3 DEF RecordRead
    <3>2. Heading(file[s.rrnum + 1])
      BY <2>1, <3>1 DEF Heading
    <3> DEFINE m == s.rrnum
               ok(i) == Heading(file[i])
    <3>3. m \in Nat /\ ok(m + 1) /\ \A i \in 1..m : ok(i)
      BY <2>1, <3>2
    <3> HIDE DEF m, ok
    <3>4. \A i \in 1..(m + 1) : ok(i)
      BY <3>3
    <3> QED BY <3>1, <3>4 DEF m, ok
  <2> HIDE DEF t, all
  <2>8. /\ NsAtTop(Range(t.buffer))
        /\ t.in_ns /\ ~ t.ended => \A i \in 1..t.rrnum : Heading(file[i])
    BY <2>3, <2>6, <2>7
  <2> QED BY <2>8 DEF t
<1> QED BY <1>2, <1>3

LEMMA ReadBeginningReply ==
  ASSUME Sound, HeadingsFirst, IInv, SendOK, ReplyOK, NEW c \in Conn, ReadBeginning(c)
  PROVE  ReplyOK'
<1> DEFINE s == child[c].file
           n == child[c].read
<1>1. /\ child[c].proc = "live" /\ child[c].at = "begin" /\ UNCHANGED <<client, disk>>
      /\ \/ s.in_ns /\ ~ s.ended /\ n < FirstRead /\ ReadLine(c)
         \/ ~ (s.in_ns /\ ~ s.ended /\ n < FirstRead) /\
            \E stage \in {"first", "soa"} :
              child' = [child EXCEPT ![c].at = stage, ![c].read = 0]
  BY DEF ReadBeginning, At, Own, given
<1>2. FineAt(child[c], client[c], disk) /\ ReplyFits(client[c], disk)
      /\ BeginsAt(child[c], disk)
  BY <1>1, FineOf DEF ReplyOK, AtBeginning
<1>3. Reads(s, s.buffer, disk) /\ BeginRoom(s, n)
  BY <1>1, <1>2 DEF FineAt, Begun, Early, Beginning
<1>4. CASE s.in_ns /\ ~ s.ended /\ n < FirstRead /\ ReadLine(c)
  <2> DEFINE t == ReadRr(s, SynthIp, 2)
             k == [child[c] EXCEPT !.file = t, !.read = n + 1]
  <2>1. child' = [child EXCEPT ![c] = k] /\ k.at = "begin" /\ k.file = t
    BY <1>1, <1>4, ReadLineIs
  <2> HIDE DEF k
  <2>2. FileOK(disk) /\ SoaAtTop(disk) /\ IsSeq(SynthIp) /\ BufferMax >= 1
        /\ Roomy /\ BufferMax \in Nat /\ FirstRead \in Nat
    BY Given
  <2>3. Begins(disk)
    BY DEF HeadingsFirst, SendOK
  <2>4. NsAtTop(Range(s.buffer)) /\ \A i \in 1..s.rrnum : Heading(disk[i])
    BY <1>2, <1>4 DEF BeginsAt
  <2> HIDE DEF s, n
  <2>5. /\ NsAtTop(Range(t.buffer))
        /\ t.in_ns /\ ~ t.ended => \A i \in 1..t.rrnum : Heading(disk[i])
    BY <1>3, <1>4, <2>2, <2>3, <2>4, BeginsLine
  <2> HIDE DEF t
  <2>6. BeginsAt(k, disk)
    BY <2>1, <2>5 DEF BeginsAt
  <2> QED BY <1>1, <1>2, <2>1, <2>6, ReplyStep
<1>5. ASSUME NEW stage \in {"first", "soa"},
             child' = [child EXCEPT ![c].at = stage, ![c].read = 0],
             ~ (s.in_ns /\ ~ s.ended /\ n < FirstRead)
      PROVE  ReplyOK'
  <2> DEFINE k == [child[c] EXCEPT !.at = stage, !.read = 0]
  <2>1. child' = [child EXCEPT ![c] = k]
    BY <1>5, FineOf DEF IInv, ChildOK, ChildFields
  <2>2. k.at = stage /\ k.file = s
    BY FineOf DEF ChildFields
  <2>3. FirstRead \in Nat
    BY Given
  <2> HIDE DEF k, s, n
  <2>4. s.in_ns /\ ~ s.ended => s.rrnum = FirstRead
    <3> SUFFICES ASSUME s.in_ns, ~ s.ended PROVE s.rrnum = FirstRead
      OBVIOUS
    <3>1. n \in Nat /\ n <= FirstRead /\ s.rrnum = n /\ ~ (n < FirstRead)
      BY <1>3, <1>5 DEF BeginRoom
    <3> QED BY <2>3, <3>1
  <2>5. BeginsAt(k, disk)
    BY <1>2, <2>2, <2>4 DEF BeginsAt, s
  <2> QED BY <1>1, <1>2, <2>1, <2>5, ReplyStep
<1> QED BY <1>1, <1>4, <1>5

\* What is in the buffer when the reply is made.
LEMMA ReplyIs ==
  ASSUME NEW file, FileOK(file), Begins(file), IsSeq(SynthIp), FirstRead \in Nat,
         BufferMax >= 1, NEW k, Reads(k.file, k.file.buffer, file), k.at = "soa",
         BeginsAt(k, file), k.file.buffer # << >>
  PROVE  ToSet(SoaReply(k.file.buffer)) = Top(Served(file, SynthIp))
<1> DEFINE s == k.file
           b == s.buffer
<1>1. Ordered(b)
  <2>1. Shape(b, s.in_ns, s.nses) /\ s.in_ns \in BOOLEAN
    BY DEF Reads, Shaped, StateOK
  <2> HIDE DEF b
  <2> DEFINE in_ns == s.in_ns
  <2>2. in_ns \in BOOLEAN /\ Shape(b, in_ns, s.nses)
    BY <2>1
  <2> HIDE DEF in_ns
  <2> QED BY <2>2, ShapeOrdered
<1>2. NsAtTop(Range(b)) /\ Reads(s, b, file)
  BY DEF BeginsAt
<1> HIDE DEF b
<1>3. ToSet(SoaReply(b)) = Top(Range(b))
  BY <1>1, <1>2, SoaReplyIs
<1>4. Top(Range(b)) = Top(Served(file, SynthIp))
  <2>1. CASE s.ended
    BY <1>2, <2>1 DEF Reads
  <2>2. CASE ~ s.ended /\ ~ s.in_ns
    BY <1>2, <2>2, ServedTop
  <2>3. CASE ~ s.ended /\ s.in_ns
    <3>1. /\ s.rrnum = FirstRead /\ \A i \in 1..s.rrnum : Heading(file[i])
          /\ s.rrnum <= Len(file) /\ IsSeq(file) /\ Len(file) \in Nat
      BY <1>2, <2>3, SeqRange DEF BeginsAt, Reads, FileOK, IsSeq
    <3> DEFINE n == s.rrnum
    <3>2. n \in 0..Len(file) /\ n <= FirstRead /\ n = FirstRead
      BY <3>1
    <3>3. \A i \in 1..n : Heading(file[i])
      BY <3>1
    <3> HIDE DEF n
    <3>4. n = FirstRead => n = Len(file)
      BY <3>1, <3>2, <3>3, HeadingEnds
    <3>5. s.rrnum = Len(file)
      BY <3>2, <3>4 DEF n
    <3> QED BY <1>2, <2>3, <3>5, AllServed
  <2> QED BY <2>1, <2>2, <2>3
<1> QED BY <1>3, <1>4 DEF b

LEMMA SpitSoaReply ==
  ASSUME Sound, HeadingsFirst, IInv, SendOK, ReplyOK, NEW c \in Conn, SpitSoa(c)
  PROVE  ReplyOK'
<1> DEFINE b == child[c].file.buffer
           x == SoaReply(b)
<1>1. /\ child[c].proc = "live" /\ child[c].at = "soa" /\ UNCHANGED disk
      /\ \/ Ends(c) /\ UNCHANGED client
         \/ b # << >> /\ Goes(c, "next") /\ client' = [client EXCEPT ![c].reply = x]
  BY DEF SpitSoa, At, Own, given
<1>2. CASE b # << >> /\ Goes(c, "next") /\ client' = [client EXCEPT ![c].reply = x]
  <2>1. FineAt(child[c], client[c], disk) /\ BeginsAt(child[c], disk)
    BY <1>1, FineOf DEF ReplyOK, AtBeginning
  <2>2. Reads(child[c].file, b, disk)
    BY <1>1, <2>1 DEF FineAt, Begun, Early, Beginning
  <2>3. FileOK(disk) /\ Begins(disk) /\ IsSeq(SynthIp) /\ FirstRead \in Nat /\ BufferMax >= 1
    BY Given DEF HeadingsFirst, SendOK
  <2>4. ToSet(x) = Top(Served(disk, SynthIp))
    BY <1>1, <1>2, <2>1, <2>2, <2>3, ReplyIs
  <2> DEFINE k == [child[c] EXCEPT !.at = "next"]
             m == [client[c] EXCEPT !.reply = x]
  <2> HIDE DEF x
  <2>5. child' = [child EXCEPT ![c] = k] /\ client' = [client EXCEPT ![c] = m]
    BY <1>2 DEF Goes
  <2>6. k.at = "next" /\ m.reply = x
    BY FineOf DEF ChildFields, ClientFields
  <2> HIDE DEF k, m
  <2>7. ~ AtBeginning(k) /\ ReplyFits(m, disk)
    BY <2>4, <2>6 DEF AtBeginning, ReplyFits
  <2> QED BY <1>1, <2>5, <2>7, ReplyStep
<1> QED BY <1>1, <1>2, EndsReply

LEMMA ChildReply ==
  ASSUME Sound, HeadingsFirst, IInv, SendOK, ReplyOK, NEW c \in Conn,
         Child(c) \/ QueryFails(c)
  PROVE  ReplyOK'
<1>1. CASE QueryFails(c)
  BY <1>1, EndsReply DEF QueryFails, Own, given
<1> QED BY <1>1, ReadQueryReply, ForwardReply, OpenReply, ReadBeginningReply,
           SpitSoaReply, ReadNextReply, FirstReply, SpitBufferReply,
           ReadRoundReply, SpitLastReply DEF Child

\* Clients, and the process that accepts, forks and waits.
LEMMA ClientReply ==
  ASSUME IInv, SendOK, ReplyOK, NEW c \in Conn,
         AskZone(c) \/ Leave(c) \/ EndOfFile(c) \/ Accept(c)
  PROVE  ReplyOK'
<1>1. DOMAIN client[c] = ClientFields
  BY FineOf
<1>2. ASSUME NEW d \in Conn PROVE client'[d].reply = client[d].reply
  <2>1. client = [e \in Conn |-> client[e]]
    BY DEF IInv, ClientOK
  <2>2. CASE AskZone(c)
    BY <1>1, <2>1, <2>2 DEF AskZone, ClientFields
  <2>3. CASE Leave(c)
    BY <1>1, <2>1, <2>3 DEF Leave, ClientFields
  <2>4. CASE EndOfFile(c)
    BY <1>1, <2>1, <2>4 DEF EndOfFile, ClientFields
  <2>5. CASE Accept(c)
    BY <1>1, <2>1, <2>5 DEF Accept, ClientFields
  <2> QED BY <2>2, <2>3, <2>4, <2>5
<1>3. UNCHANGED <<child, disk>>
  BY DEF AskZone, Leave, EndOfFile, Accept, Server, given
<1> QED BY <1>2, <1>3, ReplyKept

LEMMA ForkReply == ASSUME IInv, SendOK, ReplyOK, Fork PROVE ReplyOK'
<1> DEFINE c == connection
           k == [child[c] EXCEPT !.proc = "live"]
<1>1. /\ c \in Conn /\ child[c].proc = "none"
      /\ UNCHANGED <<client, disk>> /\ child' = [child EXCEPT ![c] = k]
  BY DEF Fork, given, IInv, ConnectionOK
<1> HIDE DEF c
<1>2. child[c] = NoChild
  BY <1>1 DEF SendOK, FineAt
<1>3. k.at = "query"
  BY <1>2 DEF NoChild
<1> HIDE DEF k
<1>4. ~ AtBeginning(k)
  BY <1>3 DEF AtBeginning
<1> QED BY <1>1, <1>4, ReplyKeptBy

LEMMA WaitedReply ==
  ASSUME IInv, ReplyOK, NEW c \in Zombies, Waited(c), UNCHANGED <<client, disk>>
  PROVE  ReplyOK'
<1>1. c \in Conn /\ child' = [child EXCEPT ![c] = NoChild]
  BY DEF Zombies, Waited
<1>2. ~ AtBeginning(NoChild)
  BY DEF AtBeginning, NoChild
<1> QED BY <1>1, <1>2, ReplyKeptBy

LEMMA QuietReply == ASSUME ReplyOK, UNCHANGED <<child, client, disk>> PROVE ReplyOK'
BY DEF ReplyOK

LEMMA ServerReply ==
  ASSUME IInv, SendOK, ReplyOK, Wait \/ Fork \/ Count \/ Reap \/ HandleChilds
  PROVE  ReplyOK'
<1>1. CASE Wait \/ Count
  BY <1>1, QuietReply DEF Wait, Count, given
<1>2. CASE Reap \/ HandleChilds
  <2>1. UNCHANGED <<client, disk>> /\ (UNCHANGED child \/ \E c \in Zombies : Waited(c))
    BY <1>2 DEF Reap, HandleChilds, given
  <2> QED BY <2>1, QuietReply, WaitedReply
<1> QED BY <1>1, <1>2, ForkReply

LEMMA NextReply ==
  ASSUME Sound, HeadingsFirst, IInv, SendOK, ReplyOK, [Next]_vars PROVE ReplyOK'
<1>1. CASE UNCHANGED vars
  BY <1>1, QuietReply DEF vars
<1>2. CASE \E c \in Conn : Child(c) \/ QueryFails(c)
  BY <1>2, ChildReply
<1>3. CASE \E c \in Conn : AskZone(c) \/ Leave(c) \/ EndOfFile(c) \/ Accept(c)
  BY <1>3, ClientReply
<1> QED BY <1>1, <1>2, <1>3, ServerReply DEF Next, Main

LEMMA InitReply == ASSUME Init PROVE ReplyOK
<1>1. ASSUME NEW c \in Conn PROVE child[c] = NoChild /\ client[c].reply = << >>
  BY DEF Init
<1>2. ~ AtBeginning(NoChild)
  BY DEF AtBeginning, NoChild
<1> QED BY <1>1, <1>2 DEF ReplyOK, ReplyFits

(***************************************************************************)
(* The SOA reply has the SOA and the NS records of the zone, although it   *)
(* is made (csv2_tcp_spit_data) when only the beginning of the file has    *)
(* been read.  The file must have them at its beginning: with the NS       *)
(* record of a delegation right behind them, the reply has that one too.   *)
(***************************************************************************)
THEOREM SoaReplyFitsTheorem ==
  ASSUME Sound, HeadingsFirst PROVE Spec => []SoaReplyFits
<1>1. ReplyOK => SoaReplyFits
  BY DEF ReplyOK, ReplyFits, SoaReplyFits, Top
<1>2. Init => IInv /\ SendOK /\ ReplyOK
  BY InitOK, InitFine, InitReply
<1>3. IInv /\ SendOK /\ ReplyOK /\ [Next]_vars => (IInv /\ SendOK /\ ReplyOK)'
  BY NextOK, NextFine, NextReply
<1> QED BY <1>1, <1>2, <1>3, PTL DEF Spec
=============================================================================
