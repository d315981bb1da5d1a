--------------------------- MODULE DwRemote_proofs ---------------------------
(***************************************************************************)
(* Proofs about DwRemote for any number of slots, sockets, clients and     *)
(* queries, and any limits.  What is proved speaks of the table of pending *)
(* queries alone, so the proof has one lemma for each way the code changes *)
(* the table, and then goes through the handlers.                          *)
(***************************************************************************)
EXTENDS DwRemote, TLAPS, SequenceTheorems

TableOK ==
  /\ rem \in [Slot -> Pending]
  /\ b_remote \in [Slot -> Fd \union {None}]
  /\ sent \in [Fd -> {None} \union
                 [slot : Slot, lower : BOOLEAN, left : 0..MaxReplies]]
  /\ inflight \in [Query -> Slot \union {None}]

\* A slot whose locals are allocated has a query, so that the timeout looks
\* up and zaps a query and not nothing.
LiveHasQuery == \A b \in Slot : rem[b].live => rem[b].query # None

\* The inductive invariant of the table.
TableInv ==
  /\ TableOK
  /\ InflightPointsToQuery
  /\ SocketsOwned
  /\ DepthBounded
  /\ LiveHasQuery

CachesOK ==
  /\ cache \in [Query -> Query \union {None, "negative"}]
  /\ stale \subseteq Query
  /\ cname \in [Query -> Query \union {None}]

Got == Query \union Notice \union {None}

UsersOK ==
  /\ asked \in [Client -> Query \union {None}]
  /\ got \in [Client -> Got]

\* All that is known of a state.
Inv == TableInv /\ CachesOK /\ UsersOK /\ stack \in Seq(Frame)

LEMMA NoneApart ==
  /\ None \notin Slot /\ None \notin Fd /\ None \notin Query
  /\ None \notin Client
BY RemoteAssumption DEF Slot, Fd

LEMMA BlankOK == Blank \in Pending
BY RemoteAssumption, NoneApart DEF Blank, Pending

\* What the code assigns to the fields of a slot.
LEMMA FieldsOK ==
  ASSUME NEW r \in Pending PROVE
    /\ \A q \in Query \union {None} : [r EXCEPT !.query = q] \in Pending
    /\ \A x \in BOOLEAN : [r EXCEPT !.live = x] \in Pending
    /\ \A d \in Nat : [r EXCEPT !.depth = d] \in Pending
    /\ \A n \in Slot \union {None} : [r EXCEPT !.child = n] \in Pending
    /\ \A s \in Fd \union {None} : [r EXCEPT !.sock = s] \in Pending
    /\ \A n \in 0..NumRetries : [r EXCEPT !.retries = n] \in Pending
    /\ \A ls \in Seq(Local) : [r EXCEPT !.locals = ls] \in Pending
BY DEF Pending

\* What make_new_udp_connect and dwx_do_glueless_new make of a free slot.
LEMMA UsedOK ==
  ASSUME NEW q \in Query, NEW d \in Nat PROVE
    /\ [Blank EXCEPT !.query = q, !.live = TRUE, !.depth = d] \in Pending
    /\ [Blank EXCEPT !.query = q, !.live = TRUE, !.depth = d].depth = d
    /\ [Blank EXCEPT !.query = q, !.live = TRUE, !.depth = d].query # None
<1> DEFINE r == [[[Blank EXCEPT !.query = q] EXCEPT !.live = TRUE]
                   EXCEPT !.depth = d]
<1>1. [Blank EXCEPT !.query = q] \in Pending
  BY BlankOK, FieldsOK
<1>2. [[Blank EXCEPT !.query = q] EXCEPT !.live = TRUE] \in Pending
  BY <1>1, FieldsOK
<1>3. r \in Pending
  BY <1>2, FieldsOK
<1>4. [Blank EXCEPT !.query = q, !.live = TRUE, !.depth = d] = r
  OBVIOUS
<1>5. /\ [Blank EXCEPT !.query = q, !.live = TRUE, !.depth = d].depth = d
      /\ [Blank EXCEPT !.query = q, !.live = TRUE, !.depth = d].query # None
  BY NoneApart DEF Blank
<1> QED BY <1>3, <1>4, <1>5

\* The slot of a new client.
LEMMA NewOK ==
  ASSUME NEW q \in Query, NEW ls \in Seq(Local) PROVE
    LET r == [Blank EXCEPT !.query = q, !.live = TRUE]
        s == [Blank EXCEPT !.query = q, !.live = TRUE, !.locals = ls]
    IN  /\ r \in Pending /\ r.depth = 0 /\ r.query # None
        /\ s \in Pending /\ s.depth = 0 /\ s.query # None
<1> DEFINE r0 == [[Blank EXCEPT !.query = q] EXCEPT !.live = TRUE]
           s0 == [r0 EXCEPT !.locals = ls]
           r == [Blank EXCEPT !.query = q, !.live = TRUE]
           s == [Blank EXCEPT !.query = q, !.live = TRUE, !.locals = ls]
<1>1. [Blank EXCEPT !.query = q] \in Pending
  BY BlankOK, FieldsOK
<1>2. r0 \in Pending
  BY <1>1, FieldsOK
<1>3. s0 \in Pending
  <2> HIDE DEF r0
  <2> QED BY <1>2, FieldsOK
<1>4. r = r0 /\ s = s0
  OBVIOUS
<1>5. r.depth = 0 /\ r.query # None /\ s.depth = 0 /\ s.query # None
  BY NoneApart DEF Blank
<1> HIDE DEF r, s, r0, s0
<1> QED BY <1>2, <1>3, <1>4, <1>5 DEF r, s

(***************************************************************************)
(* How the table changes.                                                  *)
(***************************************************************************)
USE DEF TableInv, TableOK

LEMMA ZappedOK ==
  ASSUME TableInv, NEW qs PROVE
    /\ Zapped(qs) \in [Query -> Slot \union {None}]
    /\ \A q \in Query : Zapped(qs)[q] # None =>
         q \notin qs /\ Zapped(qs)[q] = inflight[q]
BY DEF Zapped

LEMMA UnsentOK ==
  ASSUME TableInv, NEW fds PROVE
    /\ Unsent(fds) \in [Fd -> {None} \union
                 [slot : Slot, lower : BOOLEAN, left : 0..MaxReplies]]
    /\ \A f \in Fd : Unsent(fds)[f] # None =>
         f \notin fds /\ Unsent(fds)[f] = sent[f] /\ sent[f] # None
BY DEF Unsent

\* The sockets that a step leaves open, and the inflight entries it leaves.
SomeClosed(f) ==
  /\ sent' \in [Fd -> {None} \union
                  [slot : Slot, lower : BOOLEAN, left : 0..MaxReplies]]
  /\ \A g \in Fd : sent'[g] # None =>
       g # f /\ sent[g] # None /\ sent'[g].slot = sent[g].slot

SomeZapped(q) ==
  /\ inflight' \in [Query -> Slot \union {None}]
  /\ \A p \in Query : inflight'[p] # None => p # q /\ inflight'[p] = inflight[p]

LEMMA ClosedIsSome ==
  ASSUME TableInv, NEW f, NEW fds, f \in fds, sent' = Unsent(fds)
  PROVE  SomeClosed(f)
BY UnsentOK DEF SomeClosed

LEMMA ZappedIsSome ==
  ASSUME TableInv, NEW q, NEW qs, q \in qs, inflight' = Zapped(qs)
  PROVE  SomeZapped(q)
BY ZappedOK DEF SomeZapped

\* A slot that loses its socket and its inflight entry can be anything that
\* has no socket: reset_rem, and what the code makes of a free slot.
LEMMA RenewTable ==
  ASSUME TableInv, NEW b \in Slot, NEW r \in Pending,
         r.depth <= MaxDepth + 1, r.live => r.query # None,
         rem' = [rem EXCEPT ![b] = r],
         SomeClosed(rem[b].sock), SomeZapped(rem[b].query),
         b_remote' \in [Slot -> Fd \union {None}]
  PROVE  TableInv'
<1>1. TableOK' BY DEF SomeClosed, SomeZapped
<1>2. InflightPointsToQuery'
  BY DEF InflightPointsToQuery, SomeZapped
<1>3. SocketsOwned'
  BY DEF SocketsOwned, SomeClosed
<1>4. DepthBounded'
  BY DEF DepthBounded
<1>5. LiveHasQuery'
  BY DEF LiveHasQuery
<1> QED BY <1>1, <1>2, <1>3, <1>4, <1>5

LEMMA ReleaseTable ==
  ASSUME TableInv, NEW b \in Slot, Release(b) PROVE TableInv'
<1>1. SomeClosed(rem[b].sock) BY ClosedIsSome DEF Release
<1>2. SomeZapped(rem[b].query) BY ZappedIsSome DEF Release
<1>3. Blank.depth <= MaxDepth + 1 /\ ~Blank.live
  BY RemoteAssumption DEF Blank
<1> QED BY <1>1, <1>2, <1>3, BlankOK, RenewTable DEF Release

LEMMA ResetTable ==
  ASSUME TableInv, NEW b \in Slot, Reset(b), UNCHANGED b_remote PROVE TableInv'
<1>1. SomeClosed(rem[b].sock) BY ClosedIsSome DEF Reset
<1>2. SomeZapped(rem[b].query) BY ZappedIsSome DEF Reset
<1>3. Blank.depth <= MaxDepth + 1 /\ ~Blank.live
  BY RemoteAssumption DEF Blank
<1> QED BY <1>1, <1>2, <1>3, BlankOK, RenewTable DEF Reset

LEMMA DialTable ==
  ASSUME TableInv, NEW b \in Slot, NEW lower \in BOOLEAN, Dial(b, lower)
  PROVE  TableInv'
<1>1. CASE Closed = {}
  BY <1>1 DEF Dial, table, InflightPointsToQuery, SocketsOwned, DepthBounded,
               LiveHasQuery
<1>2. CASE Closed # {}
  <2>1. PICK f \in Lowest(Closed) :
          /\ sent' = [Unsent({rem[b].sock}) EXCEPT ![f] =
                       [slot |-> b, lower |-> lower, left |-> MaxReplies]]
          /\ b_remote' = [b_remote EXCEPT ![b] = f]
          /\ rem' = [rem EXCEPT ![b].sock = f]
          /\ UNCHANGED inflight
    BY <1>2 DEF Dial
  <2>2. f \in Fd
    BY DEF Lowest, Closed
  <2>3. rem' \in [Slot -> Pending]
    BY <2>1, <2>2 DEF Pending
  <2>4. sent' \in [Fd -> {None} \union
                 [slot : Slot, lower : BOOLEAN, left : 0..MaxReplies]]
    BY <2>1, <2>2, UnsentOK, RemoteAssumption
  <2>5. TableOK'
    BY <2>1, <2>2, <2>3, <2>4
  <2>6. InflightPointsToQuery'
    BY <2>1, NoneApart DEF InflightPointsToQuery, Pending
  <2>7. SocketsOwned'
    BY <2>1, <2>2, UnsentOK, NoneApart DEF SocketsOwned, Pending
  <2>8. DepthBounded'
    BY <2>1 DEF DepthBounded, Pending
  <2>9. LiveHasQuery'
    BY <2>1 DEF LiveHasQuery, Pending
  <2> QED BY <2>5, <2>6, <2>7, <2>8, <2>9
<1> QED BY <1>1, <1>2

\* A slot whose query and depth stay, and whose socket stays or is closed.
LEMMA AdjustTable ==
  ASSUME TableInv, NEW b \in Slot, NEW r \in Pending,
         r.query = rem[b].query, r.depth = rem[b].depth,
         r.live = rem[b].live,
         rem' = [rem EXCEPT ![b] = r],
         \/ r.sock = rem[b].sock /\ UNCHANGED sent
         \/ SomeClosed(rem[b].sock),
         b_remote' \in [Slot -> Fd \union {None}],
         UNCHANGED inflight
  PROVE  TableInv'
<1>1. TableOK' BY DEF SomeClosed
<1>2. InflightPointsToQuery'
  BY DEF InflightPointsToQuery
<1>3. SocketsOwned'
  BY DEF SocketsOwned, SomeClosed
<1>4. DepthBounded'
  BY DEF DepthBounded
<1>5. LiveHasQuery'
  BY DEF LiveHasQuery
<1> QED BY <1>1, <1>2, <1>3, <1>4, <1>5

LEMMA SameTable == ASSUME TableInv, UNCHANGED table PROVE TableInv'
BY DEF table, InflightPointsToQuery, SocketsOwned, DepthBounded, LiveHasQuery

-----------------------------------------------------------------------------
(***************************************************************************)
(* Frames.                                                                 *)
(***************************************************************************)
LEMMA Alone == ASSUME NEW f \in Frame PROVE <<f>> \in Seq(Frame)
OBVIOUS

LEMMA Pushed ==
  ASSUME NEW s \in Seq(Frame), NEW f \in Frame, NEW g \in Frame PROVE
    <<f>> \in Seq(Frame) /\ <<f, g>> \in Seq(Frame)
    /\ <<f>> \o s \in Seq(Frame) /\ <<f, g>> \o s \in Seq(Frame)
BY ConcatProperties

LEMMA Popped ==
  ASSUME stack \in Seq(Frame), stack # << >> PROVE
    Top \in Frame /\ Rest \in Seq(Frame)
BY HeadTailProperties DEF Top, Rest

LEMMA FrameOf ==
  ASSUME stack \in Seq(Frame), stack # << >> PROVE
    /\ Top.b \in Slot
    /\ Top.op = "connect" => Top.lower \in BOOLEAN
    /\ Top.op = "spawned" => Top.n \in Slot /\ Top.type \in {1, 2}
    /\ Top.op = "forwarded" => Top.client \in Client /\ Top.q \in Query
    /\ Top.op = "reply" =>
         /\ Top.l \in Nat \ {0} /\ Top.says \in Reply
         /\ Top.lower \in BOOLEAN /\ Top.kill \in BOOLEAN
    /\ Top.op = "cname" =>
         /\ Top.q \in Query \union {None} /\ Top.depth \in Nat
         /\ Top.value \in Query \union {None, "negative"}
    /\ Top.op = "send" =>
         /\ Top.q \in Query /\ Top.l \in Nat \ {0}
         /\ Top.value \in Query
         /\ Top.depth \in Nat /\ Top.whole \in BOOLEAN
BY Popped DEF Frame

LEMMA ConnectFrameOK ==
  ASSUME NEW b \in Slot, NEW lower \in BOOLEAN PROVE
    ConnectFrame(b, lower) \in Frame
BY DEF ConnectFrame, Frame

LEMMA CnameFrameOK ==
  ASSUME NEW b \in Slot, NEW q \in Query \union {None},
         NEW value \in Query \union {None, "negative"}, NEW depth \in Nat
  PROVE  CnameFrame(b, q, value, depth) \in Frame
BY DEF CnameFrame, Frame

ReplyFrames ==
  [op : {"reply"}, b : Slot, l : Nat \ {0}, says : Reply,
   lower : BOOLEAN, kill : BOOLEAN]

SendFrames ==
  [op : {"send"}, b : Slot, q : Query, l : Nat \ {0}, value : Query,
   depth : Nat, whole : BOOLEAN]

LEMMA NextReply ==
  ASSUME NEW f \in ReplyFrames PROVE
    /\ [f EXCEPT !.l = @ + 1] \in ReplyFrames
    /\ [f EXCEPT !.l = @ + 1, !.kill = FALSE] \in ReplyFrames
<1> DEFINE g == [f EXCEPT !.l = @ + 1]
<1>1. f.l + 1 \in Nat \ {0}
  BY DEF ReplyFrames
<1>2. g \in ReplyFrames
  BY <1>1 DEF ReplyFrames
<1>3. [g EXCEPT !.kill = FALSE] \in ReplyFrames
  <2> HIDE DEF g
  <2> QED BY <1>2 DEF ReplyFrames
<1>4. [f EXCEPT !.l = @ + 1, !.kill = FALSE] = [g EXCEPT !.kill = FALSE]
  OBVIOUS
<1> QED BY <1>2, <1>3, <1>4

LEMMA NextSend ==
  ASSUME NEW f \in SendFrames PROVE
    /\ [f EXCEPT !.l = @ + 1] \in SendFrames
    /\ [[f EXCEPT !.l = @ + 1] EXCEPT !.whole = FALSE] \in SendFrames
<1> DEFINE g == [f EXCEPT !.l = @ + 1]
<1>1. f.l + 1 \in Nat \ {0}
  BY DEF SendFrames
<1>2. g \in SendFrames
  BY <1>1 DEF SendFrames
<1>3. [g EXCEPT !.whole = FALSE] \in SendFrames
  <2> HIDE DEF g
  <2> QED BY <1>2 DEF SendFrames
<1> QED BY <1>2, <1>3

LEMMA ContinuedOK ==
  ASSUME stack \in Seq(Frame), stack # << >> PROVE
    /\ Runs("reply") => Continued \in Frame /\ Kept \in Frame
    /\ Runs("send") =>
         Continued \in Frame /\ [Continued EXCEPT !.whole = FALSE] \in Frame
<1>1. Runs("reply") => Top \in ReplyFrames
  BY Popped DEF Frame, Runs, ReplyFrames
<1>2. Runs("send") => Top \in SendFrames
  BY Popped DEF Frame, Runs, SendFrames
<1>3. ReplyFrames \subseteq Frame /\ SendFrames \subseteq Frame
  BY DEF Frame, ReplyFrames, SendFrames
<1>4. ASSUME Runs("reply") PROVE Continued \in Frame /\ Kept \in Frame
  BY <1>1, <1>3, <1>4, NextReply DEF Continued, Kept
<1>5. ASSUME Runs("send")
      PROVE Continued \in Frame /\ [Continued EXCEPT !.whole = FALSE] \in Frame
  BY <1>2, <1>3, <1>5, NextSend DEF Continued
<1> QED BY <1>4, <1>5

-----------------------------------------------------------------------------
(***************************************************************************)
(* The handlers.                                                           *)
(***************************************************************************)
LEMMA LowestIn == ASSUME NEW S, NEW x \in Lowest(S) PROVE x \in S
BY DEF Lowest

LEMMA SpawnOK ==
  ASSUME Inv, NEW b \in Slot, NEW q \in Query, NEW type \in {1, 2},
         NEW then \in Seq(Frame), Spawn(b, q, type, then)
  PROVE  TableInv' /\ stack' \in Seq(Frame)
<1>1. CASE Free = {} \/ rem[b].depth > MaxDepth
  BY <1>1, SameTable DEF Spawn, Inv
<1>2. CASE ~(Free = {} \/ rem[b].depth > MaxDepth)
  <2> DEFINE r == [Blank EXCEPT !.query = q, !.live = TRUE,
                                !.depth = rem[b].depth + 1]
  <2>1. PICK n \in Lowest(Free) :
          /\ rem' = [rem EXCEPT ![n] = r]
          /\ sent' = Unsent({b_remote[n]})
          /\ b_remote' = [b_remote EXCEPT ![n] = None]
          /\ inflight' = Zapped({rem[n].query})
          /\ stack' = <<ConnectFrame(n, TRUE),
                        [op |-> "spawned", b |-> b, n |-> n, type |-> type]>>
                      \o then
    BY <1>2 DEF Spawn
  <2>2. n \in Slot /\ rem[n].sock = None
    BY LowestIn DEF Free
  <2>3. r \in Pending /\ r.depth <= MaxDepth + 1 /\ r.query # None
    <3>1. rem[b].depth \in Nat /\ rem[b].depth <= MaxDepth
      BY <1>2, RemoteAssumption DEF Inv, Pending
    <3>2. rem[b].depth + 1 \in Nat
      BY <3>1
    <3>3. r \in Pending /\ r.depth = rem[b].depth + 1 /\ r.query # None
      BY <3>2, UsedOK
    <3> HIDE DEF r
    <3> QED BY <3>1, <3>3, RemoteAssumption
  <2>4. SomeClosed(rem[n].sock)
    BY <2>1, <2>2, UnsentOK, NoneApart DEF SomeClosed, Inv
  <2>5. SomeZapped(rem[n].query)
    BY <2>1, ZappedIsSome DEF Inv
  <2>6. TableInv'
    <3>1. b_remote' \in [Slot -> Fd \union {None}] BY <2>1 DEF Inv
    <3> HIDE DEF r
    <3> QED BY <2>1, <2>2, <2>3, <2>4, <2>5, <3>1, RenewTable DEF Inv
  <2>7. [op |-> "spawned", b |-> b, n |-> n, type |-> type] \in Frame
    BY <2>2 DEF Frame
  <2>8. stack' \in Seq(Frame)
    BY <2>1, <2>2, <2>7, ConnectFrameOK, Pushed
  <2> QED BY <2>6, <2>8
<1> QED BY <1>1, <1>2

LEMMA TellOK ==
  ASSUME UsersOK, NEW cs, NEW v \in Got, Tell(cs, v), UNCHANGED asked
  PROVE  UsersOK'
<1>1. got' \in [Client -> Got]
  BY DEF Tell, UsersOK, Got, Notice
<1> QED BY <1>1 DEF UsersOK

LEMMA CacheOK ==
  ASSUME CachesOK, NEW q, NEW v \in Query \union {None, "negative"},
         Cache(q, v), UNCHANGED cname
  PROVE  CachesOK'
BY DEF CachesOK, Cache

LEMMA RefusalOK ==
  ASSUME CachesOK, NEW q \in Query PROVE Refusal(q) \in Got
BY DEF CachesOK, Refusal, Got, Notice

LEMMA SameCaches == ASSUME CachesOK, UNCHANGED caches PROVE CachesOK'
BY DEF CachesOK, caches

LEMMA SameUsers == ASSUME UsersOK, UNCHANGED users PROVE UsersOK'
BY DEF UsersOK, users

LEMMA ConnectOK == ASSUME Inv, Connect PROVE Inv'
<1>1. stack \in Seq(Frame) /\ stack # << >> /\ Top.op = "connect"
  BY DEF Inv, Connect, Runs
<1>2. Top.b \in Slot /\ Top.lower \in BOOLEAN
  BY <1>1, FrameOf
<1>3. Rest \in Seq(Frame)
  BY <1>1, Popped
<1>4. CASE Return /\ UNCHANGED table
  BY <1>3, <1>4, SameTable, SameCaches, SameUsers DEF Connect, Inv, Return
<1>5. CASE Return /\ Dial(Top.b, Top.lower)
  BY <1>2, <1>3, <1>5, DialTable, SameCaches, SameUsers DEF Connect, Inv, Return
<1>6. CASE \E ns \in Query : Spawn(Top.b, ns, 1, Rest)
  <2>1. PICK ns \in Query : Spawn(Top.b, ns, 1, Rest)
    BY <1>6
  <2>2. 1 \in {1, 2}
    OBVIOUS
  <2>3. TableInv' /\ stack' \in Seq(Frame)
    BY <1>2, <1>3, <2>1, <2>2, SpawnOK
  <2> QED BY <2>3, SameCaches, SameUsers DEF Connect, Inv
<1> QED BY <1>4, <1>5, <1>6 DEF Connect

LEMMA SpawnedOK == ASSUME Inv, Spawned PROVE Inv'
<1>1. stack \in Seq(Frame) /\ stack # << >> /\ Top.op = "spawned"
  BY DEF Inv, Spawned, Runs
<1>2. Top.b \in Slot /\ Top.n \in Slot /\ Top.type \in {1, 2}
  BY <1>1, FrameOf
<1>3. Rest \in Seq(Frame)
  BY <1>1, Popped
<1> DEFINE b == Top.b
           n == Top.n
           mid == [rem EXCEPT ![b].child = n]
<1>4. mid \in [Slot -> Pending]
  BY <1>2, FieldsOK DEF Inv
<1>5. \A a \in Slot : /\ mid[a].sock = rem[a].sock
                      /\ mid[a].query = rem[a].query
                      /\ mid[a].depth = rem[a].depth
                      /\ mid[a].live = rem[a].live
  BY <1>2 DEF Inv, Pending
<1>6. TableInv'
  <2>1. CASE rem[n].sock = None
    <3>1. /\ rem' = [mid EXCEPT ![n] = Blank]
          /\ sent' = Unsent({b_remote[n]})
          /\ b_remote' = [b_remote EXCEPT ![n] = None]
          /\ inflight' = Zapped({rem[n].query})
      BY <2>1 DEF Spawned
    <3>2. TableOK'
      BY <1>2, <1>4, <3>1, BlankOK, UnsentOK, ZappedOK DEF Inv
    <3>3. \A a \in Slot : a # n => /\ rem'[a].sock = rem[a].sock
                                   /\ rem'[a].query = rem[a].query
                                   /\ rem'[a].depth = rem[a].depth
                                   /\ rem'[a].live = rem[a].live
      <4> HIDE DEF mid
      <4> QED BY <1>4, <1>5, <3>1
    <3>4. rem'[n] = Blank
      <4> HIDE DEF mid
      <4> QED BY <1>2, <1>4, <3>1
    <3>5. InflightPointsToQuery'
      BY <1>2, <3>1, <3>3, ZappedOK, NoneApart DEF InflightPointsToQuery, Inv
    <3>6. SocketsOwned'
      BY <1>2, <2>1, <3>1, <3>3, UnsentOK, NoneApart DEF SocketsOwned, Inv
    <3>7. DepthBounded'
      BY <1>2, <3>3, <3>4, RemoteAssumption DEF DepthBounded, Inv, Blank
    <3>8. LiveHasQuery'
      BY <1>2, <3>3, <3>4 DEF LiveHasQuery, Inv, Blank
    <3> QED BY <3>2, <3>5, <3>6, <3>7, <3>8
  <2>2. CASE rem[n].sock # None
    <3> DEFINE ls == <<ForParent(b, Top.type)>>
    <3>1. /\ rem' = [mid EXCEPT ![n].locals = ls]
          /\ UNCHANGED <<b_remote, sent, inflight>>
      BY <2>2 DEF Spawned
    <3>2. ls \in Seq(Local)
      BY <1>2, RemoteAssumption DEF Local, ForParent
    <3>3. rem' \in [Slot -> Pending]
      <4> HIDE DEF mid, ls
      <4> QED BY <1>2, <1>4, <3>1, <3>2, FieldsOK
    <3>4. \A a \in Slot : /\ rem'[a].sock = rem[a].sock
                          /\ rem'[a].query = rem[a].query
                          /\ rem'[a].depth = rem[a].depth
                          /\ rem'[a].live = rem[a].live
      <4> HIDE DEF mid, ls
      <4> QED BY <1>2, <1>4, <1>5, <3>1 DEF Pending
    <3> HIDE DEF ls, mid
    <3>5. TableOK'
      BY <3>1, <3>3 DEF Inv
    <3>6. InflightPointsToQuery' /\ DepthBounded' /\ LiveHasQuery'
      BY <3>1, <3>4
         DEF InflightPointsToQuery, DepthBounded, LiveHasQuery, Inv
    <3>7. SocketsOwned'
      BY <3>1, <3>4 DEF SocketsOwned, Inv
    <3> QED BY <3>5, <3>6, <3>7
  <2> QED BY <2>1, <2>2
<1> QED BY <1>3, <1>6, SameCaches, SameUsers DEF Spawned, Inv, Return

(***************************************************************************)
(* A client asks.                                                          *)
(***************************************************************************)
LEMMA AskedOK ==
  ASSUME Inv, NEW c \in Client, NEW q \in Query, Asks(c, q)
  PROVE  asked' \in [Client -> Query \union {None}]
BY DEF Inv, UsersOK, Asks

LEMMA CachedValue ==
  ASSUME CachesOK, NEW q \in Query PROVE
    /\ cache[q] \in Query \union {None, "negative"}
    /\ cache[q] \in Got
    /\ cname[q] \in Query \union {None}
BY DEF CachesOK, Got, Notice

LEMMA ToldOK ==
  ASSUME UsersOK, NEW cs, NEW v \in Got, Tell(cs, v)
  PROVE  got' \in [Client -> Got]
BY DEF Tell, UsersOK, Got, Notice

LEMMA AskCachedOK ==
  ASSUME Inv, NEW c \in Client, NEW q \in Query, AskCached(c, q) PROVE Inv'
<1>1. UsersOK'
  BY AskedOK, CachedValue, ToldOK DEF AskCached, Inv, UsersOK
<1> QED BY <1>1, SameTable, SameCaches DEF AskCached, Inv

LEMMA AskChasedOK ==
  ASSUME Inv, NEW c \in Client, NEW q \in Query, AskChased(c, q) PROVE Inv'
<1> DEFINE r == [Blank EXCEPT !.query = cname[q], !.live = TRUE,
                              !.locals = <<ForChased(c, q)>>]
<1>1. PICK b \in Lowest(Free) :
        /\ rem' = [rem EXCEPT ![b] = r]
        /\ inflight' = Zapped({rem[b].query})
        /\ stack' = <<ConnectFrame(b, TRUE)>>
  BY DEF AskChased
<1>2. b \in Slot /\ rem[b].sock = None
  BY LowestIn DEF Free
<1>3. cname[q] \in Query
  BY CachedValue DEF Inv, AskChased, Chases
<1>4. <<ForChased(c, q)>> \in Seq(Local)
  BY DEF ForChased, Local
<1>5. r \in Pending /\ r.depth = 0 /\ r.query # None
  BY <1>3, <1>4, NewOK
<1>6. SomeClosed(rem[b].sock)
  BY <1>2, NoneApart DEF SomeClosed, AskChased, Inv
<1>7. SomeZapped(rem[b].query)
  BY <1>1, ZappedIsSome DEF Inv
<1>8. TableInv'
  <2>1. r.depth <= MaxDepth + 1 /\ b_remote' \in [Slot -> Fd \union {None}]
    BY <1>5, RemoteAssumption DEF AskChased, Inv
  <2> HIDE DEF r
  <2> QED BY <1>1, <1>2, <1>5, <1>6, <1>7, <2>1, RenewTable DEF Inv
<1>9. stack' \in Seq(Frame)
  <2>1. ConnectFrame(b, TRUE) \in Frame
    BY <1>2, ConnectFrameOK
  <2>2. stack' = <<ConnectFrame(b, TRUE)>>
    BY <1>1
  <2> QED BY <2>1, <2>2, Alone
<1>10. UsersOK'
  BY AskedOK DEF AskChased, Inv, UsersOK
<1> QED BY <1>8, <1>9, <1>10, SameCaches DEF AskChased, Inv

LEMMA AskAttachOK ==
  ASSUME Inv, NEW c \in Client, NEW q \in Query, AskAttach(c, q) PROVE Inv'
<1> DEFINE b == inflight[q]
<1>1. b \in Slot
  BY DEF Inv, AskAttach, Joinable, Listed
<1>2. asked' \in [Client -> Query \union {None}]
  BY AskedOK DEF AskAttach, Forwards
<1>3. CASE Tell({c}, Refusal(q)) /\ UNCHANGED rem
  BY <1>2, <1>3, RefusalOK, ToldOK, SameTable, SameCaches
     DEF AskAttach, Inv, UsersOK, table, caches
<1>4. CASE /\ rem' = [rem EXCEPT ![b].locals = Append(@, ForClient(c))]
           /\ UNCHANGED got
  <2> DEFINE ls == Append(rem[b].locals, ForClient(c))
             r == [rem[b] EXCEPT !.locals = ls]
  <2>1. ls \in Seq(Local)
    BY <1>1 DEF Inv, Pending, Local, ForClient
  <2>2. r \in Pending
    BY <1>1, <2>1, FieldsOK DEF Inv
  <2>3. rem' = [rem EXCEPT ![b] = r]
    BY <1>4
  <2>4. /\ r.query = rem[b].query /\ r.depth = rem[b].depth
        /\ r.live = rem[b].live /\ r.sock = rem[b].sock
    BY <1>1 DEF Inv, Pending
  <2>5. TableInv'
    <3> HIDE DEF r, b
    <3> QED BY <1>1, <2>2, <2>3, <2>4, AdjustTable DEF Inv, AskAttach
  <2> QED BY <1>2, <1>4, <2>5, SameCaches DEF AskAttach, Inv, UsersOK
<1> QED BY <1>3, <1>4 DEF AskAttach

LEMMA AskRefusedOK ==
  ASSUME Inv, NEW c \in Client, NEW q \in Query, AskRefused(c, q) PROVE Inv'
<1>1. UsersOK'
  BY AskedOK, RefusalOK, ToldOK DEF AskRefused, Forwards, Inv, UsersOK
<1>2. TableInv'
  BY ZappedOK DEF AskRefused, Inv, InflightPointsToQuery, SocketsOwned,
                  DepthBounded, LiveHasQuery
<1> QED BY <1>1, <1>2, SameCaches DEF AskRefused, Inv

LEMMA AskNewOK ==
  ASSUME Inv, NEW c \in Client, NEW q \in Query, NEW lower \in BOOLEAN,
         AskNew(c, q, lower)
  PROVE  Inv'
<1> DEFINE r == [Blank EXCEPT !.query = q, !.live = TRUE]
<1>1. PICK b \in Lowest(Free) :
        /\ rem' = [rem EXCEPT ![b] = r]
        /\ inflight' = Zapped(Wrong(q) \union {rem[b].query})
        /\ stack' = <<ConnectFrame(b, lower),
                      [op |-> "forwarded", b |-> b, client |-> c, q |-> q]>>
  BY DEF AskNew
<1>2. b \in Slot /\ rem[b].sock = None
  BY LowestIn DEF Free
<1>3. << >> \in Seq(Local)
  OBVIOUS
<1>4. r \in Pending /\ r.depth = 0 /\ r.query # None
  BY <1>3, NewOK
<1>5. SomeClosed(rem[b].sock)
  BY <1>2, NoneApart DEF SomeClosed, AskNew, Inv
<1>6. SomeZapped(rem[b].query)
  BY <1>1, ZappedIsSome DEF Inv
<1>7. TableInv'
  <2>1. r.depth <= MaxDepth + 1 /\ b_remote' \in [Slot -> Fd \union {None}]
    BY <1>4, RemoteAssumption DEF AskNew, Inv
  <2> HIDE DEF r
  <2> QED BY <1>1, <1>2, <1>4, <1>5, <1>6, <2>1, RenewTable DEF Inv
<1>8. [op |-> "forwarded", b |-> b, client |-> c, q |-> q] \in Frame
  BY <1>2 DEF Frame
<1>9. stack' \in Seq(Frame)
  BY <1>1, <1>2, <1>8, ConnectFrameOK, Pushed
<1>10. UsersOK'
  BY AskedOK DEF AskNew, Forwards, Inv, UsersOK
<1> QED BY <1>7, <1>9, <1>10, SameCaches DEF AskNew, Inv

LEMMA ForwardedOK == ASSUME Inv, Forwarded PROVE Inv'
<1>1. stack \in Seq(Frame) /\ stack # << >> /\ Top.op = "forwarded"
  BY DEF Inv, Forwarded, Runs
<1>2. Top.b \in Slot /\ Top.client \in Client /\ Top.q \in Query
  BY <1>1, FrameOf
<1>3. stack' \in Seq(Frame)
  BY <1>1, Popped DEF Forwarded, Return
<1> DEFINE b == Top.b
           q == rem[b].query
<1>4. CASE rem[b].sock = None
  <2>1. Reset(b) /\ Tell({Top.client}, Refusal(Top.q))
    BY <1>4 DEF Forwarded
  <2>2. TableInv'
    BY <1>2, <2>1, ResetTable DEF Forwarded, Inv
  <2>3. UsersOK'
    BY <1>2, <2>1, RefusalOK, TellOK DEF Forwarded, Inv
  <2> QED BY <1>3, <2>2, <2>3, SameCaches DEF Forwarded, Inv
<1>5. CASE rem[b].sock # None
  <2> DEFINE ls == <<ForClient(Top.client)>>
             r == [rem[b] EXCEPT !.locals = ls]
  <2>1. /\ rem' = [rem EXCEPT ![b].locals = ls]
        /\ UNCHANGED <<sent, got>>
        /\ inflight' = IF MaxInflights > 1 /\ inflight[q] = None
                       THEN [inflight EXCEPT ![q] = b] ELSE inflight
    BY <1>5 DEF Forwarded
  <2>2. rem' = [rem EXCEPT ![b] = r]
    BY <2>1
  <2>3. ls \in Seq(Local)
    BY <1>2 DEF Local, ForClient
  <2>4. r \in Pending
    <3> HIDE DEF ls
    <3> QED BY <1>2, <2>3, FieldsOK DEF Inv
  <2>5. /\ r.query = rem[b].query /\ r.depth = rem[b].depth
        /\ r.live = rem[b].live /\ r.sock = rem[b].sock
    BY <1>2 DEF Inv, Pending
  <2> HIDE DEF r, ls
  <2>6. TableOK'
    BY <1>2, <2>1, <2>2, <2>4 DEF Inv, Forwarded
  <2>7. \A a \in Slot : /\ rem'[a].sock = rem[a].sock
                        /\ rem'[a].query = rem[a].query
                        /\ rem'[a].depth = rem[a].depth
                        /\ rem'[a].live = rem[a].live
    BY <1>2, <2>2, <2>5 DEF Inv
  <2>8. InflightPointsToQuery'
    BY <1>2, <2>1, <2>7 DEF InflightPointsToQuery, Inv
  <2>9. DepthBounded' /\ LiveHasQuery'
    BY <2>7 DEF DepthBounded, LiveHasQuery, Inv
  <2>10. SocketsOwned'
    BY <2>1, <2>7 DEF SocketsOwned, Inv
  <2> QED BY <1>3, <2>1, <2>6, <2>8, <2>9, <2>10, SameCaches, SameUsers
          DEF Forwarded, Inv, users
<1> QED BY <1>4, <1>5

(***************************************************************************)
(* A datagram comes from upstream.                                         *)
(***************************************************************************)
LEMMA ArrivesOK ==
  ASSUME Inv, NEW b \in Slot, NEW f \in Fd, Arrives(b, f)
  PROVE  TableInv' /\ CachesOK' /\ UsersOK'
<1>1. sent' \in [Fd -> {None} \union
                   [slot : Slot, lower : BOOLEAN, left : 0..MaxReplies]]
      /\ \A g \in Fd : sent'[g] # None =>
                       sent[g] # None /\ sent'[g].slot = sent[g].slot
  <2> DEFINE m == [sent[f] EXCEPT !.left = @ - 1]
  <2>1. CASE sent[f] = None
    <3>1. f \in Fd /\ sent \in [Fd -> {None} \union
                   [slot : Slot, lower : BOOLEAN, left : 0..MaxReplies]]
      BY DEF Inv
    <3>2. b_remote[b] = f /\ ~SelectFails
      BY DEF Arrives, Watchers, Lowest
    <3>3. FALSE
      BY <2>1, <3>1, <3>2, NoneApart DEF SelectFails
    <3> QED BY <3>3
  <2>2. CASE sent[f] # None
    <3>1. sent[f] \in [slot : Slot, lower : BOOLEAN, left : 0..MaxReplies]
      BY <2>2 DEF Inv
    <3>2. sent[f].left - 1 \in 0..MaxReplies
      BY <3>1, RemoteAssumption DEF Arrives
    <3>3. /\ m \in [slot : Slot, lower : BOOLEAN, left : 0..MaxReplies]
          /\ m.slot = sent[f].slot
      BY <3>1, <3>2
    <3>4. sent' = [sent EXCEPT ![f] = m]
      BY DEF Arrives
    <3> HIDE DEF m
    <3> QED BY <2>2, <3>3, <3>4 DEF Inv
  <2> QED BY <2>1, <2>2
<1>2. TableInv'
  BY <1>1 DEF Arrives, Inv, InflightPointsToQuery, SocketsOwned, DepthBounded,
              LiveHasQuery
<1> QED BY <1>2, SameCaches, SameUsers DEF Arrives, Inv

LEMMA ReceiveOK ==
  ASSUME Inv, NEW b \in Slot, NEW f \in Fd, Receive(b, f) PROVE Inv'
<1>1. TableInv' /\ CachesOK' /\ UsersOK'
  BY ArrivesOK DEF Receive
<1>2. sent[f] # None
  BY NoneApart DEF Receive, Arrives, SelectFails, Watchers, Lowest
<1>3. sent[f].lower \in BOOLEAN
  BY <1>2 DEF Inv
<1>4. PICK q \in Query, says \in Reply :
        stack' = <<ReplyFrame(b, 1, says, sent[f].lower, TRUE)>>
  BY RemoteAssumption DEF Receive
<1>5. ReplyFrame(b, 1, says, sent[f].lower, TRUE) \in Frame
  BY <1>3 DEF ReplyFrame, Frame
<1>6. stack' \in Seq(Frame)
  BY <1>4, <1>5, Alone
<1> QED BY <1>1, <1>6 DEF Inv

LEMMA ReceiveStrayOK ==
  ASSUME Inv, NEW b \in Slot, NEW f \in Fd, ReceiveStray(b, f) PROVE Inv'
BY ArrivesOK DEF ReceiveStray, Inv

\* What every round of the loop over the locals starts from.
LEMMA RoundOK ==
  ASSUME Inv, NEW says, Round(says) PROVE
    /\ Top.b \in Slot /\ Top.l \in Nat \ {0} /\ Top.says \in Reply
    /\ Rest \in Seq(Frame) /\ Continued \in Frame /\ Kept \in Frame
    /\ Top.l \in DOMAIN rem[Top.b].locals /\ This \in Local
    /\ Value \in Query \union {None, "negative"} /\ Value \in Got
    /\ rem[Top.b].query \in Query \union {None}
<1>1. stack \in Seq(Frame) /\ stack # << >> /\ Runs("reply") /\ Top.op = "reply"
  BY DEF Round, Runs, Inv
<1>2. Top.b \in Slot /\ Top.l \in Nat \ {0} /\ Top.says \in Reply
  BY <1>1, FrameOf
<1>3. Rest \in Seq(Frame) /\ Continued \in Frame /\ Kept \in Frame
  BY <1>1, Popped, ContinuedOK
<1>4. rem[Top.b] \in Pending
  BY <1>2 DEF Inv
<1>5. rem[Top.b].locals \in Seq(Local) /\ rem[Top.b].query \in Query \union {None}
  BY <1>4 DEF Pending
<1>6. Top.l \in DOMAIN rem[Top.b].locals /\ This \in Local
  BY <1>2, <1>5 DEF Round, This
<1> QED BY <1>2, <1>3, <1>5, <1>6 DEF Value, Got, Notice

LEMMA CalledOK ==
  ASSUME NEW f \in Frame, Rest \in Seq(Frame) PROVE
    <<f>> \o Rest \in Seq(Frame)
BY Pushed

LEMMA CalledTwoOK ==
  ASSUME NEW f \in Frame, NEW g \in Frame, Rest \in Seq(Frame) PROVE
    <<f, g>> \o Rest \in Seq(Frame)
BY Pushed

LEMMA ReplyBadOK == ASSUME Inv, ReplyBad PROVE Inv'
BY RoundOK, SameTable, SameCaches, SameUsers DEF ReplyBad, Return, Inv

LEMMA ReplyBadIpOK == ASSUME Inv, ReplyBadIp PROVE Inv'
<1>1. Top.b \in Slot /\ Rest \in Seq(Frame)
  BY RoundOK DEF ReplyBadIp
<1>2. TableInv'
  BY <1>1, ReleaseTable DEF ReplyBadIp, Inv
<1>3. UsersOK'
  BY TellOK DEF ReplyBadIp, Inv, Got, Notice
<1> QED BY <1>1, <1>2, <1>3, SameCaches DEF ReplyBadIp, Return, Inv

LEMMA ReplyReferOK == ASSUME Inv, ReplyRefer PROVE Inv'
<1> DEFINE b == Top.b
           r == [rem[b] EXCEPT !.sock = None]
<1>1. b \in Slot /\ Rest \in Seq(Frame) /\ Kept \in Frame
  BY RoundOK DEF ReplyRefer
<1>2. rem' = [rem EXCEPT ![b] = r]
  BY DEF ReplyRefer
<1>3. r \in Pending
  BY <1>1, FieldsOK DEF Inv
<1>4. r.query = rem[b].query /\ r.depth = rem[b].depth /\ r.live = rem[b].live
  BY <1>1 DEF Inv, Pending
<1>5. SomeClosed(rem[b].sock)
  BY ClosedIsSome DEF ReplyRefer, Inv
<1>6. b_remote' \in [Slot -> Fd \union {None}]
  BY <1>1 DEF ReplyRefer, Inv
<1>7. TableInv'
  <2> HIDE DEF r
  <2> QED BY <1>1, <1>2, <1>3, <1>4, <1>5, <1>6, AdjustTable DEF ReplyRefer, Inv
<1>8. stack' \in Seq(Frame)
  <2>1. ConnectFrame(b, TRUE) \in Frame
    BY <1>1, ConnectFrameOK
  <2> QED BY <1>1, <2>1, CalledTwoOK DEF ReplyRefer
<1> QED BY <1>7, <1>8, SameCaches, SameUsers DEF ReplyRefer, Inv

LEMMA ReplyCnameOK == ASSUME Inv, ReplyCname PROVE Inv'
<1> DEFINE b == Top.b
           t == Top.says
<1>1. /\ b \in Slot /\ Rest \in Seq(Frame) /\ Kept \in Frame
      /\ t \in Query /\ rem[b].query \in Query \union {None}
  BY RoundOK DEF ReplyCname, Round
<1>2. CachesOK'
  BY <1>1 DEF ReplyCname, Inv, CachesOK
<1>3. CASE Fresh(t)
  <2>1. CnameFrame(b, rem[b].query, cache[t], 0) \in Frame
    BY <1>1, CachedValue, CnameFrameOK DEF Inv
  <2>2. stack' \in Seq(Frame)
    BY <1>1, <1>3, <2>1, CalledTwoOK DEF ReplyCname
  <2> QED BY <1>2, <1>3, <2>2, SameTable, SameUsers DEF ReplyCname, Inv
<1>4. CASE ~Fresh(t)
  <2>1. <<Kept>> \o Rest \in Seq(Frame)
    BY <1>1, CalledOK
  <2>2. 2 \in {1, 2} /\ Spawn(b, t, 2, <<Kept>> \o Rest)
    BY <1>4 DEF ReplyCname
  <2>3. TableInv' /\ stack' \in Seq(Frame)
    BY <1>1, <2>1, <2>2, SpawnOK
  <2> QED BY <1>2, <2>3, SameUsers DEF ReplyCname, Inv
<1> QED BY <1>3, <1>4

LEMMA ReplyToClientOK == ASSUME Inv, ReplyToClient PROVE Inv'
<1>1. /\ Rest \in Seq(Frame) /\ Continued \in Frame
      /\ Value \in Query \union {None, "negative"} /\ Value \in Got
  BY RoundOK DEF ReplyToClient
<1>2. CachesOK'
  BY <1>1, CacheOK DEF ReplyToClient, Inv
<1>3. UsersOK'
  BY <1>1, TellOK DEF ReplyToClient, Inv
<1>4. stack' \in Seq(Frame)
  BY <1>1, CalledOK DEF ReplyToClient, Call
<1> QED BY <1>2, <1>3, <1>4, SameTable DEF ReplyToClient, Inv

LEMMA OutdatedOK ==
  ASSUME TableInv, NEW f, sent' = Outdated(f), UNCHANGED <<rem, b_remote, inflight>>
  PROVE  TableInv'
<1>1. \A g \in Fd : sent[g] # None =>
        /\ [sent[g] EXCEPT !.left = 0] \in
             [slot : Slot, lower : BOOLEAN, left : 0..MaxReplies]
        /\ [sent[g] EXCEPT !.left = 0].slot = sent[g].slot
  BY RemoteAssumption
<1>2. \A g \in Fd : sent'[g] # None =>
        sent[g] # None /\ sent'[g].slot = sent[g].slot
  BY <1>1 DEF Outdated
<1>3. sent' \in [Fd -> {None} \union
                   [slot : Slot, lower : BOOLEAN, left : 0..MaxReplies]]
  BY <1>1 DEF Outdated
<1> QED BY <1>2, <1>3 DEF InflightPointsToQuery, SocketsOwned, DepthBounded,
                          LiveHasQuery

LEMMA ReplyToNsParentOK == ASSUME Inv, ReplyToNsParent PROVE Inv'
<1>1. /\ Rest \in Seq(Frame) /\ Continued \in Frame /\ This \in Local
      /\ Value \in Query \union {None, "negative"}
  BY RoundOK DEF ReplyToNsParent
<1>2. This.conn \in Slot
  BY <1>1 DEF ReplyToNsParent, Local
<1>3. CachesOK'
  BY <1>1, CacheOK DEF ReplyToNsParent, Inv
<1>4. stack' \in Seq(Frame)
  BY <1>1, CalledOK DEF ReplyToNsParent, Call
<1>5. TableInv'
  <2>1. CASE UNCHANGED table
    BY <2>1, SameTable DEF Inv
  <2>2. CASE Dial(This.conn, TRUE)
    BY <1>2, <2>2, DialTable DEF Inv
  <2>3. CASE /\ sent' = Outdated(rem[This.conn].sock)
             /\ UNCHANGED <<rem, b_remote, inflight>>
    BY <2>3, OutdatedOK DEF Inv
  <2> QED BY <2>1, <2>2, <2>3 DEF ReplyToNsParent, table
<1> QED BY <1>3, <1>4, <1>5, SameUsers DEF ReplyToNsParent, Inv

LEMMA ReplyToCnameParentOK == ASSUME Inv, ReplyToCnameParent PROVE Inv'
<1> DEFINE p == This.conn
<1>1. /\ Rest \in Seq(Frame) /\ Continued \in Frame /\ This \in Local
      /\ Value \in Query \union {None, "negative"}
  BY RoundOK DEF ReplyToCnameParent
<1>2. p \in Slot
  BY <1>1 DEF ReplyToCnameParent, Local
<1>3. rem[p].query \in Query \union {None}
  BY <1>2 DEF Inv, Pending
<1>4. CachesOK'
  BY <1>1, CacheOK DEF ReplyToCnameParent, Inv
<1>5. CnameFrame(p, rem[p].query, Value, 0) \in Frame
  BY <1>1, <1>2, <1>3, CnameFrameOK
<1>6. stack' \in Seq(Frame)
  BY <1>1, <1>5, CalledOK, CalledTwoOK DEF ReplyToCnameParent, Call
<1> QED BY <1>4, <1>6, SameTable, SameUsers DEF ReplyToCnameParent, Inv

LEMMA ChasedOK ==
  ASSUME TableInv, NEW b \in Slot, NEW l \in DOMAIN rem[b].locals,
         rem[b].locals[l].type = 3,
         Chased(b, l), UNCHANGED <<b_remote, sent, inflight>>
  PROVE  TableInv'
<1> DEFINE m  == [rem[b].locals[l] EXCEPT !.type = 0]
           ls == [rem[b].locals EXCEPT ![l] = m]
           r  == [rem[b] EXCEPT !.locals = ls]
<1>1. rem[b].locals \in Seq(Local)
  BY DEF Pending
<1>2. m \in Local
  <2>1. rem[b].locals[l] \in
          [type : {3}, client : Client, conn : {None}, orig : Query]
    BY <1>1 DEF Local
  <2> QED BY <2>1 DEF Local
<1>3. ls \in Seq(Local)
  <2> HIDE DEF m
  <2> QED BY <1>1, <1>2
<1>4. r \in Pending
  <2> HIDE DEF ls
  <2> QED BY <1>3, FieldsOK
<1>5. rem' = [rem EXCEPT ![b] = r]
  BY DEF Chased
<1>6. /\ r.query = rem[b].query /\ r.depth = rem[b].depth
      /\ r.live = rem[b].live /\ r.sock = rem[b].sock
  BY DEF Pending
<1> HIDE DEF r
<1> QED BY <1>4, <1>5, <1>6, AdjustTable

LEMMA ReplyToChasedOK == ASSUME Inv, ReplyToChased PROVE Inv'
<1>1. /\ Top.b \in Slot /\ Top.l \in DOMAIN rem[Top.b].locals
      /\ Rest \in Seq(Frame) /\ Continued \in Frame /\ This \in Local
      /\ Value \in Query \union {None, "negative"}
  BY RoundOK DEF ReplyToChased
<1>2. This.orig \in Query
  BY <1>1 DEF ReplyToChased, Local
<1>3. CachesOK'
  BY <1>1, CacheOK DEF ReplyToChased, Inv
<1>4. TableInv'
  BY <1>1, ChasedOK DEF ReplyToChased, Inv, This
<1>5. CnameFrame(Top.b, This.orig, Value, 1) \in Frame
  BY <1>1, <1>2, CnameFrameOK
<1>6. stack' \in Seq(Frame)
  BY <1>1, <1>5, CalledTwoOK DEF ReplyToChased
<1> QED BY <1>3, <1>4, <1>6, SameUsers DEF ReplyToChased, Inv

LEMMA ReplyDoneOK == ASSUME Inv, ReplyDone PROVE Inv'
<1>1. stack \in Seq(Frame) /\ stack # << >> /\ Top.op = "reply"
  BY DEF Inv, ReplyDone, Runs
<1>2. Top.b \in Slot /\ stack' \in Seq(Frame)
  BY <1>1, FrameOf, Popped DEF ReplyDone, Return
<1>3. TableInv'
  BY <1>2, ReleaseTable, SameTable DEF ReplyDone, Inv
<1> QED BY <1>2, <1>3, SameCaches, SameUsers DEF ReplyDone, Inv

(***************************************************************************)
(* The answer to the target of a CNAME.                                    *)
(***************************************************************************)
LEMMA CnameReplyOK == ASSUME Inv, CnameReply PROVE Inv'
<1>1. stack \in Seq(Frame) /\ stack # << >> /\ Top.op = "cname"
  BY DEF Inv, CnameReply, Runs
<1>2. /\ Top.b \in Slot /\ Top.q \in Query \union {None} /\ Top.depth \in Nat
      /\ Top.value \in Query \union {None, "negative"} /\ Rest \in Seq(Frame)
  BY <1>1, FrameOf, Popped
<1>3. CASE CnameRefused(Top)
  BY <1>2, <1>3, SameTable, SameCaches, SameUsers DEF CnameReply, Inv, Return
<1>4. CASE ~CnameRefused(Top)
  <2> DEFINE f == [op |-> "send", b |-> Top.b, q |-> Top.q, l |-> 1,
                   value |-> Top.value, depth |-> Top.depth, whole |-> TRUE]
  <2>1. Top.q \in Query /\ Top.value \in Query
    BY <1>2, <1>4 DEF CnameRefused
  <2>2. f \in Frame
    BY <1>2, <2>1 DEF Frame
  <2>3. stack' = <<f>> \o Rest
    BY <1>4 DEF CnameReply, Call
  <2>4. stack' \in Seq(Frame)
    <3> HIDE DEF f
    <3> QED BY <1>2, <2>2, <2>3, CalledOK
  <2>5. CachesOK'
    BY <1>2, <1>4, CacheOK DEF CnameReply, Inv
  <2> QED BY <2>4, <2>5, SameTable, SameUsers DEF CnameReply, Inv
<1> QED BY <1>3, <1>4

LEMMA SendOK ==
  ASSUME Inv, NEW type, Sends(type) PROVE
    /\ Top.b \in Slot /\ Top.q \in Query /\ Top.value \in Query
    /\ Top.depth \in Nat /\ Rest \in Seq(Frame)
    /\ Continued \in Frame /\ [Continued EXCEPT !.whole = FALSE] \in Frame
    /\ Top.l \in DOMAIN rem[Top.b].locals /\ This \in Local /\ This.type = type
<1>1. stack \in Seq(Frame) /\ stack # << >> /\ Runs("send") /\ Top.op = "send"
  BY DEF Sends, Runs, Inv
<1>2. /\ Top.b \in Slot /\ Top.q \in Query /\ Top.value \in Query
      /\ Top.depth \in Nat /\ Top.l \in Nat \ {0}
  BY <1>1, FrameOf
<1>3. /\ Rest \in Seq(Frame) /\ Continued \in Frame
      /\ [Continued EXCEPT !.whole = FALSE] \in Frame
  BY <1>1, Popped, ContinuedOK
<1>4. rem[Top.b].locals \in Seq(Local)
  BY <1>2 DEF Inv, Pending
<1>5. Top.l \in DOMAIN rem[Top.b].locals /\ This \in Local /\ This.type = type
  BY <1>2, <1>4 DEF Sends, This
<1> QED BY <1>2, <1>3, <1>5

LEMMA SendToClientOK == ASSUME Inv, SendToClient PROVE Inv'
<1>1. /\ Top.q \in Query /\ Rest \in Seq(Frame)
      /\ [Continued EXCEPT !.whole = FALSE] \in Frame
  BY SendOK DEF SendToClient
<1>2. cache[Top.q] \in Got
  BY <1>1, CachedValue DEF Inv
<1>3. stack' \in Seq(Frame)
  BY <1>1, CalledOK DEF SendToClient, Call, Return
<1>4. CASE Tell({This.client}, cache[Top.q])
  BY <1>2, <1>3, <1>4, TellOK, SameTable, SameCaches DEF SendToClient, Inv
<1>5. CASE UNCHANGED got
  BY <1>3, <1>5, SameTable, SameCaches, SameUsers DEF SendToClient, Inv, users
<1> QED BY <1>4, <1>5 DEF SendToClient

LEMMA SendToNsParentOK == ASSUME Inv, SendToNsParent PROVE Inv'
<1>1. Rest \in Seq(Frame) /\ Continued \in Frame
  BY SendOK DEF SendToNsParent
<1>2. stack' \in Seq(Frame)
  BY <1>1, CalledOK DEF SendToNsParent, Call
<1> QED BY <1>2, SameTable, SameCaches, SameUsers DEF SendToNsParent, Inv

LEMMA SendToCnameParentOK == ASSUME Inv, SendToCnameParent PROVE Inv'
<1> DEFINE p == This.conn
<1>1. /\ Rest \in Seq(Frame) /\ Continued \in Frame /\ This \in Local
      /\ This.type = 2 /\ Top.value \in Query /\ Top.depth \in Nat
  BY SendOK DEF SendToCnameParent
<1>2. p \in Slot
  BY <1>1 DEF Local
<1>3. rem[p].query \in Query \union {None}
  BY <1>2 DEF Inv, Pending
<1>4. CnameFrame(p, rem[p].query, Top.value, Top.depth + 1) \in Frame
  <2>1. Top.depth + 1 \in Nat
    BY <1>1
  <2> QED BY <1>1, <1>2, <1>3, <2>1, CnameFrameOK
<1>5. stack' \in Seq(Frame)
  BY <1>1, <1>4, CalledOK, CalledTwoOK DEF SendToCnameParent, Call
<1> QED BY <1>5, SameTable, SameCaches, SameUsers DEF SendToCnameParent, Inv

LEMMA SendToChasedOK == ASSUME Inv, SendToChased PROVE Inv'
<1>1. /\ Top.b \in Slot /\ Top.q \in Query /\ Top.depth \in Nat
      /\ Top.l \in DOMAIN rem[Top.b].locals
      /\ Rest \in Seq(Frame) /\ Continued \in Frame /\ This \in Local
      /\ This.type = 3
  BY SendOK DEF SendToChased
<1>2. CASE Top.depth > MaxDepth
  <2>1. stack' \in Seq(Frame)
    BY <1>1, <1>2, CalledOK DEF SendToChased, Call
  <2> QED BY <1>2, <2>1, SameTable, SameCaches, SameUsers
          DEF SendToChased, Inv, table
<1>3. CASE ~(Top.depth > MaxDepth)
  <2>1. This.orig \in Query
    BY <1>1 DEF Local
  <2>2. CnameFrame(Top.b, This.orig, cache[Top.q], Top.depth + 1) \in Frame
    <3>1. Top.depth + 1 \in Nat
      BY <1>1
    <3> QED BY <1>1, <2>1, <3>1, CachedValue, CnameFrameOK DEF Inv
  <2>3. stack' \in Seq(Frame)
    BY <1>1, <1>3, <2>2, CalledTwoOK DEF SendToChased
  <2>4. TableInv'
    BY <1>1, <1>3, ChasedOK DEF SendToChased, Inv, This
  <2> QED BY <2>3, <2>4, SameCaches, SameUsers DEF SendToChased, Inv
<1> QED BY <1>2, <1>3

LEMMA SendDoneOK == ASSUME Inv, SendDone PROVE Inv'
<1>1. stack \in Seq(Frame) /\ stack # << >> /\ Top.op = "send"
  BY DEF Inv, SendDone, Runs
<1>2. Top.b \in Slot /\ stack' \in Seq(Frame)
  BY <1>1, FrameOf, Popped DEF SendDone, Return
<1>3. TableInv'
  BY <1>2, ReleaseTable DEF SendDone, Inv
<1> QED BY <1>2, <1>3, SameCaches, SameUsers DEF SendDone, Inv

(***************************************************************************)
(* Timeouts, time and clients.                                             *)
(***************************************************************************)
LEMMA RetryOK == ASSUME Inv, NEW b \in Slot, Retry(b) PROVE Inv'
<1> DEFINE r0 == [rem[b] EXCEPT !.retries = @ - 1]
           r == [r0 EXCEPT !.sock = None]
<1>1. rem[b].retries - 1 \in 0..NumRetries
  BY RemoteAssumption DEF Retry, Inv, Pending
<1>2. r0 \in Pending
  BY <1>1, FieldsOK DEF Inv
<1>3. r \in Pending
  <2> HIDE DEF r0
  <2> QED BY <1>2, FieldsOK
<1>4. r.query = rem[b].query /\ r.depth = rem[b].depth /\ r.live = rem[b].live
  BY DEF Inv, Pending
<1>5. rem' = [rem EXCEPT ![b] = r]
  BY DEF Retry
<1>6. SomeClosed(rem[b].sock)
  BY ClosedIsSome DEF Retry, Inv
<1>7. TableInv'
  <2> HIDE DEF r
  <2> QED BY <1>3, <1>4, <1>5, <1>6, AdjustTable DEF Retry, Inv
<1>8. ConnectFrame(b, TRUE) \in Frame
  BY ConnectFrameOK
<1>9. stack' \in Seq(Frame)
  BY <1>8, Alone DEF Retry
<1> QED BY <1>7, <1>9, SameCaches, SameUsers DEF Retry, Inv

LEMMA GivenUpOK ==
  ASSUME Inv, NEW b \in Slot, GivenUp(b) PROVE
    TableInv' /\ CachesOK' /\ stack' \in Seq(Frame) /\ rem[b].query \in Query
<1>1. SomeClosed(rem[b].sock)
  BY ClosedIsSome DEF GivenUp, Inv
<1>2. SomeZapped(rem[b].query)
  BY ZappedIsSome DEF GivenUp, Inv
<1>3. Blank.depth <= MaxDepth + 1 /\ ~Blank.live
  BY RemoteAssumption DEF Blank
<1>4. TableInv'
  BY <1>1, <1>2, <1>3, BlankOK, RenewTable DEF GivenUp, Inv
<1>5. rem[b].query \in Query
  BY DEF GivenUp, Expires, Inv, LiveHasQuery, Pending
<1> QED BY <1>4, <1>5, SameCaches DEF GivenUp, Inv

LEMMA ResurrectOK == ASSUME Inv, NEW b \in Slot, Resurrect(b) PROVE Inv'
<1>1. TableInv' /\ CachesOK' /\ stack' \in Seq(Frame) /\ rem[b].query \in Query
  BY GivenUpOK DEF Resurrect
<1>2. cache[rem[b].query] \in Got
  BY <1>1, CachedValue DEF Inv
<1>3. got' \in [Client -> Got]
  BY <1>2 DEF Resurrect, Got, Notice, Inv, UsersOK
<1> QED BY <1>1, <1>3 DEF Resurrect, GivenUp, Inv, UsersOK

LEMMA FailNoReplyOK == ASSUME Inv, NEW b \in Slot, FailNoReply(b) PROVE Inv'
<1>1. TableInv' /\ CachesOK' /\ stack' \in Seq(Frame)
  BY GivenUpOK DEF FailNoReply
<1>2. UsersOK'
  BY TellOK DEF FailNoReply, GivenUp, Inv, Got, Notice
<1> QED BY <1>1, <1>2 DEF Inv

LEMMA AgeOK == ASSUME Inv, NEW q \in Query, Age(q) PROVE Inv'
<1>1. CachesOK'
  BY DEF Age, Inv, CachesOK, caches
<1>2. TableInv'
  BY ZappedOK DEF Age, Inv, InflightPointsToQuery, SocketsOwned, DepthBounded,
                  LiveHasQuery
<1> QED BY <1>1, <1>2, SameUsers DEF Age, Inv

LEMMA LeaveOK == ASSUME Inv, NEW c \in Client, Leave(c) PROVE Inv'
BY SameTable, SameCaches DEF Leave, Inv, UsersOK, Got, Notice

LEMMA InitOK == ASSUME Init PROVE Inv
<1>1. TableOK
  BY BlankOK DEF Init
<1>2. InflightPointsToQuery /\ SocketsOwned /\ LiveHasQuery
  BY DEF Init, InflightPointsToQuery, SocketsOwned, LiveHasQuery, Blank
<1>3. DepthBounded
  BY RemoteAssumption DEF Init, DepthBounded, Blank
<1>4. CachesOK /\ UsersOK
  BY DEF Init, CachesOK, UsersOK, Got, Notice
<1> QED BY <1>1, <1>2, <1>3, <1>4 DEF Init, Inv

LEMMA NextOK == ASSUME Inv, [Next]_vars PROVE Inv'
<1>1. CASE Inner
  BY <1>1, ConnectOK, SpawnedOK, ForwardedOK, ReplyBadOK, ReplyBadIpOK,
     ReplyReferOK, ReplyCnameOK, ReplyToClientOK, ReplyToNsParentOK,
     ReplyToCnameParentOK, ReplyToChasedOK, ReplyDoneOK, CnameReplyOK,
     SendToClientOK, SendToNsParentOK, SendToCnameParentOK, SendToChasedOK,
     SendDoneOK DEF Inner
<1>2. ASSUME NEW c \in Client, NEW q \in Query,
             \/ AskCached(c, q) \/ AskChased(c, q)
             \/ AskAttach(c, q) \/ AskRefused(c, q)
             \/ \E lower \in Spellings : AskNew(c, q, lower)
      PROVE  Inv'
  BY <1>2, AskCachedOK, AskChasedOK, AskAttachOK, AskRefusedOK, AskNewOK,
     RemoteAssumption
<1>3. ASSUME NEW b \in Slot, NEW f \in Fd, Receive(b, f) \/ ReceiveStray(b, f)
      PROVE  Inv'
  BY <1>3, ReceiveOK, ReceiveStrayOK
<1>4. ASSUME NEW b \in Slot, Timeout(b) PROVE Inv'
  BY <1>4, RetryOK, ResurrectOK, FailNoReplyOK DEF Timeout
<1>5. ASSUME NEW q \in Query, Age(q) PROVE Inv'
  BY <1>5, AgeOK
<1>6. ASSUME NEW c \in Client, Leave(c) PROVE Inv'
  BY <1>6, LeaveOK
<1>7. CASE UNCHANGED vars
  BY <1>7, SameTable, SameCaches, SameUsers DEF vars, Inv
<1> QED BY <1>1, <1>2, <1>3, <1>4, <1>5, <1>6, <1>7 DEF Next

LEMMA InvAlways == Spec => []Inv
BY InitOK, NextOK, PTL DEF Spec

(***************************************************************************)
(* find_inflight_query, reset_rem and the recursion limits: whatever the   *)
(* number of slots, clients and replies, the inflight hash names slots of  *)
(* the right query, no open socket is lost and children end.  Everything   *)
(* keeps its type: the timeout never answers from a slot with no query.    *)
(***************************************************************************)
THEOREM TableInvariant ==
  Spec => []( /\ TypeOK /\ InflightPointsToQuery /\ SocketsOwned
              /\ DepthBounded)
<1>1. Inv => TypeOK /\ InflightPointsToQuery /\ SocketsOwned /\ DepthBounded
  BY DEF Inv, TypeOK, CachesOK, UsersOK, Got, Notice
<1> QED BY <1>1, InvAlways, PTL

-----------------------------------------------------------------------------
(***************************************************************************)
(* Children and parents.  What a slot expects of its child is known to the *)
(* frames that were running when the child was made, so the invariant is   *)
(* about the table and the whole stack.                                    *)
(***************************************************************************)
\* What a slot b waits for is what the query of its slot p needs: t is 1 for
\* the address of a name server, 2 for the target of a CNAME.
Needs(r, p, b, t) ==
  /\ t = 1 => r[b].query \in NsOf[r[p].query]
  /\ t = 2 => r[b].query \in Says[r[p].query]
  /\ t \in {1, 2}

\* ChildServesParent, of the slots r.
Kin(r) ==
  \A p, b \in Slot : r[p].child = b =>
    \A l \in DOMAIN r[b].locals :
      r[b].locals[l].conn = p => Needs(r, p, b, r[b].locals[l].type)

\* A slot that is not live is as reset_rem leaves it, but for its query.
Used(r) ==
  \A b \in Slot :
    r[b].sock # None \/ r[b].child # None \/ r[b].locals # << >> => r[b].live

\* What a call in progress relies on.
FrameServes(r, f) ==
  /\ f.op = "connect" => r[f.b].live
  /\ f.op = "spawned" =>
       /\ r[f.b].live /\ r[f.n].live
       /\ r[f.n].locals = << >>
       /\ f.n # f.b
       /\ Needs(r, f.b, f.n, f.type)
  /\ f.op = "reply" /\ f.says \in Query /\ r[f.b].locals # << >> =>
       f.says \in Says[r[f.b].query]

\* Which call may be in progress inside which, f inside g, and that the slot
\* f has made is none that g works on.
PairServes(r, f, g) ==
  /\ \/ f.op \in {"connect", "spawned"} /\ g.op \in {"spawned", "forwarded", "reply"}
     \/ f.op \in {"cname", "send"} /\ g.op \in {"send", "reply"}
  /\ f.op \in {"connect", "spawned"} => r[g.b].live
  /\ f.op = "spawned" => f.n # g.b
  /\ f.op = "spawned" /\ g.op = "spawned" => f.n # g.n

Serves(r, s) ==
  /\ \A i \in 1..Len(s) : FrameServes(r, s[i])
  /\ \A j \in 1..Len(s) : \A i \in 1..(j - 1) : PairServes(r, s[i], s[j])

Serving == Used(rem) /\ Kin(rem) /\ Serves(rem, stack)

HIDE DEF TableInv, TableOK

LEMMA RemTyped == ASSUME Inv PROVE rem \in [Slot -> Pending]
BY DEF Inv, TableInv, TableOK

\* The slots that a frame names.
Named(f) == {f.b} \union (IF f.op = "spawned" THEN {f.n} ELSE {})

LEMMA NamedSlots ==
  ASSUME NEW f \in Frame PROVE
    /\ f.b \in Slot
    /\ f.op = "spawned" => f.n \in Slot /\ f.type \in {1, 2}
BY DEF Frame

\* Slots of which nothing changes that children and parents rely on.
SameKin(r, r2, a) ==
  /\ r2[a].child = r[a].child /\ r2[a].query = r[a].query
  /\ r2[a].locals = r[a].locals /\ r2[a].live = r[a].live

LEMMA KinSame ==
  ASSUME NEW r, NEW r2, Kin(r), \A a \in Slot : SameKin(r, r2, a) PROVE Kin(r2)
BY DEF Kin, Needs, SameKin

\* A slot that starts again expects no child and serves no parent.
LEMMA KinRenew ==
  ASSUME NEW r \in [Slot -> Pending], NEW b \in Slot, NEW x \in Pending,
         x.child = None, \A l \in DOMAIN x.locals : x.locals[l].conn = None,
         Kin(r)
  PROVE  Kin([r EXCEPT ![b] = x])
BY NoneApart DEF Kin, Needs

\* A slot gets other clients, and keeps what it waits for.
LEMMA KinLocals ==
  ASSUME NEW r \in [Slot -> Pending], NEW b \in Slot, NEW x \in Pending,
         x.child = r[b].child, x.query = r[b].query,
         \A l \in DOMAIN x.locals :
           \/ x.locals[l].conn = None
           \/ l \in DOMAIN r[b].locals /\ x.locals[l] = r[b].locals[l],
         Kin(r)
  PROVE  Kin([r EXCEPT ![b] = x])
BY NoneApart DEF Kin, Needs

LEMMA UsedRenew ==
  ASSUME NEW r \in [Slot -> Pending], NEW b \in Slot, NEW x \in Pending,
         \/ x.sock = None /\ x.child = None /\ x.locals = << >>
         \/ x.live,
         Used(r)
  PROVE  Used([r EXCEPT ![b] = x])
BY DEF Used

\* A change to slots that no frame names.
LEMMA ServesElse ==
  ASSUME NEW r, NEW r2, NEW s \in Seq(Frame), Serves(r, s),
         \A j \in 1..Len(s) : \A a \in Named(s[j]) : SameKin(r, r2, a)
  PROVE  Serves(r2, s)
<1>1. \A j \in 1..Len(s) : s[j] \in Frame
  OBVIOUS
<1>2. ASSUME NEW j \in 1..Len(s) PROVE FrameServes(r2, s[j])
  <2>1. FrameServes(r, s[j]) /\ SameKin(r, r2, s[j].b)
    BY DEF Serves, Named
  <2>2. s[j].op = "spawned" => SameKin(r, r2, s[j].n)
    BY DEF Named
  <2> QED BY <2>1, <2>2 DEF FrameServes, SameKin, Needs
<1>3. ASSUME NEW j \in 1..Len(s), NEW i \in 1..(j - 1)
      PROVE  PairServes(r2, s[i], s[j])
  <2>1. PairServes(r, s[i], s[j]) /\ SameKin(r, r2, s[j].b)
    BY DEF Serves, Named
  <2> QED BY <2>1 DEF PairServes, SameKin
<1> QED BY <1>2, <1>3 DEF Serves

LEMMA ServesSame ==
  ASSUME NEW r, NEW r2, NEW s \in Seq(Frame), Serves(r, s),
         \A a \in Slot : SameKin(r, r2, a)
  PROVE  Serves(r2, s)
<1>1. ASSUME NEW j \in 1..Len(s), NEW a \in Named(s[j]) PROVE a \in Slot
  <2>1. s[j] \in Frame
    OBVIOUS
  <2> QED BY <2>1, NamedSlots DEF Named
<1> QED BY <1>1, ServesElse

\* Once the calls that make children are over, a slot may be reset.
LEMMA ServesLoose ==
  ASSUME NEW r, NEW r2, NEW s \in Seq(Frame), Serves(r, s),
         \A j \in 1..Len(s) : s[j].op \in {"cname", "send", "reply"},
         \A a \in Slot : r2[a].locals # << >> =>
           r[a].locals # << >> /\ r2[a].query = r[a].query
  PROVE  Serves(r2, s)
<1>1. ASSUME NEW j \in 1..Len(s) PROVE FrameServes(r2, s[j])
  <2>1. FrameServes(r, s[j]) /\ s[j] \in Frame
    BY DEF Serves
  <2>2. s[j].b \in Slot
    BY <2>1, NamedSlots
  <2> QED BY <2>1, <2>2 DEF FrameServes
<1>2. ASSUME NEW j \in 1..Len(s), NEW i \in 1..(j - 1)
      PROVE  PairServes(r2, s[i], s[j])
  <2>1. PairServes(r, s[i], s[j]) /\ i \in 1..Len(s)
    BY DEF Serves
  <2>2. s[i].op \in {"cname", "send", "reply"}
    BY <2>1
  <2> QED BY <2>1, <2>2 DEF PairServes
<1> QED BY <1>1, <1>2 DEF Serves

LEMMA ServesNothing == ASSUME NEW r PROVE Serves(r, << >>)
BY DEF Serves

LEMMA PushedFrames ==
  ASSUME NEW s \in Seq(Frame), NEW f \in Frame PROVE
    /\ <<f>> \o s \in Seq(Frame) /\ Len(<<f>> \o s) = Len(s) + 1
    /\ (<<f>> \o s)[1] = f
    /\ \A j \in 1..Len(s) : (<<f>> \o s)[j + 1] = s[j]
    /\ \A j \in 1..(Len(s) + 1) : j # 1 =>
         j - 1 \in 1..Len(s) /\ (<<f>> \o s)[j] = s[j - 1]
<1>1. <<f>> \in Seq(Frame) /\ Len(<<f>>) = 1 /\ <<f>>[1] = f
  OBVIOUS
<1> DEFINE e == <<f>>
<1> HIDE DEF e
<1>2. /\ e \o s \in Seq(Frame) /\ Len(e \o s) = Len(e) + Len(s)
      /\ \A i \in 1..(Len(e) + Len(s)) :
           (e \o s)[i] = IF i <= Len(e) THEN e[i] ELSE s[i - Len(e)]
  BY <1>1, ConcatProperties DEF e
<1>3. e \in Seq(Frame) /\ Len(e) = 1 /\ e[1] = f /\ Len(s) \in Nat
  BY <1>1 DEF e
<1>4. \A j \in 1..(Len(s) + 1) : (e \o s)[j] = IF j <= 1 THEN e[j] ELSE s[j - 1]
  BY <1>2, <1>3
<1> DEFINE n == Len(s)
           t == e \o s
<1> HIDE DEF n, t
<1>5. ASSUME NEW j \in 1..Len(s) PROVE t[j + 1] = s[j]
  <2>1. j + 1 \in 1..(Len(s) + 1) /\ ~(j + 1 <= 1) /\ (j + 1) - 1 = j
    <3>1. n \in Nat /\ j \in 1..n
      BY <1>3 DEF n
    <3>2. j + 1 \in 1..(n + 1) /\ ~(j + 1 <= 1) /\ (j + 1) - 1 = j
      BY <3>1
    <3> QED BY <3>2 DEF n
  <2>2. t[j + 1] = s[(j + 1) - 1]
    BY <1>4, <2>1 DEF t
  <2> QED BY <2>1, <2>2
<1>6. ASSUME NEW j \in 1..(Len(s) + 1), j # 1
      PROVE  j - 1 \in 1..Len(s) /\ t[j] = s[j - 1]
  <2>1. j - 1 \in 1..Len(s) /\ ~(j <= 1)
    <3>1. n \in Nat /\ j \in 1..(n + 1)
      BY <1>3 DEF n
    <3>2. j - 1 \in 1..n /\ ~(j <= 1)
      BY <3>1, <1>6
    <3> QED BY <3>2 DEF n
  <2> QED BY <1>4, <2>1 DEF t
<1>7. (e \o s)[1] = f /\ Len(e \o s) = Len(s) + 1
  BY <1>2, <1>3, <1>4
<1> QED BY <1>2, <1>5, <1>6, <1>7 DEF e, t

LEMMA ServesPush ==
  ASSUME NEW r, NEW s \in Seq(Frame), NEW f \in Frame, FrameServes(r, f),
         \A j \in 1..Len(s) : PairServes(r, f, s[j]), Serves(r, s)
  PROVE  Serves(r, <<f>> \o s)
<1> DEFINE t == <<f>> \o s
<1>1. /\ Len(t) = Len(s) + 1 /\ t[1] = f /\ Len(s) \in Nat
      /\ \A j \in 1..(Len(s) + 1) : j # 1 =>
           j - 1 \in 1..Len(s) /\ t[j] = s[j - 1]
  BY PushedFrames
<1> HIDE DEF t
<1>2. ASSUME NEW j \in 1..Len(t) PROVE FrameServes(r, t[j])
  BY <1>1 DEF Serves
<1>3. ASSUME NEW j \in 1..Len(t), NEW i \in 1..(j - 1)
      PROVE  PairServes(r, t[i], t[j])
  <2>1. j # 1 /\ j - 1 \in 1..Len(s) /\ t[j] = s[j - 1]
    BY <1>1
  <2>2. CASE i = 1
    BY <1>1, <2>1, <2>2
  <2>3. CASE i # 1
    <3>1. i \in 1..(Len(s) + 1) /\ i - 1 \in 1..((j - 1) - 1)
      BY <1>1, <2>1, <2>3
    <3>2. t[i] = s[i - 1]
      BY <1>1, <2>3, <3>1
    <3> QED BY <2>1, <3>1, <3>2 DEF Serves
  <2> QED BY <2>2, <2>3
<1> QED BY <1>2, <1>3 DEF Serves, t

LEMMA TailFrames ==
  ASSUME NEW s \in Seq(Frame), s # << >> PROVE
    /\ Tail(s) \in Seq(Frame) /\ Len(s) \in Nat /\ Len(s) >= 1
    /\ Len(Tail(s)) = Len(s) - 1
    /\ \A j \in 1..(Len(s) - 1) : Tail(s)[j] = s[j + 1]
    /\ Head(s) = s[1] /\ s[1] \in Frame
<1>1. Len(s) \in Nat /\ Len(s) >= 1 /\ Head(s) = s[1]
  OBVIOUS
<1>2. Tail(s) \in Seq(Frame) /\ Len(Tail(s)) = Len(s) - 1
  BY HeadTailProperties
<1>3. \A j \in 1..(Len(s) - 1) : Tail(s)[j] = s[j + 1]
  OBVIOUS
<1>4. s[1] \in Frame
  BY <1>1
<1> QED BY <1>1, <1>2, <1>3, <1>4

LEMMA ServesTop ==
  ASSUME NEW r, stack \in Seq(Frame), stack # << >>, Serves(r, stack) PROVE
    /\ FrameServes(r, Top) /\ Serves(r, Rest)
    /\ \A j \in 1..Len(Rest) : PairServes(r, Top, Rest[j])
<1>1. /\ Len(stack) \in Nat /\ Len(stack) >= 1 /\ Len(Rest) = Len(stack) - 1
      /\ \A j \in 1..(Len(stack) - 1) : Rest[j] = stack[j + 1]
      /\ Top = stack[1]
  BY TailFrames DEF Rest, Top
<1>2. FrameServes(r, Top)
  BY <1>1 DEF Serves
<1>3. ASSUME NEW j \in 1..Len(Rest)
      PROVE  FrameServes(r, Rest[j]) /\ PairServes(r, Top, Rest[j])
  <2>1. j + 1 \in 1..Len(stack) /\ 1 \in 1..((j + 1) - 1) /\ Rest[j] = stack[j + 1]
    BY <1>1
  <2> QED BY <1>1, <2>1 DEF Serves
<1>4. ASSUME NEW j \in 1..Len(Rest), NEW i \in 1..(j - 1)
      PROVE  PairServes(r, Rest[i], Rest[j])
  <2>1. /\ j + 1 \in 1..Len(stack) /\ i + 1 \in 1..((j + 1) - 1)
        /\ Rest[j] = stack[j + 1] /\ Rest[i] = stack[i + 1]
    <3>1. j \in 1..(Len(stack) - 1) /\ i \in 1..(Len(stack) - 1)
      BY <1>1
    <3>2. j + 1 \in 1..Len(stack) /\ i + 1 \in 1..((j + 1) - 1)
      BY <1>1, <3>1
    <3> QED BY <1>1, <3>1, <3>2
  <2> QED BY <2>1 DEF Serves
<1> QED BY <1>2, <1>3, <1>4 DEF Serves

\* A handler that packets and clients start, and the loop over the locals,
\* have no caller.
LEMMA Outermost ==
  ASSUME stack \in Seq(Frame), stack # << >>, NEW r, Serves(r, stack),
         Top.op \in {"forwarded", "reply"}
  PROVE  Rest = << >>
<1>1. \A j \in 1..Len(Rest) : PairServes(r, Top, Rest[j])
  BY ServesTop
<1>2. ~\E j \in 1..Len(Rest) : TRUE
  BY <1>1 DEF PairServes
<1>3. Rest \in Seq(Frame) /\ Len(Rest) \in Nat
  BY TailFrames DEF Rest
<1>4. Len(Rest) = 0
  BY <1>2, <1>3
<1> QED BY <1>3, <1>4

\* What a socket gives to the rest: nothing but its slot's socket changes.
LEMMA DialSame ==
  ASSUME Inv, NEW b \in Slot, NEW lower, Dial(b, lower) PROVE
    /\ \A a \in Slot : SameKin(rem, rem', a)
    /\ \A a \in Slot : a # b => rem'[a].sock = rem[a].sock
<1>1. CASE UNCHANGED table
  BY <1>1 DEF SameKin, table
<1>2. CASE \E f \in Lowest(Closed) : rem' = [rem EXCEPT ![b].sock = f]
  <2>1. PICK f : rem' = [rem EXCEPT ![b].sock = f]
    BY <1>2
  <2>2. \A a \in Slot : a # b => rem'[a] = rem[a]
    BY <2>1, RemTyped
  <2>3. rem'[b] = [rem[b] EXCEPT !.sock = f] /\ rem[b] \in Pending
    BY <2>1, RemTyped
  <2>4. SameKin(rem, rem', b)
    BY <2>3 DEF SameKin, Pending
  <2> QED BY <2>2, <2>4 DEF SameKin
<1> QED BY <1>1, <1>2 DEF Dial

LEMMA UsedSame ==
  ASSUME NEW r, NEW r2, NEW b \in Slot, Used(r), r[b].live,
         \A a \in Slot : SameKin(r, r2, a),
         \A a \in Slot : a # b => r2[a].sock = r[a].sock
  PROVE  Used(r2)
BY DEF Used, SameKin

\* A child is made for what its parent needs.
LEMMA SpawnServes ==
  ASSUME Inv, Serving, NEW b \in Slot, NEW q \in Query, NEW type \in {1, 2},
         NEW then \in Seq(Frame), Spawn(b, q, type, then),
         rem[b].live,
         type = 1 => q \in NsOf[rem[b].query],
         type = 2 => q \in Says[rem[b].query],
         Serves(rem, then),
         \A j \in 1..Len(then) :
           /\ then[j].op \in {"spawned", "forwarded", "reply"}
           /\ rem[then[j].b].live
  PROVE  Serving'
<1>1. CASE Free = {} \/ rem[b].depth > MaxDepth
  BY <1>1 DEF Spawn, Serving, table
<1>2. CASE ~(Free = {} \/ rem[b].depth > MaxDepth)
  <2> DEFINE x == [Blank EXCEPT !.query = q, !.live = TRUE,
                                !.depth = rem[b].depth + 1]
  <2>1. PICK n \in Lowest(Free) :
          /\ rem' = [rem EXCEPT ![n] = x]
          /\ stack' = <<ConnectFrame(n, TRUE),
                        [op |-> "spawned", b |-> b, n |-> n, type |-> type]>>
                      \o then
    BY <1>2 DEF Spawn
  <2>2. n \in Slot /\ rem[n].sock = None /\ ~rem[n].live
    BY LowestIn DEF Free
  <2>3. rem[b].depth + 1 \in Nat
    BY RemTyped DEF Pending
  <2>4. /\ x \in Pending /\ x.live /\ x.query = q /\ x.sock = None
        /\ x.child = None /\ x.locals = << >>
    <3>1. x \in Pending
      BY <2>3, UsedOK, Zenon
    <3>2. /\ x.live /\ x.query = q /\ x.sock = None
          /\ x.child = None /\ x.locals = << >>
      BY DEF Blank
    <3> HIDE DEF x
    <3> QED BY <3>1, <3>2
  <2> HIDE DEF x
  <2>5. \A a \in Slot : a # n => rem'[a] = rem[a]
    BY <2>1, RemTyped
  <2>6. rem'[n] = x
    BY <2>1, <2>2, RemTyped
  <2>7. Used(rem')
    BY <2>1, <2>2, <2>4, RemTyped, UsedRenew DEF Serving
  <2>8. Kin(rem')
    <3>1. \A l \in DOMAIN x.locals : x.locals[l].conn = None
      BY <2>4
    <3> QED BY <2>1, <2>2, <2>4, <3>1, RemTyped, KinRenew DEF Serving
  <2> DEFINE g == [op |-> "spawned", b |-> b, n |-> n, type |-> type]
             f == ConnectFrame(n, TRUE)
  <2>9. g \in Frame /\ f \in Frame /\ g.op = "spawned" /\ g.b = b /\ g.n = n
        /\ g.type = type /\ f.op = "connect" /\ f.b = n
    BY <2>2, ConnectFrameOK DEF Frame, ConnectFrame
  <2>10. stack' = <<f, g>> \o then
    BY <2>1
  <2> HIDE DEF f, g
  <2>11. ASSUME NEW j \in 1..Len(then)
         PROVE  /\ then[j].b \in Slot /\ then[j].b # n
                /\ then[j].op = "spawned" => then[j].n \in Slot /\ then[j].n # n
    <3>1. then[j] \in Frame /\ rem[then[j].b].live /\ FrameServes(rem, then[j])
      BY DEF Serves
    <3> QED BY <2>2, <3>1, NamedSlots DEF FrameServes
  <2>12. Serves(rem', then)
    <3>1. \A j \in 1..Len(then) : \A a \in Named(then[j]) : SameKin(rem, rem', a)
      BY <2>5, <2>11 DEF Named, SameKin
    <3> QED BY <3>1, ServesElse
  <2>13. FrameServes(rem', g)
    BY <2>2, <2>4, <2>5, <2>6, <2>9 DEF FrameServes, Needs
  <2>14. \A j \in 1..Len(then) : PairServes(rem', g, then[j])
    BY <2>5, <2>9, <2>11 DEF PairServes
  <2> DEFINE s == <<g>> \o then
  <2>15. s \in Seq(Frame) /\ Serves(rem', s)
    BY <2>9, <2>12, <2>13, <2>14, ServesPush, PushedFrames
  <2>16. FrameServes(rem', f)
    BY <2>4, <2>6, <2>9 DEF FrameServes
  <2>17. \A j \in 1..Len(s) : PairServes(rem', f, s[j])
    <3>1. /\ Len(s) = Len(then) + 1 /\ s[1] = g
          /\ \A j \in 1..(Len(then) + 1) : j # 1 =>
               j - 1 \in 1..Len(then) /\ s[j] = then[j - 1]
      BY <2>9, PushedFrames
    <3>2. b # n /\ rem'[b].live
      BY <2>2, <2>5
    <3>3. PairServes(rem', f, g)
      BY <2>9, <3>2 DEF PairServes
    <3>4. \A j \in 1..Len(then) : PairServes(rem', f, then[j])
      BY <2>5, <2>9, <2>11 DEF PairServes
    <3> HIDE DEF s
    <3> QED BY <3>1, <3>3, <3>4
  <2>18. Serves(rem', <<f>> \o s)
    <3> HIDE DEF s
    <3> QED BY <2>9, <2>15, <2>16, <2>17, ServesPush
  <2>19. <<f>> \o s = <<f, g>> \o then
    <3> DEFINE e == <<f>>
               h == <<g>>
    <3>1. <<f, g>> = e \o h /\ e \in Seq(Frame) /\ h \in Seq(Frame)
      BY <2>9
    <3> HIDE DEF e, h
    <3>2. (e \o h) \o then = e \o (h \o then)
      BY <3>1, ConcatAssociative
    <3> QED BY <3>1, <3>2 DEF e, h
  <2> QED BY <2>7, <2>8, <2>10, <2>18, <2>19 DEF Serving
<1> QED BY <1>1, <1>2

LEMMA ConnectServes == ASSUME Inv, Serving, Connect PROVE Serving'
<1>1. stack \in Seq(Frame) /\ stack # << >> /\ Top.op = "connect"
  BY DEF Inv, Connect, Runs
<1>2. Top.b \in Slot /\ Rest \in Seq(Frame)
  BY <1>1, FrameOf, Popped
<1>3. /\ FrameServes(rem, Top) /\ Serves(rem, Rest)
      /\ \A j \in 1..Len(Rest) : PairServes(rem, Top, Rest[j])
  BY <1>1, ServesTop DEF Serving
<1>4. rem[Top.b].live
  BY <1>1, <1>3 DEF FrameServes
<1>5. CASE Return /\ UNCHANGED table
  BY <1>3, <1>5 DEF Serving, Return, table
<1>6. CASE Return /\ Dial(Top.b, Top.lower)
  <2>1. /\ \A a \in Slot : SameKin(rem, rem', a)
        /\ \A a \in Slot : a # Top.b => rem'[a].sock = rem[a].sock
    BY <1>2, <1>6, DialSame
  <2>2. Used(rem') /\ Kin(rem') /\ Serves(rem', Rest)
    BY <1>2, <1>3, <1>4, <2>1, UsedSame, KinSame, ServesSame DEF Serving
  <2> QED BY <1>6, <2>2 DEF Serving, Return
<1>7. CASE \E ns \in NsOf[rem[Top.b].query] :
             ns \in Query /\ Spawn(Top.b, ns, 1, Rest)
  <2>1. PICK ns \in NsOf[rem[Top.b].query] :
             ns \in Query /\ Spawn(Top.b, ns, 1, Rest)
    BY <1>7
  <2>2. \A j \in 1..Len(Rest) :
           /\ Rest[j].op \in {"spawned", "forwarded", "reply"}
           /\ rem[Rest[j].b].live
    BY <1>1, <1>3 DEF PairServes
  <2> QED BY <1>2, <1>3, <1>4, <2>1, <2>2, SpawnServes
<1> QED BY <1>5, <1>6, <1>7 DEF Connect

LEMMA SpawnedServes == ASSUME Inv, Serving, Spawned PROVE Serving'
<1> DEFINE b == Top.b
           n == Top.n
           mid == [rem EXCEPT ![b].child = n]
<1>1. stack \in Seq(Frame) /\ stack # << >> /\ Top.op = "spawned"
  BY DEF Inv, Spawned, Runs
<1>2. /\ b \in Slot /\ n \in Slot /\ Top.type \in {1, 2} /\ Rest \in Seq(Frame)
  BY <1>1, FrameOf, Popped
<1>3. /\ FrameServes(rem, Top) /\ Serves(rem, Rest)
      /\ \A j \in 1..Len(Rest) : PairServes(rem, Top, Rest[j])
  BY <1>1, ServesTop DEF Serving
<1>4. /\ rem[b].live /\ rem[n].live /\ rem[n].locals = << >> /\ n # b
      /\ Needs(rem, b, n, Top.type)
  BY <1>1, <1>3 DEF FrameServes
<1>5. \A a \in Slot : a # b => mid[a] = rem[a]
  BY <1>2, RemTyped
<1>6. mid[b] = [rem[b] EXCEPT !.child = n] /\ mid \in [Slot -> Pending]
  BY <1>2, RemTyped, FieldsOK
<1>7. /\ mid[b].child = n /\ mid[b].query = rem[b].query
      /\ mid[b].locals = rem[b].locals /\ mid[b].live = rem[b].live
      /\ mid[b].sock = rem[b].sock
  BY <1>2, <1>6, RemTyped DEF Pending
<1> HIDE DEF mid
<1>8. \A a \in Slot : a # n =>
        /\ rem'[a].query = rem[a].query /\ rem'[a].locals = rem[a].locals
        /\ rem'[a].live = rem[a].live
        /\ rem'[a].child = IF a = b THEN n ELSE rem[a].child
  BY <1>2, <1>4, <1>5, <1>6, <1>7 DEF Spawned, mid
<1>9. Serves(rem', Rest)
  <2>1. ASSUME NEW j \in 1..Len(Rest) PROVE FrameServes(rem', Rest[j])
    <3>1. /\ Rest[j] \in Frame /\ FrameServes(rem, Rest[j])
          /\ PairServes(rem, Top, Rest[j])
      BY <1>2, <1>3 DEF Serves
    <3>2. /\ Rest[j].b \in Slot /\ Rest[j].b # n
          /\ Rest[j].op = "spawned" => Rest[j].n \in Slot /\ Rest[j].n # n
      BY <1>1, <3>1, NamedSlots DEF PairServes
    <3> QED BY <1>8, <3>1, <3>2 DEF FrameServes, Needs
  <2>2. ASSUME NEW j \in 1..Len(Rest), NEW i \in 1..(j - 1)
        PROVE  PairServes(rem', Rest[i], Rest[j])
    <3>1. /\ Rest[j] \in Frame /\ PairServes(rem, Rest[i], Rest[j])
          /\ PairServes(rem, Top, Rest[j])
      BY <1>2, <1>3 DEF Serves
    <3>2. Rest[j].b \in Slot /\ Rest[j].b # n
      BY <1>1, <3>1, NamedSlots DEF PairServes
    <3> QED BY <1>8, <3>1, <3>2 DEF PairServes
  <2> QED BY <2>1, <2>2 DEF Serves
<1>10. Used(rem') /\ Kin(rem')
  <2>1. CASE rem[n].sock = None
    <3>1. rem'[n] = Blank
      BY <1>2, <1>6, <2>1 DEF Spawned, mid
    <3>2. /\ rem'[n].child = None /\ rem'[n].locals = << >> /\ rem'[n].sock = None
      BY <3>1 DEF Blank
    <3>3. \A a \in Slot : a # n => rem'[a].sock = rem[a].sock
      BY <1>2, <1>5, <1>6, <1>7, <2>1 DEF Spawned, mid
    <3>4. Used(rem')
      BY <1>4, <1>8, <3>2, <3>3 DEF Used, Serving
    <3>5. Kin(rem')
      BY <1>2, <1>8, <3>2, NoneApart DEF Kin, Needs, Serving
    <3> QED BY <3>4, <3>5
  <2>2. CASE rem[n].sock # None
    <3> DEFINE ls == <<ForParent(b, Top.type)>>
    <3>1. rem' = [mid EXCEPT ![n].locals = ls]
      BY <2>2 DEF Spawned, mid
    <3>2. DOMAIN ls = {1} /\ ls[1].conn = b /\ ls[1].type = Top.type
      BY DEF ForParent
    <3> HIDE DEF ls
    <3>3. /\ mid[n] = rem[n] /\ rem[n] \in Pending
      BY <1>2, <1>4, <1>5, RemTyped
    <3>4. /\ rem'[n].locals = ls /\ rem'[n].query = rem[n].query
          /\ rem'[n].live /\ rem'[n].child = rem[n].child
          /\ rem'[n].sock = rem[n].sock
      BY <1>2, <1>4, <1>6, <3>1, <3>3 DEF Pending
    <3>5. \A a \in Slot : a # n => rem'[a].sock = rem[a].sock
      BY <1>2, <1>5, <1>6, <1>7, <3>1
    <3>6. Used(rem')
      BY <1>4, <1>8, <3>4, <3>5 DEF Used, Serving
    <3>7. ASSUME NEW p \in Slot, NEW a \in Slot, rem'[p].child = a,
                 NEW l \in DOMAIN rem'[a].locals, rem'[a].locals[l].conn = p
          PROVE  Needs(rem', p, a, rem'[a].locals[l].type)
      <4>1. CASE a = n
        <5>1. p = b /\ rem'[a].locals[l].type = Top.type
          BY <3>2, <3>4, <3>7, <4>1
        <5>2. rem'[b].query = rem[b].query /\ rem'[n].query = rem[n].query
          BY <1>2, <1>4, <1>8, <3>4
        <5> QED BY <1>4, <4>1, <5>1, <5>2 DEF Needs
      <4>2. CASE a # n
        <5>1. rem'[a].locals = rem[a].locals /\ rem'[a].query = rem[a].query
          BY <1>8, <4>2
        <5>2. p # b
          BY <1>2, <1>4, <1>8, <3>7, <4>2
        <5>3. rem[p].child = a /\ rem'[p].query = rem[p].query
          BY <1>8, <3>4, <3>7, <5>2
        <5> QED BY <3>7, <5>1, <5>3 DEF Kin, Needs, Serving
      <4> QED BY <4>1, <4>2
    <3>8. Kin(rem')
      BY <3>7 DEF Kin
    <3> QED BY <3>6, <3>8
  <2> QED BY <2>1, <2>2
<1>11. stack' = Rest
  BY DEF Spawned, Return
<1> QED BY <1>9, <1>10, <1>11 DEF Serving

LEMMA SameServing == ASSUME Serving, UNCHANGED <<rem, stack>> PROVE Serving'
BY DEF Serving

LEMMA ServesOne ==
  ASSUME NEW r, NEW f \in Frame, FrameServes(r, f) PROVE Serves(r, <<f>>)
<1> DEFINE s == <<f>>
<1>1. Len(s) = 1 /\ s[1] = f
  OBVIOUS
<1> HIDE DEF s
<1> QED BY <1>1 DEF Serves, s

LEMMA ServesTwo ==
  ASSUME NEW r, NEW f \in Frame, NEW g \in Frame, FrameServes(r, f),
         FrameServes(r, g), PairServes(r, f, g)
  PROVE  Serves(r, <<f, g>>)
<1> DEFINE s == <<f, g>>
<1>1. Len(s) = 2 /\ s[1] = f /\ s[2] = g
  OBVIOUS
<1> HIDE DEF s
<1> QED BY <1>1 DEF Serves, s

LEMMA Concat ==
  ASSUME NEW f \in Frame, NEW g \in Frame PROVE
    <<f>> \o << >> = <<f>> /\ <<f, g>> \o << >> = <<f, g>>
OBVIOUS

\* A call that completes a CNAME, inside calls that send.
LEMMA ServesSent ==
  ASSUME NEW r, NEW s \in Seq(Frame), NEW f \in Frame, Serves(r, s),
         f.op \in {"cname", "send"},
         \A j \in 1..Len(s) : s[j].op \in {"send", "reply"}
  PROVE  /\ Serves(r, <<f>> \o s)
         /\ f.op = "send" => \A j \in 1..Len(<<f>> \o s) :
                               (<<f>> \o s)[j].op \in {"send", "reply"}
<1>1. FrameServes(r, f) /\ \A j \in 1..Len(s) : PairServes(r, f, s[j])
  BY DEF FrameServes, PairServes
<1>2. Serves(r, <<f>> \o s)
  BY <1>1, ServesPush
<1>3. /\ Len(<<f>> \o s) = Len(s) + 1 /\ (<<f>> \o s)[1] = f
      /\ \A j \in 1..(Len(s) + 1) : j # 1 =>
           j - 1 \in 1..Len(s) /\ (<<f>> \o s)[j] = s[j - 1]
  BY PushedFrames
<1> DEFINE t == <<f>> \o s
<1> HIDE DEF t
<1>4. ASSUME f.op = "send" PROVE \A j \in 1..Len(t) : t[j].op \in {"send", "reply"}
  BY <1>3, <1>4 DEF t
<1> QED BY <1>2, <1>4 DEF t

LEMMA ConcatTwo ==
  ASSUME NEW f \in Frame, NEW g \in Frame, NEW s \in Seq(Frame) PROVE
    <<f, g>> \o s = <<f>> \o (<<g>> \o s)
<1> DEFINE e == <<f>>
           h == <<g>>
<1>1. e \in Seq(Frame) /\ h \in Seq(Frame)
  BY Alone
<1>2. <<f, g>> = e \o h
  <2> DEFINE t == e \o h
             u == <<f, g>>
  <2>1. Len(h) = 1 /\ h[1] = g /\ 1 \in 1..Len(h)
    OBVIOUS
  <2>2. t \in Seq(Frame) /\ Len(t) = Len(h) + 1 /\ t[1] = f
        /\ \A j \in 1..Len(h) : t[j + 1] = h[j]
    BY <1>1, PushedFrames
  <2>3. t[1 + 1] = g
    BY <2>1, <2>2
  <2>4. u \in Seq(Frame) /\ Len(u) = 2 /\ u[1] = f /\ u[2] = g
    OBVIOUS
  <2> HIDE DEF t, u
  <2>5. Len(t) = 2 /\ \A j \in 1..Len(t) : t[j] = u[j]
    BY <2>1, <2>2, <2>3, <2>4
  <2>6. t = u
    BY <2>2, <2>4, <2>5, SeqEqual
  <2> QED BY <2>6 DEF t, u
<1> HIDE DEF e, h
<1>3. (e \o h) \o s = e \o (h \o s)
  BY <1>1, ConcatAssociative
<1> QED BY <1>2, <1>3 DEF e, h

LEMMA ServesSentTwo ==
  ASSUME NEW r, NEW s \in Seq(Frame), NEW f \in Frame, NEW g \in Frame,
         Serves(r, s), f.op = "cname", g.op = "send",
         \A j \in 1..Len(s) : s[j].op \in {"send", "reply"}
  PROVE  Serves(r, <<f, g>> \o s)
<1> DEFINE t == <<g>> \o s
<1>1. /\ t \in Seq(Frame) /\ Serves(r, t)
      /\ \A j \in 1..Len(t) : t[j].op \in {"send", "reply"}
  BY ServesSent, PushedFrames
<1> HIDE DEF t
<1>2. Serves(r, <<f>> \o t)
  BY <1>1, ServesSent
<1> QED BY <1>2, ConcatTwo DEF t

LEMMA ReleaseKin ==
  ASSUME Inv, Used(rem), Kin(rem), NEW b \in Slot, rem' = [rem EXCEPT ![b] = Blank]
  PROVE  /\ Used(rem') /\ Kin(rem')
         /\ \A a \in Slot : rem'[a].locals # << >> =>
              rem[a].locals # << >> /\ rem'[a].query = rem[a].query
<1>1. /\ Blank.child = None /\ Blank.sock = None /\ Blank.locals = << >>
      /\ \A l \in DOMAIN Blank.locals : Blank.locals[l].conn = None
  BY DEF Blank
<1>2. Used(rem') /\ Kin(rem')
  BY <1>1, BlankOK, RemTyped, KinRenew, UsedRenew
<1>3. \A a \in Slot : rem'[a] = IF a = b THEN Blank ELSE rem[a]
  BY RemTyped
<1> QED BY <1>1, <1>2, <1>3

LEMMA ChasedKin ==
  ASSUME Inv, Used(rem), Kin(rem), NEW b \in Slot, NEW l \in DOMAIN rem[b].locals,
         rem[b].locals[l].type = 3, Chased(b, l)
  PROVE  /\ Used(rem') /\ Kin(rem')
         /\ \A a \in Slot : rem'[a].locals # << >> =>
              rem[a].locals # << >> /\ rem'[a].query = rem[a].query
<1> DEFINE m  == [rem[b].locals[l] EXCEPT !.type = 0]
           ls == [rem[b].locals EXCEPT ![l] = m]
           r  == [rem[b] EXCEPT !.locals = ls]
<1>1. rem[b] \in Pending /\ rem[b].locals \in Seq(Local)
  BY RemTyped DEF Pending
<1>2. /\ rem[b].locals[l] \in
           [type : {3}, client : Client, conn : {None}, orig : Query]
      /\ rem[b].locals # << >>
  BY <1>1 DEF Local
<1>3. m \in Local /\ m.conn = None
  BY <1>2 DEF Local
<1> HIDE DEF m
<1>4. /\ ls \in Seq(Local)
      /\ \A k \in DOMAIN ls : k \in DOMAIN rem[b].locals
           /\ (ls[k].conn = None \/ ls[k] = rem[b].locals[k])
  BY <1>1, <1>3
<1> HIDE DEF ls
<1>5. r \in Pending
  BY <1>1, <1>4, FieldsOK
<1>6. /\ r.child = rem[b].child /\ r.query = rem[b].query
      /\ r.live = rem[b].live /\ r.sock = rem[b].sock /\ r.locals = ls
  BY <1>1 DEF Pending
<1>7. rem' = [rem EXCEPT ![b] = r]
  BY DEF Chased, ls, m
<1> HIDE DEF r
<1>8. rem[b].live
  BY <1>2 DEF Used
<1>9. Kin(rem') /\ Used(rem')
  BY <1>4, <1>5, <1>6, <1>7, <1>8, RemTyped, KinLocals, UsedRenew
<1>10. \A a \in Slot : rem'[a] = IF a = b THEN r ELSE rem[a]
  BY <1>7, RemTyped
<1> QED BY <1>2, <1>6, <1>9, <1>10

-----------------------------------------------------------------------------
(***************************************************************************)
(* Clients ask.                                                            *)
(***************************************************************************)
LEMMA AskChasedServes ==
  ASSUME Inv, Serving, NEW c \in Client, NEW q \in Query, AskChased(c, q)
  PROVE  Serving'
<1> DEFINE x == [Blank EXCEPT !.query = cname[q], !.live = TRUE,
                              !.locals = <<ForChased(c, q)>>]
<1>1. PICK b \in Lowest(Free) :
        /\ rem' = [rem EXCEPT ![b] = x]
        /\ stack' = <<ConnectFrame(b, TRUE)>>
  BY DEF AskChased
<1>2. b \in Slot
  BY LowestIn DEF Free
<1>3. x \in Pending
  <2>1. cname[q] \in Query
    BY CachedValue DEF Inv, AskChased, Chases
  <2>2. <<ForChased(c, q)>> \in Seq(Local)
    BY DEF ForChased, Local
  <2> QED BY <2>1, <2>2, NewOK, Zenon
<1>4. /\ x.child = None /\ x.live
      /\ \A l \in DOMAIN x.locals : x.locals[l].conn = None
  BY DEF Blank, ForChased
<1> HIDE DEF x
<1>5. Used(rem') /\ Kin(rem')
  BY <1>1, <1>2, <1>3, <1>4, RemTyped, KinRenew, UsedRenew DEF Serving
<1>6. rem'[b] = x
  BY <1>1, <1>2, RemTyped
<1>7. /\ ConnectFrame(b, TRUE) \in Frame
      /\ FrameServes(rem', ConnectFrame(b, TRUE))
  BY <1>2, <1>4, <1>6, ConnectFrameOK DEF FrameServes, ConnectFrame
<1>8. Serves(rem', stack')
  BY <1>1, <1>7, ServesOne
<1> QED BY <1>5, <1>8 DEF Serving

LEMMA AskNewServes ==
  ASSUME Inv, Serving, NEW c \in Client, NEW q \in Query,
         NEW lower \in BOOLEAN, AskNew(c, q, lower)
  PROVE  Serving'
<1> DEFINE x == [Blank EXCEPT !.query = q, !.live = TRUE]
<1>1. PICK b \in Lowest(Free) :
        /\ rem' = [rem EXCEPT ![b] = x]
        /\ stack' = <<ConnectFrame(b, lower),
                      [op |-> "forwarded", b |-> b, client |-> c, q |-> q]>>
  BY DEF AskNew
<1>2. b \in Slot
  BY LowestIn DEF Free
<1>3. x \in Pending
  <2>1. << >> \in Seq(Local)
    OBVIOUS
  <2> QED BY <2>1, NewOK, Zenon
<1>4. /\ x.child = None /\ x.live
      /\ \A l \in DOMAIN x.locals : x.locals[l].conn = None
  BY DEF Blank
<1> HIDE DEF x
<1>5. Used(rem') /\ Kin(rem')
  BY <1>1, <1>2, <1>3, <1>4, RemTyped, KinRenew, UsedRenew DEF Serving
<1>6. rem'[b] = x
  BY <1>1, <1>2, RemTyped
<1> DEFINE f == ConnectFrame(b, lower)
           g == [op |-> "forwarded", b |-> b, client |-> c, q |-> q]
<1>7. /\ f \in Frame /\ f.op = "connect" /\ f.b = b
      /\ g \in Frame /\ g.op = "forwarded" /\ g.b = b
  BY <1>2, ConnectFrameOK DEF ConnectFrame, Frame
<1>8. stack' = <<f, g>>
  BY <1>1
<1> HIDE DEF f, g
<1>9. FrameServes(rem', f) /\ FrameServes(rem', g) /\ PairServes(rem', f, g)
  BY <1>4, <1>6, <1>7 DEF FrameServes, PairServes
<1>10. Serves(rem', stack')
  BY <1>7, <1>8, <1>9, ServesTwo
<1> QED BY <1>5, <1>10 DEF Serving

LEMMA AskAttachServes ==
  ASSUME Inv, Serving, NEW c \in Client, NEW q \in Query, AskAttach(c, q)
  PROVE  Serving'
<1> DEFINE b == inflight[q]
<1>1. b \in Slot /\ rem[b].sock # None
  BY DEF Inv, AskAttach, Joinable, Listed, TableInv, TableOK
<1>2. CASE UNCHANGED rem
  BY <1>2, SameServing DEF AskAttach
<1>3. CASE rem' = [rem EXCEPT ![b].locals = Append(@, ForClient(c))]
  <2> DEFINE ls == Append(rem[b].locals, ForClient(c))
             x == [rem[b] EXCEPT !.locals = ls]
  <2>1. rem[b] \in Pending /\ rem[b].locals \in Seq(Local)
    BY <1>1, RemTyped DEF Pending
  <2>2. ForClient(c) \in Local /\ ForClient(c).conn = None
    BY DEF ForClient, Local
  <2>3. ls \in Seq(Local)
        /\ \A l \in DOMAIN ls :
             \/ ls[l].conn = None
             \/ l \in DOMAIN rem[b].locals /\ ls[l] = rem[b].locals[l]
    BY <2>1, <2>2
  <2> HIDE DEF ls
  <2>4. x \in Pending
    BY <2>1, <2>3, FieldsOK
  <2>5. /\ x.child = rem[b].child /\ x.query = rem[b].query
        /\ x.live = rem[b].live /\ x.locals = ls
    BY <2>1 DEF Pending
  <2>6. rem' = [rem EXCEPT ![b] = x]
    BY <1>3 DEF ls
  <2> HIDE DEF x, b
  <2>7. rem[b].live
    BY <1>1 DEF Used, Serving
  <2>8. Used(rem') /\ Kin(rem')
    BY <1>1, <2>3, <2>4, <2>5, <2>6, <2>7, RemTyped, KinLocals, UsedRenew
       DEF Serving
  <2>9. stack' = << >>
    BY DEF AskAttach, Forwards, Asks
  <2> QED BY <2>8, <2>9, ServesNothing DEF Serving
<1> QED BY <1>2, <1>3 DEF AskAttach

LEMMA ForwardedServes == ASSUME Inv, Serving, Forwarded PROVE Serving'
<1> DEFINE b == Top.b
<1>1. stack \in Seq(Frame) /\ stack # << >> /\ Top.op = "forwarded"
  BY DEF Inv, Forwarded, Runs
<1>2. b \in Slot /\ Top.client \in Client
  BY <1>1, FrameOf
<1>3. stack' = << >>
  BY <1>1, Outermost DEF Forwarded, Return, Serving
<1>4. Used(rem') /\ Kin(rem')
  <2>1. CASE rem[b].sock = None
    BY <1>2, <2>1, ReleaseKin DEF Forwarded, Reset, Serving
  <2>2. CASE rem[b].sock # None
    <3> DEFINE ls == <<ForClient(Top.client)>>
               x == [rem[b] EXCEPT !.locals = ls]
    <3>1. rem[b] \in Pending /\ rem[b].live
      BY <1>2, <2>2, RemTyped DEF Used, Serving
    <3>2. ls \in Seq(Local) /\ \A l \in DOMAIN ls : ls[l].conn = None
      BY <1>2 DEF ForClient, Local
    <3>3. rem' = [rem EXCEPT ![b].locals = ls]
      BY <2>2 DEF Forwarded
    <3> HIDE DEF ls
    <3>4. x \in Pending
      BY <3>1, <3>2, FieldsOK
    <3>5. /\ x.child = rem[b].child /\ x.query = rem[b].query
          /\ x.live = rem[b].live /\ x.locals = ls
      BY <3>1 DEF Pending
    <3>6. rem' = [rem EXCEPT ![b] = x]
      BY <3>3
    <3> HIDE DEF x, b
    <3> QED BY <1>2, <3>1, <3>2, <3>4, <3>5, <3>6, RemTyped, KinLocals,
               UsedRenew DEF Serving
  <2> QED BY <2>1, <2>2
<1> QED BY <1>3, <1>4, ServesNothing DEF Serving

(***************************************************************************)
(* A datagram comes from upstream, and the loop over the locals.           *)
(***************************************************************************)
LEMMA ReceiveServes ==
  ASSUME Inv, Serving, NEW b \in Slot, NEW f \in Fd, Receive(b, f)
  PROVE  Serving'
<1>1. PICK says \in Says[rem[b].query] :
        stack' = <<ReplyFrame(b, 1, says, sent[f].lower, TRUE)>>
      /\ rem' = rem /\ rem[b].query \in Query
  BY DEF Receive, Arrives
<1> DEFINE g == ReplyFrame(b, 1, says, sent[f].lower, TRUE)
<1>2. g \in Frame
  <2>1. sent[f].lower \in BOOLEAN
    BY NoneApart DEF Receive, Arrives, SelectFails, Watchers, Lowest, Inv,
                     TableInv, TableOK
  <2>2. says \in Reply
    BY <1>1, RemoteAssumption
  <2> QED BY <2>1, <2>2 DEF ReplyFrame, Frame
<1>3. FrameServes(rem, g)
  BY <1>1 DEF FrameServes, ReplyFrame
<1> HIDE DEF g
<1>4. Serves(rem, <<g>>)
  BY <1>2, <1>3, ServesOne
<1> QED BY <1>1, <1>4 DEF Serving, g

LEMMA RoundServes ==
  ASSUME Inv, Serving, NEW says, Round(says) PROVE
    /\ Rest = << >> /\ rem[Top.b].live
    /\ Continued.op = "reply" /\ Kept.op = "reply"
    /\ Continued.b = Top.b /\ Kept.b = Top.b
    /\ FrameServes(rem, Continued) /\ FrameServes(rem, Kept)
    /\ Top.says \in Query => Top.says \in Says[rem[Top.b].query]
<1>1. stack \in Seq(Frame) /\ stack # << >> /\ Top.op = "reply"
  BY DEF Round, Runs, Inv
<1>2. Rest = << >> /\ FrameServes(rem, Top)
  BY <1>1, Outermost, ServesTop DEF Serving
<1>3. Top \in ReplyFrames
  BY <1>1, Popped DEF Frame, ReplyFrames
<1>4. rem[Top.b].locals # << >> /\ Top.b \in Slot
  BY RoundOK
<1>5. rem[Top.b].live
  BY <1>4 DEF Serving, Used
<1>6. Top.says \in Query => Top.says \in Says[rem[Top.b].query]
  BY <1>1, <1>2, <1>4 DEF FrameServes
<1>7. /\ Continued.op = "reply" /\ Kept.op = "reply"
      /\ Continued.b = Top.b /\ Kept.b = Top.b
      /\ Continued.says = Top.says /\ Kept.says = Top.says
  BY <1>1, <1>3 DEF Continued, Kept, ReplyFrames
<1>8. FrameServes(rem, Continued) /\ FrameServes(rem, Kept)
  BY <1>6, <1>7 DEF FrameServes
<1> QED BY <1>2, <1>5, <1>6, <1>7, <1>8

LEMMA ReplyBadServes == ASSUME Inv, Serving, ReplyBad PROVE Serving'
BY RoundServes, ServesNothing DEF ReplyBad, Return, Serving, table

LEMMA ReplyBadIpServes == ASSUME Inv, Serving, ReplyBadIp PROVE Serving'
<1>1. Top.b \in Slot /\ stack' = << >>
  BY RoundOK, RoundServes DEF ReplyBadIp, Return
<1>2. Used(rem') /\ Kin(rem')
  BY <1>1, ReleaseKin DEF ReplyBadIp, Release, Serving
<1> QED BY <1>1, <1>2, ServesNothing DEF Serving

\* A slot loses its socket.
LEMMA HangsUp ==
  ASSUME NEW r \in [Slot -> Pending], NEW b \in Slot, NEW n, Used(r), Kin(r),
         NEW r2, \/ r2 = [r EXCEPT ![b].sock = None]
                 \/ r2 = [r EXCEPT ![b].retries = n, ![b].sock = None]
  PROVE  Used(r2) /\ Kin(r2) /\ \A a \in Slot : SameKin(r, r2, a)
<1>1. \A a \in Slot : a # b => r2[a] = r[a]
  OBVIOUS
<1>2. /\ r2[b].child = r[b].child /\ r2[b].query = r[b].query
      /\ r2[b].locals = r[b].locals /\ r2[b].live = r[b].live
      /\ r2[b].sock = None
  <2>1. r[b] \in Pending
    OBVIOUS
  <2>2. \/ r2[b] = [r[b] EXCEPT !.sock = None]
        \/ r2[b] = [r[b] EXCEPT !.retries = n, !.sock = None]
    OBVIOUS
  <2> QED BY <2>1, <2>2 DEF Pending
<1>3. \A a \in Slot : SameKin(r, r2, a)
  BY <1>1, <1>2 DEF SameKin
<1>4. Used(r2)
  BY <1>1, <1>2 DEF Used
<1> QED BY <1>3, <1>4, KinSame

LEMMA ReplyReferServes == ASSUME Inv, Serving, ReplyRefer PROVE Serving'
<1> DEFINE b == Top.b
           f == ConnectFrame(b, TRUE)
<1>1. b \in Slot /\ Kept \in Frame
  BY RoundOK DEF ReplyRefer
<1>2. /\ Rest = << >> /\ rem[b].live /\ Kept.op = "reply" /\ Kept.b = b
      /\ FrameServes(rem, Kept)
  BY RoundServes DEF ReplyRefer
<1>3. f \in Frame /\ f.op = "connect" /\ f.b = b
  BY <1>1, ConnectFrameOK DEF ConnectFrame
<1>4. stack' = <<f, Kept>>
  BY <1>1, <1>2, <1>3, Concat DEF ReplyRefer
<1> HIDE DEF f
<1>5. FrameServes(rem, f) /\ PairServes(rem, f, Kept)
  BY <1>2, <1>3 DEF FrameServes, PairServes
<1>6. <<f, Kept>> \in Seq(Frame) /\ Serves(rem, <<f, Kept>>)
  BY <1>1, <1>2, <1>3, <1>5, ServesTwo
<1>7. Used(rem') /\ Kin(rem') /\ \A a \in Slot : SameKin(rem, rem', a)
  BY <1>1, RemTyped, HangsUp DEF ReplyRefer, Serving
<1>8. Serves(rem', stack')
  BY <1>4, <1>6, <1>7, ServesSame
<1> QED BY <1>7, <1>8 DEF Serving

\* The rounds that go on with the next local, or complete a CNAME before.
LEMMA ContinuesServes ==
  ASSUME Inv, Serving, NEW says, Round(says), NEW g \in {Continued, Kept},
         \/ stack' = <<g>> \o Rest
         \/ \E f \in Frame : f.op = "cname" /\ stack' = <<f, g>> \o Rest
  PROVE  /\ Serves(rem, stack') /\ stack' \in Seq(Frame)
         /\ \A j \in 1..Len(stack') : stack'[j].op \in {"cname", "send", "reply"}
<1>1. g \in Frame
  BY RoundOK
<1>2. Rest = << >> /\ g.op = "reply" /\ FrameServes(rem, g)
  BY RoundServes
<1>3. CASE stack' = <<g>> \o Rest
  <2>1. stack' = <<g>>
    BY <1>1, <1>2, <1>3, Concat
  <2> QED BY <1>1, <1>2, <2>1, ServesOne
<1>4. CASE \E f \in Frame : f.op = "cname" /\ stack' = <<f, g>> \o Rest
  <2>1. PICK f \in Frame : f.op = "cname" /\ stack' = <<f, g>> \o Rest
    BY <1>4
  <2>2. stack' = <<f, g>>
    BY <1>1, <1>2, <2>1, Concat
  <2>3. FrameServes(rem, f) /\ PairServes(rem, f, g)
    BY <1>2, <2>1 DEF FrameServes, PairServes
  <2>4. Serves(rem, stack')
    BY <1>1, <1>2, <2>2, <2>3, ServesTwo
  <2> QED BY <1>1, <1>2, <2>1, <2>2, <2>4
<1> QED BY <1>3, <1>4

LEMMA CnameOp ==
  ASSUME NEW b, NEW q, NEW v, NEW d PROVE CnameFrame(b, q, v, d).op = "cname"
BY DEF CnameFrame

LEMMA ReplyCnameServes == ASSUME Inv, Serving, ReplyCname PROVE Serving'
<1> DEFINE b == Top.b
           t == Top.says
<1>1. /\ b \in Slot /\ Rest \in Seq(Frame) /\ Kept \in Frame
      /\ t \in Query /\ rem[b].query \in Query \union {None}
  BY RoundOK DEF ReplyCname, Round
<1>2. /\ Rest = << >> /\ rem[b].live /\ Kept.op = "reply" /\ Kept.b = b
      /\ FrameServes(rem, Kept) /\ t \in Says[rem[b].query]
  BY <1>1, RoundServes DEF ReplyCname
<1>3. CASE Fresh(t)
  <2>1. CnameFrame(b, rem[b].query, cache[t], 0) \in Frame
    BY <1>1, CachedValue, CnameFrameOK DEF Inv
  <2>2. Serves(rem, stack')
    BY <1>3, <2>1, CnameOp, ContinuesServes DEF ReplyCname
  <2> QED BY <1>3, <2>2 DEF Serving, ReplyCname, table
<1>4. CASE ~Fresh(t)
  <2>1. <<Kept>> \o Rest = <<Kept>>
    BY <1>1, <1>2, Concat
  <2>2. Spawn(b, t, 2, <<Kept>>)
    BY <1>4, <2>1 DEF ReplyCname
  <2>3. Serves(rem, <<Kept>>) /\ <<Kept>> \in Seq(Frame)
    BY <1>1, <1>2, ServesOne
  <2> DEFINE then == <<Kept>>
  <2>4. \A j \in 1..Len(then) :
          /\ then[j].op \in {"spawned", "forwarded", "reply"}
          /\ rem[then[j].b].live
    BY <1>2
  <2> HIDE DEF then
  <2>5. 2 \in {1, 2} /\ 2 # 1
    OBVIOUS
  <2> QED BY <1>1, <1>2, <2>2, <2>3, <2>4, <2>5, SpawnServes DEF then
<1> QED BY <1>3, <1>4

LEMMA ReplyToClientServes == ASSUME Inv, Serving, ReplyToClient PROVE Serving'
<1>1. Serves(rem, stack')
  BY ContinuesServes DEF ReplyToClient, Call
<1> QED BY <1>1 DEF ReplyToClient, Serving, table

LEMMA ReplyToNsParentServes ==
  ASSUME Inv, Serving, ReplyToNsParent PROVE Serving'
<1> DEFINE p == This.conn
<1>1. Top.b \in Slot /\ This \in Local
  BY RoundOK DEF ReplyToNsParent
<1>2. p \in Slot
  BY <1>1 DEF ReplyToNsParent, Local
<1>3. Serves(rem, stack') /\ stack' \in Seq(Frame)
  BY ContinuesServes DEF ReplyToNsParent, Call
<1>4. CASE UNCHANGED rem
  BY <1>3, <1>4 DEF Serving
<1>5. CASE rem[p].child = Top.b /\ Dial(p, TRUE)
  <2>1. rem[p].live
    BY <1>1, <1>2, <1>5, NoneApart DEF Used, Serving
  <2>2. /\ \A a \in Slot : SameKin(rem, rem', a)
        /\ \A a \in Slot : a # p => rem'[a].sock = rem[a].sock
    BY <1>2, <1>5, DialSame
  <2>3. Used(rem') /\ Kin(rem') /\ Serves(rem', stack')
    BY <1>2, <1>3, <2>1, <2>2, UsedSame, KinSame, ServesSame DEF Serving
  <2> QED BY <2>3 DEF Serving
<1> QED BY <1>4, <1>5 DEF ReplyToNsParent, table

LEMMA ReplyToCnameParentServes ==
  ASSUME Inv, Serving, ReplyToCnameParent PROVE Serving'
<1> DEFINE p == This.conn
           f == CnameFrame(p, rem[p].query, Value, 0)
<1>1. This \in Local /\ Value \in Query \union {None, "negative"}
  BY RoundOK DEF ReplyToCnameParent
<1>2. p \in Slot
  BY <1>1 DEF ReplyToCnameParent, Local
<1>3. rem[p].query \in Query \union {None}
  BY <1>2, RemTyped DEF Pending
<1>4. f \in Frame /\ f.op = "cname"
  BY <1>1, <1>2, <1>3, CnameFrameOK, CnameOp
<1>5. stack' = <<f, Continued>> \o Rest \/ stack' = <<Continued>> \o Rest
  BY DEF ReplyToCnameParent, Call
<1> HIDE DEF f
<1>6. Serves(rem, stack')
  BY <1>4, <1>5, ContinuesServes DEF ReplyToCnameParent
<1> QED BY <1>6 DEF ReplyToCnameParent, Serving, table

LEMMA ReplyToChasedServes == ASSUME Inv, Serving, ReplyToChased PROVE Serving'
<1> DEFINE f == CnameFrame(Top.b, This.orig, Value, 1)
<1>1. /\ Top.b \in Slot /\ Top.l \in DOMAIN rem[Top.b].locals /\ This \in Local
      /\ Value \in Query \union {None, "negative"}
  BY RoundOK DEF ReplyToChased
<1>2. This.orig \in Query
  BY <1>1 DEF ReplyToChased, Local
<1>3. f \in Frame /\ f.op = "cname" /\ stack' = <<f, Continued>> \o Rest
  <2>1. f \in Frame
    BY <1>1, <1>2, CnameFrameOK
  <2>2. f.op = "cname"
    BY CnameOp
  <2>3. stack' = <<f, Continued>> \o Rest
    BY DEF ReplyToChased
  <2> QED BY <2>1, <2>2, <2>3
<1> HIDE DEF f
<1>4. /\ Serves(rem, stack') /\ stack' \in Seq(Frame)
      /\ \A j \in 1..Len(stack') : stack'[j].op \in {"cname", "send", "reply"}
  BY <1>3, ContinuesServes DEF ReplyToChased
<1>5. /\ Used(rem') /\ Kin(rem')
      /\ \A a \in Slot : rem'[a].locals # << >> =>
           rem[a].locals # << >> /\ rem'[a].query = rem[a].query
  BY <1>1, ChasedKin DEF ReplyToChased, Serving, This
<1> QED BY <1>4, <1>5, ServesLoose DEF Serving

LEMMA ReplyDoneServes == ASSUME Inv, Serving, ReplyDone PROVE Serving'
<1>1. stack \in Seq(Frame) /\ stack # << >> /\ Top.op = "reply"
  BY DEF Inv, ReplyDone, Runs
<1>2. Top.b \in Slot /\ stack' = << >>
  BY <1>1, FrameOf, Outermost DEF ReplyDone, Return, Serving
<1>3. Used(rem') /\ Kin(rem')
  BY <1>2, ReleaseKin DEF ReplyDone, Release, Serving, table
<1> QED BY <1>2, <1>3, ServesNothing DEF Serving

(***************************************************************************)
(* The answer to the target of a CNAME.                                    *)
(***************************************************************************)
LEMMA SendingServes ==
  ASSUME Inv, Serving, stack # << >>, Top.op \in {"cname", "send"} PROVE
    /\ Top.b \in Slot /\ Rest \in Seq(Frame) /\ Serves(rem, Rest)
    /\ \A j \in 1..Len(Rest) : Rest[j].op \in {"send", "reply"}
<1>1. stack \in Seq(Frame)
  BY DEF Inv
<1>2. /\ Serves(rem, Rest)
      /\ \A j \in 1..Len(Rest) : PairServes(rem, Top, Rest[j])
  BY <1>1, ServesTop DEF Serving
<1>3. \A j \in 1..Len(Rest) : Rest[j].op \in {"send", "reply"}
  BY <1>2 DEF PairServes
<1> QED BY <1>1, <1>2, <1>3, FrameOf, Popped

LEMMA CnameReplyServes == ASSUME Inv, Serving, CnameReply PROVE Serving'
<1>1. stack \in Seq(Frame) /\ stack # << >> /\ Top.op = "cname"
  BY DEF Inv, CnameReply, Runs
<1>2. /\ Top.b \in Slot /\ Rest \in Seq(Frame) /\ Serves(rem, Rest)
      /\ \A j \in 1..Len(Rest) : Rest[j].op \in {"send", "reply"}
  BY <1>1, SendingServes
<1>3. CASE CnameRefused(Top)
  BY <1>2, <1>3 DEF CnameReply, Return, Serving, table
<1>4. CASE ~CnameRefused(Top)
  <2> DEFINE f == [op |-> "send", b |-> Top.b, q |-> Top.q, l |-> 1,
                   value |-> Top.value, depth |-> Top.depth, whole |-> TRUE]
  <2>1. /\ Top.q \in Query /\ Top.value \in Query /\ Top.depth \in Nat
    BY <1>1, <1>4, FrameOf DEF CnameRefused
  <2>2. f \in Frame /\ f.op = "send"
    BY <1>2, <2>1 DEF Frame
  <2>3. stack' = <<f>> \o Rest
    BY <1>4 DEF CnameReply, Call
  <2> HIDE DEF f
  <2>4. Serves(rem, stack')
    BY <1>2, <2>2, <2>3, ServesSent
  <2> QED BY <2>4 DEF CnameReply, Serving, table
<1> QED BY <1>3, <1>4

LEMMA SendServes ==
  ASSUME Inv, Serving, NEW type, Sends(type),
         NEW g \in {Continued, [Continued EXCEPT !.whole = FALSE]},
         \/ stack' = Rest
         \/ stack' = <<g>> \o Rest
         \/ \E f \in Frame : f.op = "cname" /\ stack' = <<f, g>> \o Rest
  PROVE  /\ Serves(rem, stack') /\ stack' \in Seq(Frame)
         /\ \A j \in 1..Len(stack') : stack'[j].op \in {"cname", "send", "reply"}
<1>1. /\ Continued \in Frame /\ [Continued EXCEPT !.whole = FALSE] \in Frame
      /\ stack \in Seq(Frame) /\ stack # << >> /\ Top.op = "send"
  BY SendOK DEF Sends, Runs, Inv
<1>2. Top \in SendFrames
  BY <1>1, Popped DEF Frame, SendFrames
<1>3. g \in Frame
  BY <1>1
<1>4. g.op = "send"
  BY <1>1, <1>2 DEF SendFrames, Continued
<1>5. /\ Rest \in Seq(Frame) /\ Serves(rem, Rest)
      /\ \A j \in 1..Len(Rest) : Rest[j].op \in {"send", "reply"}
  BY <1>1, SendingServes
<1> HIDE DEF Continued
<1>6. CASE stack' = Rest
  BY <1>5, <1>6
<1> DEFINE t == <<g>> \o Rest
<1>7. /\ t \in Seq(Frame) /\ Serves(rem, t)
      /\ \A j \in 1..Len(t) : t[j].op \in {"send", "reply"}
  BY <1>3, <1>4, <1>5, ServesSent, PushedFrames
<1> HIDE DEF t
<1>8. CASE stack' = t
  BY <1>7, <1>8
<1>9. ASSUME NEW f \in Frame, f.op = "cname", stack' = <<f, g>> \o Rest
      PROVE  /\ Serves(rem, stack') /\ stack' \in Seq(Frame)
             /\ \A j \in 1..Len(stack') :
                  stack'[j].op \in {"cname", "send", "reply"}
  <2> DEFINE u == <<f>> \o t
  <2>1. stack' = u
    <3>1. <<f, g>> \o Rest = <<f>> \o (<<g>> \o Rest)
      <4>1. f \in Frame /\ g \in Frame /\ Rest \in Seq(Frame)
        BY <1>3, <1>5
      <4> HIDE DEF Rest
      <4> QED BY <4>1, ConcatTwo
    <3> QED BY <1>9, <3>1 DEF t
  <2>2. /\ u \in Seq(Frame) /\ Len(u) = Len(t) + 1 /\ u[1] = f
        /\ \A j \in 1..(Len(t) + 1) : j # 1 =>
             j - 1 \in 1..Len(t) /\ u[j] = t[j - 1]
    BY <1>7, <1>9, PushedFrames
  <2>3. Serves(rem, u)
    BY <1>7, <1>9, ServesSent
  <2> HIDE DEF u
  <2>4. \A j \in 1..Len(u) : u[j].op \in {"cname", "send", "reply"}
    <3>1. ASSUME NEW j \in 1..(Len(t) + 1), j # 1
          PROVE  u[j].op \in {"cname", "send", "reply"}
      <4>1. j - 1 \in 1..Len(t) /\ u[j] = t[j - 1]
        BY <2>2, <3>1
      <4>2. t[j - 1].op \in {"send", "reply"}
        BY <1>7, <4>1
      <4> QED BY <4>1, <4>2
    <3> QED BY <1>9, <2>2, <3>1
  <2> QED BY <2>1, <2>2, <2>3, <2>4
<1> QED BY <1>6, <1>8, <1>9 DEF t

LEMMA SendToClientServes == ASSUME Inv, Serving, SendToClient PROVE Serving'
<1> DEFINE g == [Continued EXCEPT !.whole = FALSE]
<1>1. stack' = <<g>> \o Rest \/ stack' = Rest
  BY DEF SendToClient, Call, Return
<1>2. Serves(rem, stack')
  BY <1>1, SendServes DEF SendToClient
<1> QED BY <1>2 DEF SendToClient, Serving, table

LEMMA SendToNsParentServes ==
  ASSUME Inv, Serving, SendToNsParent PROVE Serving'
<1>1. Serves(rem, stack')
  BY SendServes DEF SendToNsParent, Call
<1> QED BY <1>1 DEF SendToNsParent, Serving, table

LEMMA SendToCnameParentServes ==
  ASSUME Inv, Serving, SendToCnameParent PROVE Serving'
<1> DEFINE p == This.conn
           f == CnameFrame(p, rem[p].query, Top.value, Top.depth + 1)
<1>1. /\ This \in Local /\ This.type = 2 /\ Top.value \in Query
      /\ Top.depth \in Nat
  BY SendOK DEF SendToCnameParent
<1>2. p \in Slot
  BY <1>1 DEF Local
<1>3. rem[p].query \in Query \union {None} /\ Top.depth + 1 \in Nat
  BY <1>1, <1>2, RemTyped DEF Pending
<1>4. f \in Frame /\ f.op = "cname"
  BY <1>1, <1>2, <1>3, CnameFrameOK, CnameOp
<1>5. stack' = <<f, Continued>> \o Rest \/ stack' = <<Continued>> \o Rest
  BY DEF SendToCnameParent, Call
<1> HIDE DEF f
<1>6. Serves(rem, stack')
  BY <1>4, <1>5, SendServes DEF SendToCnameParent
<1> QED BY <1>6 DEF SendToCnameParent, Serving, table

LEMMA SendToChasedServes == ASSUME Inv, Serving, SendToChased PROVE Serving'
<1>1. /\ Top.b \in Slot /\ Top.q \in Query /\ Top.depth \in Nat
      /\ Top.l \in DOMAIN rem[Top.b].locals /\ This \in Local /\ This.type = 3
  BY SendOK DEF SendToChased
<1>2. CASE Top.depth > MaxDepth
  <2>1. Serves(rem, stack') /\ rem' = rem
    BY <1>2, SendServes DEF SendToChased, Call
  <2> QED BY <2>1 DEF Serving
<1>3. CASE ~(Top.depth > MaxDepth)
  <2> DEFINE f == CnameFrame(Top.b, This.orig, cache[Top.q], Top.depth + 1)
  <2>1. This.orig \in Query /\ Top.depth + 1 \in Nat
    BY <1>1 DEF Local
  <2>2. f \in Frame /\ f.op = "cname"
    <3>1. cache[Top.q] \in Query \union {None, "negative"}
      BY <1>1, CachedValue DEF Inv
    <3>2. f \in Frame
      BY <1>1, <2>1, <3>1, CnameFrameOK
    <3> QED BY <3>2, CnameOp
  <2>3. stack' = <<f, Continued>> \o Rest
    BY <1>3 DEF SendToChased
  <2> HIDE DEF f
  <2>4. /\ Serves(rem, stack') /\ stack' \in Seq(Frame)
        /\ \A j \in 1..Len(stack') : stack'[j].op \in {"cname", "send", "reply"}
    BY <2>2, <2>3, SendServes DEF SendToChased
  <2>5. /\ Used(rem') /\ Kin(rem')
        /\ \A a \in Slot : rem'[a].locals # << >> =>
             rem[a].locals # << >> /\ rem'[a].query = rem[a].query
    BY <1>1, <1>3, ChasedKin DEF SendToChased, Serving, This
  <2> QED BY <2>4, <2>5, ServesLoose DEF Serving
<1> QED BY <1>2, <1>3

LEMMA SendDoneServes == ASSUME Inv, Serving, SendDone PROVE Serving'
<1>1. stack # << >> /\ Top.op = "send"
  BY DEF SendDone, Runs
<1>2. /\ Top.b \in Slot /\ Rest \in Seq(Frame) /\ Serves(rem, Rest)
      /\ \A j \in 1..Len(Rest) : Rest[j].op \in {"send", "reply"}
  BY <1>1, SendingServes
<1>3. /\ Used(rem') /\ Kin(rem')
      /\ \A a \in Slot : rem'[a].locals # << >> =>
           rem[a].locals # << >> /\ rem'[a].query = rem[a].query
  BY <1>2, ReleaseKin DEF SendDone, Release, Serving
<1>4. Serves(rem', Rest)
  BY <1>2, <1>3, ServesLoose
<1> QED BY <1>3, <1>4 DEF SendDone, Return, Serving

(***************************************************************************)
(* Timeouts.                                                               *)
(***************************************************************************)
LEMMA RetryServes ==
  ASSUME Inv, Serving, NEW b \in Slot, Retry(b) PROVE Serving'
<1> DEFINE f == ConnectFrame(b, TRUE)
<1>1. rem[b].live /\ stack' = <<f>>
  BY DEF Retry, Expires
<1>2. f \in Frame /\ f.op = "connect" /\ f.b = b
  BY ConnectFrameOK DEF ConnectFrame
<1> HIDE DEF f
<1>3. Used(rem') /\ Kin(rem') /\ \A a \in Slot : SameKin(rem, rem', a)
  BY RemTyped, HangsUp DEF Retry, Serving
<1>4. FrameServes(rem', f)
  BY <1>1, <1>2, <1>3 DEF FrameServes, SameKin
<1> QED BY <1>1, <1>2, <1>3, <1>4, ServesOne DEF Serving

LEMMA GivenUpServes ==
  ASSUME Inv, Serving, NEW b \in Slot, GivenUp(b) PROVE Serving'
<1>1. Used(rem') /\ Kin(rem')
  BY ReleaseKin DEF GivenUp, Serving
<1>2. stack' = << >>
  BY DEF GivenUp, Expires
<1> QED BY <1>1, <1>2, ServesNothing DEF Serving

LEMMA InitServes == ASSUME Init PROVE Serving
<1>1. Used(rem) /\ Kin(rem)
  BY NoneApart DEF Init, Used, Kin, Blank
<1> QED BY <1>1, ServesNothing DEF Init, Serving

LEMMA NextServes == ASSUME Inv, Serving, [Next]_vars PROVE Serving'
<1>1. CASE Inner
  BY <1>1, ConnectServes, SpawnedServes, ForwardedServes, ReplyBadServes,
     ReplyBadIpServes, ReplyReferServes, ReplyCnameServes, ReplyToClientServes,
     ReplyToNsParentServes, ReplyToCnameParentServes, ReplyToChasedServes,
     ReplyDoneServes, CnameReplyServes, SendToClientServes,
     SendToNsParentServes, SendToCnameParentServes, SendToChasedServes,
     SendDoneServes DEF Inner
<1>2. ASSUME NEW c \in Client, NEW q \in Query,
             \/ AskCached(c, q) \/ AskChased(c, q)
             \/ AskAttach(c, q) \/ AskRefused(c, q)
             \/ \E lower \in Spellings : AskNew(c, q, lower)
      PROVE  Serving'
  <2>1. CASE AskCached(c, q) \/ AskRefused(c, q)
    BY <2>1, SameServing DEF AskCached, AskRefused, table
  <2>2. CASE AskChased(c, q)
    BY <2>2, AskChasedServes
  <2>3. CASE AskAttach(c, q)
    BY <2>3, AskAttachServes
  <2>4. CASE \E lower \in Spellings : AskNew(c, q, lower)
    BY <2>4, AskNewServes, RemoteAssumption
  <2> QED BY <1>2, <2>1, <2>2, <2>3, <2>4
<1>3. ASSUME NEW b \in Slot, NEW f \in Fd, Receive(b, f) \/ ReceiveStray(b, f)
      PROVE  Serving'
  BY <1>3, ReceiveServes, SameServing DEF ReceiveStray, Arrives
<1>4. ASSUME NEW b \in Slot, Timeout(b) PROVE Serving'
  BY <1>4, RetryServes, GivenUpServes DEF Timeout, Resurrect, FailNoReply
<1>5. ASSUME NEW q \in Query, Age(q) PROVE Serving'
  BY <1>5, SameServing DEF Age
<1>6. ASSUME NEW c \in Client, Leave(c) PROVE Serving'
  BY <1>6, SameServing DEF Leave, table
<1>7. CASE UNCHANGED vars
  BY <1>7, SameServing DEF vars, table
<1> QED BY <1>1, <1>2, <1>3, <1>4, <1>5, <1>6, <1>7 DEF Next

LEMMA ServingAlways == Spec => [](Inv /\ Serving)
<1>1. Init => Inv /\ Serving
  BY InitOK, InitServes
<1>2. Inv /\ Serving /\ [Next]_vars => (Inv /\ Serving)'
  BY NextOK, NextServes
<1> QED BY <1>1, <1>2, PTL DEF Spec

(***************************************************************************)
(* rem[conn_num].child_id: however slots are given up and reused while     *)
(* their former children run on, a child whose result a slot would take    *)
(* asks for what that slot needs to know.                                  *)
(***************************************************************************)
THEOREM ChildServesParentTheorem == Spec => []ChildServesParent
<1>1. Kin(rem) => ChildServesParent
  BY DEF Kin, Needs, ChildServesParent
<1>2. Inv /\ Serving => ChildServesParent
  BY <1>1 DEF Serving
<1> QED BY <1>2, ServingAlways, PTL

(***************************************************************************)
(* setup_server and reset_rem: an open socket is the one that its slot     *)
(* will close.                                                             *)
(***************************************************************************)
THEOREM SocketsOwnedTheorem == Spec => []SocketsOwned
<1>1. Inv => SocketsOwned
  BY DEF Inv, TableInv
<1> QED BY <1>1, InvAlways, PTL

-----------------------------------------------------------------------------
(***************************************************************************)
(* The list of active sockets, while no query is asked a second time.      *)
(***************************************************************************)
Watched == \A b \in Slot : b_remote[b] = rem[b].sock

LEMMA DialListed ==
  ASSUME Inv, Watched, NEW b \in Slot, NEW lower, Dial(b, lower) PROVE Watched'
<1>1. CASE UNCHANGED table
  BY <1>1 DEF Watched, table
<1>2. CASE \E f \in Lowest(Closed) : /\ b_remote' = [b_remote EXCEPT ![b] = f]
                                     /\ rem' = [rem EXCEPT ![b].sock = f]
  <2>1. PICK f : /\ b_remote' = [b_remote EXCEPT ![b] = f]
                 /\ rem' = [rem EXCEPT ![b].sock = f]
    BY <1>2
  <2>2. /\ \A a \in Slot : a # b => rem'[a] = rem[a]
        /\ rem'[b] = [rem[b] EXCEPT !.sock = f] /\ rem[b] \in Pending
    BY <2>1, RemTyped
  <2>3. rem'[b].sock = f
    BY <2>2 DEF Pending
  <2>4. b_remote \in [Slot -> Fd \union {None}]
    BY DEF Inv, TableInv, TableOK
  <2> QED BY <2>1, <2>2, <2>3, <2>4 DEF Watched
<1> QED BY <1>1, <1>2 DEF Dial

\* Slots of which the socket is closed and taken off the list.
LEMMA RenewListed ==
  ASSUME Inv, Watched, NEW b \in Slot, NEW x, x.sock = None,
         rem' = [rem EXCEPT ![b] = x],
         \/ b_remote' = [b_remote EXCEPT ![b] = None]
         \/ rem[b].sock = None /\ UNCHANGED b_remote
  PROVE  Watched'
<1>1. /\ \A a \in Slot : a # b => rem'[a] = rem[a]
      /\ rem'[b] = x
  BY RemTyped
<1>2. b_remote \in [Slot -> Fd \union {None}]
  BY DEF Inv, TableInv, TableOK
<1> QED BY <1>1, <1>2 DEF Watched

\* Steps that open and close no socket.
LEMMA SameListed ==
  ASSUME Watched, UNCHANGED b_remote, \A a \in Slot : rem'[a].sock = rem[a].sock
  PROVE  Watched'
BY DEF Watched

LEMMA LocalsListed ==
  ASSUME Inv, Watched, UNCHANGED b_remote, NEW b \in Slot, NEW ls,
         rem' = [rem EXCEPT ![b].locals = ls]
  PROVE  Watched'
<1>1. /\ \A a \in Slot : a # b => rem'[a] = rem[a]
      /\ rem'[b] = [rem[b] EXCEPT !.locals = ls] /\ rem[b] \in Pending
  BY RemTyped
<1>2. rem'[b].sock = rem[b].sock
  BY <1>1 DEF Pending
<1> QED BY <1>1, <1>2, SameListed

LEMMA SpawnListed ==
  ASSUME Inv, Watched, NEW b \in Slot, NEW q, NEW type, NEW then,
         Spawn(b, q, type, then)
  PROVE  Watched'
<1>1. CASE UNCHANGED table
  BY <1>1 DEF Watched, table
<1> DEFINE x == [Blank EXCEPT !.query = q, !.live = TRUE,
                              !.depth = rem[b].depth + 1]
<1>2. ASSUME NEW n \in Lowest(Free), rem' = [rem EXCEPT ![n] = x],
             b_remote' = [b_remote EXCEPT ![n] = None]
      PROVE  Watched'
  <2>1. n \in Slot
    BY LowestIn DEF Free
  <2>2. x.sock = None
    BY DEF Blank
  <2> HIDE DEF x
  <2> QED BY <1>2, <2>1, <2>2, RenewListed
<1> QED BY <1>1, <1>2 DEF Spawn

LEMMA InnerListed == ASSUME Inv, Watched, Inner PROVE Watched'
<1>1. CASE Connect
  <2>1. Top.b \in Slot
    BY <1>1, FrameOf DEF Inv, Connect, Runs
  <2> QED BY <1>1, <2>1, DialListed, SpawnListed, SameListed DEF Connect, table
<1>2. CASE Spawned
  <2> DEFINE b == Top.b
             n == Top.n
             mid == [rem EXCEPT ![b].child = n]
  <2>1. b \in Slot /\ n \in Slot
    BY <1>2, FrameOf DEF Inv, Spawned, Runs
  <2>2. /\ \A a \in Slot : a # b => mid[a] = rem[a]
        /\ mid[b] = [rem[b] EXCEPT !.child = n] /\ rem[b] \in Pending
        /\ mid \in [Slot -> Pending]
    BY <2>1, RemTyped, FieldsOK
  <2>3. mid[b].sock = rem[b].sock
    BY <2>2 DEF Pending
  <2>4. \A a \in Slot : mid[a].sock = rem[a].sock
    BY <2>2, <2>3
  <2> HIDE DEF mid
  <2>5. b_remote \in [Slot -> Fd \union {None}]
    BY DEF Inv, TableInv, TableOK
  <2>6. CASE rem[n].sock = None
    <3>1. rem' = [mid EXCEPT ![n] = Blank] /\ b_remote' = [b_remote EXCEPT ![n] = None]
      BY <1>2, <2>6 DEF Spawned, mid
    <3>2. rem'[n].sock = None /\ \A a \in Slot : a # n => rem'[a].sock = rem[a].sock
      BY <2>1, <2>2, <2>4, <3>1 DEF Blank
    <3> QED BY <2>1, <2>5, <3>1, <3>2 DEF Watched
  <2>7. CASE rem[n].sock # None
    <3> DEFINE ls == <<ForParent(b, Top.type)>>
    <3>1. rem' = [mid EXCEPT ![n].locals = ls] /\ UNCHANGED b_remote
      BY <1>2, <2>7 DEF Spawned, mid
    <3> HIDE DEF ls
    <3>2. /\ \A a \in Slot : a # n => rem'[a] = mid[a]
          /\ rem'[n] = [mid[n] EXCEPT !.locals = ls] /\ mid[n] \in Pending
      BY <2>1, <2>2, <3>1
    <3>3. rem'[n].sock = mid[n].sock
      BY <3>2 DEF Pending
    <3>4. \A a \in Slot : rem'[a].sock = rem[a].sock
      BY <2>4, <3>2, <3>3
    <3> QED BY <3>1, <3>4, SameListed
  <2> QED BY <2>6, <2>7
<1>3. CASE Forwarded
  <2>1. Top.b \in Slot
    BY <1>3, FrameOf DEF Inv, Forwarded, Runs
  <2>2. CASE rem[Top.b].sock = None
    BY <1>3, <2>1, <2>2, RenewListed DEF Forwarded, Reset, Blank
  <2>3. CASE rem[Top.b].sock # None
    BY <1>3, <2>1, <2>3, LocalsListed DEF Forwarded
  <2> QED BY <2>2, <2>3
<1>4. CASE ReplyRefer
  <2> DEFINE b == Top.b
             x == [rem[b] EXCEPT !.sock = None]
  <2>1. b \in Slot
    BY <1>4, RoundOK DEF ReplyRefer
  <2>2. x.sock = None
    BY <2>1, RemTyped DEF Pending
  <2>3. /\ rem' = [rem EXCEPT ![b] = x]
        /\ \/ b_remote' = [b_remote EXCEPT ![b] = None]
           \/ rem[b].sock = None /\ UNCHANGED b_remote
    BY <1>4 DEF ReplyRefer
  <2> HIDE DEF x
  <2> QED BY <2>1, <2>2, <2>3, RenewListed
<1>5. CASE ReplyCname
  <2>1. Top.b \in Slot
    BY <1>5, RoundOK DEF ReplyCname
  <2> QED BY <1>5, <2>1, SpawnListed, SameListed DEF ReplyCname, table
<1>6. CASE ReplyToNsParent
  <2>1. This.conn \in Slot
    BY <1>6, RoundOK DEF ReplyToNsParent, Local
  <2> QED BY <1>6, <2>1, DialListed, SameListed DEF ReplyToNsParent, table
<1>7. CASE ReplyToChased \/ SendToChased
  <2>1. Top.b \in Slot
    BY <1>7, RoundOK, SendOK DEF ReplyToChased, SendToChased
  <2>2. UNCHANGED b_remote
    BY <1>7 DEF ReplyToChased, SendToChased
  <2>3. CASE UNCHANGED rem
    BY <2>2, <2>3, SameListed
  <2>4. CASE Chased(Top.b, Top.l)
    <3>1. rem' = [rem EXCEPT ![Top.b].locals =
                    [rem[Top.b].locals EXCEPT ![Top.l].type = 0]]
      BY <2>4 DEF Chased
    <3> QED BY <2>1, <2>2, <3>1, LocalsListed
  <2> QED BY <1>7, <2>3, <2>4 DEF ReplyToChased, SendToChased
<1>8. CASE ReplyBadIp
  <2>1. Top.b \in Slot
    BY <1>8, RoundOK DEF ReplyBadIp
  <2>2. Blank.sock = None
    BY DEF Blank
  <2> QED BY <1>8, <2>1, <2>2, RenewListed DEF ReplyBadIp, Release
<1>9. CASE ReplyDone \/ SendDone
  <2>1. Top.b \in Slot
    BY <1>9, FrameOf DEF ReplyDone, SendDone, Runs, Inv
  <2> QED BY <1>9, <2>1, RenewListed, SameListed
          DEF ReplyDone, SendDone, Release, Blank, table
<1>10. CASE \/ ReplyBad \/ ReplyToClient \/ ReplyToCnameParent \/ CnameReply
            \/ SendToClient \/ SendToNsParent \/ SendToCnameParent
  BY <1>10, SameListed DEF ReplyBad, ReplyToClient, ReplyToCnameParent, CnameReply,
     SendToClient, SendToNsParent, SendToCnameParent, table
<1> QED BY <1>1, <1>2, <1>3, <1>4, <1>5, <1>6, <1>7, <1>8, <1>9, <1>10 DEF Inner

LEMMA NextListed ==
  ASSUME NumRetries = 0, Inv, Watched, [Next]_vars PROVE Watched'
<1>1. CASE Inner
  BY <1>1, InnerListed
<1>2. ASSUME NEW c \in Client, NEW q \in Query,
             \/ AskCached(c, q) \/ AskChased(c, q)
             \/ AskAttach(c, q) \/ AskRefused(c, q)
             \/ \E lower \in Spellings : AskNew(c, q, lower)
      PROVE  Watched'
  <2>1. CASE AskCached(c, q) \/ AskRefused(c, q)
    BY <2>1, SameListed DEF AskCached, AskRefused, table
  <2>2. CASE AskChased(c, q)
    <3> DEFINE x == [Blank EXCEPT !.query = cname[q], !.live = TRUE,
                                  !.locals = <<ForChased(c, q)>>]
    <3>1. PICK b \in Lowest(Free) : rem' = [rem EXCEPT ![b] = x]
      BY <2>2 DEF AskChased
    <3>2. b \in Slot /\ rem[b].sock = None /\ x.sock = None /\ UNCHANGED b_remote
      BY <2>2, LowestIn DEF Free, AskChased, Blank
    <3> HIDE DEF x
    <3> QED BY <3>1, <3>2, RenewListed
  <2>3. CASE AskAttach(c, q)
    <3>1. inflight[q] \in Slot
      BY <2>3 DEF Inv, AskAttach, Joinable, Listed, TableInv, TableOK
    <3>2. CASE UNCHANGED rem
      BY <2>3, <3>2, SameListed DEF AskAttach
    <3>3. CASE rem' = [rem EXCEPT ![inflight[q]].locals = Append(@, ForClient(c))]
      BY <2>3, <3>1, <3>3, LocalsListed DEF AskAttach
    <3> QED BY <2>3, <3>2, <3>3 DEF AskAttach
  <2>4. ASSUME NEW lower \in Spellings, AskNew(c, q, lower) PROVE Watched'
    <3> DEFINE x == [Blank EXCEPT !.query = q, !.live = TRUE]
    <3>1. PICK b \in Lowest(Free) : rem' = [rem EXCEPT ![b] = x]
      BY <2>4 DEF AskNew
    <3>2. b \in Slot /\ rem[b].sock = None /\ x.sock = None /\ UNCHANGED b_remote
      BY <2>4, LowestIn DEF Free, AskNew, Blank
    <3> HIDE DEF x
    <3> QED BY <3>1, <3>2, RenewListed
  <2> QED BY <1>2, <2>1, <2>2, <2>3, <2>4
<1>3. ASSUME NEW b \in Slot, NEW f \in Fd, Receive(b, f) \/ ReceiveStray(b, f)
      PROVE  Watched'
  BY <1>3, SameListed DEF Receive, ReceiveStray, Arrives
<1>4. ASSUME NEW b \in Slot, Timeout(b) PROVE Watched'
  <2>1. ~Retry(b)
    <3>1. rem[b].retries \in 0..NumRetries
      BY RemTyped DEF Pending
    <3>2. ~(rem[b].retries > 0)
      BY <3>1
    <3> QED BY <3>2 DEF Retry
  <2>2. GivenUp(b)
    BY <1>4, <2>1 DEF Timeout, Resurrect, FailNoReply
  <2> QED BY <2>2, RenewListed DEF GivenUp, Blank
<1>5. ASSUME NEW q \in Query, Age(q) PROVE Watched'
  BY <1>5, SameListed DEF Age
<1>6. ASSUME NEW c \in Client, Leave(c) PROVE Watched'
  BY <1>6, SameListed DEF Leave, table
<1>7. CASE UNCHANGED vars
  BY <1>7, SameListed DEF vars, table
<1> QED BY <1>1, <1>2, <1>3, <1>4, <1>5, <1>6, <1>7 DEF Next

(***************************************************************************)
(* b_remote is the list of active sockets when num_retries is 0: then only *)
(* a retry with a glueless server, DwSocket.c:905, makes it otherwise, and *)
(* no referral, child, CNAME or slot that is used again does.              *)
(***************************************************************************)
THEOREM RemoteListedTheorem ==
  ASSUME NumRetries = 0 PROVE Spec => []RemoteListed
<1>1. Init => Inv /\ Watched
  BY InitOK DEF Init, Watched, Blank
<1>2. Inv /\ Watched /\ [Next]_vars => (Inv /\ Watched)'
  BY NextOK, NextListed
<1>3. Inv /\ Watched => RemoteListed
  BY DEF Watched, RemoteListed
<1> QED BY <1>1, <1>2, <1>3, PTL DEF Spec

-----------------------------------------------------------------------------
(***************************************************************************)
(* What DwRemote promises its clients, for any number of slots, clients    *)
(* and queries, when no server answers with a CNAME.  Where one does, TLC  *)
(* shows some of this to be false.                                         *)
(***************************************************************************)
NoCnames == \A q \in Query : Says[q] \cap Query = {}

\* The invariant is stated of any slots r, questions a, replies g and calls s.
\* Client c waits in local l of slot b.
Held(r, b, l, c) ==
  /\ l \in DOMAIN r[b].locals
  /\ r[b].locals[l].type = 0
  /\ r[b].locals[l].client = c

\* No slot waits for the target of a CNAME.
PlainLocals(r) ==
  \A b \in Slot : \A l \in DOMAIN r[b].locals : r[b].locals[l].type \in {0, 1}

\* The calls in progress, without CNAMEs.
PlainFrame(f) ==
  /\ f.op \in {"connect", "spawned", "forwarded", "reply"}
  /\ f.op = "spawned" => f.type = 1
  /\ f.op = "reply" =>
       /\ f.says \notin Query
       /\ f.says \in Direct => f.kill
       /\ f.says \notin Direct /\ f.kill => f.l = 1

\* The loop over the locals of slot b has told the client of l already.
Told(s, b, l) ==
  /\ s # << >> /\ Head(s).op = "reply" /\ Head(s).b = b
  /\ Head(s).says \in Direct /\ l \in 1..(Head(s).l - 1)

\* Where a client waits he waits once, for what that slot asks, unanswered.
HeldOnce(r) ==
  \A b1, b2 \in Slot, c \in Client :
    \A l1 \in DOMAIN r[b1].locals, l2 \in DOMAIN r[b2].locals :
      Held(r, b1, l1, c) /\ Held(r, b2, l2, c) => b1 = b2 /\ l1 = l2

HeldWaits(r, a, g, s) ==
  \A b \in Slot, c \in Client : \A l \in DOMAIN r[b].locals :
    Held(r, b, l, c) =>
      /\ a[c] # None /\ a[c] = r[b].query
      /\ g[c] = "none" \/ Told(s, b, l)

\* The client whose query is being forwarded waits nowhere yet.
ForwardedWaits(r, a, g, f) ==
  f.op = "forwarded" =>
    /\ a[f.client] = f.q /\ g[f.client] = "none"
    /\ r[f.b].query = f.q /\ r[f.b].locals = << >>
    /\ \A b \in Slot : \A l \in DOMAIN r[b].locals : ~Held(r, b, l, f.client)

Calls(r, a, g, s) ==
  \A j \in 1..Len(s) : PlainFrame(s[j]) /\ ForwardedWaits(r, a, g, s[j])

\* What is cached, and what a client was sent, answers the question.
Answers(a, g, ca) ==
  /\ \A q \in Query : ca[q] \in {q, "negative", None}
  /\ \A c \in Client : g[c] \in Query => g[c] = a[c]
  /\ \A c \in Client : a[c] = None => g[c] = "none"

\* A client who cannot join another is alone.
HeldAlone(r) ==
  MaxInflights = 1 =>
    \A b \in Slot, c \in Client : \A l \in DOMAIN r[b].locals :
      Held(r, b, l, c) => l = 1

\* handle_resurrections has the only reply that not all clients get whole.
Once(g) ==
  ~Resurrections \/ MaxInflights = 1 =>
    \A c \in Client : g[c] \notin {"twice", "mangled"}

ClientsInv ==
  /\ \A q \in Query : cname[q] = None
  /\ PlainLocals(rem)
  /\ HeldOnce(rem)
  /\ HeldAlone(rem)
  /\ Once(got)
  /\ HeldWaits(rem, asked, got, stack)
  /\ Calls(rem, asked, got, stack)
  /\ Answers(asked, got, cache)

Known == Inv /\ Serving /\ ClientsInv

LEMMA Words ==
  /\ None \notin Notice /\ None \notin Query
  /\ \A q \in Query : q \notin Notice
BY RemoteAssumption, NoneApart

-----------------------------------------------------------------------------
(***************************************************************************)
(* Steps that let no client in.                                            *)
(***************************************************************************)
\* Slots keep or lose what waits for them, or wait for a child.
Shrinks(r, r2) ==
  \A b \in Slot : \A l \in DOMAIN r2[b].locals :
    \/ /\ l \in DOMAIN r[b].locals /\ r2[b].locals[l] = r[b].locals[l]
       /\ r2[b].query = r[b].query
    \/ r2[b].locals[l].type = 1

LEMMA ShrinksSame ==
  ASSUME NEW r, NEW r2, \A a \in Slot : SameKin(r, r2, a) PROVE Shrinks(r, r2)
BY DEF Shrinks, SameKin

LEMMA ShrinksRenew ==
  ASSUME NEW r \in [Slot -> Pending], NEW b \in Slot, NEW x, x.locals = << >>
  PROVE  Shrinks(r, [r EXCEPT ![b] = x])
BY DEF Shrinks

LEMMA ShrinksHeld ==
  ASSUME NEW r, NEW r2, Shrinks(r, r2), NEW b \in Slot, NEW c, NEW l,
         Held(r2, b, l, c)
  PROVE  Held(r, b, l, c) /\ l \in DOMAIN r[b].locals /\ r2[b].query = r[b].query
BY DEF Shrinks, Held

LEMMA ShrinksPlain ==
  ASSUME NEW r, NEW r2, Shrinks(r, r2), PlainLocals(r), HeldOnce(r), HeldAlone(r)
  PROVE  PlainLocals(r2) /\ HeldOnce(r2) /\ HeldAlone(r2)
<1>1. PlainLocals(r2)
  BY DEF Shrinks, PlainLocals
<1>2. HeldOnce(r2)
  <2> SUFFICES ASSUME NEW b1 \in Slot, NEW b2 \in Slot, NEW c \in Client,
                      NEW l1 \in DOMAIN r2[b1].locals,
                      NEW l2 \in DOMAIN r2[b2].locals,
                      Held(r2, b1, l1, c), Held(r2, b2, l2, c)
               PROVE  b1 = b2 /\ l1 = l2
    BY DEF HeldOnce
  <2>1. /\ Held(r, b1, l1, c) /\ l1 \in DOMAIN r[b1].locals
        /\ Held(r, b2, l2, c) /\ l2 \in DOMAIN r[b2].locals
    BY ShrinksHeld
  <2> QED BY <2>1 DEF HeldOnce
<1>3. HeldAlone(r2)
  BY ShrinksHeld DEF HeldAlone
<1> QED BY <1>1, <1>2, <1>3

\* A client whom no step tells anything has been told what he had been.
LEMMA ShrinksWaits ==
  ASSUME NEW r, NEW r2, NEW a, NEW a2, NEW g, NEW g2, NEW s, NEW s2,
         Shrinks(r, r2), HeldWaits(r, a, g, s),
         \A b \in Slot, c \in Client : \A l \in DOMAIN r[b].locals :
           Held(r, b, l, c) /\ Held(r2, b, l, c) =>
             a2[c] = a[c] /\ (g2[c] = "none" \/ Told(s2, b, l))
  PROVE  HeldWaits(r2, a2, g2, s2)
<1> SUFFICES ASSUME NEW b \in Slot, NEW c \in Client,
                    NEW l \in DOMAIN r2[b].locals, Held(r2, b, l, c)
             PROVE  /\ a2[c] # None /\ a2[c] = r2[b].query
                    /\ g2[c] = "none" \/ Told(s2, b, l)
  BY DEF HeldWaits
<1>1. Held(r, b, l, c) /\ l \in DOMAIN r[b].locals /\ r2[b].query = r[b].query
  BY ShrinksHeld
<1> QED BY <1>1 DEF HeldWaits

LEMMA NoCalls == ASSUME NEW r, NEW a, NEW g PROVE Calls(r, a, g, << >>)
BY DEF Calls

LEMMA OneCall ==
  ASSUME NEW r, NEW a, NEW g, NEW f, PlainFrame(f), ForwardedWaits(r, a, g, f)
  PROVE  Calls(r, a, g, <<f>>)
<1> DEFINE s == <<f>>
<1>1. Len(s) = 1 /\ s[1] = f
  OBVIOUS
<1> HIDE DEF s
<1> QED BY <1>1 DEF Calls, s

LEMMA TwoCalls ==
  ASSUME NEW r, NEW a, NEW g, NEW e, NEW f, PlainFrame(e), PlainFrame(f),
         ForwardedWaits(r, a, g, e), ForwardedWaits(r, a, g, f)
  PROVE  Calls(r, a, g, <<e, f>>)
<1> DEFINE s == <<e, f>>
<1>1. Len(s) = 2 /\ s[1] = e /\ s[2] = f
  OBVIOUS
<1> HIDE DEF s
<1> QED BY <1>1 DEF Calls, s

LEMMA PushedCalls ==
  ASSUME NEW r, NEW a, NEW g, NEW s \in Seq(Frame), NEW f \in Frame,
         PlainFrame(f), ForwardedWaits(r, a, g, f), Calls(r, a, g, s)
  PROVE  Calls(r, a, g, <<f>> \o s)
<1> DEFINE t == <<f>> \o s
<1>1. /\ Len(t) = Len(s) + 1 /\ t[1] = f
      /\ \A j \in 1..(Len(s) + 1) : j # 1 =>
           j - 1 \in 1..Len(s) /\ t[j] = s[j - 1]
  BY PushedFrames
<1> HIDE DEF t
<1> QED BY <1>1 DEF Calls, t

LEMMA TopCalls ==
  ASSUME NEW r, NEW a, NEW g, stack \in Seq(Frame), stack # << >>,
         Calls(r, a, g, stack)
  PROVE  /\ PlainFrame(Top) /\ ForwardedWaits(r, a, g, Top)
         /\ Calls(r, a, g, Rest)
<1>1. /\ Len(stack) \in Nat /\ Len(stack) >= 1 /\ Len(Rest) = Len(stack) - 1
      /\ \A j \in 1..(Len(stack) - 1) : Rest[j] = stack[j + 1]
      /\ Top = stack[1]
  BY TailFrames DEF Rest, Top
<1>2. ASSUME NEW j \in 1..Len(Rest)
      PROVE  PlainFrame(Rest[j]) /\ ForwardedWaits(r, a, g, Rest[j])
  <2>1. j + 1 \in 1..Len(stack) /\ Rest[j] = stack[j + 1]
    BY <1>1
  <2> QED BY <2>1 DEF Calls
<1>3. PlainFrame(Top) /\ ForwardedWaits(r, a, g, Top)
  BY <1>1 DEF Calls
<1> QED BY <1>2, <1>3 DEF Calls

\* A forwarded query is not disturbed by what is done to other slots.
LEMMA CallsStay ==
  ASSUME NEW r, NEW r2, NEW a, NEW g, NEW s \in Seq(Frame), Shrinks(r, r2),
         Calls(r, a, g, s),
         \A j \in 1..Len(s) : SameKin(r, r2, s[j].b)
  PROVE  Calls(r2, a, g, s)
<1> SUFFICES ASSUME NEW j \in 1..Len(s), s[j].op = "forwarded"
             PROVE  ForwardedWaits(r2, a, g, s[j])
  BY DEF Calls, ForwardedWaits
<1>1. ForwardedWaits(r, a, g, s[j]) /\ SameKin(r, r2, s[j].b)
  BY DEF Calls
<1>2. ASSUME NEW b \in Slot, NEW l \in DOMAIN r2[b].locals,
             Held(r2, b, l, s[j].client)
      PROVE  FALSE
  <2>1. Held(r, b, l, s[j].client) /\ l \in DOMAIN r[b].locals
    BY <1>2, ShrinksHeld
  <2> QED BY <1>1, <2>1 DEF ForwardedWaits
<1> QED BY <1>1, <1>2 DEF ForwardedWaits, SameKin

\* A step that lets nobody in and tells nobody anything.
LEMMA Quiet ==
  ASSUME Known, Shrinks(rem, rem'), UNCHANGED <<users, cache, cname>>,
         Calls(rem', asked, got, stack'),
         \A b, l : Told(stack, b, l) =>
           Told(stack', b, l) \/ \A c : ~Held(rem', b, l, c)
  PROVE  ClientsInv'
<1>1. PlainLocals(rem') /\ HeldOnce(rem') /\ HeldAlone(rem')
  BY ShrinksPlain DEF Known, ClientsInv
<1>2. HeldWaits(rem', asked, got, stack')
  <2>1. \A b \in Slot, c \in Client : \A l \in DOMAIN rem[b].locals :
          Held(rem, b, l, c) /\ Held(rem', b, l, c) =>
             asked[c] = asked[c] /\ (got[c] = "none" \/ Told(stack', b, l))
    BY DEF Known, ClientsInv, HeldWaits
  <2>2. HeldWaits(rem, asked, got, stack)
    BY DEF Known, ClientsInv
  <2> QED BY <2>1, <2>2, ShrinksWaits
<1> QED BY <1>1, <1>2 DEF Known, ClientsInv, users

-----------------------------------------------------------------------------
(***************************************************************************)
(* The calls inside make_remote_connection.                                *)
(***************************************************************************)
LEMMA ConnectClients == ASSUME Known, Connect PROVE ClientsInv'
<1>1. stack \in Seq(Frame) /\ stack # << >> /\ Top.op = "connect"
  BY DEF Known, Inv, Connect, Runs
<1>2. Rest \in Seq(Frame) /\ Top.b \in Slot
  BY <1>1, FrameOf, Popped
<1>3. Calls(rem, asked, got, Rest)
  BY <1>1, TopCalls DEF Known, ClientsInv
<1>4. \A b, l : ~Told(stack, b, l)
  BY <1>1 DEF Told, Top
<1>5. UNCHANGED <<users, cache, cname>>
  BY DEF Connect, caches
<1>6. ASSUME NEW j \in 1..Len(Rest) PROVE Rest[j].b \in Slot /\ rem[Rest[j].b].live
  <2>1. Rest[j] \in Frame /\ PairServes(rem, Top, Rest[j])
    BY <1>1, <1>2, ServesTop DEF Known, Serving
  <2> QED BY <1>1, <2>1, NamedSlots DEF PairServes
<1>7. ASSUME Return, \A a \in Slot : SameKin(rem, rem', a) PROVE ClientsInv'
  <2>1. Shrinks(rem, rem')
    BY <1>7, ShrinksSame
  <2>2. Calls(rem', asked, got, Rest)
    BY <1>2, <1>3, <1>6, <1>7, <2>1, CallsStay
  <2> QED BY <1>4, <1>5, <1>7, <2>1, <2>2, Quiet DEF Return
<1>8. ASSUME NEW ns \in Query, Spawn(Top.b, ns, 1, Rest) PROVE ClientsInv'
  <2> DEFINE b == Top.b
             x == [Blank EXCEPT !.query = ns, !.live = TRUE,
                                !.depth = rem[b].depth + 1]
  <2>1. CASE Free = {} \/ rem[b].depth > MaxDepth
    <3>1. stack' = Rest /\ rem' = rem
      BY <1>8, <2>1 DEF Spawn, table
    <3> QED BY <1>7, <3>1 DEF Return, SameKin
  <2>2. CASE ~(Free = {} \/ rem[b].depth > MaxDepth)
    <3>1. PICK n \in Lowest(Free) :
            /\ rem' = [rem EXCEPT ![n] = x]
            /\ stack' = <<ConnectFrame(n, TRUE),
                          [op |-> "spawned", b |-> b, n |-> n, type |-> 1]>>
                        \o Rest
      BY <1>8, <2>2 DEF Spawn
    <3>2. n \in Slot /\ ~rem[n].live
      BY LowestIn DEF Free
    <3>3. x.locals = << >>
      BY DEF Blank
    <3> HIDE DEF x
    <3>4. Shrinks(rem, rem')
      BY <3>1, <3>2, <3>3, RemTyped, ShrinksRenew DEF Known
    <3>5. \A a \in Slot : a # n => rem'[a] = rem[a]
      BY <3>1, RemTyped DEF Known
    <3>6. Calls(rem', asked, got, Rest)
      BY <1>2, <1>3, <1>6, <3>2, <3>4, <3>5, CallsStay DEF SameKin
    <3> DEFINE f == ConnectFrame(n, TRUE)
               h == [op |-> "spawned", b |-> b, n |-> n, type |-> 1]
    <3>7. /\ f \in Frame /\ f.op = "connect"
          /\ h \in Frame /\ h.op = "spawned" /\ h.type = 1
      BY <1>2, <3>2, ConnectFrameOK DEF ConnectFrame, Frame
    <3>8. stack' = <<f, h>> \o Rest
      BY <3>1
    <3> HIDE DEF f, h
    <3>9. \A r, a, g : /\ PlainFrame(f) /\ ForwardedWaits(r, a, g, f)
                       /\ PlainFrame(h) /\ ForwardedWaits(r, a, g, h)
      BY <3>7 DEF PlainFrame, ForwardedWaits
    <3>10. <<h>> \o Rest \in Seq(Frame) /\ Calls(rem', asked, got, <<h>> \o Rest)
      BY <1>2, <3>6, <3>7, <3>9, PushedCalls, PushedFrames
    <3>11. Calls(rem', asked, got, <<f>> \o (<<h>> \o Rest))
      BY <3>7, <3>9, <3>10, PushedCalls
    <3>12. Calls(rem', asked, got, stack')
      BY <1>2, <3>7, <3>8, <3>11, ConcatTwo
    <3> QED BY <1>4, <1>5, <3>4, <3>12, Quiet
  <2> QED BY <2>1, <2>2
<1>9. CASE Return /\ UNCHANGED table
  BY <1>7, <1>9 DEF SameKin, table
<1>10. CASE Return /\ Dial(Top.b, Top.lower)
  BY <1>2, <1>7, <1>10, DialSame DEF Known
<1> QED BY <1>8, <1>9, <1>10 DEF Connect

\* What the end of dwx_do_glueless_new makes of the slots.
LEMMA SpawnedSlots ==
  ASSUME Inv, Serving, Spawned PROVE
    /\ Top.b \in Slot /\ Top.n \in Slot /\ Top.n # Top.b
    /\ \A a \in Slot : a # Top.n =>
         /\ rem'[a].query = rem[a].query /\ rem'[a].locals = rem[a].locals
         /\ rem'[a].live = rem[a].live
    /\ \/ rem'[Top.n].locals = << >>
       \/ rem'[Top.n].locals = <<ForParent(Top.b, Top.type)>>
<1> DEFINE b == Top.b
           n == Top.n
           mid == [rem EXCEPT ![b].child = n]
           ls == <<ForParent(b, Top.type)>>
<1>1. stack \in Seq(Frame) /\ stack # << >> /\ Top.op = "spawned"
  BY DEF Inv, Spawned, Runs
<1>2. b \in Slot /\ n \in Slot
  BY <1>1, FrameOf
<1>3. n # b
  BY <1>1, ServesTop DEF Serving, FrameServes
<1>4. \A a \in Slot : a # b => mid[a] = rem[a]
  BY <1>2, RemTyped
<1>5. mid[b] = [rem[b] EXCEPT !.child = n] /\ mid \in [Slot -> Pending]
  BY <1>2, RemTyped, FieldsOK
<1>6. /\ mid[b].query = rem[b].query /\ mid[b].locals = rem[b].locals
      /\ mid[b].live = rem[b].live
  BY <1>2, <1>5, RemTyped DEF Pending
<1>7. \/ rem' = [mid EXCEPT ![n] = Blank]
      \/ rem' = [mid EXCEPT ![n].locals = ls]
  BY DEF Spawned
<1> HIDE DEF mid, ls
<1>8. \A a \in Slot : a # n => rem'[a] = mid[a]
  BY <1>5, <1>7
<1>9. rem'[n].locals = << >> \/ rem'[n].locals = ls
  <2>1. CASE rem' = [mid EXCEPT ![n] = Blank]
    BY <1>2, <1>5, <2>1 DEF Blank
  <2>2. CASE rem' = [mid EXCEPT ![n].locals = ls]
    <3>1. rem'[n] = [mid[n] EXCEPT !.locals = ls] /\ mid[n] \in Pending
      BY <1>2, <1>5, <2>2
    <3> QED BY <3>1 DEF Pending
  <2> QED BY <1>7, <2>1, <2>2
<1> QED BY <1>2, <1>3, <1>4, <1>6, <1>8, <1>9 DEF ls

LEMMA SpawnedClients == ASSUME Known, Spawned PROVE ClientsInv'
<1>1. stack \in Seq(Frame) /\ stack # << >> /\ Top.op = "spawned"
  BY DEF Known, Inv, Spawned, Runs
<1>2. Rest \in Seq(Frame) /\ Top.b \in Slot /\ Top.n \in Slot
  BY <1>1, FrameOf, Popped
<1>3. Calls(rem, asked, got, Rest) /\ Top.type = 1
  BY <1>1, TopCalls DEF Known, ClientsInv, PlainFrame
<1>4. /\ \A a \in Slot : a # Top.n =>
           /\ rem'[a].query = rem[a].query /\ rem'[a].locals = rem[a].locals
      /\ \/ rem'[Top.n].locals = << >>
         \/ rem'[Top.n].locals = <<ForParent(Top.b, Top.type)>>
  BY SpawnedSlots DEF Known
<1>5. Shrinks(rem, rem')
  <2>1. \A l \in DOMAIN rem'[Top.n].locals : rem'[Top.n].locals[l].type = 1
    BY <1>3, <1>4 DEF ForParent
  <2> QED BY <1>4, <2>1 DEF Shrinks
<1>6. ASSUME NEW j \in 1..Len(Rest) PROVE Rest[j].b \in Slot /\ Rest[j].b # Top.n
  <2>1. Rest[j] \in Frame /\ PairServes(rem, Top, Rest[j])
    BY <1>1, <1>2, ServesTop DEF Known, Serving
  <2> QED BY <1>1, <2>1, NamedSlots DEF PairServes
<1>7. Calls(rem', asked, got, Rest)
  <2> SUFFICES ASSUME NEW j \in 1..Len(Rest), Rest[j].op = "forwarded"
               PROVE  ForwardedWaits(rem', asked, got, Rest[j])
    BY <1>3 DEF Calls, ForwardedWaits
  <2>1. ForwardedWaits(rem, asked, got, Rest[j])
    BY <1>3 DEF Calls
  <2>2. ASSUME NEW b \in Slot, NEW l \in DOMAIN rem'[b].locals,
               Held(rem', b, l, Rest[j].client)
        PROVE  FALSE
    <3>1. Held(rem, b, l, Rest[j].client) /\ l \in DOMAIN rem[b].locals
      BY <1>5, <2>2, ShrinksHeld
    <3> QED BY <2>1, <3>1 DEF ForwardedWaits
  <2> QED BY <1>4, <1>6, <2>1, <2>2 DEF ForwardedWaits
<1>8. \A b, l : ~Told(stack, b, l)
  BY <1>1 DEF Told, Top
<1>9. UNCHANGED <<users, cache, cname>> /\ stack' = Rest
  BY DEF Spawned, caches, Return
<1> QED BY <1>5, <1>7, <1>8, <1>9, Quiet

-----------------------------------------------------------------------------
(***************************************************************************)
(* A client asks.                                                          *)
(***************************************************************************)
\* sendto() tells clients who were told nothing, and nobody else.
LEMMA TellClients ==
  ASSUME Known, NEW a, NEW cs \in SUBSET Client, NEW v, Tell(cs, v),
         Answers(a, got, cache), v \notin {"none", "twice", "mangled"},
         \A c \in cs : got[c] = "none" /\ a[c] # None /\ (v \in Query => v = a[c])
  PROVE  /\ Answers(a, got', cache) /\ Once(got')
         /\ \A c \in Client : got'[c] = IF c \in cs THEN v ELSE got[c]
<1>1. \A c \in Client : got'[c] = IF c \in cs THEN v ELSE got[c]
  BY DEF Tell
<1>2. Answers(a, got', cache)
  BY <1>1 DEF Answers
<1>3. Once(got')
  BY <1>1 DEF Once, Known, ClientsInv
<1> QED BY <1>1, <1>2, <1>3

LEMMA OthersWait ==
  ASSUME NEW r, NEW a, NEW a2, NEW g, NEW g2, NEW s, NEW s2, HeldWaits(r, a, g, s),
         \A b \in Slot, c \in Client : \A l \in DOMAIN r[b].locals :
           Held(r, b, l, c) => /\ a2[c] = a[c]
                               /\ (g2[c] = g[c] /\ ~Told(s, b, l)) \/ g2[c] = "none"
  PROVE  HeldWaits(r, a2, g2, s2)
BY DEF HeldWaits

\* A client who asks waits nowhere.
LEMMA AskStart ==
  ASSUME Known, NEW c \in Client, NEW q \in Query, Asks(c, q) PROVE
    /\ stack = << >> /\ got[c] = "none" /\ asked'[c] = q /\ q # None
    /\ \A b \in Slot : \A l \in DOMAIN rem[b].locals : ~Held(rem, b, l, c)
    /\ Answers(asked', got, cache)
    /\ HeldWaits(rem, asked', got, << >>)
<1>1. /\ asked'[c] = q /\ asked[c] = None /\ stack = << >>
      /\ \A d \in Client : d # c => asked'[d] = asked[d]
  BY DEF Asks, Known, Inv, UsersOK
<1>2. got[c] = "none"
  BY <1>1 DEF Known, ClientsInv, Answers
<1>3. \A b \in Slot : \A l \in DOMAIN rem[b].locals : ~Held(rem, b, l, c)
  BY <1>1 DEF Known, ClientsInv, HeldWaits
<1>4. Answers(asked', got, cache)
  BY <1>1, <1>2, Words DEF Known, ClientsInv, Answers, Notice
<1>5. HeldWaits(rem, asked', got, << >>)
  <2>1. \A b, l : ~Told(stack, b, l)
    BY <1>1 DEF Told
  <2> QED BY <1>1, <1>3, <2>1 DEF Known, ClientsInv, HeldWaits
<1> QED BY <1>1, <1>2, <1>3, <1>4, <1>5, Words

\* What clients whose query is not forwarded are told.
LEMMA RefusalWord ==
  ASSUME Known, NEW q \in Query, NEW v \in {cache[q], Refusal(q)}, v # None
  PROVE  v \notin {"none", "twice", "mangled"} /\ (v \in Query => v = q)
<1>1. cache[q] \in {q, "negative", None}
  BY DEF Known, ClientsInv, Answers
<1> QED BY <1>1, Words DEF Refusal, Notice

\* A client who asks is told something at once.
LEMMA AskTold ==
  ASSUME Known, NEW c \in Client, NEW q \in Query, Asks(c, q),
         NEW v \in {cache[q], Refusal(q)}, v # None, Tell({c}, v),
         UNCHANGED <<rem, cache, cname, stack>>
  PROVE  ClientsInv'
<1>1. /\ stack = << >> /\ got[c] = "none" /\ asked'[c] = q /\ q # None
      /\ \A b \in Slot : \A l \in DOMAIN rem[b].locals : ~Held(rem, b, l, c)
      /\ Answers(asked', got, cache)
      /\ HeldWaits(rem, asked', got, << >>)
  BY AskStart
<1>2. v \notin {"none", "twice", "mangled"} /\ (v \in Query => v = q)
  BY RefusalWord
<1>3. /\ Answers(asked', got', cache) /\ Once(got')
      /\ \A d \in Client : got'[d] = IF d \in {c} THEN v ELSE got[d]
  <2> DEFINE cs == {c}
  <2>1. cs \in SUBSET Client /\ Tell(cs, v)
    OBVIOUS
  <2>2. \A d \in cs : got[d] = "none" /\ asked'[d] # None
                     /\ (v \in Query => v = asked'[d])
    BY <1>1, <1>2
  <2> HIDE DEF cs
  <2>3. /\ Answers(asked', got', cache) /\ Once(got')
        /\ \A d \in Client : got'[d] = IF d \in cs THEN v ELSE got[d]
    BY <1>1, <1>2, <2>1, <2>2, TellClients
  <2> QED BY <2>3 DEF cs
<1>4. HeldWaits(rem, asked', got', << >>)
  <2>1. \A b, l : ~Told(<< >>, b, l)
    BY DEF Told
  <2> QED BY <1>1, <1>3, <2>1, OthersWait
<1>5. Calls(rem, asked', got', << >>)
  BY NoCalls
<1> QED BY <1>1, <1>3, <1>4, <1>5 DEF Known, ClientsInv

LEMMA AskCachedClients ==
  ASSUME Known, NEW c \in Client, NEW q \in Query, AskCached(c, q)
  PROVE  ClientsInv'
BY AskTold DEF AskCached, Fresh, table, caches

LEMMA RefusalSome ==
  ASSUME NEW q \in Query PROVE Refusal(q) # None
BY Words DEF Refusal, Notice

LEMMA AskRefusedClients ==
  ASSUME Known, NEW c \in Client, NEW q \in Query, AskRefused(c, q)
  PROVE  ClientsInv'
BY AskTold, RefusalSome DEF AskRefused, Forwards, caches

\* A client c who waits nowhere gets into the locals of slot b.
LEMMA EnterClients ==
  ASSUME NEW r \in [Slot -> Pending], NEW r2, NEW b \in Slot, NEW c \in Client,
         NEW n \in DOMAIN r2[b].locals, r2[b].locals[n] = ForClient(c),
         \A l \in DOMAIN r2[b].locals : l # n =>
           l \in DOMAIN r[b].locals /\ r2[b].locals[l] = r[b].locals[l],
         r2[b].query = r[b].query,
         \A a \in Slot : a # b => r2[a] = r[a],
         \A a \in Slot : \A l \in DOMAIN r[a].locals : ~Held(r, a, l, c),
         NEW a, NEW g, NEW s, a[c] # None, a[c] = r[b].query, g[c] = "none",
         PlainLocals(r), HeldOnce(r), HeldAlone(r), HeldWaits(r, a, g, s),
         MaxInflights = 1 => n = 1
  PROVE  PlainLocals(r2) /\ HeldOnce(r2) /\ HeldAlone(r2) /\ HeldWaits(r2, a, g, s)
<1>1. ForClient(c).type = 0 /\ ForClient(c).client = c
  BY DEF ForClient
<1>2. ASSUME NEW e \in Slot, NEW l \in DOMAIN r2[e].locals,
             ~(e = b /\ l = n)
      PROVE  /\ l \in DOMAIN r[e].locals /\ r2[e].locals[l] = r[e].locals[l]
             /\ r2[e].query = r[e].query
             /\ \A d : Held(r2, e, l, d) => Held(r, e, l, d)
  <2>1. /\ l \in DOMAIN r[e].locals /\ r2[e].locals[l] = r[e].locals[l]
        /\ r2[e].query = r[e].query
    BY <1>2
  <2> QED BY <2>1 DEF Held
<1>3. n \in DOMAIN r2[b].locals /\ Held(r2, b, n, c)
      /\ \A d : Held(r2, b, n, d) => d = c
  BY <1>1 DEF Held
<1>4. PlainLocals(r2)
  <2> SUFFICES ASSUME NEW e \in Slot, NEW l \in DOMAIN r2[e].locals
               PROVE  r2[e].locals[l].type \in {0, 1}
    BY DEF PlainLocals
  <2>1. CASE e = b /\ l = n
    BY <1>1, <2>1
  <2>2. CASE ~(e = b /\ l = n)
    BY <1>2, <2>2 DEF PlainLocals
  <2> QED BY <2>1, <2>2
<1>5. HeldAlone(r2)
  BY <1>2 DEF HeldAlone
<1>6. HeldWaits(r2, a, g, s)
  <2> SUFFICES ASSUME NEW e \in Slot, NEW d \in Client,
                      NEW l \in DOMAIN r2[e].locals, Held(r2, e, l, d)
               PROVE  /\ a[d] # None /\ a[d] = r2[e].query
                      /\ g[d] = "none" \/ Told(s, e, l)
    BY DEF HeldWaits
  <2>1. CASE e = b /\ l = n
    BY <1>3, <2>1
  <2>2. CASE ~(e = b /\ l = n)
    BY <1>2, <2>2 DEF HeldWaits
  <2> QED BY <2>1, <2>2
<1>7. HeldOnce(r2)
  <2> SUFFICES ASSUME NEW b1 \in Slot, NEW b2 \in Slot, NEW d \in Client,
                      NEW l1 \in DOMAIN r2[b1].locals,
                      NEW l2 \in DOMAIN r2[b2].locals,
                      Held(r2, b1, l1, d), Held(r2, b2, l2, d)
               PROVE  b1 = b2 /\ l1 = l2
    BY DEF HeldOnce
  <2>1. CASE d = c
    <3>1. \A e \in Slot : \A l \in DOMAIN r2[e].locals :
            Held(r2, e, l, c) => e = b /\ l = n
      BY <1>2
    <3> QED BY <2>1, <3>1
  <2>2. CASE d # c
    <3>1. ~(b1 = b /\ l1 = n) /\ ~(b2 = b /\ l2 = n)
      BY <1>3, <2>2
    <3>2. /\ l1 \in DOMAIN r[b1].locals /\ Held(r, b1, l1, d)
          /\ l2 \in DOMAIN r[b2].locals /\ Held(r, b2, l2, d)
      BY <1>2, <3>1
    <3> QED BY <3>2 DEF HeldOnce
  <2> QED BY <2>1, <2>2
<1> QED BY <1>4, <1>5, <1>6, <1>7

LEMMA AskAttachClients ==
  ASSUME Known, NEW c \in Client, NEW q \in Query, AskAttach(c, q)
  PROVE  ClientsInv'
<1> DEFINE b == inflight[q]
<1>1. CASE Tell({c}, Refusal(q)) /\ UNCHANGED rem
  BY <1>1, AskTold, RefusalSome DEF AskAttach, Forwards, caches
<1>2. CASE /\ rem' = [rem EXCEPT ![b].locals = Append(@, ForClient(c))]
           /\ UNCHANGED got
  <2> DEFINE ls == Append(rem[b].locals, ForClient(c))
             n == Len(rem[b].locals) + 1
  <2>1. /\ b \in Slot /\ rem[b].query = q
        /\ MaxInflights # 1
    BY DEF Known, Inv, AskAttach, Joinable, Listed, TableInv, TableOK
  <2>2. rem[b] \in Pending /\ rem[b].locals \in Seq(Local)
    BY <2>1, RemTyped DEF Known, Pending
  <2>3. ForClient(c) \in Local
    BY DEF ForClient, Local
  <2>4. /\ n \in DOMAIN ls /\ ls[n] = ForClient(c)
        /\ \A l \in DOMAIN ls : l # n =>
             l \in DOMAIN rem[b].locals /\ ls[l] = rem[b].locals[l]
    BY <2>2, <2>3
  <2> HIDE DEF ls, n, b
  <2>5. rem' = [rem EXCEPT ![b].locals = ls]
    BY <1>2 DEF ls
  <2>6. \A a \in Slot : a # b => rem'[a] = rem[a]
    BY <2>1, <2>5, RemTyped DEF Known
  <2>7. rem'[b].locals = ls /\ rem'[b].query = rem[b].query
    <3>1. rem'[b] = [rem[b] EXCEPT !.locals = ls]
      BY <2>1, <2>5, RemTyped DEF Known
    <3> QED BY <2>2, <3>1 DEF Pending
  <2>8. /\ stack = << >> /\ got[c] = "none" /\ asked'[c] = q /\ q # None
        /\ \A e \in Slot : \A l \in DOMAIN rem[e].locals : ~Held(rem, e, l, c)
        /\ Answers(asked', got, cache)
        /\ HeldWaits(rem, asked', got, << >>)
    BY AskStart DEF AskAttach, Forwards
  <2>9. PlainLocals(rem) /\ HeldOnce(rem) /\ HeldAlone(rem)
    BY DEF Known, ClientsInv
  <2>10. rem \in [Slot -> Pending]
    BY RemTyped DEF Known
  <2>11. /\ PlainLocals(rem') /\ HeldOnce(rem') /\ HeldAlone(rem')
         /\ HeldWaits(rem', asked', got, << >>)
    <3> DEFINE r == rem
               r2 == rem'
               a2 == asked'
    <3>1. /\ r \in [Slot -> Pending]
          /\ n \in DOMAIN r2[b].locals /\ r2[b].locals[n] = ForClient(c)
          /\ r2[b].query = r[b].query /\ got[c] = "none"
          /\ \A a \in Slot : a # b => r2[a] = r[a]
          /\ \A a \in Slot : \A l \in DOMAIN r[a].locals : ~Held(r, a, l, c)
          /\ a2[c] # None /\ a2[c] = r[b].query
          /\ PlainLocals(r) /\ HeldOnce(r) /\ HeldAlone(r)
          /\ HeldWaits(r, a2, got, << >>)
          /\ \A l \in DOMAIN r2[b].locals : l # n =>
               l \in DOMAIN r[b].locals /\ r2[b].locals[l] = r[b].locals[l]
      BY <2>1, <2>4, <2>6, <2>7, <2>8, <2>9, <2>10
    <3>2. MaxInflights = 1 => n = 1
      BY <2>1
    <3> HIDE DEF r, r2, a2
    <3>3. /\ PlainLocals(r2) /\ HeldOnce(r2) /\ HeldAlone(r2)
          /\ HeldWaits(r2, a2, got, << >>)
      BY <2>1, <3>1, <3>2, EnterClients
    <3> QED BY <3>3 DEF r2, a2
  <2>12. Calls(rem', asked', got, << >>)
    BY NoCalls
  <2>13. stack' = << >> /\ got' = got /\ cache' = cache /\ cname' = cname
    BY <1>2, <2>8 DEF AskAttach, caches
  <2> QED BY <2>8, <2>11, <2>12, <2>13 DEF Known, ClientsInv
<1> QED BY <1>1, <1>2 DEF AskAttach

LEMMA AskNewClients ==
  ASSUME Known, NEW c \in Client, NEW q \in Query, NEW lower \in BOOLEAN,
         AskNew(c, q, lower)
  PROVE  ClientsInv'
<1> DEFINE x == [Blank EXCEPT !.query = q, !.live = TRUE]
<1>1. PICK b \in Lowest(Free) :
        /\ rem' = [rem EXCEPT ![b] = x]
        /\ stack' = <<ConnectFrame(b, lower),
                      [op |-> "forwarded", b |-> b, client |-> c, q |-> q]>>
  BY DEF AskNew
<1>2. b \in Slot
  BY LowestIn DEF Free
<1>3. x.locals = << >> /\ x.query = q
  BY DEF Blank
<1> HIDE DEF x
<1>4. rem \in [Slot -> Pending]
  BY RemTyped DEF Known
<1>5. rem'[b] = x /\ Shrinks(rem, rem')
  BY <1>1, <1>2, <1>3, <1>4, ShrinksRenew
<1>6. /\ got[c] = "none" /\ asked'[c] = q /\ q # None
      /\ \A e \in Slot : \A l \in DOMAIN rem[e].locals : ~Held(rem, e, l, c)
      /\ Answers(asked', got, cache)
      /\ HeldWaits(rem, asked', got, << >>)
  BY AskStart DEF AskNew, Forwards
<1>7. PlainLocals(rem') /\ HeldOnce(rem') /\ HeldAlone(rem')
  BY <1>5, ShrinksPlain DEF Known, ClientsInv
<1>8. HeldWaits(rem', asked', got, stack')
  <2>1. \A e, l : ~Told(<< >>, e, l)
    BY DEF Told
  <2>2. \A e \in Slot, d \in Client : \A l \in DOMAIN rem[e].locals :
          Held(rem, e, l, d) => got[d] = "none"
    BY <1>6, <2>1 DEF HeldWaits
  <2> QED BY <1>5, <1>6, <2>2, ShrinksWaits
<1> DEFINE f == ConnectFrame(b, lower)
           h == [op |-> "forwarded", b |-> b, client |-> c, q |-> q]
<1>9. /\ f.op = "connect"
      /\ h.op = "forwarded" /\ h.b = b /\ h.client = c /\ h.q = q
  BY DEF ConnectFrame
<1>10. stack' = <<f, h>>
  BY <1>1
<1> HIDE DEF f, h
<1>11. \A e \in Slot : \A l \in DOMAIN rem'[e].locals : ~Held(rem', e, l, c)
  BY <1>5, <1>6, ShrinksHeld
<1>12. /\ PlainFrame(f) /\ ForwardedWaits(rem', asked', got, f)
       /\ PlainFrame(h) /\ ForwardedWaits(rem', asked', got, h)
  BY <1>3, <1>5, <1>6, <1>9, <1>11 DEF PlainFrame, ForwardedWaits
<1>13. Calls(rem', asked', got, stack')
  BY <1>10, <1>12, TwoCalls
<1> QED BY <1>6, <1>7, <1>8, <1>13 DEF AskNew, caches, Known, ClientsInv

LEMMA ForwardedClients == ASSUME Known, Forwarded PROVE ClientsInv'
<1> DEFINE b == Top.b
           c == Top.client
<1>1. stack \in Seq(Frame) /\ stack # << >> /\ Top.op = "forwarded"
  BY DEF Known, Inv, Forwarded, Runs
<1>2. b \in Slot /\ c \in Client /\ Top.q \in Query
  BY <1>1, FrameOf
<1>3. stack' = << >>
  BY <1>1, Outermost DEF Known, Forwarded, Return, Serving
<1>4. /\ asked[c] = Top.q /\ got[c] = "none"
      /\ rem[b].query = Top.q /\ rem[b].locals = << >>
      /\ \A e \in Slot : \A l \in DOMAIN rem[e].locals : ~Held(rem, e, l, c)
  BY <1>1, TopCalls DEF Known, ClientsInv, ForwardedWaits
<1>5. rem \in [Slot -> Pending]
  BY RemTyped DEF Known
<1>6. /\ PlainLocals(rem) /\ HeldOnce(rem) /\ HeldAlone(rem)
      /\ Answers(asked, got, cache) /\ Once(got)
  BY DEF Known, ClientsInv
<1>7. HeldWaits(rem, asked, got, << >>)
  <2>1. \A e, l : ~Told(stack, e, l)
    BY <1>1 DEF Told, Top
  <2> QED BY <2>1 DEF Known, ClientsInv, HeldWaits
<1>8. UNCHANGED <<asked, cache, cname>>
  BY DEF Forwarded, caches
<1>9. Calls(rem', asked', got', << >>)
  BY NoCalls
<1>10. CASE rem[b].sock = None
  <2>1. rem' = [rem EXCEPT ![b] = Blank] /\ Tell({c}, Refusal(Top.q))
    BY <1>10 DEF Forwarded, Reset
  <2>2. Shrinks(rem, rem')
    BY <1>2, <1>5, <2>1, ShrinksRenew DEF Blank
  <2>3. PlainLocals(rem') /\ HeldOnce(rem') /\ HeldAlone(rem')
    BY <1>6, <2>2, ShrinksPlain
  <2> DEFINE v == Refusal(Top.q)
             cs == {c}
  <2>4. v \notin {"none", "twice", "mangled"} /\ (v \in Query => v = Top.q)
    BY <1>2, RefusalWord, RefusalSome
  <2>5. Tell(cs, v) /\ cs \in SUBSET Client
    BY <1>2, <2>1
  <2>6. \A d \in cs : got[d] = "none" /\ asked[d] # None
                      /\ (v \in Query => v = asked[d])
    BY <1>2, <1>4, <2>4, Words
  <2> HIDE DEF v, cs
  <2>7. /\ Answers(asked, got', cache) /\ Once(got')
        /\ \A d \in Client : got'[d] = IF d \in cs THEN v ELSE got[d]
    BY <1>6, <2>4, <2>5, <2>6, TellClients
  <2>8. \A e \in Slot, d \in Client : \A l \in DOMAIN rem[e].locals :
          Held(rem, e, l, d) => got'[d] = "none"
    <3>1. \A e, l : ~Told(<< >>, e, l)
      BY DEF Told
    <3> QED BY <1>4, <1>7, <2>7, <3>1 DEF HeldWaits, cs
  <2>9. HeldWaits(rem', asked, got', << >>)
    BY <1>7, <2>2, <2>8, ShrinksWaits
  <2> QED BY <1>3, <1>8, <1>9, <2>3, <2>7, <2>9 DEF Known, ClientsInv
<1>11. CASE rem[b].sock # None
  <2> DEFINE ls == <<ForClient(c)>>
             r2 == rem'
  <2>1. rem' = [rem EXCEPT ![b].locals = ls] /\ got' = got
    BY <1>11 DEF Forwarded
  <2>2. DOMAIN ls = {1} /\ ls[1] = ForClient(c)
    OBVIOUS
  <2> HIDE DEF ls
  <2>3. \A a \in Slot : a # b => rem'[a] = rem[a]
    BY <1>2, <1>5, <2>1
  <2>4. rem'[b].locals = ls /\ rem'[b].query = rem[b].query
    <3>1. rem'[b] = [rem[b] EXCEPT !.locals = ls] /\ rem[b] \in Pending
      BY <1>2, <1>5, <2>1
    <3> QED BY <3>1 DEF Pending
  <2>5. /\ 1 \in DOMAIN r2[b].locals /\ r2[b].locals[1] = ForClient(c)
        /\ \A l \in DOMAIN r2[b].locals : l # 1 =>
             l \in DOMAIN rem[b].locals /\ r2[b].locals[l] = rem[b].locals[l]
        /\ r2[b].query = rem[b].query
        /\ \A a \in Slot : a # b => r2[a] = rem[a]
    BY <2>2, <2>3, <2>4
  <2>6. asked[c] # None /\ asked[c] = rem[b].query
    BY <1>2, <1>4, Words
  <2> HIDE DEF r2, b, c
  <2>7. /\ PlainLocals(r2) /\ HeldOnce(r2) /\ HeldAlone(r2)
        /\ HeldWaits(r2, asked, got, << >>)
    BY <1>2, <1>4, <1>5, <1>6, <1>7, <2>5, <2>6, EnterClients
  <2> QED BY <1>3, <1>6, <1>8, <1>9, <2>1, <2>7 DEF Known, ClientsInv, r2
<1> QED BY <1>10, <1>11

-----------------------------------------------------------------------------
(***************************************************************************)
(* A datagram comes from upstream.                                         *)
(***************************************************************************)
LEMMA ReceiveClients ==
  ASSUME NoCnames, Known, NEW b \in Slot, NEW f \in Fd,
         Receive(b, f) \/ ReceiveStray(b, f)
  PROVE  ClientsInv'
<1>1. rem' = rem /\ stack = << >> /\ UNCHANGED <<users, cache, cname>>
  BY DEF Receive, ReceiveStray, Arrives, caches
<1>2. Shrinks(rem, rem')
  BY <1>1 DEF Shrinks
<1>3. \A e, l : ~Told(stack, e, l)
  BY <1>1 DEF Told
<1>4. Calls(rem', asked, got, stack')
  <2>1. CASE ReceiveStray(b, f)
    BY <1>1, <2>1, NoCalls DEF ReceiveStray
  <2>2. CASE Receive(b, f)
    <3>0. PICK q \in Query : \E says \in Says[q] :
            stack' = <<ReplyFrame(b, 1, says, sent[f].lower, TRUE)>>
      BY <2>2 DEF Receive
    <3>1. PICK says \in Says[q] :
            stack' = <<ReplyFrame(b, 1, says, sent[f].lower, TRUE)>>
      BY <3>0
    <3> DEFINE g == ReplyFrame(b, 1, says, sent[f].lower, TRUE)
    <3>2. says \notin Query
      BY DEF NoCnames
    <3>3. g.op = "reply" /\ g.says = says /\ g.kill = TRUE /\ g.l = 1
      BY DEF ReplyFrame
    <3> HIDE DEF g
    <3>4. PlainFrame(g) /\ ForwardedWaits(rem', asked, got, g)
      BY <3>2, <3>3 DEF PlainFrame, ForwardedWaits
    <3> QED BY <3>1, <3>4, OneCall DEF g
  <2> QED BY <2>1, <2>2
<1> QED BY <1>1, <1>2, <1>3, <1>4, Quiet

\* A round of the loop over the locals.
LEMMA RoundClients ==
  ASSUME Known, NEW says, Round(says) PROVE
    /\ Rest = << >> /\ stack # << >> /\ Top = Head(stack)
    /\ Top.b \in Slot /\ Top.l \in Nat /\ Top.says \notin Query
    /\ Top.op = "reply" /\ PlainFrame(Top)
    /\ Top.l \in DOMAIN rem[Top.b].locals /\ This.type \in {0, 1}
    /\ Continued.op = "reply" /\ Kept.op = "reply"
    /\ Continued.b = Top.b /\ Continued.l = Top.l + 1
    /\ Continued.says = Top.says /\ Continued.kill = Top.kill
    /\ Kept.says = Top.says /\ Kept.kill = FALSE
    /\ Continued \in Frame /\ Kept \in Frame
<1>1. stack \in Seq(Frame) /\ stack # << >> /\ Top.op = "reply"
  BY DEF Round, Runs, Known, Inv
<1>2. Rest = << >> /\ PlainFrame(Top)
  BY <1>1, Outermost, TopCalls DEF Known, Serving, ClientsInv
<1>3. Top \in ReplyFrames
  BY <1>1, Popped DEF Frame, ReplyFrames
<1>4. /\ Top.b \in Slot /\ Top.l \in Nat /\ Continued \in Frame /\ Kept \in Frame
      /\ Top.l \in DOMAIN rem[Top.b].locals
  BY RoundOK DEF Known
<1>5. This.type \in {0, 1}
  BY <1>4 DEF This, Known, ClientsInv, PlainLocals
<1>6. /\ Continued.op = "reply" /\ Kept.op = "reply"
      /\ Continued.b = Top.b /\ Continued.l = Top.l + 1
      /\ Continued.says = Top.says /\ Continued.kill = Top.kill
      /\ Kept.says = Top.says /\ Kept.kill = FALSE
  BY <1>1, <1>3 DEF Continued, Kept, ReplyFrames
<1> QED BY <1>1, <1>2, <1>4, <1>5, <1>6 DEF PlainFrame, Top

LEMMA ReplyBadClients == ASSUME Known, ReplyBad PROVE ClientsInv'
<1>1. stack' = << >> /\ rem' = rem /\ UNCHANGED <<users, cache, cname>>
  BY RoundClients DEF ReplyBad, Return, table, caches
<1>2. \A e, l : ~Told(stack, e, l)
  BY DEF Told, ReplyBad, Round, Top, Direct
<1>3. Shrinks(rem, rem') /\ Calls(rem', asked, got, stack')
  BY <1>1, NoCalls DEF Shrinks
<1> QED BY <1>1, <1>2, <1>3, Quiet

LEMMA ReplyReferClients == ASSUME Known, ReplyRefer PROVE ClientsInv'
<1> DEFINE b == Top.b
           f == ConnectFrame(b, TRUE)
<1>1. /\ Rest = << >> /\ b \in Slot /\ Kept.op = "reply" /\ Kept \in Frame
      /\ Kept.says = "refer" /\ Kept.kill = FALSE
  BY RoundClients DEF ReplyRefer, Round
<1>2. f \in Frame /\ f.op = "connect"
  BY <1>1, ConnectFrameOK DEF ConnectFrame
<1>3. stack' = <<f, Kept>>
  BY <1>1, <1>2, Concat DEF ReplyRefer
<1> HIDE DEF f
<1>4. "refer" \notin Query
  BY RoundClients DEF ReplyRefer, Round
<1>5. /\ PlainFrame(f) /\ ForwardedWaits(rem', asked, got, f)
      /\ PlainFrame(Kept) /\ ForwardedWaits(rem', asked, got, Kept)
  BY <1>1, <1>2, <1>4 DEF PlainFrame, ForwardedWaits, Direct
<1>6. Calls(rem', asked, got, stack')
  BY <1>3, <1>5, TwoCalls
<1>7. \A e, l : ~Told(stack, e, l)
  BY DEF Told, ReplyRefer, Round, Top, Direct
<1>8. Shrinks(rem, rem')
  <2>1. Used(rem) /\ Kin(rem)
    BY DEF Known, Serving
  <2>2. \A a \in Slot : SameKin(rem, rem', a)
    BY <1>1, <2>1, RemTyped, HangsUp DEF ReplyRefer, Known
  <2> QED BY <2>2, ShrinksSame
<1> QED BY <1>6, <1>7, <1>8, Quiet DEF ReplyRefer, caches

\* The loop goes on with the next local.
LEMMA NextRound ==
  ASSUME Known, Round(Direct), Call(Continued) PROVE
    /\ stack' = <<Continued>> /\ Continued.op # "forwarded"
    /\ PlainFrame(Continued)
    /\ \A b, l : Told(stack, b, l) => Told(stack', b, l)
    /\ ~Told(stack, Top.b, Top.l) /\ Told(stack', Top.b, Top.l)
<1>1. /\ Rest = << >> /\ stack # << >> /\ Top = Head(stack)
      /\ Top.b \in Slot /\ Top.l \in Nat /\ Top.says \notin Query
      /\ Top.op = "reply" /\ PlainFrame(Top)
      /\ Continued.op = "reply" /\ Continued.b = Top.b
      /\ Continued.l = Top.l + 1 /\ Continued.says = Top.says
      /\ Continued.kill = Top.kill /\ Continued \in Frame
  BY RoundClients
<1>2. stack' = <<Continued>>
  BY <1>1, Concat DEF Call
<1>3. Top.says \in Direct
  BY DEF Round
<1>4. PlainFrame(Continued)
  BY <1>1, <1>3 DEF PlainFrame
<1>5. ASSUME NEW b, NEW l PROVE Told(stack, b, l) <=> b = Top.b /\ l \in 1..(Top.l - 1)
  BY <1>1, <1>3 DEF Told
<1>6. ASSUME NEW b, NEW l PROVE Told(stack', b, l) <=> b = Top.b /\ l \in 1..Top.l
  <2> DEFINE s == <<Continued>>
  <2>1. s # << >> /\ Head(s) = Continued
    OBVIOUS
  <2> HIDE DEF s
  <2>2. Continued.l - 1 = Top.l
    BY <1>1
  <2>3. Told(s, b, l) <=> b = Top.b /\ l \in 1..Top.l
    BY <1>1, <1>3, <2>1, <2>2 DEF Told
  <2> QED BY <1>2, <2>3 DEF s
<1>7. /\ Top.l \in 1..Top.l /\ Top.l \notin 1..(Top.l - 1)
      /\ \A l : l \in 1..(Top.l - 1) => l \in 1..Top.l
  <2>1. Top.l \in Nat /\ Top.l >= 1
    BY RoundOK DEF Known
  <2> QED BY <2>1
<1> QED BY <1>1, <1>2, <1>4, <1>5, <1>6, <1>7

\* What the slot caches for its own query.
LEMMA CacheAnswers ==
  ASSUME Known, NEW b \in Slot, NEW v \in {rem[b].query, "negative"}, NEW g,
         Answers(asked, g, cache), Cache(rem[b].query, v)
  PROVE  Answers(asked, g, cache')
<1>1. cache \in [Query -> Query \union {None, "negative"}]
  BY DEF Known, Inv, CachesOK
<1>2. \A q \in Query : cache'[q] = IF q = rem[b].query THEN v ELSE cache[q]
  BY <1>1 DEF Cache
<1> QED BY <1>2 DEF Answers

LEMMA ReplyToClientClients == ASSUME Known, ReplyToClient PROVE ClientsInv'
<1> DEFINE b == Top.b
           l == Top.l
           c == This.client
           cs == IF Top.lower THEN {c} ELSE {}
           v == Value
<1>1. /\ b \in Slot /\ l \in DOMAIN rem[b].locals /\ This \in Local
      /\ This.type = 0
  BY RoundOK DEF Known, ReplyToClient
<1>2. c \in Client /\ Held(rem, b, l, c)
  BY <1>1 DEF Local, Held, This
<1>3. /\ stack' = <<Continued>> /\ Continued.op # "forwarded"
      /\ PlainFrame(Continued)
      /\ \A e, k : Told(stack, e, k) => Told(stack', e, k)
      /\ ~Told(stack, b, l) /\ Told(stack', b, l)
  BY NextRound DEF ReplyToClient
<1>4. /\ PlainLocals(rem) /\ HeldOnce(rem) /\ HeldAlone(rem)
      /\ HeldWaits(rem, asked, got, stack)
      /\ Answers(asked, got, cache)
  BY DEF Known, ClientsInv
<1>5. asked[c] # None /\ asked[c] = rem[b].query /\ got[c] = "none"
  BY <1>1, <1>2, <1>3, <1>4 DEF HeldWaits
<1>6. v \in {rem[b].query, "negative"} /\ v \in Query \union {"negative"}
  <2>1. asked[c] \in Query
    BY <1>2, <1>5 DEF Known, Inv, UsersOK
  <2> QED BY <1>5, <2>1 DEF Value
<1>7. Tell(cs, v) /\ Cache(rem[b].query, v)
      /\ UNCHANGED <<rem, asked, cname>>
  BY DEF ReplyToClient, table
<1>8. cs \in SUBSET Client /\ \A d \in cs : d = c
  BY <1>2
<1>9. v \notin {"none", "twice", "mangled"}
  BY <1>6, Words DEF Notice
<1>10. v \in Query => v = asked[c]
  BY <1>5, <1>6, Words DEF Notice
<1> HIDE DEF v, cs, b, l, c
<1>11. /\ Answers(asked, got', cache) /\ Once(got')
       /\ \A d \in Client : got'[d] = IF d \in cs THEN v ELSE got[d]
  BY <1>4, <1>5, <1>7, <1>8, <1>9, <1>10, TellClients
<1>12. Answers(asked, got', cache')
  BY <1>1, <1>6, <1>7, <1>11, CacheAnswers
<1>13. HeldWaits(rem, asked, got', stack')
  <2> SUFFICES ASSUME NEW e \in Slot, NEW d \in Client,
                      NEW k \in DOMAIN rem[e].locals, Held(rem, e, k, d)
               PROVE  got'[d] = "none" \/ Told(stack', e, k)
    BY <1>4 DEF HeldWaits
  <2>1. CASE d = c
    <3>1. e = b /\ k = l
      BY <1>1, <1>2, <1>4, <2>1 DEF HeldOnce
    <3> QED BY <1>3, <3>1
  <2>2. CASE d # c
    <3>1. got'[d] = got[d]
      BY <1>8, <1>11, <2>2
    <3> QED BY <1>3, <1>4, <3>1 DEF HeldWaits
  <2> QED BY <2>1, <2>2
<1>14. Calls(rem, asked, got', stack')
  <2>1. ForwardedWaits(rem, asked, got', Continued)
    BY <1>3 DEF ForwardedWaits
  <2> QED BY <1>3, <2>1, OneCall
<1> QED BY <1>4, <1>7, <1>11, <1>12, <1>13, <1>14 DEF Known, ClientsInv

LEMMA ReplyToNsParentClients == ASSUME Known, ReplyToNsParent PROVE ClientsInv'
<1> DEFINE b == Top.b
           p == This.conn
<1>1. b \in Slot /\ This \in Local
  BY RoundOK DEF Known, ReplyToNsParent
<1>2. p \in Slot
  BY <1>1 DEF ReplyToNsParent, Local
<1>3. /\ stack' = <<Continued>> /\ Continued.op # "forwarded"
      /\ PlainFrame(Continued)
      /\ \A e, k : Told(stack, e, k) => Told(stack', e, k)
  BY NextRound DEF ReplyToNsParent
<1>4. UNCHANGED <<users, cname>> /\ Cache(rem[b].query, Value)
  BY DEF ReplyToNsParent
<1>5. Value \in {rem[b].query, "negative"}
  BY DEF Value
<1>6. \A a \in Slot : SameKin(rem, rem', a)
  <2>1. CASE UNCHANGED rem
    BY <2>1 DEF SameKin
  <2>2. CASE Dial(p, TRUE)
    BY <1>2, <2>2, DialSame DEF Known
  <2> QED BY <2>1, <2>2 DEF ReplyToNsParent, table
<1>7. Shrinks(rem, rem')
  BY <1>6, ShrinksSame
<1>8. PlainLocals(rem') /\ HeldOnce(rem') /\ HeldAlone(rem')
  BY <1>7, ShrinksPlain DEF Known, ClientsInv
<1>9. HeldWaits(rem', asked, got, stack')
  <2>1. HeldWaits(rem, asked, got, stack)
    BY DEF Known, ClientsInv
  <2>2. \A e \in Slot, d \in Client : \A k \in DOMAIN rem[e].locals :
          Held(rem, e, k, d) => got[d] = "none" \/ Told(stack', e, k)
    BY <1>3, <2>1 DEF HeldWaits
  <2> QED BY <1>7, <2>1, <2>2, ShrinksWaits
<1>10. Calls(rem', asked, got, stack')
  <2>1. ForwardedWaits(rem', asked, got, Continued)
    BY <1>3 DEF ForwardedWaits
  <2> QED BY <1>3, <2>1, OneCall
<1>11. Answers(asked, got, cache')
  <2>1. Answers(asked, got, cache)
    BY DEF Known, ClientsInv
  <2> QED BY <1>1, <1>4, <1>5, <2>1, CacheAnswers
<1> QED BY <1>4, <1>8, <1>9, <1>10, <1>11 DEF Known, ClientsInv, users

LEMMA ReplyDoneClients == ASSUME Known, ReplyDone PROVE ClientsInv'
<1> DEFINE b == Top.b
<1>1. stack \in Seq(Frame) /\ stack # << >> /\ Top.op = "reply"
  BY DEF Known, Inv, ReplyDone, Runs
<1>2. b \in Slot /\ PlainFrame(Top)
  BY <1>1, FrameOf, TopCalls DEF Known, ClientsInv
<1>3. stack' = << >>
  BY <1>1, Outermost DEF ReplyDone, Return, Known, Serving
<1>4. UNCHANGED <<users, cache, cname>>
  BY DEF ReplyDone, caches
<1>5. Calls(rem', asked, got, stack')
  BY <1>3, NoCalls
<1>6. CASE Top.kill
  <2>1. rem' = [rem EXCEPT ![b] = Blank] /\ Blank.locals = << >>
    BY <1>6 DEF ReplyDone, Release, Blank
  <2>2. Shrinks(rem, rem') /\ rem'[b] = Blank
    BY <1>2, <2>1, RemTyped, ShrinksRenew DEF Known
  <2>3. \A c, l : ~Held(rem', b, l, c)
    BY <2>1, <2>2 DEF Held
  <2>4. \A e, l : Told(stack, e, l) => e = b
    BY DEF Told, Top
  <2> QED BY <1>4, <1>5, <2>2, <2>3, <2>4, Quiet
<1>7. CASE ~Top.kill
  <2>1. \A e, l : ~Told(stack, e, l)
    BY <1>1, <1>2, <1>7 DEF Told, PlainFrame, Top
  <2>2. Shrinks(rem, rem')
    BY <1>7 DEF ReplyDone, table, Shrinks
  <2> QED BY <1>4, <1>5, <2>1, <2>2, Quiet
<1> QED BY <1>6, <1>7

-----------------------------------------------------------------------------
(***************************************************************************)
(* Slots that are given up, time, and clients who leave.                   *)
(***************************************************************************)
LEMMA ClientsHeld ==
  ASSUME Known, NEW b \in Slot, NEW c \in ClientsOf(b) PROVE
    /\ c \in Client /\ asked[c] # None /\ asked[c] = rem[b].query
    /\ \E l \in DOMAIN rem[b].locals : Held(rem, b, l, c)
    /\ stack = << >> \/ Top.op # "reply" \/ Top.says \notin Direct => got[c] = "none"
<1>1. PICK l \in DOMAIN rem[b].locals :
        rem[b].locals[l].type = 0 /\ rem[b].locals[l].client = c
  BY DEF ClientsOf
<1>2. Held(rem, b, l, c)
  BY <1>1 DEF Held
<1>3. rem[b].locals \in Seq(Local)
  BY RemTyped DEF Known, Pending
<1>4. c \in Client
  BY <1>1, <1>3 DEF Local
<1>5. stack = << >> \/ Top.op # "reply" \/ Top.says \notin Direct => ~Told(stack, b, l)
  BY DEF Told, Top
<1> QED BY <1>2, <1>4, <1>5 DEF Known, ClientsInv, HeldWaits

\* A slot ends that still has clients, and some of them may be told so.
LEMMA EndClients ==
  ASSUME Known, NEW b \in Slot, NEW r2, r2 = [rem EXCEPT ![b] = Blank],
         NEW g2, NEW cs \in SUBSET ClientsOf(b),
         \A c \in Client : c \notin cs => g2[c] = got[c],
         \A e, l : ~Told(stack, e, l)
  PROVE  /\ PlainLocals(r2) /\ HeldOnce(r2) /\ HeldAlone(r2)
         /\ HeldWaits(r2, asked, g2, << >>)
<1>1. /\ PlainLocals(rem) /\ HeldOnce(rem) /\ HeldAlone(rem)
      /\ HeldWaits(rem, asked, got, stack)
  BY DEF Known, ClientsInv
<1>2. Shrinks(rem, r2) /\ r2[b] = Blank
  BY RemTyped, ShrinksRenew DEF Known, Blank
<1>3. ASSUME NEW e \in Slot, NEW c \in Client, NEW l \in DOMAIN rem[e].locals,
             Held(rem, e, l, c), Held(r2, e, l, c)
      PROVE  g2[c] = "none"
  <2>1. e # b
    BY <1>2, <1>3 DEF Held, Blank
  <2>2. c \notin cs
    <3> SUFFICES ASSUME c \in cs PROVE FALSE
      OBVIOUS
    <3>1. PICK k \in DOMAIN rem[b].locals : Held(rem, b, k, c)
      BY ClientsHeld
    <3> QED BY <1>1, <1>3, <2>1, <3>1 DEF HeldOnce
  <2> QED BY <1>1, <1>3, <2>2 DEF HeldWaits
<1>4. HeldWaits(r2, asked, g2, << >>)
  BY <1>1, <1>2, <1>3, ShrinksWaits
<1> QED BY <1>1, <1>2, <1>4, ShrinksPlain

LEMMA EndTold ==
  ASSUME Known, NEW b \in Slot, rem' = [rem EXCEPT ![b] = Blank],
         stack' = << >>, UNCHANGED <<asked, cache, cname>>,
         NEW cs \in SUBSET ClientsOf(b), NEW v \in {"synthetic", "fail"},
         Tell(cs, v), \A c \in cs : got[c] = "none",
         \A e, l : ~Told(stack, e, l)
  PROVE  ClientsInv'
<1>1. cs \in SUBSET Client /\ \A c \in cs : asked[c] # None
  BY ClientsHeld
<1>2. v \notin {"none", "twice", "mangled"} /\ v \notin Query
  BY Words DEF Notice
<1>3. Answers(asked, got, cache)
  BY DEF Known, ClientsInv
<1>4. /\ Answers(asked, got', cache) /\ Once(got')
      /\ \A c \in Client : got'[c] = IF c \in cs THEN v ELSE got[c]
  BY <1>1, <1>2, <1>3, TellClients
<1>5. \A c \in Client : c \notin cs => got'[c] = got[c]
  BY <1>4
<1> DEFINE r2 == rem'
           g2 == got'
<1>6. r2 = [rem EXCEPT ![b] = Blank] /\ \A c \in Client : c \notin cs => g2[c] = got[c]
  BY <1>5
<1> HIDE DEF r2, g2
<1>7. /\ PlainLocals(r2) /\ HeldOnce(r2) /\ HeldAlone(r2)
      /\ HeldWaits(r2, asked, g2, << >>)
  BY <1>6, EndClients
<1>8. Calls(r2, asked, g2, << >>)
  BY NoCalls
<1> QED BY <1>4, <1>7, <1>8 DEF r2, g2, Known, ClientsInv

LEMMA ReplyBadIpClients == ASSUME Known, ReplyBadIp PROVE ClientsInv'
<1>1. Rest = << >> /\ Top.b \in Slot /\ Top.says \notin Direct
  BY RoundClients DEF ReplyBadIp, Round, Direct
<1>2. \A e, l : ~Told(stack, e, l)
  BY <1>1 DEF Told, Top
<1>3. \A c \in ClientsOf(Top.b) : got[c] = "none"
  BY <1>1, ClientsHeld
<1>4. /\ rem' = [rem EXCEPT ![Top.b] = Blank] /\ stack' = << >>
      /\ UNCHANGED <<asked, cache, cname>> /\ Tell(ClientsOf(Top.b), "synthetic")
  BY <1>1 DEF ReplyBadIp, Release, Return, caches
<1> QED BY <1>1, <1>2, <1>3, <1>4, EndTold

LEMMA RetryClients ==
  ASSUME Known, NEW b \in Slot, Retry(b) PROVE ClientsInv'
<1> DEFINE f == ConnectFrame(b, TRUE)
<1>1. stack' = <<f>> /\ stack = << >> /\ UNCHANGED <<users, cache, cname>>
  BY DEF Retry, Expires, caches
<1>2. f.op = "connect"
  BY DEF ConnectFrame
<1> HIDE DEF f
<1>3. PlainFrame(f) /\ ForwardedWaits(rem', asked, got, f)
  BY <1>2 DEF PlainFrame, ForwardedWaits
<1>4. Calls(rem', asked, got, stack')
  BY <1>1, <1>3, OneCall
<1>5. Used(rem) /\ Kin(rem)
  BY DEF Known, Serving
<1>6. \A a \in Slot : SameKin(rem, rem', a)
  BY <1>5, RemTyped, HangsUp DEF Retry, Known
<1>7. Shrinks(rem, rem')
  BY <1>6, ShrinksSame
<1>8. \A e, l : ~Told(stack, e, l)
  BY <1>1 DEF Told
<1> QED BY <1>1, <1>4, <1>7, <1>8, Quiet

LEMMA FailNoReplyClients ==
  ASSUME Known, NEW b \in Slot, FailNoReply(b) PROVE ClientsInv'
<1> DEFINE cs == IF HandleNoreply
                 THEN {c \in ClientsOf(b) : rem[b].locals[1].client = c} ELSE {}
<1>1. /\ rem' = [rem EXCEPT ![b] = Blank] /\ stack = << >> /\ stack' = << >>
      /\ UNCHANGED <<asked, cache, cname>> /\ Tell(cs, "fail")
  BY DEF FailNoReply, GivenUp, Expires, caches
<1>2. cs \in SUBSET ClientsOf(b)
  OBVIOUS
<1> HIDE DEF cs
<1>3. \A c \in cs : got[c] = "none"
  BY <1>1, <1>2, ClientsHeld
<1>4. \A e, l : ~Told(stack, e, l)
  BY <1>1 DEF Told
<1> QED BY <1>1, <1>2, <1>3, <1>4, EndTold

LEMMA ResurrectClients ==
  ASSUME Known, NEW b \in Slot, Resurrect(b) PROVE ClientsInv'
<1> DEFINE first == {c \in ClientsOf(b) : rem[b].locals[1].client = c}
           v == cache[rem[b].query]
<1>1. /\ rem' = [rem EXCEPT ![b] = Blank] /\ stack = << >> /\ stack' = << >>
      /\ UNCHANGED <<asked, cache, cname>> /\ Resurrections
      /\ v # None
  BY DEF Resurrect, Resurrected, GivenUp, Expires, caches
<1>2. PICK others \in SUBSET (ClientsOf(b) \ first) :
           got' = [c \in Client |->
                     IF got[c] # "none" /\ c \in first \union others THEN "twice"
                     ELSE IF c \in first THEN v
                     ELSE IF c \in others THEN "mangled" ELSE got[c]]
  BY DEF Resurrect
<1> DEFINE cs == first \union others
<1>3. cs \in SUBSET ClientsOf(b)
  OBVIOUS
<1>4. \A e, l : ~Told(stack, e, l)
  BY <1>1 DEF Told
<1>5. \A c \in cs : got[c] = "none" /\ c \in Client /\ asked[c] # None
                    /\ asked[c] = rem[b].query
  BY <1>1, <1>3, ClientsHeld
<1>6. \A c \in Client :
        got'[c] = IF c \in first THEN v ELSE IF c \in others THEN "mangled" ELSE got[c]
  BY <1>2, <1>5
<1>7. MaxInflights = 1 => others = {}
  <2> SUFFICES ASSUME MaxInflights = 1, NEW c \in others PROVE FALSE
    OBVIOUS
  <2>1. c \in ClientsOf(b) /\ c \notin first
    OBVIOUS
  <2>2. PICK l \in DOMAIN rem[b].locals : Held(rem, b, l, c)
    BY <2>1, ClientsHeld
  <2>3. l = 1
    BY <1>5, <2>2 DEF Known, ClientsInv, HeldAlone
  <2> QED BY <2>1, <2>2, <2>3 DEF Held
<1>8. v \notin {"none", "twice", "mangled"}
      /\ \A c \in first : v \in Query => v = asked[c]
  <2> SUFFICES ASSUME NEW c \in first
               PROVE  v \notin {"none", "twice", "mangled"}
                      /\ (v \in Query => v = asked[c])
    <3> SUFFICES ASSUME first = {} PROVE v \notin {"none", "twice", "mangled"}
      OBVIOUS
    <3>1. rem[b].query \in Query
      BY RemTyped DEF Known, Inv, TableInv, LiveHasQuery, Resurrect, GivenUp,
                      Expires, Pending
    <3> QED BY <1>1, <3>1, RefusalWord
  <2>1. asked[c] = rem[b].query /\ rem[b].query \in Query
    BY <1>5 DEF Known, Inv, UsersOK
  <2> QED BY <1>1, <2>1, RefusalWord
<1> HIDE DEF first, v
<1>9. Answers(asked, got', cache)
  <2>1. Answers(asked, got, cache)
    BY DEF Known, ClientsInv
  <2> QED BY <1>5, <1>6, <1>8, <2>1, Words DEF Answers, Notice
<1>10. Once(got')
  <2>1. Once(got)
    BY DEF Known, ClientsInv
  <2> QED BY <1>1, <1>6, <1>7, <1>8, <2>1 DEF Once
<1>11. \A c \in Client : c \notin cs => got'[c] = got[c]
  BY <1>6
<1> DEFINE r2 == rem'
           g2 == got'
<1>12. r2 = [rem EXCEPT ![b] = Blank] /\ \A c \in Client : c \notin cs => g2[c] = got[c]
  BY <1>1, <1>11
<1> HIDE DEF r2, g2, cs
<1>13. /\ PlainLocals(r2) /\ HeldOnce(r2) /\ HeldAlone(r2)
       /\ HeldWaits(r2, asked, g2, << >>)
  BY <1>3, <1>4, <1>12, EndClients
<1>14. Calls(r2, asked, g2, << >>)
  BY NoCalls
<1> QED BY <1>1, <1>9, <1>10, <1>13, <1>14 DEF r2, g2, Known, ClientsInv

LEMMA AgeClients ==
  ASSUME Known, NEW q \in Query, Age(q) PROVE ClientsInv'
<1>1. /\ rem' = rem /\ stack = << >> /\ stack' = << >>
      /\ UNCHANGED <<users, cache, cname>>
  BY DEF Age, caches, Known, ClientsInv
<1>2. \A e, l : ~Told(stack, e, l)
  BY <1>1 DEF Told
<1>3. Shrinks(rem, rem') /\ Calls(rem', asked, got, stack')
  BY <1>1, NoCalls DEF Shrinks
<1> QED BY <1>1, <1>2, <1>3, Quiet

LEMMA LeaveClients ==
  ASSUME Known, NEW c \in Client, Leave(c) PROVE ClientsInv'
<1>1. /\ stack = << >> /\ stack' = << >> /\ rem' = rem
      /\ cache' = cache /\ cname' = cname
      /\ asked'[c] = None /\ got'[c] = "none"
      /\ \A d \in Client : d # c => asked'[d] = asked[d] /\ got'[d] = got[d]
  BY DEF Leave, table, caches, Known, Inv, UsersOK
<1>2. \A b \in Slot : \A l \in DOMAIN rem[b].locals : ~Held(rem, b, l, c)
  BY DEF Leave, Waiting, Held
<1>3. /\ Answers(asked, got, cache) /\ Once(got)
      /\ HeldWaits(rem, asked, got, stack)
  BY DEF Known, ClientsInv
<1>4. Answers(asked', got', cache) /\ Once(got')
  BY <1>1, <1>3, Words DEF Answers, Once, Notice
<1>5. HeldWaits(rem, asked', got', << >>)
  <2>1. \A b, l : ~Told(stack, b, l)
    BY <1>1 DEF Told
  <2> QED BY <1>1, <1>2, <1>3, <2>1 DEF HeldWaits
<1>6. Calls(rem, asked', got', << >>)
  BY NoCalls
<1> QED BY <1>1, <1>4, <1>5, <1>6 DEF Known, ClientsInv

LEMMA InitClients == ASSUME Init PROVE ClientsInv
<1>1. /\ \A b \in Slot : rem[b].locals = << >>
      /\ \A c \in Client : asked[c] = None /\ got[c] = "none"
      /\ \A q \in Query : cache[q] = None /\ cname[q] = None
      /\ stack = << >>
  BY DEF Init, Blank
<1>2. PlainLocals(rem) /\ HeldOnce(rem) /\ HeldAlone(rem)
      /\ HeldWaits(rem, asked, got, stack)
  BY <1>1 DEF PlainLocals, HeldOnce, HeldAlone, HeldWaits
<1>3. Answers(asked, got, cache) /\ Once(got)
  BY <1>1, Words DEF Answers, Once, Notice
<1> QED BY <1>1, <1>2, <1>3, NoCalls DEF ClientsInv

\* What the code does only when it has followed a CNAME.
LEMMA NoCnameCalls ==
  ASSUME Known PROVE
    /\ ~CnameReply /\ ~SendToClient /\ ~SendToNsParent /\ ~SendToCnameParent
    /\ ~SendToChased /\ ~SendDone
    /\ ~ReplyCname /\ ~ReplyToCnameParent /\ ~ReplyToChased
    /\ \A c \in Client, q \in Query : ~AskChased(c, q)
<1>1. ~Runs("cname") /\ ~Runs("send")
  <2> SUFFICES ASSUME stack # << >> PROVE Top.op \notin {"cname", "send"}
    BY DEF Runs
  <2>1. PlainFrame(Top)
    BY TopCalls DEF Known, Inv, ClientsInv
  <2> QED BY <2>1 DEF PlainFrame
<1>2. ~ReplyCname /\ ~ReplyToCnameParent /\ ~ReplyToChased
  <2>1. ~ReplyCname
    BY RoundClients DEF ReplyCname, Round
  <2>2. ~ReplyToCnameParent /\ ~ReplyToChased
    <3> SUFFICES ASSUME Round(Direct), This.type \in {2, 3} PROVE FALSE
      BY DEF ReplyToCnameParent, ReplyToChased
    <3>1. This.type \in {0, 1}
      BY RoundClients
    <3> QED BY <3>1
  <2> QED BY <2>1, <2>2
<1>3. ASSUME NEW c \in Client, NEW q \in Query PROVE ~AskChased(c, q)
  BY DEF AskChased, Chases, Known, ClientsInv
<1> QED BY <1>1, <1>2, <1>3
        DEF CnameReply, SendToClient, SendToNsParent, SendToCnameParent,
            SendToChased, SendDone, Sends

LEMMA NextClients ==
  ASSUME NoCnames, Known, [Next]_vars PROVE ClientsInv'
<1>1. CASE Inner
  BY <1>1, ConnectClients, SpawnedClients, ForwardedClients, ReplyBadClients,
     ReplyBadIpClients, ReplyReferClients, ReplyToClientClients,
     ReplyToNsParentClients, ReplyDoneClients, NoCnameCalls DEF Inner
<1>2. ASSUME NEW c \in Client, NEW q \in Query,
             \/ AskCached(c, q) \/ AskChased(c, q)
             \/ AskAttach(c, q) \/ AskRefused(c, q)
             \/ \E lower \in Spellings : AskNew(c, q, lower)
      PROVE  ClientsInv'
  <2>1. CASE AskCached(c, q) \/ AskChased(c, q)
             \/ AskAttach(c, q) \/ AskRefused(c, q)
    BY <2>1, AskCachedClients, AskAttachClients, AskRefusedClients, NoCnameCalls
  <2>2. CASE \E lower \in Spellings : AskNew(c, q, lower)
    BY <2>2, AskNewClients, RemoteAssumption
  <2> QED BY <1>2, <2>1, <2>2
<1>3. ASSUME NEW b \in Slot, NEW f \in Fd, Receive(b, f) \/ ReceiveStray(b, f)
      PROVE  ClientsInv'
  BY <1>3, ReceiveClients
<1>4. ASSUME NEW b \in Slot, Timeout(b) PROVE ClientsInv'
  BY <1>4, RetryClients, ResurrectClients, FailNoReplyClients DEF Timeout
<1>5. ASSUME NEW q \in Query, Age(q) PROVE ClientsInv'
  BY <1>5, AgeClients
<1>6. ASSUME NEW c \in Client, Leave(c) PROVE ClientsInv'
  BY <1>6, LeaveClients
<1>7. CASE UNCHANGED vars
  BY <1>7 DEF vars, table, caches, users, Known, ClientsInv
<1> QED BY <1>1, <1>2, <1>3, <1>4, <1>5, <1>6, <1>7 DEF Next

LEMMA ClientsAlways == ASSUME NoCnames PROVE Spec => []Known
<1>1. Init => Known
  BY InitOK, InitServes, InitClients DEF Known
<1>2. Known /\ [Next]_vars => Known'
  BY NextOK, NextServes, NextClients DEF Known
<1> QED BY <1>1, <1>2, PTL DEF Spec

-----------------------------------------------------------------------------
(***************************************************************************)
(* What is cached for a query, and what a client is sent, is about that    *)
(* query, however clients are merged, retried, resurrected and refused.    *)
(***************************************************************************)
THEOREM AnswersBelongTheorem ==
  ASSUME NoCnames PROVE Spec => []AnswersBelong
<1>1. \A q \in Query : q \in Reached(q)
  BY DEF Reached
<1>2. ASSUME Known PROVE AnswersBelong
  <2>1. ASSUME NEW q \in Query, cache[q] \in Query PROVE cache[q] \in Reached(q)
    BY <1>1, <1>2, <2>1, Words DEF Known, ClientsInv, Answers, Notice
  <2>2. ASSUME NEW c \in Client, got[c] \in Query PROVE got[c] \in Reached(asked[c])
    BY <1>1, <1>2, <2>2 DEF Known, ClientsInv, Answers
  <2> QED BY <2>1, <2>2 DEF AnswersBelong
<1> QED BY <1>2, ClientsAlways, PTL

(***************************************************************************)
(* No client is sent two replies to one question.  With resurrections and  *)
(* merged clients it may be sent part of a record, by handle_resurrections.*)
(***************************************************************************)
THEOREM AnsweredOnceTheorem ==
  ASSUME NoCnames, ~Resurrections \/ MaxInflights = 1
  PROVE  Spec => []AnsweredOnce
<1>1. Known => AnsweredOnce
  BY DEF AnsweredOnce, Known, ClientsInv, Once
<1> QED BY <1>1, ClientsAlways, PTL

-----------------------------------------------------------------------------
(***************************************************************************)
(* No client is forgotten.  What handlers leave behind:                    *)
(***************************************************************************)
\* Queries are in lower case, and so are the replies.
SentLower(se) == \A f \in Fd : se[f] # None => se[f].lower = TRUE

\* The loop that answers the locals calls no other handler.
CallsLower(s) ==
  \A j \in 1..Len(s) :
    /\ s[j].op \in {"connect", "reply"} => s[j].lower = TRUE
    /\ s[j].op = "reply" /\ j # 1 => s[j].says \notin Direct

HeldSome(r, c) == \E b \in Slot : \E l \in DOMAIN r[b].locals : Held(r, b, l, c)

Forwarding(s, c) ==
  \E j \in 1..Len(s) : s[j].op = "forwarded" /\ s[j].client = c

\* A client who was told nothing waits in a slot, or is about to.
Remembered(r, a, g, s) ==
  \A c \in Client : a[c] # None /\ g[c] = "none" => HeldSome(r, c) \/ Forwarding(s, c)

\* The loop over the locals has told the clients it has passed.
ToldSome(r, g, s) ==
  \A b \in Slot, c \in Client : \A l \in DOMAIN r[b].locals :
    Held(r, b, l, c) /\ Told(s, b, l) => g[c] # "none"

RememberInv ==
  /\ SentLower(sent) /\ CallsLower(stack)
  /\ Remembered(rem, asked, got, stack)
  /\ ToldSome(rem, got, stack)

\* Clients are not merged, failures are told, queries are in lower case.
OneByOne ==
  /\ NoCnames
  /\ MaxInflights = 1
  /\ HandleNoreply
  /\ Spellings \subseteq {TRUE}

\* No slot that somebody waits in loses anybody.
Keeps(r, r2) == \A b \in Slot : r[b].locals # << >> => r2[b].locals = r[b].locals

LEMMA KeepsSome ==
  ASSUME NEW r, NEW r2, Keeps(r, r2), NEW c, HeldSome(r, c) PROVE HeldSome(r2, c)
BY DEF Keeps, HeldSome, Held

LEMMA KeepsSame ==
  ASSUME NEW r, NEW r2, \A a \in Slot : SameKin(r, r2, a) PROVE Keeps(r, r2)
BY DEF Keeps, SameKin

LEMMA KeepsRenew ==
  ASSUME NEW r \in [Slot -> Pending], NEW b \in Slot, NEW x, r[b].locals = << >>
  PROVE  Keeps(r, [r EXCEPT ![b] = x])
BY DEF Keeps

\* The calls that go on when the one on top has returned.
Inside(s) ==
  \A j \in 1..Len(s) :
    /\ s[j].op \in {"connect", "reply"} => s[j].lower = TRUE
    /\ s[j].op = "reply" => s[j].says \notin Direct

LEMMA InsideQuiet ==
  ASSUME NEW s \in Seq(Frame), Inside(s)
  PROVE  CallsLower(s) /\ \A b, l : ~Told(s, b, l)
<1>1. CallsLower(s)
  BY DEF Inside, CallsLower
<1>2. s # << >> => 1 \in 1..Len(s) /\ Head(s) = s[1]
  BY TailFrames
<1> QED BY <1>1, <1>2 DEF Inside, Told

LEMMA InsidePushed ==
  ASSUME NEW s \in Seq(Frame), NEW f \in Frame, Inside(s),
         f.op \in {"connect", "reply"} => f.lower = TRUE,
         f.op = "reply" => f.says \notin Direct
  PROVE  /\ Inside(<<f>> \o s) /\ <<f>> \o s \in Seq(Frame)
         /\ \A c : Forwarding(s, c) => Forwarding(<<f>> \o s, c)
<1> DEFINE t == <<f>> \o s
<1>1. /\ t \in Seq(Frame) /\ Len(t) = Len(s) + 1 /\ t[1] = f
      /\ \A j \in 1..Len(s) : t[j + 1] = s[j]
      /\ \A j \in 1..(Len(s) + 1) : j # 1 =>
           j - 1 \in 1..Len(s) /\ t[j] = s[j - 1]
  BY PushedFrames
<1> HIDE DEF t
<1>2. Inside(t)
  BY <1>1 DEF Inside
<1>3. ASSUME NEW c, NEW j \in 1..Len(s), s[j].op = "forwarded", s[j].client = c
      PROVE  Forwarding(t, c)
  <2>1. j + 1 \in 1..Len(t) /\ t[j + 1] = s[j]
    BY <1>1
  <2> QED BY <1>3, <2>1 DEF Forwarding
<1> QED BY <1>1, <1>2, <1>3 DEF t, Forwarding

LEMMA InsideRest ==
  ASSUME stack \in Seq(Frame), stack # << >>, CallsLower(stack) PROVE
    /\ Inside(Rest)
    /\ \A c : Forwarding(stack, c) =>
         Forwarding(Rest, c) \/ (Top.op = "forwarded" /\ Top.client = c)
<1>1. /\ Len(stack) \in Nat /\ Len(stack) >= 1 /\ Len(Rest) = Len(stack) - 1
      /\ \A j \in 1..(Len(stack) - 1) : Rest[j] = stack[j + 1]
      /\ Top = stack[1]
  BY TailFrames DEF Rest, Top
<1>2. Inside(Rest)
  <2> SUFFICES ASSUME NEW j \in 1..Len(Rest)
               PROVE  /\ Rest[j].op \in {"connect", "reply"} => Rest[j].lower = TRUE
                      /\ Rest[j].op = "reply" => Rest[j].says \notin Direct
    BY DEF Inside
  <2>1. j + 1 \in 1..Len(stack) /\ j + 1 # 1 /\ Rest[j] = stack[j + 1]
    BY <1>1
  <2> QED BY <2>1 DEF CallsLower
<1>3. ASSUME NEW c, NEW j \in 1..Len(stack), j # 1,
             stack[j].op = "forwarded", stack[j].client = c
      PROVE  Forwarding(Rest, c)
  <2>1. j - 1 \in 1..Len(Rest) /\ Rest[j - 1] = stack[(j - 1) + 1]
    BY <1>1, <1>3
  <2>2. (j - 1) + 1 = j
    BY <1>1
  <2> QED BY <1>3, <2>1, <2>2 DEF Forwarding
<1>4. \A c : Forwarding(stack, c) =>
         Forwarding(Rest, c) \/ (Top.op = "forwarded" /\ Top.client = c)
  BY <1>1, <1>3 DEF Forwarding
<1> QED BY <1>2, <1>4

\* What is sent when a socket opens, and when sockets are closed.
LEMMA UnsentLower ==
  ASSUME SentLower(sent), NEW fds PROVE SentLower(Unsent(fds))
BY DEF SentLower, Unsent

LEMMA DialLower ==
  ASSUME Inv, SentLower(sent), NEW b \in Slot, Dial(b, TRUE) PROVE SentLower(sent')
<1>1. CASE Closed = {}
  BY <1>1 DEF Dial, table, SentLower
<1>2. CASE Closed # {}
  <2>1. PICK f \in Lowest(Closed) :
          sent' = [Unsent({rem[b].sock}) EXCEPT ![f] =
                      [slot |-> b, lower |-> TRUE, left |-> MaxReplies]]
    BY <1>2 DEF Dial
  <2> DEFINE m == [slot |-> b, lower |-> TRUE, left |-> MaxReplies]
             u == Unsent({rem[b].sock})
  <2>2. m.lower = TRUE /\ SentLower(u)
    BY UnsentLower
  <2>3. \A g \in Fd : sent'[g] = m \/ sent'[g] = u[g]
    BY <2>1 DEF Unsent
  <2> HIDE DEF m, u
  <2> QED BY <2>2, <2>3 DEF SentLower
<1> QED BY <1>1, <1>2

LEMMA QuietRemember ==
  ASSUME Known, RememberInv, Keeps(rem, rem'), UNCHANGED users,
         SentLower(sent'), stack' \in Seq(Frame), Inside(stack'),
         \A c : Forwarding(stack, c) => Forwarding(stack', c)
  PROVE  RememberInv'
<1>1. CallsLower(stack') /\ \A b, l : ~Told(stack', b, l)
  BY InsideQuiet
<1>2. Remembered(rem', asked, got, stack')
  BY KeepsSome DEF RememberInv, Remembered
<1>3. ToldSome(rem', got, stack')
  BY <1>1 DEF ToldSome
<1> QED BY <1>1, <1>2, <1>3 DEF RememberInv, users

LEMMA FreeEmpty ==
  ASSUME Known, NEW n \in Lowest(Free) PROVE n \in Slot /\ rem[n].locals = << >>
<1>1. n \in Slot /\ ~rem[n].live
  BY LowestIn DEF Free
<1> QED BY <1>1 DEF Known, Serving, Used

LEMMA ConnectRemembers ==
  ASSUME Known, RememberInv, Connect PROVE RememberInv'
<1>1. stack \in Seq(Frame) /\ stack # << >> /\ Top.op = "connect"
  BY DEF Known, Inv, Connect, Runs
<1>2. Rest \in Seq(Frame) /\ Top.b \in Slot /\ Top.lower = TRUE
  <2>1. Len(stack) >= 1 /\ Top = stack[1] /\ Len(stack) \in Nat
    BY <1>1, TailFrames DEF Top
  <2>2. Top.lower = TRUE
    BY <1>1, <2>1 DEF RememberInv, CallsLower
  <2> QED BY <1>1, <2>2, FrameOf, Popped
<1>3. Inside(Rest) /\ \A c : Forwarding(stack, c) => Forwarding(Rest, c)
  BY <1>1, InsideRest DEF RememberInv
<1>4. UNCHANGED users /\ SentLower(sent)
  BY DEF Connect, RememberInv
<1>5. CASE Return /\ UNCHANGED table
  <2>1. Keeps(rem, rem') /\ sent' = sent /\ stack' = Rest
    BY <1>5 DEF Keeps, table, Return
  <2> QED BY <1>2, <1>3, <1>4, <2>1, QuietRemember
<1>6. CASE Return /\ Dial(Top.b, Top.lower)
  <2>1. \A a \in Slot : SameKin(rem, rem', a)
    BY <1>2, <1>6, DialSame DEF Known
  <2>2. SentLower(sent') /\ stack' = Rest
    BY <1>2, <1>4, <1>6, DialLower DEF Known, Return
  <2> QED BY <1>2, <1>3, <1>4, <2>1, <2>2, KeepsSame, QuietRemember
<1>7. ASSUME NEW ns \in Query, Spawn(Top.b, ns, 1, Rest) PROVE RememberInv'
  <2> DEFINE b == Top.b
  <2>1. CASE Free = {} \/ rem[b].depth > MaxDepth
    BY <1>5, <1>7, <2>1 DEF Spawn, Return
  <2>2. CASE ~(Free = {} \/ rem[b].depth > MaxDepth)
    <3> DEFINE x == [Blank EXCEPT !.query = ns, !.live = TRUE,
                                  !.depth = rem[b].depth + 1]
    <3>1. PICK n \in Lowest(Free) :
            /\ rem' = [rem EXCEPT ![n] = x]
            /\ sent' = Unsent({b_remote[n]})
            /\ stack' = <<ConnectFrame(n, TRUE),
                          [op |-> "spawned", b |-> b, n |-> n, type |-> 1]>>
                        \o Rest
      BY <1>7, <2>2 DEF Spawn
    <3>2. n \in Slot /\ rem[n].locals = << >>
      BY FreeEmpty
    <3> HIDE DEF x
    <3>3. Keeps(rem, rem') /\ SentLower(sent')
      BY <1>4, <3>1, <3>2, RemTyped, KeepsRenew, UnsentLower DEF Known
    <3> DEFINE f == ConnectFrame(n, TRUE)
               h == [op |-> "spawned", b |-> b, n |-> n, type |-> 1]
    <3>4. /\ f \in Frame /\ f.op = "connect" /\ f.lower = TRUE
          /\ h \in Frame /\ h.op = "spawned"
      BY <1>2, <3>2, ConnectFrameOK DEF ConnectFrame, Frame
    <3>5. stack' = <<f, h>> \o Rest
      BY <3>1
    <3> HIDE DEF f, h
    <3> DEFINE t == <<h>> \o Rest
    <3>6. /\ Inside(t) /\ t \in Seq(Frame)
          /\ \A c : Forwarding(Rest, c) => Forwarding(t, c)
      BY <1>2, <1>3, <3>4, InsidePushed
    <3>7. stack' = <<f>> \o t
      BY <1>2, <3>4, <3>5, ConcatTwo
    <3> HIDE DEF t
    <3>8. /\ Inside(stack') /\ stack' \in Seq(Frame)
          /\ \A c : Forwarding(t, c) => Forwarding(stack', c)
      BY <3>4, <3>6, <3>7, InsidePushed
    <3> QED BY <1>3, <1>4, <3>3, <3>6, <3>8, QuietRemember
  <2> QED BY <2>1, <2>2
<1> QED BY <1>5, <1>6, <1>7 DEF Connect

LEMMA SpawnedRemembers ==
  ASSUME Known, RememberInv, Spawned PROVE RememberInv'
<1>1. stack \in Seq(Frame) /\ stack # << >> /\ Top.op = "spawned"
  BY DEF Known, Inv, Spawned, Runs
<1>2. Rest \in Seq(Frame) /\ Top.n \in Slot
  BY <1>1, FrameOf, Popped
<1>3. Inside(Rest) /\ \A c : Forwarding(stack, c) => Forwarding(Rest, c)
  BY <1>1, InsideRest DEF RememberInv
<1>4. rem[Top.n].locals = << >>
  BY <1>1, ServesTop DEF Known, Serving, FrameServes
<1>5. \A a \in Slot : a # Top.n => rem'[a].locals = rem[a].locals
  BY SpawnedSlots DEF Known
<1>6. Keeps(rem, rem')
  BY <1>4, <1>5 DEF Keeps
<1>7. SentLower(sent')
  <2>1. sent' = sent \/ sent' = Unsent({b_remote[Top.n]})
    BY DEF Spawned
  <2> QED BY <2>1, UnsentLower DEF RememberInv
<1>8. UNCHANGED users /\ stack' = Rest
  BY DEF Spawned, Return
<1> QED BY <1>2, <1>3, <1>6, <1>7, <1>8, QuietRemember

LEMMA ForwardedRemembers ==
  ASSUME Known, RememberInv, Forwarded PROVE RememberInv'
<1> DEFINE b == Top.b
           c == Top.client
<1>1. stack \in Seq(Frame) /\ stack # << >> /\ Top.op = "forwarded"
  BY DEF Known, Inv, Forwarded, Runs
<1>2. b \in Slot /\ c \in Client /\ Top.q \in Query
  BY <1>1, FrameOf
<1>3. Rest = << >> /\ stack' = << >>
  BY <1>1, Outermost DEF Known, Forwarded, Return, Serving
<1>4. \A d : Forwarding(stack, d) => d = c
  <2>1. \A d : ~Forwarding(<< >>, d)
    BY DEF Forwarding
  <2> QED BY <1>1, <1>3, <2>1, InsideRest DEF RememberInv
<1>5. rem[b].locals = << >> /\ got[c] = "none"
  BY <1>1, TopCalls DEF Known, ClientsInv, ForwardedWaits
<1>6. rem \in [Slot -> Pending] /\ asked' = asked
  BY RemTyped DEF Known, Forwarded
<1>7. CASE rem[b].sock = None
  <2>1. /\ rem' = [rem EXCEPT ![b] = Blank] /\ Tell({c}, Refusal(Top.q))
        /\ sent' = Unsent({rem[b].sock})
    BY <1>7 DEF Forwarded, Reset
  <2>2. Keeps(rem, rem') /\ SentLower(sent')
    BY <1>2, <1>5, <1>6, <2>1, KeepsRenew, UnsentLower DEF RememberInv
  <2>3. Refusal(Top.q) # "none"
    BY <1>2, RefusalWord, RefusalSome
  <2>4. got'[c] # "none" /\ \A d \in Client : d # c => got'[d] = got[d]
    BY <1>2, <1>5, <2>1, <2>3 DEF Tell
  <2>5. Remembered(rem', asked, got', << >>)
    BY <1>4, <2>2, <2>4, KeepsSome DEF RememberInv, Remembered
  <2> QED BY <1>3, <1>6, <2>2, <2>5 DEF RememberInv, ToldSome, Told, CallsLower
<1>8. CASE rem[b].sock # None
  <2>1. /\ rem' = [rem EXCEPT ![b].locals = <<ForClient(c)>>]
        /\ sent' = sent /\ got' = got
    BY <1>8 DEF Forwarded
  <2>2. \A e \in Slot : e # b => rem'[e] = rem[e]
    BY <1>6, <2>1
  <2>3. rem'[b].locals = <<ForClient(c)>>
    <3>1. rem'[b] = [rem[b] EXCEPT !.locals = <<ForClient(c)>>]
      BY <1>2, <1>6, <2>1
    <3> QED BY <1>2, <1>6, <3>1 DEF Pending
  <2>4. Keeps(rem, rem')
    BY <1>5, <2>2 DEF Keeps
  <2>5. HeldSome(rem', c)
    <3> DEFINE ls == <<ForClient(c)>>
    <3>1. 1 \in DOMAIN ls /\ ls[1].type = 0 /\ ls[1].client = c
      BY DEF ForClient
    <3> HIDE DEF ls
    <3> QED BY <1>2, <2>3, <3>1 DEF HeldSome, Held, ls
  <2>6. Remembered(rem', asked, got', << >>)
    BY <1>4, <2>1, <2>4, <2>5, KeepsSome DEF RememberInv, Remembered
  <2> QED BY <1>3, <1>6, <2>1, <2>6 DEF RememberInv, ToldSome, Told, CallsLower
<1> QED BY <1>7, <1>8

LEMMA NoForwarding == ASSUME NEW c PROVE ~Forwarding(<< >>, c)
BY DEF Forwarding

\* The end of a handler, of which the clients cs of a slot are told.
LEMMA EndRemembers ==
  ASSUME Known, RememberInv, stack' = << >>, SentLower(sent'),
         \A c : ~Forwarding(stack, c),
         UNCHANGED asked, NEW b \in Slot, \A e \in Slot : e # b => rem'[e] = rem[e],
         \A c \in Client : got'[c] = "none" => got[c] = "none",
         \A c \in Client : \A l \in DOMAIN rem[b].locals :
           Held(rem, b, l, c) => got'[c] # "none"
  PROVE  RememberInv'
<1>1. ASSUME NEW c \in Client, asked[c] # None, got'[c] = "none"
      PROVE  HeldSome(rem', c)
  <2>1. HeldSome(rem, c)
    BY <1>1 DEF RememberInv, Remembered
  <2>2. PICK e \in Slot : \E l \in DOMAIN rem[e].locals : Held(rem, e, l, c)
    BY <2>1 DEF HeldSome
  <2>3. e # b
    BY <1>1, <2>2
  <2> QED BY <2>2, <2>3 DEF HeldSome, Held
<1>2. Remembered(rem', asked, got', << >>)
  BY <1>1 DEF Remembered
<1> QED BY <1>2 DEF RememberInv, ToldSome, Told, CallsLower

\* A client who asks and is told something at once.
LEMMA AskTellRemembers ==
  ASSUME Known, RememberInv, NEW c \in Client, NEW q \in Query, Asks(c, q),
         NEW v \in {cache[q], Refusal(q)}, v # None, Tell({c}, v),
         UNCHANGED <<rem, sent, stack>>
  PROVE  RememberInv'
<1>1. /\ stack = << >> /\ asked'[c] = q
      /\ \A d \in Client : d # c => asked'[d] = asked[d]
  BY DEF Asks, Known, Inv, UsersOK
<1>2. v # "none" /\ got[c] = "none"
  BY RefusalWord, AskStart
<1>3. got'[c] # "none" /\ \A d \in Client : d # c => got'[d] = got[d]
  BY <1>2 DEF Tell
<1>4. Remembered(rem, asked', got', << >>)
  BY <1>1, <1>3 DEF RememberInv, Remembered
<1>5. SentLower(sent)
  BY DEF RememberInv
<1>6. sent' = sent /\ rem' = rem /\ stack' = << >>
  BY <1>1
<1> QED BY <1>4, <1>5, <1>6 DEF RememberInv, ToldSome, Told, CallsLower

LEMMA AskRemembers ==
  ASSUME OneByOne, Known, RememberInv, NEW c \in Client, NEW q \in Query,
         AskCached(c, q) \/ AskAttach(c, q) \/ AskRefused(c, q)
  PROVE  RememberInv'
<1>1. CASE AskCached(c, q)
  BY <1>1, AskTellRemembers DEF AskCached, Fresh, table
<1>2. ~AskAttach(c, q)
  BY DEF AskAttach, Joinable, Listed, OneByOne
<1>3. CASE AskRefused(c, q)
  BY <1>3, AskTellRemembers, RefusalSome DEF AskRefused, Forwards
<1> QED BY <1>1, <1>2, <1>3

LEMMA AskNewRemembers ==
  ASSUME Known, RememberInv, NEW c \in Client, NEW q \in Query,
         AskNew(c, q, TRUE)
  PROVE  RememberInv'
<1> DEFINE x == [Blank EXCEPT !.query = q, !.live = TRUE]
<1>1. PICK b \in Lowest(Free) :
        /\ rem' = [rem EXCEPT ![b] = x]
        /\ stack' = <<ConnectFrame(b, TRUE),
                      [op |-> "forwarded", b |-> b, client |-> c, q |-> q]>>
  BY DEF AskNew
<1>2. b \in Slot /\ rem[b].locals = << >>
  BY FreeEmpty
<1> HIDE DEF x
<1>3. Keeps(rem, rem')
  BY <1>1, <1>2, RemTyped, KeepsRenew DEF Known
<1>4. /\ stack = << >> /\ asked'[c] = q /\ got' = got /\ sent' = sent
      /\ \A d \in Client : d # c => asked'[d] = asked[d]
  BY DEF AskNew, Forwards, Asks, Known, Inv, UsersOK
<1> DEFINE f == ConnectFrame(b, TRUE)
           h == [op |-> "forwarded", b |-> b, client |-> c, q |-> q]
           s == <<f, h>>
<1>5. /\ f.op = "connect" /\ f.lower = TRUE
      /\ h.op = "forwarded" /\ h.client = c
  BY DEF ConnectFrame
<1> HIDE DEF f, h
<1>6. Len(s) = 2 /\ s[1] = f /\ s[2] = h /\ s # << >> /\ Head(s) = f
  OBVIOUS
<1> HIDE DEF s
<1>7. Forwarding(s, c) /\ CallsLower(s) /\ \A e, l : ~Told(s, e, l)
  BY <1>5, <1>6 DEF Forwarding, CallsLower, Told
<1>8. stack' = s
  BY <1>1 DEF s, f, h
<1>9. Remembered(rem', asked', got, s)
  BY <1>3, <1>4, <1>7, KeepsSome, NoForwarding DEF RememberInv, Remembered
<1>10. ToldSome(rem', got, s)
  BY <1>7 DEF ToldSome
<1> QED BY <1>4, <1>7, <1>8, <1>9, <1>10 DEF RememberInv

LEMMA ReceiveRemembers ==
  ASSUME Known, RememberInv, NEW b \in Slot, NEW f \in Fd,
         Receive(b, f) \/ ReceiveStray(b, f)
  PROVE  RememberInv'
<1>1. /\ rem' = rem /\ stack = << >> /\ UNCHANGED users
      /\ sent' = [sent EXCEPT ![f].left = @ - 1]
      /\ sent[f] # None
  BY NoneApart DEF Receive, ReceiveStray, Arrives, SelectFails, Watchers, Lowest
<1>2. sent[f] \in [slot : Slot, lower : BOOLEAN, left : 0..MaxReplies]
  BY <1>1 DEF Known, Inv, TableInv, TableOK
<1>3. sent[f].lower = TRUE
  BY <1>1 DEF RememberInv, SentLower
<1>4. SentLower(sent')
  <2> DEFINE m == [sent[f] EXCEPT !.left = @ - 1]
  <2>1. m.lower = TRUE
    BY <1>2, <1>3
  <2>2. \A g \in Fd : sent'[g] = m \/ sent'[g] = sent[g]
    BY <1>1
  <2> HIDE DEF m
  <2> QED BY <2>1, <2>2 DEF SentLower, RememberInv
<1>5. CASE ReceiveStray(b, f)
  <2>1. stack' = stack
    BY <1>5 DEF ReceiveStray
  <2> QED BY <1>1, <1>4, <2>1 DEF RememberInv, users
<1>6. CASE Receive(b, f)
  <2>0. PICK q \in Query : \E says \in Says[q] :
          stack' = <<ReplyFrame(b, 1, says, sent[f].lower, TRUE)>>
    BY <1>6 DEF Receive
  <2>1. PICK says \in Says[q] :
          stack' = <<ReplyFrame(b, 1, says, sent[f].lower, TRUE)>>
    BY <2>0
  <2> DEFINE g == ReplyFrame(b, 1, says, sent[f].lower, TRUE)
             s == <<g>>
  <2>2. g.op = "reply" /\ g.l = 1 /\ g.lower = TRUE
    BY <1>3 DEF ReplyFrame
  <2> HIDE DEF g
  <2>3. Len(s) = 1 /\ s[1] = g /\ Head(s) = g
    OBVIOUS
  <2> HIDE DEF s
  <2>4. CallsLower(s) /\ \A e, l : ~Told(s, e, l)
    BY <2>2, <2>3 DEF CallsLower, Told
  <2>5. stack' = s
    BY <2>1 DEF s, g
  <2>6. Remembered(rem, asked, got, s)
    BY <1>1, NoForwarding DEF RememberInv, Remembered
  <2>7. ToldSome(rem, got, s)
    BY <2>4 DEF ToldSome
  <2> QED BY <1>1, <1>4, <2>4, <2>5, <2>6, <2>7 DEF RememberInv, users
<1> QED BY <1>5, <1>6

\* The loop over the locals runs alone.
LEMMA RoundRemembers ==
  ASSUME Known, RememberInv, NEW says, Round(says) PROVE
    /\ \A c : ~Forwarding(stack, c)
    /\ Top.lower = TRUE /\ Continued.lower = TRUE /\ Kept.lower = TRUE
<1>1. /\ stack # << >> /\ stack \in Seq(Frame) /\ Rest = << >>
      /\ Top.op = "reply"
  BY RoundClients DEF Known, Inv
<1>2. \A c : ~Forwarding(stack, c)
  BY <1>1, InsideRest, NoForwarding DEF RememberInv
<1>3. Top.lower = TRUE
  <2>1. Len(stack) >= 1 /\ Top = stack[1] /\ Len(stack) \in Nat
    BY <1>1, TailFrames DEF Top
  <2> QED BY <1>1, <2>1 DEF RememberInv, CallsLower
<1>4. Top \in ReplyFrames
  BY <1>1, Popped DEF Frame, ReplyFrames
<1>5. Continued.lower = TRUE /\ Kept.lower = TRUE
  BY <1>3, <1>4 DEF Continued, Kept, ReplyFrames
<1> QED BY <1>2, <1>3, <1>5

LEMMA ReplyBadRemembers ==
  ASSUME Known, RememberInv, ReplyBad PROVE RememberInv'
<1>1. /\ \A c : ~Forwarding(stack, c)
      /\ stack' = << >> /\ rem' = rem /\ sent' = sent /\ UNCHANGED users
  BY RoundRemembers, RoundClients DEF ReplyBad, Return, table
<1>2. Inside(<< >>) /\ << >> \in Seq(Frame)
  BY DEF Inside
<1>3. Keeps(rem, rem') /\ SentLower(sent')
  BY <1>1 DEF Keeps, RememberInv
<1> QED BY <1>1, <1>2, <1>3, QuietRemember

LEMMA ReplyBadIpRemembers ==
  ASSUME Known, RememberInv, ReplyBadIp PROVE RememberInv'
<1> DEFINE b == Top.b
<1>1. /\ \A c : ~Forwarding(stack, c)
      /\ stack' = << >> /\ b \in Slot /\ asked' = asked
  BY RoundRemembers, RoundClients DEF ReplyBadIp, Return
<1>2. \A e \in Slot : e # b => rem'[e] = rem[e]
  BY <1>1, RemTyped DEF Known, ReplyBadIp, Release
<1>3. SentLower(sent')
  BY UnsentLower DEF ReplyBadIp, Release, RememberInv
<1>4. Tell(ClientsOf(b), "synthetic")
  BY DEF ReplyBadIp
<1>5. \A c \in Client : got'[c] = "none" => got[c] = "none"
  BY <1>4 DEF Tell
<1>6. \A c \in Client : \A l \in DOMAIN rem[b].locals :
        Held(rem, b, l, c) => got'[c] # "none"
  <2>1. \A c \in Client : \A l \in DOMAIN rem[b].locals :
          Held(rem, b, l, c) => c \in ClientsOf(b)
    BY DEF Held, ClientsOf
  <2> QED BY <1>4, <2>1 DEF Tell
<1> QED BY <1>1, <1>2, <1>3, <1>5, <1>6, EndRemembers

LEMMA ReplyReferRemembers ==
  ASSUME Known, RememberInv, ReplyRefer PROVE RememberInv'
<1> DEFINE b == Top.b
           f == ConnectFrame(b, TRUE)
<1>1. /\ Rest = << >> /\ b \in Slot /\ Kept.op = "reply" /\ Kept \in Frame
      /\ Kept.says = "refer"
  BY RoundClients DEF ReplyRefer, Round
<1>2. (\A c : ~Forwarding(stack, c)) /\ Kept.lower = TRUE
  BY RoundRemembers DEF ReplyRefer
<1>3. f \in Frame /\ f.op = "connect" /\ f.lower = TRUE
  BY <1>1, ConnectFrameOK DEF ConnectFrame
<1> HIDE DEF f
<1> DEFINE s == <<f, Kept>>
<1>4. s \in Seq(Frame) /\ Len(s) = 2 /\ s[1] = f /\ s[2] = Kept
  BY <1>1, <1>3
<1> HIDE DEF s
<1>5. Inside(s)
  BY <1>1, <1>2, <1>3, <1>4 DEF Inside, Direct
<1>6. stack' = s
  BY <1>1, <1>3, Concat DEF ReplyRefer, s, f
<1>7. Used(rem) /\ Kin(rem)
  BY DEF Known, Serving
<1>8. \A a \in Slot : SameKin(rem, rem', a)
  BY <1>1, <1>7, RemTyped, HangsUp DEF ReplyRefer, Known
<1>9. SentLower(sent') /\ UNCHANGED users
  BY UnsentLower DEF ReplyRefer, RememberInv
<1> QED BY <1>2, <1>4, <1>5, <1>6, <1>8, <1>9, KeepsSame, QuietRemember

\* The loop goes on with the next local.
LEMMA RoundTold ==
  ASSUME Known, RememberInv, Round(Direct), Call(Continued),
         \A a \in Slot : SameKin(rem, rem', a), asked' = asked, SentLower(sent'),
         \A c \in Client : got'[c] = "none" => got[c] = "none",
         \A c \in Client : Held(rem, Top.b, Top.l, c) => got'[c] # "none"
  PROVE  RememberInv'
<1>1. /\ Rest = << >> /\ stack # << >> /\ Top.b \in Slot /\ Top.l \in Nat
      /\ Top.op = "reply" /\ Continued.op = "reply" /\ Continued.b = Top.b
      /\ Continued.l = Top.l + 1 /\ Continued.says = Top.says
      /\ Continued \in Frame
  BY RoundClients
<1>2. (\A c : ~Forwarding(stack, c)) /\ Continued.lower = TRUE
  BY RoundRemembers
<1> DEFINE s == <<Continued>>
<1>3. s # << >> /\ Head(s) = Continued /\ Len(s) = 1 /\ s[1] = Continued
  OBVIOUS
<1> HIDE DEF s
<1>4. stack' = s
  BY <1>1, Concat DEF Call, s
<1>5. CallsLower(s)
  BY <1>2, <1>3 DEF CallsLower
<1>6. ASSUME NEW b, NEW l \in Nat, Told(s, b, l)
      PROVE  Told(stack, b, l) \/ (b = Top.b /\ l = Top.l)
  <2>1. b = Top.b /\ l \in 1..Top.l
    <3>1. Continued.l - 1 = Top.l
      BY <1>1
    <3> QED BY <1>1, <1>3, <1>6, <3>1 DEF Told
  <2>2. Top.says \in Direct
    BY DEF Round
  <2>3. l \in 1..(Top.l - 1) \/ l = Top.l
    BY <1>1, <2>1
  <2> QED BY <1>1, <2>1, <2>2, <2>3 DEF Told, Top
<1>7. ToldSome(rem', got', s)
  <2> SUFFICES ASSUME NEW b \in Slot, NEW c \in Client,
                      NEW l \in DOMAIN rem'[b].locals,
                      Held(rem', b, l, c), Told(s, b, l)
               PROVE  got'[c] # "none"
    BY DEF ToldSome
  <2>1. l \in DOMAIN rem[b].locals /\ Held(rem, b, l, c)
    BY DEF SameKin, Held
  <2>2. l \in Nat
    <3>1. rem[b].locals \in Seq(Local)
      BY RemTyped DEF Known, Pending
    <3> QED BY <2>1, <3>1
  <2>3. CASE Told(stack, b, l)
    BY <2>1, <2>3 DEF RememberInv, ToldSome
  <2>4. CASE b = Top.b /\ l = Top.l
    BY <2>1, <2>4
  <2> QED BY <1>6, <2>2, <2>3, <2>4
<1>8. Remembered(rem', asked, got', s)
  <2>1. Keeps(rem, rem')
    BY KeepsSame
  <2> QED BY <1>2, <2>1, KeepsSome DEF RememberInv, Remembered
<1> QED BY <1>4, <1>5, <1>7, <1>8 DEF RememberInv

LEMMA ReplyToClientRemembers ==
  ASSUME Known, RememberInv, ReplyToClient PROVE RememberInv'
<1> DEFINE c == This.client
<1>1. Top.lower = TRUE /\ This \in Local /\ This.type = 0
      /\ Top.b \in Slot /\ Top.l \in DOMAIN rem[Top.b].locals
  BY RoundRemembers, RoundOK DEF ReplyToClient, Known
<1>2. c \in Client /\ Held(rem, Top.b, Top.l, c)
  BY <1>1 DEF Local, Held, This
<1>3. Tell({c}, Value)
  BY <1>1 DEF ReplyToClient
<1>4. Value # "none"
  <2>1. asked[c] = rem[Top.b].query /\ asked[c] # None
    BY <1>1, <1>2 DEF Known, ClientsInv, HeldWaits
  <2>2. rem[Top.b].query \in Query
    BY <1>2, <2>1 DEF Known, Inv, UsersOK
  <2> QED BY <2>2, Words DEF Value, Notice
<1>5. \A d \in Client : got'[d] = "none" => got[d] = "none"
  BY <1>3 DEF Tell
<1>6. \A d \in Client : Held(rem, Top.b, Top.l, d) => got'[d] # "none"
  BY <1>2, <1>3, <1>4 DEF Tell, Held
<1>7. UNCHANGED <<rem, sent, asked>>
  BY DEF ReplyToClient, table
<1>8. \A a \in Slot : SameKin(rem, rem', a)
  BY <1>7 DEF SameKin
<1>9. SentLower(sent')
  BY <1>7 DEF RememberInv
<1> QED BY <1>5, <1>6, <1>7, <1>8, <1>9, RoundTold DEF ReplyToClient

LEMMA ReplyToNsParentRemembers ==
  ASSUME Known, RememberInv, ReplyToNsParent PROVE RememberInv'
<1> DEFINE p == This.conn
<1>1. Top.b \in Slot /\ This \in Local /\ This.type = 1
  BY RoundOK DEF Known, ReplyToNsParent
<1>2. p \in Slot
  BY <1>1 DEF Local
<1>3. \A d \in Client : ~Held(rem, Top.b, Top.l, d)
  BY <1>1 DEF Held, This
<1>4. UNCHANGED users
  BY DEF ReplyToNsParent
<1>5. SentLower(sent') /\ \A a \in Slot : SameKin(rem, rem', a)
  <2>1. CASE UNCHANGED table
    BY <2>1 DEF SameKin, table, RememberInv
  <2>2. CASE Dial(p, TRUE)
    BY <1>2, <2>2, DialSame, DialLower DEF Known, RememberInv
  <2>3. CASE UNCHANGED rem /\ sent' \in {sent, Outdated(rem[p].sock)}
    <3>1. CASE sent' = sent
      BY <2>3, <3>1 DEF SameKin, RememberInv
    <3>2. CASE sent' = Outdated(rem[p].sock)
      <4>1. \A g \in Fd : sent[g] # None => [sent[g] EXCEPT !.left = 0].lower = TRUE
        <5> SUFFICES ASSUME NEW g \in Fd, sent[g] # None
                     PROVE  [sent[g] EXCEPT !.left = 0].lower = TRUE
          OBVIOUS
        <5>1. sent[g] \in [slot : Slot, lower : BOOLEAN, left : 0..MaxReplies]
          BY DEF Known, Inv, TableInv, TableOK
        <5>2. sent[g].lower = TRUE
          BY DEF RememberInv, SentLower
        <5> QED BY <5>1, <5>2
      <4>2. SentLower(sent')
        BY <3>2, <4>1 DEF Outdated, RememberInv, SentLower
      <4> QED BY <2>3, <4>2 DEF SameKin
    <3> QED BY <2>3, <3>1, <3>2
  <2> QED BY <2>1, <2>2, <2>3 DEF ReplyToNsParent
<1> QED BY <1>3, <1>4, <1>5, RoundTold DEF ReplyToNsParent, users

LEMMA ReplyDoneRemembers ==
  ASSUME Known, RememberInv, ReplyDone PROVE RememberInv'
<1> DEFINE b == Top.b
<1>1. stack \in Seq(Frame) /\ stack # << >> /\ Top.op = "reply"
  BY DEF Known, Inv, ReplyDone, Runs
<1>2. b \in Slot /\ PlainFrame(Top) /\ Top.l \in Nat \ {0}
  BY <1>1, FrameOf, TopCalls DEF Known, ClientsInv
<1>3. Rest = << >> /\ stack' = << >>
  BY <1>1, Outermost DEF ReplyDone, Return, Known, Serving
<1>4. \A c : ~Forwarding(stack, c)
  BY <1>1, <1>3, InsideRest, NoForwarding DEF RememberInv
<1>5. UNCHANGED users
  BY DEF ReplyDone
<1>6. CASE ~Top.kill
  <2>1. Inside(<< >>) /\ << >> \in Seq(Frame)
    BY DEF Inside
  <2>2. Keeps(rem, rem') /\ SentLower(sent')
    BY <1>6 DEF ReplyDone, table, Keeps, RememberInv
  <2> QED BY <1>3, <1>4, <1>5, <2>1, <2>2, QuietRemember
<1>7. CASE Top.kill
  <2>1. rem' = [rem EXCEPT ![b] = Blank] /\ SentLower(sent')
    BY <1>7, UnsentLower DEF ReplyDone, Release, RememberInv
  <2>2. \A e \in Slot : e # b => rem'[e] = rem[e]
    BY <2>1, RemTyped DEF Known
  <2>3. ASSUME NEW c \in Client, NEW l \in DOMAIN rem[b].locals,
               Held(rem, b, l, c)
        PROVE  got[c] # "none"
    <3>1. rem[b].locals \in Seq(Local)
      BY <1>2, RemTyped DEF Known, Pending
    <3>2. l \in 1..(Top.l - 1)
      BY <1>2, <3>1 DEF ReplyDone
    <3>3. Top.says \in Direct
      <4>1. Top.l # 1
        BY <1>2, <3>2
      <4> QED BY <1>1, <1>2, <1>7, <4>1 DEF PlainFrame
    <3>4. Told(stack, b, l)
      BY <1>1, <3>2, <3>3 DEF Told, Top
    <3> QED BY <1>2, <2>3, <3>4 DEF RememberInv, ToldSome
  <2> QED BY <1>2, <1>3, <1>4, <1>5, <2>1, <2>2, <2>3, EndRemembers DEF users
<1> QED BY <1>6, <1>7

LEMMA RetryRemembers ==
  ASSUME Known, RememberInv, NEW b \in Slot, Retry(b) PROVE RememberInv'
<1> DEFINE f == ConnectFrame(b, TRUE)
           s == <<f>>
<1>1. stack' = s /\ stack = << >> /\ UNCHANGED users
  BY DEF Retry, Expires
<1>2. f \in Frame /\ f.op = "connect" /\ f.lower = TRUE
  BY ConnectFrameOK DEF ConnectFrame
<1> HIDE DEF f
<1>3. s \in Seq(Frame) /\ Len(s) = 1 /\ s[1] = f
  BY <1>2
<1> HIDE DEF s
<1>4. Inside(s)
  BY <1>2, <1>3 DEF Inside
<1>5. Used(rem) /\ Kin(rem)
  BY DEF Known, Serving
<1>6. \A a \in Slot : SameKin(rem, rem', a)
  BY <1>5, RemTyped, HangsUp DEF Retry, Known
<1>7. SentLower(sent')
  BY UnsentLower DEF Retry, RememberInv
<1> QED BY <1>1, <1>3, <1>4, <1>6, <1>7, KeepsSame, QuietRemember, NoForwarding

\* A slot that is given up has one client, and server_fail_noreply or
\* handle_resurrections tells the first.
LEMMA GivenUpRemembers ==
  ASSUME OneByOne, Known, RememberInv, NEW b \in Slot,
         Resurrect(b) \/ FailNoReply(b)
  PROVE  RememberInv'
<1> DEFINE first == {c \in ClientsOf(b) : rem[b].locals[1].client = c}
<1>1. /\ rem' = [rem EXCEPT ![b] = Blank] /\ stack = << >> /\ stack' = << >>
      /\ asked' = asked /\ sent' = Unsent({rem[b].sock})
      /\ rem[b].live
  BY DEF Resurrect, FailNoReply, GivenUp, Expires
<1>2. \A e \in Slot : e # b => rem'[e] = rem[e]
  BY <1>1, RemTyped DEF Known
<1>3. SentLower(sent')
  BY <1>1, UnsentLower DEF RememberInv
<1>4. \A c : ~Forwarding(stack, c)
  BY <1>1, NoForwarding
<1>5. \A c \in Client : \A l \in DOMAIN rem[b].locals :
        Held(rem, b, l, c) => c \in first
  <2> SUFFICES ASSUME NEW c \in Client, NEW l \in DOMAIN rem[b].locals,
                      Held(rem, b, l, c)
               PROVE  c \in first
    OBVIOUS
  <2>1. l = 1
    BY DEF OneByOne, Known, ClientsInv, HeldAlone
  <2>2. c \in ClientsOf(b)
    BY DEF Held, ClientsOf
  <2> QED BY <2>1, <2>2 DEF Held
<1>6. /\ \A c \in Client : got'[c] = "none" => got[c] = "none"
      /\ \A c \in Client : c \in first => got'[c] # "none"
  <2>1. CASE FailNoReply(b)
    <3>1. Tell(first, "fail")
      BY <2>1 DEF FailNoReply, OneByOne
    <3> HIDE DEF first
    <3> QED BY <3>1 DEF Tell
  <2>2. CASE Resurrect(b)
    <3>1. cache[rem[b].query] # "none"
      <4>1. rem[b].query \in Query
        BY <1>1, RemTyped DEF Known, Inv, TableInv, LiveHasQuery, Pending
      <4>2. cache[rem[b].query] # None
        BY <2>2 DEF Resurrect, Resurrected
      <4> QED BY <4>1, <4>2, RefusalWord
    <3>2. PICK others :
           got' = [c \in Client |->
                     IF got[c] # "none" /\ c \in first \union others THEN "twice"
                     ELSE IF c \in first THEN cache[rem[b].query]
                     ELSE IF c \in others THEN "mangled" ELSE got[c]]
      BY <2>2 DEF Resurrect
    <3> HIDE DEF first
    <3> QED BY <3>1, <3>2
  <2> QED BY <2>1, <2>2
<1> HIDE DEF first
<1> QED BY <1>1, <1>2, <1>3, <1>4, <1>5, <1>6, EndRemembers

LEMMA AgeRemembers ==
  ASSUME Known, RememberInv, NEW q \in Query, Age(q) PROVE RememberInv'
BY DEF Age, RememberInv, users

LEMMA LeaveRemembers ==
  ASSUME Known, RememberInv, NEW c \in Client, Leave(c) PROVE RememberInv'
<1>1. /\ stack = << >> /\ stack' = << >> /\ rem' = rem /\ sent' = sent
      /\ asked'[c] = None
      /\ \A d \in Client : d # c => asked'[d] = asked[d] /\ got'[d] = got[d]
  BY DEF Leave, table, Known, Inv, UsersOK
<1>2. Remembered(rem, asked', got', << >>)
  BY <1>1 DEF RememberInv, Remembered
<1> QED BY <1>1, <1>2 DEF RememberInv, ToldSome, Told, CallsLower

LEMMA InitRemembers == ASSUME Init PROVE RememberInv
<1>1. /\ \A b \in Slot : rem[b].locals = << >>
      /\ \A c \in Client : asked[c] = None
      /\ \A f \in Fd : sent[f] = None
      /\ stack = << >>
  BY DEF Init, Blank
<1> QED BY <1>1 DEF RememberInv, SentLower, CallsLower, Remembered, ToldSome

LEMMA NextRemembers ==
  ASSUME OneByOne, Known, RememberInv, [Next]_vars PROVE RememberInv'
<1>1. CASE Inner
  BY <1>1, ConnectRemembers, SpawnedRemembers, ForwardedRemembers,
     ReplyBadRemembers, ReplyBadIpRemembers, ReplyReferRemembers,
     ReplyToClientRemembers, ReplyToNsParentRemembers, ReplyDoneRemembers,
     NoCnameCalls DEF Inner
<1>2. ASSUME NEW c \in Client, NEW q \in Query,
             \/ AskCached(c, q) \/ AskChased(c, q)
             \/ AskAttach(c, q) \/ AskRefused(c, q)
             \/ \E lower \in Spellings : AskNew(c, q, lower)
      PROVE  RememberInv'
  <2>1. CASE AskCached(c, q) \/ AskChased(c, q)
             \/ AskAttach(c, q) \/ AskRefused(c, q)
    BY <2>1, AskRemembers, NoCnameCalls
  <2>2. CASE \E lower \in Spellings : AskNew(c, q, lower)
    <3>1. AskNew(c, q, TRUE)
      BY <2>2 DEF OneByOne
    <3> QED BY <3>1, AskNewRemembers
  <2> QED BY <1>2, <2>1, <2>2
<1>3. ASSUME NEW b \in Slot, NEW f \in Fd, Receive(b, f) \/ ReceiveStray(b, f)
      PROVE  RememberInv'
  BY <1>3, ReceiveRemembers
<1>4. ASSUME NEW b \in Slot, Timeout(b) PROVE RememberInv'
  BY <1>4, RetryRemembers, GivenUpRemembers DEF Timeout
<1>5. ASSUME NEW q \in Query, Age(q) PROVE RememberInv'
  BY <1>5, AgeRemembers
<1>6. ASSUME NEW c \in Client, Leave(c) PROVE RememberInv'
  BY <1>6, LeaveRemembers
<1>7. CASE UNCHANGED vars
  BY <1>7 DEF vars, table, users, RememberInv
<1> QED BY <1>1, <1>2, <1>3, <1>4, <1>5, <1>6, <1>7 DEF Next

(***************************************************************************)
(* A client who asked and was told nothing is in the locals of a slot,     *)
(* where the answer or the timeout finds it, if max_inflights is 1.  With  *)
(* the default of 8, server_fail_noreply tells only the first client.      *)
(***************************************************************************)
THEOREM NoClientForgottenTheorem ==
  ASSUME OneByOne PROVE Spec => []NoClientForgotten
<1>1. NoCnames
  BY DEF OneByOne
<1>2. Init => Known /\ RememberInv
  BY InitOK, InitServes, InitClients, InitRemembers DEF Known
<1>3. Known /\ RememberInv /\ [Next]_vars => (Known /\ RememberInv)'
  BY <1>1, NextOK, NextServes, NextClients, NextRemembers DEF Known
<1>4. Known /\ RememberInv => NoClientForgotten
  BY NoForwarding DEF RememberInv, Remembered, NoClientForgotten, HeldSome,
                      Waiting, Held
<1> QED BY <1>2, <1>3, <1>4, PTL DEF Spec

-----------------------------------------------------------------------------
(***************************************************************************)
(* Merged clients.  The loop over the locals of a slot says the same to    *)
(* every client that it has passed, and nobody else works on them.         *)
(***************************************************************************)
\* What the loop of call f says: nothing, if the name is not in lower case.
Verdict(r, f) ==
  IF ~f.lower THEN "none"
  ELSE IF f.says = "answer" THEN r[f.b].query ELSE "negative"

SaidSame(r, g, s) ==
  \A b \in Slot, c \in Client : \A l \in DOMAIN r[b].locals :
    Held(r, b, l, c) /\ Told(s, b, l) => g[c] = Verdict(r, Head(s))

\* No call of s is such a loop; none is but the one on top.
Mute(s) == \A j \in 1..Len(s) : s[j].op = "reply" => s[j].says \notin Direct

Under(s) ==
  \A j \in 1..Len(s) : s[j].op = "reply" /\ j # 1 => s[j].says \notin Direct

SaidInv == Under(stack) /\ SaidSame(rem, got, stack)

LEMMA MuteSaid ==
  ASSUME NEW s \in Seq(Frame), Mute(s)
  PROVE  Under(s) /\ \A r, g : SaidSame(r, g, s)
<1>1. s # << >> => 1 \in 1..Len(s) /\ Head(s) = s[1]
  BY TailFrames
<1>2. \A b, l : ~Told(s, b, l)
  BY <1>1 DEF Mute, Told
<1> QED BY <1>2 DEF Mute, Under, SaidSame

LEMMA MutePushed ==
  ASSUME NEW s \in Seq(Frame), NEW f \in Frame, Mute(s),
         f.op = "reply" => f.says \notin Direct
  PROVE  Mute(<<f>> \o s) /\ <<f>> \o s \in Seq(Frame)
<1> DEFINE t == <<f>> \o s
<1>1. /\ t \in Seq(Frame) /\ Len(t) = Len(s) + 1 /\ t[1] = f
      /\ \A j \in 1..(Len(s) + 1) : j # 1 =>
           j - 1 \in 1..Len(s) /\ t[j] = s[j - 1]
  BY PushedFrames
<1> HIDE DEF t
<1> QED BY <1>1 DEF Mute, t

LEMMA MuteRest ==
  ASSUME stack \in Seq(Frame), stack # << >>, Under(stack) PROVE Mute(Rest)
<1>1. /\ Len(stack) \in Nat /\ Len(stack) >= 1 /\ Len(Rest) = Len(stack) - 1
      /\ \A j \in 1..(Len(stack) - 1) : Rest[j] = stack[j + 1]
  BY TailFrames DEF Rest
<1> SUFFICES ASSUME NEW j \in 1..Len(Rest), Rest[j].op = "reply"
             PROVE  Rest[j].says \notin Direct
  BY DEF Mute
<1>2. j + 1 \in 1..Len(stack) /\ j + 1 # 1 /\ Rest[j] = stack[j + 1]
  BY <1>1
<1> QED BY <1>2 DEF Under

LEMMA MuteFew ==
  /\ Mute(<< >>) /\ << >> \in Seq(Frame)
  /\ \A f \in Frame : (f.op = "reply" => f.says \notin Direct) =>
       Mute(<<f>>) /\ <<f>> \in Seq(Frame)
<1>1. Mute(<< >>) /\ << >> \in Seq(Frame)
  BY DEF Mute
<1>2. ASSUME NEW f \in Frame, f.op = "reply" => f.says \notin Direct
      PROVE  Mute(<<f>>) /\ <<f>> \in Seq(Frame)
  <2>1. Mute(<<f>> \o << >>) /\ <<f>> \o << >> \in Seq(Frame)
    BY <1>1, <1>2, MutePushed
  <2> QED BY <2>1, Concat
<1> QED BY <1>1, <1>2

LEMMA OneAndOne ==
  ASSUME NEW f \in Frame, NEW g \in Frame PROVE <<f>> \o <<g>> = <<f, g>>
<1> DEFINE s == << >>
<1>1. s \in Seq(Frame)
  OBVIOUS
<1>2. <<f, g>> \o s = <<f, g>> /\ <<g>> \o s = <<g>>
  BY Concat
<1> HIDE DEF s
<1>3. <<f, g>> \o s = <<f>> \o (<<g>> \o s)
  BY <1>1, ConcatTwo
<1> QED BY <1>2, <1>3

LEMMA MuteNext ==
  ASSUME stack' \in Seq(Frame), Mute(stack') PROVE SaidInv'
BY MuteSaid DEF SaidInv

LEMMA ConnectSays == ASSUME Known, SaidInv, Connect PROVE SaidInv'
<1>1. stack \in Seq(Frame) /\ stack # << >> /\ Top.op = "connect"
  BY DEF Known, Inv, Connect, Runs
<1>2. Rest \in Seq(Frame) /\ Top.b \in Slot /\ Mute(Rest)
  BY <1>1, FrameOf, Popped, MuteRest DEF SaidInv
<1>3. CASE Return
  BY <1>2, <1>3, MuteNext DEF Return
<1>4. ASSUME NEW ns \in Query, Spawn(Top.b, ns, 1, Rest), ~Return PROVE SaidInv'
  <2>1. PICK n \in Lowest(Free) :
          stack' = <<ConnectFrame(n, TRUE),
                     [op |-> "spawned", b |-> Top.b, n |-> n, type |-> 1]>> \o Rest
    BY <1>4 DEF Spawn, Return
  <2>2. n \in Slot
    BY FreeEmpty
  <2> DEFINE f == ConnectFrame(n, TRUE)
             h == [op |-> "spawned", b |-> Top.b, n |-> n, type |-> 1]
  <2>3. f \in Frame /\ f.op = "connect" /\ h \in Frame /\ h.op = "spawned"
    BY <1>2, <2>2, ConnectFrameOK DEF ConnectFrame, Frame
  <2>4. stack' = <<f, h>> \o Rest
    BY <2>1
  <2> HIDE DEF f, h
  <2> DEFINE t == <<h>> \o Rest
  <2>5. Mute(t) /\ t \in Seq(Frame)
    BY <1>2, <2>3, MutePushed
  <2>6. stack' = <<f>> \o t
    BY <1>2, <2>3, <2>4, ConcatTwo
  <2> HIDE DEF t
  <2> QED BY <2>3, <2>5, <2>6, MutePushed, MuteNext
<1> QED BY <1>3, <1>4 DEF Connect

\* A call that returns and was no loop, or the last of its handler.
LEMMA EndSays ==
  ASSUME Known, SaidInv, stack' = << >> \/ (stack # << >> /\ Return) PROVE SaidInv'
<1>1. CASE stack' = << >>
  BY <1>1, MuteFew, MuteNext
<1>2. CASE stack # << >> /\ Return
  <2>1. stack \in Seq(Frame)
    BY DEF Known, Inv
  <2> QED BY <1>2, <2>1, Popped, MuteRest, MuteNext DEF SaidInv, Return
<1> QED BY <1>1, <1>2

LEMMA AskNewSays ==
  ASSUME Known, NEW c \in Client, NEW q \in Query, NEW lower \in Spellings,
         AskNew(c, q, lower)
  PROVE  SaidInv'
<1>1. PICK b \in Lowest(Free) :
        stack' = <<ConnectFrame(b, lower),
                   [op |-> "forwarded", b |-> b, client |-> c, q |-> q]>>
  BY DEF AskNew
<1>2. b \in Slot /\ lower \in BOOLEAN
  BY FreeEmpty, RemoteAssumption
<1> DEFINE f == ConnectFrame(b, lower)
           h == [op |-> "forwarded", b |-> b, client |-> c, q |-> q]
<1>3. f \in Frame /\ f.op = "connect" /\ h \in Frame /\ h.op = "forwarded"
  BY <1>2, ConnectFrameOK DEF ConnectFrame, Frame
<1>4. stack' = <<f, h>>
  BY <1>1
<1> HIDE DEF f, h
<1>5. Mute(<<h>>) /\ <<h>> \in Seq(Frame)
  BY <1>3, MuteFew
<1>6. Mute(<<f>> \o <<h>>) /\ <<f>> \o <<h>> \in Seq(Frame)
  BY <1>3, <1>5, MutePushed
<1>7. <<f>> \o <<h>> = <<f, h>>
  BY <1>3, OneAndOne
<1> QED BY <1>4, <1>6, <1>7, MuteNext

LEMMA ReceiveSays ==
  ASSUME Known, SaidInv, NEW b \in Slot, NEW f \in Fd,
         Receive(b, f) \/ ReceiveStray(b, f)
  PROVE  SaidInv'
<1>1. CASE ReceiveStray(b, f)
  <2>1. stack' = << >>
    BY <1>1 DEF ReceiveStray, Arrives
  <2> QED BY <2>1, EndSays
<1>2. CASE Receive(b, f)
  <2>1. PICK q \in Query : \E says \in Says[q] :
          stack' = <<ReplyFrame(b, 1, says, sent[f].lower, TRUE)>>
    BY <1>2 DEF Receive
  <2>2. PICK says \in Says[q] :
          stack' = <<ReplyFrame(b, 1, says, sent[f].lower, TRUE)>>
    BY <2>1
  <2> DEFINE g == ReplyFrame(b, 1, says, sent[f].lower, TRUE)
             s == <<g>>
  <2>3. g.l = 1
    BY DEF ReplyFrame
  <2> HIDE DEF g
  <2>4. Len(s) = 1 /\ Head(s) = g
    OBVIOUS
  <2> HIDE DEF s
  <2>5. Under(s) /\ \A e, l : ~Told(s, e, l)
    BY <2>3, <2>4 DEF Under, Told
  <2>6. stack' = s
    BY <2>2 DEF s, g
  <2> QED BY <2>5, <2>6 DEF SaidInv, SaidSame
<1> QED BY <1>1, <1>2

LEMMA ReplyReferSays == ASSUME Known, ReplyRefer PROVE SaidInv'
<1> DEFINE f == ConnectFrame(Top.b, TRUE)
<1>1. /\ Rest = << >> /\ Top.b \in Slot /\ Kept \in Frame /\ Kept.says = "refer"
  BY RoundClients DEF ReplyRefer, Round
<1>2. f \in Frame /\ f.op = "connect"
  BY <1>1, ConnectFrameOK DEF ConnectFrame
<1>3. stack' = <<f, Kept>>
  BY <1>1, <1>2, Concat DEF ReplyRefer
<1> HIDE DEF f
<1>4. Mute(<<Kept>>) /\ <<Kept>> \in Seq(Frame)
  BY <1>1, MuteFew DEF Direct
<1>5. Mute(<<f>> \o <<Kept>>) /\ <<f>> \o <<Kept>> \in Seq(Frame)
  BY <1>2, <1>4, MutePushed
<1>6. <<f>> \o <<Kept>> = <<f, Kept>>
  BY <1>1, <1>2, OneAndOne
<1> QED BY <1>3, <1>5, <1>6, MuteNext

\* The loop goes on with the next local.
LEMMA RoundSays ==
  ASSUME Known, SaidInv, Round(Direct), Call(Continued),
         \A a \in Slot : SameKin(rem, rem', a),
         \A e \in Slot, c \in Client : \A l \in DOMAIN rem[e].locals :
           Held(rem, e, l, c) /\ ~(e = Top.b /\ l = Top.l) => got'[c] = got[c],
         \A c \in Client : Held(rem, Top.b, Top.l, c) => got'[c] = Verdict(rem, Top)
  PROVE  SaidInv'
<1>1. /\ Rest = << >> /\ stack # << >> /\ Top.b \in Slot /\ Top.l \in Nat
      /\ Top.op = "reply" /\ Top = Head(stack)
      /\ Continued.op = "reply" /\ Continued.b = Top.b
      /\ Continued.l = Top.l + 1 /\ Continued.says = Top.says
      /\ Continued \in Frame
  BY RoundClients
<1>2. Top \in ReplyFrames
  BY <1>1, Popped DEF Known, Inv, Frame, ReplyFrames
<1>3. Continued.lower = Top.lower
  BY <1>2 DEF Continued, ReplyFrames
<1>4. Verdict(rem', Continued) = Verdict(rem, Top)
  BY <1>1, <1>3 DEF Verdict, SameKin
<1> DEFINE s == <<Continued>>
<1>5. s # << >> /\ Head(s) = Continued /\ Len(s) = 1
  OBVIOUS
<1> HIDE DEF s
<1>6. stack' = s
  BY <1>1, Concat DEF Call, s
<1>7. Under(s)
  BY <1>5 DEF Under
<1>8. ASSUME NEW b, NEW l \in Nat, Told(s, b, l)
      PROVE  Told(stack, b, l) \/ (b = Top.b /\ l = Top.l)
  <2>1. b = Top.b /\ l \in 1..Top.l
    <3>1. Continued.l - 1 = Top.l
      BY <1>1
    <3> QED BY <1>1, <1>5, <1>8, <3>1 DEF Told
  <2>2. Top.says \in Direct
    BY DEF Round
  <2>3. l \in 1..(Top.l - 1) \/ l = Top.l
    BY <1>1, <2>1
  <2> QED BY <1>1, <2>1, <2>2, <2>3 DEF Told
<1>9. SaidSame(rem', got', s)
  <2> SUFFICES ASSUME NEW b \in Slot, NEW c \in Client,
                      NEW l \in DOMAIN rem'[b].locals,
                      Held(rem', b, l, c), Told(s, b, l)
               PROVE  got'[c] = Verdict(rem, Top)
    BY <1>4, <1>5 DEF SaidSame
  <2>1. l \in DOMAIN rem[b].locals /\ Held(rem, b, l, c)
    BY DEF SameKin, Held
  <2>2. l \in Nat
    <3>1. rem[b].locals \in Seq(Local)
      BY RemTyped DEF Known, Pending
    <3> QED BY <2>1, <3>1
  <2>3. CASE b = Top.b /\ l = Top.l
    BY <2>1, <2>3
  <2>4. CASE ~(b = Top.b /\ l = Top.l)
    <3>1. Told(stack, b, l)
      BY <1>8, <2>2, <2>4
    <3>2. got[c] = Verdict(rem, Top)
      BY <1>1, <2>1, <3>1 DEF SaidInv, SaidSame
    <3> QED BY <2>1, <2>4, <3>2
  <2> QED BY <2>3, <2>4
<1> QED BY <1>6, <1>7, <1>9 DEF SaidInv

LEMMA ReplyToClientSays == ASSUME Known, SaidInv, ReplyToClient PROVE SaidInv'
<1> DEFINE b == Top.b
           l == Top.l
           c == This.client
<1>1. /\ b \in Slot /\ l \in DOMAIN rem[b].locals /\ This \in Local
      /\ This.type = 0
  BY RoundOK DEF Known, ReplyToClient
<1>2. c \in Client /\ Held(rem, b, l, c)
  BY <1>1 DEF Local, Held, This
<1>3. ~Told(stack, b, l)
  BY NextRound DEF ReplyToClient
<1>4. HeldOnce(rem) /\ HeldWaits(rem, asked, got, stack)
  BY DEF Known, ClientsInv
<1>5. got[c] = "none"
  BY <1>1, <1>2, <1>3, <1>4 DEF HeldWaits
<1>6. Tell(IF Top.lower THEN {c} ELSE {}, Value) /\ rem' = rem
  BY DEF ReplyToClient, table
<1>7. got'[c] = Verdict(rem, Top)
  BY <1>2, <1>5, <1>6 DEF Tell, Verdict, Value
<1>8. \A d \in Client : d # c => got'[d] = got[d]
  BY <1>6 DEF Tell
<1>9. \A d \in Client : Held(rem, b, l, d) => d = c
  BY DEF Held, This
<1>10. ASSUME NEW e \in Slot, NEW d \in Client, NEW k \in DOMAIN rem[e].locals,
              Held(rem, e, k, d), ~(e = b /\ k = l)
       PROVE  got'[d] = got[d]
  <2>1. d # c
    BY <1>1, <1>2, <1>4, <1>10 DEF HeldOnce
  <2> QED BY <1>8, <2>1
<1>11. \A a \in Slot : SameKin(rem, rem', a)
  BY <1>6 DEF SameKin
<1>12. \A d \in Client : Held(rem, b, l, d) => got'[d] = Verdict(rem, Top)
  BY <1>7, <1>9
<1> QED BY <1>10, <1>11, <1>12, RoundSays DEF ReplyToClient

LEMMA ReplyToNsParentSays == ASSUME Known, SaidInv, ReplyToNsParent PROVE SaidInv'
<1>1. Top.b \in Slot /\ This \in Local /\ This.type = 1
  BY RoundOK DEF Known, ReplyToNsParent
<1>2. This.conn \in Slot
  BY <1>1 DEF Local
<1>3. \A d \in Client : ~Held(rem, Top.b, Top.l, d)
  BY <1>1 DEF Held, This
<1>4. \A a \in Slot : SameKin(rem, rem', a)
  <2>1. CASE UNCHANGED rem
    BY <2>1 DEF SameKin
  <2>2. CASE Dial(This.conn, TRUE)
    BY <1>2, <2>2, DialSame DEF Known
  <2> QED BY <2>1, <2>2 DEF ReplyToNsParent, table
<1>5. got' = got
  BY DEF ReplyToNsParent, users
<1> QED BY <1>3, <1>4, <1>5, RoundSays DEF ReplyToNsParent

LEMMA NextSays == ASSUME NoCnames, Known, SaidInv, [Next]_vars PROVE SaidInv'
<1>1. CASE Inner
  <2>1. CASE Spawned \/ Forwarded \/ ReplyDone
    BY <2>1, EndSays DEF Spawned, Forwarded, ReplyDone, Runs
  <2>2. CASE ReplyBad \/ ReplyBadIp
    BY <2>2, EndSays DEF ReplyBad, ReplyBadIp, Round, Runs
  <2> QED BY <1>1, <2>1, <2>2, ConnectSays, ReplyReferSays, ReplyToClientSays,
             ReplyToNsParentSays, NoCnameCalls DEF Inner
<1>2. ASSUME NEW c \in Client, NEW q \in Query,
             \/ AskCached(c, q) \/ AskChased(c, q)
             \/ AskAttach(c, q) \/ AskRefused(c, q)
             \/ \E lower \in Spellings : AskNew(c, q, lower)
      PROVE  SaidInv'
  <2>1. CASE AskCached(c, q) \/ AskAttach(c, q) \/ AskRefused(c, q)
    <3>1. stack' = << >>
      BY <2>1 DEF AskCached, AskAttach, AskRefused, Forwards, Asks
    <3> QED BY <3>1, EndSays
  <2> QED BY <1>2, <2>1, AskNewSays, NoCnameCalls
<1>3. ASSUME NEW b \in Slot, NEW f \in Fd, Receive(b, f) \/ ReceiveStray(b, f)
      PROVE  SaidInv'
  BY <1>3, ReceiveSays
<1>4. ASSUME NEW b \in Slot, Timeout(b) PROVE SaidInv'
  <2>1. CASE Retry(b)
    <3>1. stack' = <<ConnectFrame(b, TRUE)>>
      BY <2>1 DEF Retry
    <3>2. ConnectFrame(b, TRUE) \in Frame /\ ConnectFrame(b, TRUE).op = "connect"
      BY ConnectFrameOK DEF ConnectFrame
    <3> QED BY <3>1, <3>2, MuteFew, MuteNext
  <2>2. CASE Resurrect(b) \/ FailNoReply(b)
    <3>1. stack' = << >>
      BY <2>2 DEF Resurrect, FailNoReply, GivenUp, Expires
    <3> QED BY <3>1, EndSays
  <2> QED BY <1>4, <2>1, <2>2 DEF Timeout
<1>5. ASSUME NEW q \in Query, Age(q) PROVE SaidInv'
  <2>1. stack' = << >>
    BY <1>5 DEF Age
  <2> QED BY <2>1, EndSays
<1>6. ASSUME NEW c \in Client, Leave(c) PROVE SaidInv'
  <2>1. stack' = << >>
    BY <1>6 DEF Leave
  <2> QED BY <2>1, EndSays
<1>7. CASE UNCHANGED vars
  BY <1>7 DEF vars, table, users, SaidInv
<1> QED BY <1>1, <1>2, <1>3, <1>4, <1>5, <1>6, <1>7 DEF Next

\* What MergedAnsweredTogether says of a step.
Together ==
  stack # << >> => \A b \in Slot :
    /\ (stack' = << >> \/ ~rem'[b].live) =>
         \A c, d \in ClientsOf(b) : got'[c] = got'[d]
    /\ ~rem'[b].live =>
         \A c \in ClientsOf(b) :
           got'[c] # "none" \/ (Runs("reply") /\ ~Top.lower)

\* A slot that ends without an answer had nobody waiting.
LEMMA EndedEmpty ==
  ASSUME Serving', NEW b \in Slot, rem[b].locals # << >> => rem'[b].locals # << >>,
         ~rem'[b].live
  PROVE  ClientsOf(b) = {}
<1>1. rem'[b].locals = << >>
  BY DEF Serving, Used
<1> QED BY <1>1 DEF ClientsOf

\* Nobody is told anything, and who waits goes on waiting.
LEMMA QuietTogether ==
  ASSUME Known, Serving', stack # << >>, Top.op # "reply" \/ Top.says \notin Direct,
         Keeps(rem, rem'),
         \A b \in Slot : \A c \in ClientsOf(b) : got'[c] = got[c]
  PROVE  Together
<1>1. \A b \in Slot : \A c \in ClientsOf(b) : got'[c] = "none"
  BY ClientsHeld
<1>2. \A b \in Slot : ~rem'[b].live => ClientsOf(b) = {}
  BY EndedEmpty DEF Keeps
<1> QED BY <1>1, <1>2 DEF Together

LEMMA ConnectTogether ==
  ASSUME Known, Serving', Connect PROVE Together
<1>1. stack # << >> /\ Top.op = "connect" /\ got' = got /\ Top.b \in Slot
  BY FrameOf DEF Connect, Runs, users, Known, Inv
<1>2. Keeps(rem, rem')
  <2>1. CASE UNCHANGED table
    BY <2>1 DEF Keeps, table
  <2>2. CASE Dial(Top.b, Top.lower)
    BY <1>1, <2>2, DialSame, KeepsSame DEF Known
  <2>3. ASSUME NEW ns \in Query, Spawn(Top.b, ns, 1, Rest) PROVE Keeps(rem, rem')
    <3>1. CASE UNCHANGED table
      BY <2>1, <3>1
    <3> DEFINE x == [Blank EXCEPT !.query = ns, !.live = TRUE,
                                  !.depth = rem[Top.b].depth + 1]
    <3>2. UNCHANGED table \/ \E n \in Lowest(Free) : rem' = [rem EXCEPT ![n] = x]
      BY <2>3 DEF Spawn
    <3> HIDE DEF x
    <3>3. ASSUME NEW n \in Lowest(Free), rem' = [rem EXCEPT ![n] = x]
          PROVE  Keeps(rem, rem')
      BY <3>3, FreeEmpty, RemTyped, KeepsRenew DEF Known
    <3> QED BY <3>1, <3>2, <3>3
  <2> QED BY <2>1, <2>2, <2>3 DEF Connect
<1> QED BY <1>1, <1>2, QuietTogether

LEMMA SpawnedTogether ==
  ASSUME Known, Serving', Spawned PROVE Together
<1>1. stack # << >> /\ Top.op = "spawned" /\ got' = got
  BY DEF Spawned, Runs, users
<1>2. rem[Top.n].locals = << >>
  BY <1>1, ServesTop DEF Known, Inv, Serving, FrameServes
<1>3. \A a \in Slot : a # Top.n => rem'[a].locals = rem[a].locals
  BY SpawnedSlots DEF Known
<1>4. Keeps(rem, rem')
  BY <1>2, <1>3 DEF Keeps
<1> QED BY <1>1, <1>4, QuietTogether

LEMMA ForwardedTogether ==
  ASSUME Known, Serving', Forwarded PROVE Together
<1> DEFINE b == Top.b
<1>1. /\ stack # << >> /\ Top.op = "forwarded" /\ b \in Slot
      /\ rem[b].locals = << >>
      /\ \A e \in Slot : \A l \in DOMAIN rem[e].locals :
           ~Held(rem, e, l, Top.client)
  BY FrameOf, TopCalls DEF Forwarded, Runs, Known, Inv, ClientsInv, ForwardedWaits
<1>2. \A e \in Slot : e # b => rem'[e] = rem[e]
  BY <1>1, RemTyped DEF Known, Forwarded, Reset
<1>3. Keeps(rem, rem')
  BY <1>1, <1>2 DEF Keeps
<1>4. ASSUME NEW e \in Slot, NEW c \in ClientsOf(e) PROVE got'[c] = got[c]
  <2>1. c \in Client /\ c # Top.client
    BY <1>1, ClientsHeld
  <2> QED BY <2>1 DEF Forwarded, Tell
<1> QED BY <1>1, <1>3, <1>4, QuietTogether

LEMMA ReplyBadTogether ==
  ASSUME Known, Serving', ReplyBad \/ ReplyRefer PROVE Together
<1>1. stack # << >> /\ Top.says \notin Direct /\ got' = got /\ Top.b \in Slot
  BY RoundClients DEF ReplyBad, ReplyRefer, Round, users, Direct
<1>2. \A a \in Slot : SameKin(rem, rem', a)
  <2>1. CASE ReplyBad
    BY <2>1 DEF ReplyBad, table, SameKin
  <2>2. CASE ReplyRefer
    BY <1>1, <2>2, RemTyped, HangsUp DEF ReplyRefer, Known, Serving
  <2> QED BY <2>1, <2>2
<1> QED BY <1>1, <1>2, KeepsSame, QuietTogether

\* All clients of slot b, and no others, are sent v when it ends.
LEMMA EndTogether ==
  ASSUME Known, Serving', stack # << >>, NEW b \in Slot,
         \A e \in Slot : e # b => rem'[e] = rem[e],
         NEW v, \A c \in ClientsOf(b) : got'[c] = v,
         v # "none" \/ (Runs("reply") /\ ~Top.lower),
         \A e \in Slot : \A c \in ClientsOf(e) : e # b => got'[c] = "none"
  PROVE  Together
<1>1. ASSUME NEW e \in Slot, e # b, ~rem'[e].live PROVE ClientsOf(e) = {}
  BY <1>1, EndedEmpty
<1> QED BY <1>1 DEF Together

\* A client of another slot than the loop works on was told nothing.
LEMMA OthersTold ==
  ASSUME Known, stack # << >>, NEW e \in Slot, e # Top.b, NEW c \in ClientsOf(e)
  PROVE  c \in Client /\ got[c] = "none" /\ c \notin ClientsOf(Top.b)
<1>1. c \in Client /\ \E l \in DOMAIN rem[e].locals : Held(rem, e, l, c)
  BY ClientsHeld
<1>2. \A l : ~Told(stack, e, l)
  BY DEF Told, Top
<1>3. HeldWaits(rem, asked, got, stack) /\ HeldOnce(rem)
  BY DEF Known, ClientsInv
<1>4. got[c] = "none"
  BY <1>1, <1>2, <1>3 DEF HeldWaits
<1>5. c \notin ClientsOf(Top.b)
  <2> SUFFICES ASSUME c \in ClientsOf(Top.b) PROVE FALSE
    OBVIOUS
  <2>1. Top.b \in Slot
    BY FrameOf DEF Known, Inv
  <2>2. \E l \in DOMAIN rem[Top.b].locals : Held(rem, Top.b, l, c)
    BY <2>1, ClientsHeld
  <2> QED BY <1>1, <1>3, <2>1, <2>2 DEF HeldOnce
<1> QED BY <1>1, <1>4, <1>5

LEMMA ReplyBadIpTogether ==
  ASSUME Known, Serving', ReplyBadIp PROVE Together
<1> DEFINE b == Top.b
<1>1. stack # << >> /\ Top.says \notin Direct /\ b \in Slot
  BY RoundClients DEF ReplyBadIp, Round, Direct
<1>2. Tell(ClientsOf(b), "synthetic") /\ rem' = [rem EXCEPT ![b] = Blank]
  BY DEF ReplyBadIp, Release
<1>3. \A e \in Slot : e # b => rem'[e] = rem[e]
  BY <1>1, <1>2, RemTyped DEF Known
<1>4. \A c \in ClientsOf(b) : c \in Client /\ got[c] = "none"
  BY <1>1, ClientsHeld
<1>5. \A c \in ClientsOf(b) : got'[c] = "synthetic"
  BY <1>2, <1>4 DEF Tell
<1>6. ASSUME NEW e \in Slot, NEW c \in ClientsOf(e), e # b PROVE got'[c] = "none"
  BY <1>1, <1>2, <1>6, OthersTold DEF Tell
<1> QED BY <1>1, <1>3, <1>5, <1>6, EndTogether

\* The loop that goes on ends nothing.
LEMMA RoundTogether ==
  ASSUME Known, Serving', ReplyToClient \/ ReplyToNsParent PROVE Together
<1>1. stack' # << >>
  <2>1. stack' = <<Continued>>
    BY NextRound DEF ReplyToClient, ReplyToNsParent
  <2> QED BY <2>1
<1>2. \A a \in Slot : SameKin(rem, rem', a)
  <2>1. CASE UNCHANGED rem
    BY <2>1 DEF SameKin
  <2>2. CASE ReplyToNsParent /\ Dial(This.conn, TRUE)
    <3>1. This \in Local /\ This.type = 1
      BY <2>2, RoundOK DEF Known, ReplyToNsParent
    <3>2. This.conn \in Slot
      BY <3>1 DEF Local
    <3> QED BY <2>2, <3>2, DialSame DEF Known
  <2> QED BY <2>1, <2>2 DEF ReplyToClient, ReplyToNsParent, table
<1>3. \A b \in Slot : ~rem'[b].live => ClientsOf(b) = {}
  BY <1>2, EndedEmpty DEF SameKin
<1> QED BY <1>1, <1>3 DEF Together

LEMMA ReplyDoneTogether ==
  ASSUME Known, SaidInv, Serving', ReplyDone PROVE Together
<1> DEFINE b == Top.b
<1>1. stack \in Seq(Frame) /\ stack # << >> /\ Top.op = "reply"
  BY DEF Known, Inv, ReplyDone, Runs
<1>2. b \in Slot /\ PlainFrame(Top) /\ Top.l \in Nat \ {0}
  BY <1>1, FrameOf, TopCalls DEF Known, ClientsInv
<1>3. got' = got /\ Top.l > Len(rem[b].locals)
  BY DEF ReplyDone, users
<1>4. rem[b].locals \in Seq(Local)
  BY <1>2, RemTyped DEF Known, Pending
<1>5. CASE Top.says \notin Direct
  <2>1. CASE Top.kill
    <3>1. rem[b].locals = << >>
      BY <1>1, <1>2, <1>3, <1>4, <1>5, <2>1 DEF PlainFrame
    <3>2. rem' = [rem EXCEPT ![b] = Blank]
      BY <2>1 DEF ReplyDone, Release
    <3>3. Keeps(rem, rem')
      BY <1>2, <3>1, <3>2, RemTyped, KeepsRenew DEF Known
    <3> QED BY <1>1, <1>3, <1>5, <3>3, QuietTogether
  <2>2. CASE ~Top.kill
    <3>1. Keeps(rem, rem')
      BY <2>2 DEF ReplyDone, table, Keeps
    <3> QED BY <1>1, <1>3, <1>5, <3>1, QuietTogether
  <2> QED BY <2>1, <2>2
<1>6. CASE Top.says \in Direct
  <2> DEFINE v == Verdict(rem, Top)
  <2>1. rem' = [rem EXCEPT ![b] = Blank]
    BY <1>1, <1>2, <1>6 DEF ReplyDone, Release, PlainFrame
  <2>2. \A e \in Slot : e # b => rem'[e] = rem[e]
    BY <1>2, <2>1, RemTyped DEF Known
  <2>3. ASSUME NEW c \in ClientsOf(b)
        PROVE  got'[c] = v /\ (v # "none" \/ ~Top.lower)
    <3>1. /\ c \in Client /\ asked[c] # None /\ asked[c] = rem[b].query
          /\ \E l \in DOMAIN rem[b].locals : Held(rem, b, l, c)
      BY <1>2, ClientsHeld
    <3>2. PICK l \in DOMAIN rem[b].locals : Held(rem, b, l, c)
      BY <3>1
    <3>3. l \in 1..(Top.l - 1)
      BY <1>2, <1>3, <1>4
    <3>4. Told(stack, b, l)
      BY <1>1, <1>6, <3>3 DEF Told, Top
    <3>5. got[c] = v
      BY <1>2, <3>1, <3>2, <3>4 DEF SaidInv, SaidSame, Top
    <3>6. rem[b].query \in Query
      BY <3>1 DEF Known, Inv, UsersOK
    <3>7. v # "none" \/ ~Top.lower
      BY <3>6, Words DEF Verdict, Notice
    <3> QED BY <1>3, <3>5, <3>7
  <2>4. \A e \in Slot : \A c \in ClientsOf(e) : e # b => got'[c] = "none"
    BY <1>1, <1>3, OthersTold
  <2>5. CASE ClientsOf(b) = {}
    <3>1. \A c \in ClientsOf(b) : got'[c] = "negative"
      BY <2>5
    <3> QED BY <1>1, <1>2, <2>2, <2>4, <3>1, EndTogether
  <2>6. CASE ClientsOf(b) # {}
    <3>1. v # "none" \/ (Runs("reply") /\ ~Top.lower)
      BY <1>1, <2>3, <2>6 DEF Runs
    <3>2. \A c \in ClientsOf(b) : got'[c] = v
      BY <2>3
    <3> HIDE DEF v
    <3> QED BY <1>1, <1>2, <2>2, <2>4, <3>1, <3>2, EndTogether
  <2> QED BY <2>5, <2>6
<1> QED BY <1>5, <1>6

LEMMA NextTogether ==
  ASSUME NoCnames, Known, SaidInv, Serving', Next PROVE Together
<1>1. CASE Inner
  BY <1>1, ConnectTogether, SpawnedTogether, ForwardedTogether, ReplyBadTogether,
     ReplyBadIpTogether, RoundTogether, ReplyDoneTogether, NoCnameCalls DEF Inner
<1>2. CASE ~Inner
  <2>1. stack = << >>
    BY <1>2 DEF Next, AskCached, AskChased, AskAttach, AskRefused, AskNew, Forwards,
                Asks, Receive, ReceiveStray, Arrives, Timeout, Retry, Resurrect,
                FailNoReply, GivenUp, Expires, Age, Leave
  <2> QED BY <2>1 DEF Together
<1> QED BY <1>1, <1>2

(***************************************************************************)
(* max_inflights, "send a reply to both clients once we have an answer",   *)
(* for any number of clients: the loop over the locals of a slot tells all *)
(* of them the same before it ends the slot.                               *)
(***************************************************************************)
THEOREM MergedAnsweredTogetherTheorem ==
  ASSUME NoCnames PROVE Spec => MergedAnsweredTogether
<1>1. Init => Known /\ SaidInv
  <2>1. Init => SaidInv
    BY MuteFew, MuteSaid DEF Init, SaidInv
  <2> QED BY <2>1, InitOK, InitServes, InitClients DEF Known
<1>2. Known /\ SaidInv /\ [Next]_vars => (Known /\ SaidInv)'
  BY NextOK, NextServes, NextClients, NextSays DEF Known
<1>3. Known /\ SaidInv /\ Known' /\ [Next]_vars => [Together]_vars
  BY NextTogether DEF Known
<1>4. Spec => [][Together]_vars
  BY <1>1, <1>2, <1>3, PTL DEF Spec
<1> QED BY <1>4 DEF MergedAnsweredTogether, Together
====
