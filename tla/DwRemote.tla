------------------------------ MODULE DwRemote ------------------------------
(***************************************************************************)
(* The pending queries of Deadwood: the rem[] and b_remote[] tables, the   *)
(* inflight hash that merges clients, the child queries that look for the  *)
(* address of a name server ("glueless" NS) or for the target of a CNAME,  *)
(* and the timeouts (DwSocket.c, DwUdpSocket.c, DwRecurse.c).              *)
(*                                                                         *)
(* One thread runs every handler to its end.  Handlers call each other and *)
(* themselves, so a handler is run here step by step on a stack of frames, *)
(* one frame per call; packets and timers come in when the stack is empty. *)
(*                                                                         *)
(* Queries are model values; an answer is the query whose data it carries. *)
(* Upstream servers, the network and the clock choose freely, so a slot    *)
(* that is in use may time out at any moment.  DNS-over-TCP clients and    *)
(* truncated replies are not in this module.                               *)
(***************************************************************************)
EXTENDS Integers, Sequences, FiniteSets

CONSTANTS
  Client,        \* UDP clients
  Query,         \* queries: a name and a type, in lower case
  None,          \* no slot, no socket, no query
  SlotCount,     \* maxprocs
  FdCount,       \* bound: sockets that the process may have open upstream
  Says,          \* Says[q]: what servers may reply to q, see Reply
  NsOf,          \* NsOf[q]: "ip", or the glueless names of servers to ask q
  MaxInflights,  \* max_inflights
  NumRetries,    \* num_retries
  MaxDepth,      \* 32, the bound on recurse_depth and on nested CNAMEs
  MaxReplies,    \* bound: datagrams that come back for one that is sent
  HandleNoreply, HandleOverload, Resurrections,
  CanFail,       \* socket(), bind(), connect() or send() may fail
  Spellings,     \* {TRUE}, or also FALSE: queries that are not in lower case
  TimePasses,    \* bound: FALSE leaves out timeouts and the end of TTLs
  Expiring       \* bound: the queries whose entries grow old

Slot == 1..SlotCount
Fd   == 1..FdCount

\* An answer, an answer that there is none, an NS referral, a packet that is
\* not believed, one with a blacklisted IP, or the target of a CNAME.
Reply == {"answer", "negative", "refer", "bad", "badip"} \union Query

\* What a client is sent that is no data, or that it is sent nothing yet.
Notice == {"none", "negative", "synthetic", "refused", "dropped", "fail",
           "mangled", "twice"}

ASSUME RemoteAssumption ==
  /\ SlotCount \in Nat \ {0}
  /\ FdCount \in Nat \ {0}
  /\ None \notin Query \union Client \union Nat
  /\ Notice \cap (Query \union {None}) = {}
  /\ Says \in [Query -> SUBSET Reply]
  /\ NsOf \in [Query -> SUBSET ({"ip"} \union Query)]
  /\ MaxInflights \in Nat \ {0}
  /\ NumRetries \in Nat
  /\ MaxDepth \in Nat
  /\ MaxReplies \in Nat
  /\ HandleNoreply \in BOOLEAN /\ HandleOverload \in BOOLEAN
  /\ Resurrections \in BOOLEAN /\ CanFail \in BOOLEAN
  /\ Spellings \subseteq BOOLEAN /\ TimePasses \in BOOLEAN
  /\ Expiring \subseteq Query

VARIABLES
  rem,       \* the slots of pending queries
  b_remote,  \* b_remote[b]: the socket that select() watches for slot b
  sent,      \* sent[f]: None if f is closed, else what was sent on it
  inflight,  \* inflight[q]: the slot that new clients of q join
  cache,     \* cache[q]: the answer to q in the cache
  stale,     \* the queries whose answer in the cache is past its TTL
  cname,     \* cname[q]: the target of the incomplete CNAME cached for q
  asked,     \* asked[c]: the query that client c waits for
  got,       \* got[c]: what c was sent
  stack      \* the calls in progress, the innermost first

table  == <<rem, b_remote, sent, inflight>>
caches == <<cache, stale, cname>>
users  == <<asked, got>>
vars   == <<table, caches, users, stack>>

-----------------------------------------------------------------------------
(***************************************************************************)
(* The slots.                                                              *)
(***************************************************************************)
\* glueless_type 0 is a client, 1 a slot that waits for the address of a
\* name server, 2 one that waits for the target of its CNAME, 3 a client
\* whose query is known to be a CNAME.
Local ==
       [type : {0}, client : Client, conn : {None}, orig : Query \union {None}]
  \union
       [type : {1, 2}, client : {None}, conn : Slot, orig : {None}]
  \union
       [type : {3}, client : Client, conn : {None}, orig : Query]

ForClient(c)      == [type |-> 0, client |-> c, conn |-> None, orig |-> None]
ForParent(b, t)   == [type |-> t, client |-> None, conn |-> b, orig |-> None]
ForChased(c, q)   == [type |-> 3, client |-> c, conn |-> None, orig |-> q]

\* What reset_rem leaves; live says that rem[].local is allocated.
Blank == [sock |-> None, query |-> None, retries |-> NumRetries, depth |-> 0,
          child |-> None, live |-> FALSE, locals |-> << >>]

\* Mutant: a slot that waits for its child has no socket, and looks free.
Free_waiting == {b \in Slot : rem[b].sock = None}

\* find_free_remote takes the lowest.
Free == {b \in Slot : rem[b].sock = None /\ ~rem[b].live}

Lowest(S) == {x \in S : \A y \in S : x <= y}

Unsent(fds)    == [f \in Fd |-> IF f \in fds THEN None ELSE sent[f]]
Zapped(qs)     == [p \in Query |-> IF p \in qs THEN None ELSE inflight[p]]

\* reset_rem
Reset(b) ==
  /\ rem' = [rem EXCEPT ![b] = Blank]
  /\ sent' = Unsent({rem[b].sock})
  /\ inflight' = Zapped({rem[b].query})

\* Mutant: the inflight entry stays.
Release_inflight(b) ==
  /\ rem' = [rem EXCEPT ![b] = Blank]
  /\ sent' = Unsent({rem[b].sock, b_remote[b]})
  /\ b_remote' = [b_remote EXCEPT ![b] = None]
  /\ UNCHANGED inflight

\* reset_rem with closesocket(b_remote[b]) and b_remote[b] = INVALID_SOCKET.
Release(b) ==
  /\ rem' = [rem EXCEPT ![b] = Blank]
  /\ sent' = Unsent({rem[b].sock, b_remote[b]})
  /\ b_remote' = [b_remote EXCEPT ![b] = None]
  /\ inflight' = Zapped({rem[b].query})

Fresh(q)    == cache[q] # None /\ q \notin stale
Positive(q) == Fresh(q) /\ cache[q] # "negative"

Cache(q, value) ==
  /\ cache' = [cache EXCEPT ![q] = value]
  /\ stale' = stale \ {q}

\* sendto() of value to every client of cs.
Tell(cs, value) ==
  got' = [c \in Client |->
            IF c \notin cs THEN got[c]
            ELSE IF got[c] = "none" THEN value ELSE "twice"]

ClientsOf(b) ==
  {rem[b].locals[l].client : l \in
     {l \in DOMAIN rem[b].locals : rem[b].locals[l].type = 0}}

-----------------------------------------------------------------------------
(***************************************************************************)
(* Frames.  A frame names the function that is running and its variables.  *)
(***************************************************************************)
Top       == Head(stack)
Rest      == Tail(stack)
Runs(op)  == stack # << >> /\ Top.op = op
Return    == stack' = Rest
Call(f)   == stack' = <<f>> \o Rest

ConnectFrame(b, lower) == [op |-> "connect", b |-> b, lower |-> lower]

CnameFrame(b, q, value, depth) ==
  [op |-> "cname", b |-> b, q |-> q, value |-> value, depth |-> depth]

(***************************************************************************)
(* setup_server to send: socket() gives the lowest descriptor, if any, and *)
(* a socket that the slot still had is closed after the new one is open.   *)
(***************************************************************************)
Closed == {f \in Fd : sent[f] = None}

Dial(b, lower) ==
  IF Closed = {}
  THEN UNCHANGED table
  ELSE \E f \in Lowest(Closed) :
         /\ sent' = [Unsent({rem[b].sock}) EXCEPT ![f] =
                      [slot |-> b, lower |-> lower, left |-> MaxReplies]]
         /\ b_remote' = [b_remote EXCEPT ![b] = f]
         /\ rem' = [rem EXCEPT ![b].sock = f]
         /\ UNCHANGED inflight

(***************************************************************************)
(* dwx_do_glueless_new up to its make_remote_connection, then the calls    *)
(* of "then"; without a free slot, or too deep, it does nothing.           *)
(***************************************************************************)
Spawn(b, q, type, then) ==
  IF Free = {} \/ rem[b].depth > MaxDepth
  THEN stack' = then /\ UNCHANGED table
  ELSE \E n \in Lowest(Free) :
         /\ rem' = [rem EXCEPT ![n] = [Blank EXCEPT !.query = q, !.live = TRUE,
                                       !.depth = rem[b].depth + 1]]
         /\ sent' = Unsent({b_remote[n]})
         /\ b_remote' = [b_remote EXCEPT ![n] = None]
         /\ inflight' = Zapped({rem[n].query})
         /\ stack' = <<ConnectFrame(n, TRUE),
                       [op |-> "spawned", b |-> b, n |-> n, type |-> type]>>
                     \o then

\* Mutant: recurse_depth is not looked at.
Connect_deep ==
  /\ Runs("connect")
  /\ LET b == Top.b
     IN  \/ /\ \/ rem[b].sock # None
               \/ NsOf[rem[b].query] = {}
               \/ CanFail
            /\ Return
            /\ UNCHANGED table
         \/ /\ rem[b].sock = None
            /\ \E ns \in NsOf[rem[b].query] :
                 \/ /\ ns \in Query => Positive(ns)
                    /\ Dial(b, Top.lower)
                    /\ Return
                 \/ /\ ns \in Query
                    /\ ~Positive(ns)
                    /\ Spawn(b, ns, 1, Rest)
  /\ UNCHANGED <<caches, users>>

\* make_remote_connection: the servers of the query are chosen at random.
Connect ==
  /\ Runs("connect")
  /\ LET b == Top.b
     IN  \/ /\ \/ rem[b].sock # None
               \/ rem[b].depth > MaxDepth
               \/ NsOf[rem[b].query] = {}
               \/ CanFail
            /\ Return
            /\ UNCHANGED table
         \/ /\ rem[b].sock = None
            /\ rem[b].depth <= MaxDepth
            /\ \E ns \in NsOf[rem[b].query] :
                 \/ /\ ns \in Query => Positive(ns)
                    /\ Dial(b, Top.lower)
                    /\ Return
                 \/ /\ ns \in Query
                    /\ ~Positive(ns)
                    /\ Spawn(b, ns, 1, Rest)
  /\ UNCHANGED <<caches, users>>

\* The end of dwx_do_glueless_new.
Spawned ==
  /\ Runs("spawned")
  /\ Return
  /\ LET b      == Top.b
         n      == Top.n
         parent == [rem EXCEPT ![b].child = n]
     IN  IF rem[n].sock = None
         THEN /\ rem' = [parent EXCEPT ![n] = Blank]
              /\ sent' = Unsent({b_remote[n]})
              /\ b_remote' = [b_remote EXCEPT ![n] = None]
              /\ inflight' = Zapped({rem[n].query})
         ELSE /\ rem' = [parent EXCEPT ![n].locals =
                           <<ForParent(b, Top.type)>>]
              /\ UNCHANGED <<b_remote, sent, inflight>>
  /\ UNCHANGED <<caches, users>>

-----------------------------------------------------------------------------
(***************************************************************************)
(* A client asks: get_local_udp_packet.                                    *)
(***************************************************************************)
Asks(c, q) ==
  /\ stack = << >>
  /\ asked[c] = None
  /\ asked' = [asked EXCEPT ![c] = q]

\* get_reply_from_cache
AskCached(c, q) ==
  /\ Asks(c, q)
  /\ Fresh(q)
  /\ Tell({c}, cache[q])
  /\ UNCHANGED <<table, caches, stack>>

\* dwx_cname_in_cache: what it returns does not depend on the connection.
Chases(q) == cname[q] # None /\ Free # {}

AskChased(c, q) ==
  /\ Asks(c, q)
  /\ ~Fresh(q)
  /\ Chases(q)
  /\ \E b \in Lowest(Free) :
       /\ rem' = [rem EXCEPT ![b] = [Blank EXCEPT !.query = cname[q],
                                     !.live = TRUE,
                                     !.locals = <<ForChased(c, q)>>]]
       /\ inflight' = Zapped({rem[b].query})
       /\ stack' = <<ConnectFrame(b, TRUE)>>
  /\ UNCHANGED <<b_remote, sent, caches, got>>

Forwards(c, q) == Asks(c, q) /\ ~Fresh(q) /\ ~Chases(q)

\* find_inflight_query, on the slot that inflight names.
Listed(q)   == MaxInflights > 1 /\ inflight[q] # None
                 /\ rem[inflight[q]].sock # None
Joinable(q) == Listed(q) /\ rem[inflight[q]].query = q
Wrong(q)    == {p \in {q} : Listed(q) /\ ~Joinable(q)}

\* try_forward_local_udp_packet, when the query is not forwarded.
Refusal(q) ==
  IF Resurrections /\ cache[q] # None THEN cache[q]
  ELSE IF HandleOverload THEN "refused" ELSE "dropped"

AskAttach(c, q) ==
  /\ Forwards(c, q)
  /\ Joinable(q)
  /\ LET b == inflight[q]
     IN  IF Len(rem[b].locals) >= MaxInflights - 1
         THEN Tell({c}, Refusal(q)) /\ UNCHANGED rem
         ELSE /\ rem' = [rem EXCEPT ![b].locals = Append(@, ForClient(c))]
              /\ UNCHANGED got
  /\ UNCHANGED <<b_remote, sent, inflight, caches, stack>>

\* Mutant: a query is refused while slots are free.
AskRefused_early(c, q) ==
  /\ Forwards(c, q)
  /\ ~Joinable(q)
  /\ Cardinality(Free) <= 1
  /\ Tell({c}, Refusal(q))
  /\ inflight' = Zapped(Wrong(q))
  /\ UNCHANGED <<rem, b_remote, sent, caches, stack>>

AskRefused(c, q) ==
  /\ Forwards(c, q)
  /\ ~Joinable(q)
  /\ Free = {}
  /\ Tell({c}, Refusal(q))
  /\ inflight' = Zapped(Wrong(q))
  /\ UNCHANGED <<rem, b_remote, sent, caches, stack>>

AskNew(c, q, lower) ==
  /\ Forwards(c, q)
  /\ ~Joinable(q)
  /\ \E b \in Lowest(Free) :
       /\ rem' = [rem EXCEPT ![b] = [Blank EXCEPT !.query = q, !.live = TRUE]]
       /\ inflight' = Zapped(Wrong(q) \union {rem[b].query})
       /\ stack' = <<ConnectFrame(b, lower),
                     [op |-> "forwarded", b |-> b, client |-> c, q |-> q]>>
  /\ UNCHANGED <<b_remote, sent, caches, got>>

\* The end of make_new_udp_connect and of forward_local_udp_packet.
Forwarded ==
  /\ Runs("forwarded")
  /\ Return
  /\ LET b == Top.b
         q == rem[b].query
     IN  IF rem[b].sock = None
         THEN Reset(b) /\ Tell({Top.client}, Refusal(Top.q))
         ELSE /\ rem' = [rem EXCEPT ![b].locals = <<ForClient(Top.client)>>]
              /\ inflight' = IF MaxInflights > 1 /\ inflight[q] = None
                             THEN [inflight EXCEPT ![q] = b] ELSE inflight
              /\ UNCHANGED <<sent, got>>
  /\ UNCHANGED <<b_remote, caches, asked>>

-----------------------------------------------------------------------------
(***************************************************************************)
(* A datagram comes from upstream: get_remote_udp_packet.                  *)
(***************************************************************************)
\* select() fails with EBADF while it is given a socket that is closed.
SelectFails == \E b \in Slot : b_remote[b] # None /\ sent[b_remote[b]] = None

\* process_results: the lowest slot that watches f reads the datagram.
Watchers(f) == {b \in Slot : b_remote[b] = f}

\* verify_dns_packet: the query ID is the last that this slot has sent.
Verified(b, f) == sent[f].slot = b /\ rem[b].sock = f

ReplyFrame(b, l, says, lower, kill) ==
  [op |-> "reply", b |-> b, l |-> l, says |-> says, lower |-> lower,
   kill |-> kill]

Arrives(b, f) ==
  /\ stack = << >>
  /\ ~SelectFails
  /\ b \in Lowest(Watchers(f))
  /\ sent[f].left > 0
  /\ sent' = [sent EXCEPT ![f].left = @ - 1]
  /\ UNCHANGED <<rem, b_remote, inflight, caches, users>>

Receive(b, f) ==
  /\ Arrives(b, f)
  /\ Verified(b, f)
  /\ \E q \in Query : rem[b].query = q /\ \E says \in Says[q] :
       stack' = <<ReplyFrame(b, 1, says, sent[f].lower, TRUE)>>

ReceiveStray(b, f) ==
  /\ Arrives(b, f)
  /\ ~Verified(b, f)
  /\ UNCHANGED stack

(***************************************************************************)
(* One round of its loop over the locals, get_rem_udp_packet_core, which   *)
(* also caches the packet again for every local.                           *)
(***************************************************************************)
Round(says) ==
  Runs("reply") /\ Top.l <= Len(rem[Top.b].locals) /\ Top.says \in says

This      == rem[Top.b].locals[Top.l]
Continued == [Top EXCEPT !.l = @ + 1]
Kept      == [Top EXCEPT !.l = @ + 1, !.kill = FALSE]

\* Server fail, or an error in what it says: the rest waits for the timeout.
ReplyBad ==
  /\ Round({"bad"})
  /\ Return
  /\ UNCHANGED <<table, caches, users>>

\* make_synth_not_there
ReplyBadIp ==
  /\ Round({"badip"})
  /\ Return
  /\ Tell(ClientsOf(Top.b), "synthetic")
  /\ Release(Top.b)
  /\ UNCHANGED <<caches, asked>>

\* dwx_handle_ns_refer and dwx_handle_ns_refer_connect
ReplyRefer ==
  /\ Round({"refer"})
  /\ LET b == Top.b
     IN  /\ rem' = [rem EXCEPT ![b].sock = None]
         /\ sent' = Unsent({rem[b].sock})
         /\ b_remote' = IF rem[b].sock = None THEN b_remote
                        ELSE [b_remote EXCEPT ![b] = None]
         /\ stack' = <<ConnectFrame(b, TRUE), Kept>> \o Rest
  /\ UNCHANGED <<inflight, caches, users>>

\* Mutant: the child asks what its parent asks.
ReplyCname_again ==
  /\ Round(Query)
  /\ LET b == Top.b
         t == Top.says
     IN  /\ cname' = [cname EXCEPT ![rem[b].query] = t]
         /\ IF Fresh(t)
            THEN /\ stack' = <<CnameFrame(b, rem[b].query, cache[t], 0), Kept>>
                             \o Rest
                 /\ UNCHANGED table
            ELSE Spawn(b, rem[b].query, 2, <<Kept>> \o Rest)
  /\ UNCHANGED <<cache, stale, users>>

\* dwx_handle_cname_refer: the target is in the cache, or a child asks it.
ReplyCname ==
  /\ Round(Query)
  /\ LET b == Top.b
         t == Top.says
     IN  /\ cname' = [cname EXCEPT ![rem[b].query] = t]
         /\ IF Fresh(t)
            THEN /\ stack' = <<CnameFrame(b, rem[b].query, cache[t], 0), Kept>>
                             \o Rest
                 /\ UNCHANGED table
            ELSE Spawn(b, t, 2, <<Kept>> \o Rest)
  /\ UNCHANGED <<cache, stale, users>>

Direct == {"answer", "negative"}

Value == IF Top.says = "answer" THEN rem[Top.b].query ELSE "negative"

\* Mutant: the loop over the locals ends with the first client.
ReplyToClient_first ==
  /\ Round(Direct)
  /\ This.type = 0
  /\ Cache(rem[Top.b].query, Value)
  /\ Tell(IF Top.lower THEN {This.client} ELSE {}, Value)
  /\ Call([Top EXCEPT !.l = Len(rem[Top.b].locals) + 1])
  /\ UNCHANGED <<table, cname, asked>>

\* send_reply_from_cache looks for the name as the packet spells it.
ReplyToClient ==
  /\ Round(Direct)
  /\ This.type = 0
  /\ Cache(rem[Top.b].query, Value)
  /\ Tell(IF Top.lower THEN {This.client} ELSE {}, Value)
  /\ Call(Continued)
  /\ UNCHANGED <<table, cname, asked>>

\* The query ID that was sent on f is not the slot's any more.
Outdated(f) == [g \in Fd |-> IF g = f /\ sent[g] # None
                             THEN [sent[g] EXCEPT !.left = 0] ELSE sent[g]]

\* dwx_glueless_done
ReplyToNsParent ==
  /\ Round(Direct)
  /\ This.type = 1
  /\ Cache(rem[Top.b].query, Value)
  /\ IF rem[This.conn].child = Top.b /\ Value # "negative"
     THEN \/ Dial(This.conn, TRUE)
          \/ /\ CanFail
             /\ sent' \in {sent, Outdated(rem[This.conn].sock)}
             /\ UNCHANGED <<rem, b_remote, inflight>>
     ELSE UNCHANGED table
  /\ Call(Continued)
  /\ UNCHANGED <<cname, users>>

\* Mutant: child_id is not looked at.
ReplyToCnameParent_stranger ==
  /\ Round(Direct)
  /\ This.type = 2
  /\ Cache(rem[Top.b].query, Value)
  /\ LET p == This.conn
         q == rem[p].query
     IN  IF q # None /\ cname[q] # None
         THEN stack' = <<CnameFrame(p, q, Value, 0), Continued>> \o Rest
         ELSE Call(Continued)
  /\ UNCHANGED <<table, cname, users>>

\* dwx_incomplete_cname_done
ReplyToCnameParent ==
  /\ Round(Direct)
  /\ This.type = 2
  /\ Cache(rem[Top.b].query, Value)
  /\ LET p == This.conn
         q == rem[p].query
     IN  IF rem[p].child = Top.b /\ q # None /\ cname[q] # None
         THEN stack' = <<CnameFrame(p, q, Value, 0), Continued>> \o Rest
         ELSE Call(Continued)
  /\ UNCHANGED <<table, cname, users>>

\* dwx_cached_cname_done, here and for the same type of local below.
Chased(b, l) == rem' = [rem EXCEPT ![b].locals[l].type = 0]

ReplyToChased ==
  /\ Round(Direct)
  /\ This.type = 3
  /\ Cache(rem[Top.b].query, Value)
  /\ Chased(Top.b, Top.l)
  /\ stack' = <<CnameFrame(Top.b, This.orig, Value, 1), Continued>> \o Rest
  /\ UNCHANGED <<b_remote, sent, inflight, cname, users>>

\* Mutant: the slot is not reset after the answer.
ReplyDone_kept ==
  /\ Runs("reply")
  /\ Top.l > Len(rem[Top.b].locals)
  /\ Return
  /\ UNCHANGED <<table, caches, users>>

ReplyDone ==
  /\ Runs("reply")
  /\ Top.l > Len(rem[Top.b].locals)
  /\ Return
  /\ IF Top.kill THEN Release(Top.b) ELSE UNCHANGED table
  /\ UNCHANGED <<caches, users>>

-----------------------------------------------------------------------------
(***************************************************************************)
(* dwx_make_cname_reply: the answer to the target of a CNAME completes the *)
(* answer to q, for every local of slot b, and ends the slot.              *)
(***************************************************************************)
CnameRefused(f) ==
  \/ f.depth > MaxDepth
  \/ f.q = None
  \/ f.value \in {None, "negative"}
  \/ rem[f.b].locals = << >>

CnameReply ==
  /\ Runs("cname")
  /\ IF CnameRefused(Top)
     THEN Return /\ UNCHANGED caches
     ELSE /\ Cache(Top.q, Top.value)
          /\ UNCHANGED cname
          /\ Call([op |-> "send", b |-> Top.b, q |-> Top.q, l |-> 1,
                   value |-> Top.value, depth |-> Top.depth, whole |-> TRUE])
  /\ UNCHANGED <<table, users>>

Sends(type) ==
  /\ Runs("send")
  /\ Top.l <= Len(rem[Top.b].locals)
  /\ This.type = type

(***************************************************************************)
(* make_dns_packet takes the counts off the end of the answer it is given, *)
(* so for the next client what it finds there may be no answer at all.     *)
(***************************************************************************)
SendToClient ==
  /\ Sends(0)
  /\ \/ /\ Call([Continued EXCEPT !.whole = FALSE])
        /\ Tell({This.client}, cache[Top.q])
     \/ /\ ~Top.whole
        /\ Return
        /\ UNCHANGED got
  /\ UNCHANGED <<table, caches, asked>>

SendToNsParent ==
  /\ Sends(1)
  /\ Call(Continued)
  /\ UNCHANGED <<table, caches, users>>

\* dwx_send_glueless_cname_upstream
SendToCnameParent ==
  /\ Sends(2)
  /\ LET p == This.conn
         q == rem[p].query
     IN  IF q # None /\ cname[q] # None
         THEN stack' = <<CnameFrame(p, q, Top.value, Top.depth + 1), Continued>>
                       \o Rest
         ELSE Call(Continued)
  /\ UNCHANGED <<table, caches, users>>

SendToChased ==
  /\ Sends(3)
  /\ IF Top.depth > MaxDepth
     THEN Call(Continued) /\ UNCHANGED rem
     ELSE /\ Chased(Top.b, Top.l)
          /\ stack' = <<CnameFrame(Top.b, This.orig, cache[Top.q],
                                   Top.depth + 1), Continued>> \o Rest
  /\ UNCHANGED <<b_remote, sent, inflight, caches, users>>

\* Mutant: the slot is not reset after the answer.
SendDone_kept ==
  /\ Runs("send")
  /\ Top.l > Len(rem[Top.b].locals)
  /\ Return
  /\ UNCHANGED <<table, caches, users>>

SendDone ==
  /\ Runs("send")
  /\ Top.l > Len(rem[Top.b].locals)
  /\ Return
  /\ Release(Top.b)
  /\ UNCHANGED <<caches, users>>

-----------------------------------------------------------------------------
\* Mutant: a slot that waits for its child, without a socket, never expires.
Expires_connected(b) ==
  TimePasses /\ stack = << >> /\ rem[b].live /\ rem[b].sock # None

(***************************************************************************)
(* Timeouts: kill_expired and handle_expired.                              *)
(***************************************************************************)
Expires(b) == TimePasses /\ stack = << >> /\ rem[b].live

\* Mutant: the number of retries is not looked at.
Retry_forever(b) ==
  /\ Expires(b)
  /\ rem' = [rem EXCEPT ![b].retries = @ - 1, ![b].sock = None]
  /\ sent' = Unsent({rem[b].sock})
  /\ stack' = <<ConnectFrame(b, TRUE)>>
  /\ UNCHANGED <<b_remote, inflight, caches, users>>

\* b_remote[b] keeps the socket that is closed here.
Retry(b) ==
  /\ Expires(b)
  /\ rem[b].retries > 0
  /\ rem' = [rem EXCEPT ![b].retries = @ - 1, ![b].sock = None]
  /\ sent' = Unsent({rem[b].sock})
  /\ stack' = <<ConnectFrame(b, TRUE)>>
  /\ UNCHANGED <<b_remote, inflight, caches, users>>

\* Mutants: the socket stays open; it stays in b_remote.
GivenUp_open(b) ==
  /\ Expires(b)
  /\ rem[b].retries = 0
  /\ rem' = [rem EXCEPT ![b] = Blank]
  /\ b_remote' = [b_remote EXCEPT ![b] = None]
  /\ inflight' = Zapped({rem[b].query})
  /\ UNCHANGED <<sent, caches, asked, stack>>

GivenUp_watched(b) ==
  /\ Expires(b)
  /\ rem[b].retries = 0
  /\ rem' = [rem EXCEPT ![b] = Blank]
  /\ sent' = Unsent({rem[b].sock})
  /\ inflight' = Zapped({rem[b].query})
  /\ UNCHANGED <<b_remote, caches, asked, stack>>

\* closesocket(rem[b].socket), b_remote[b] = INVALID_SOCKET and reset_rem.
GivenUp(b) ==
  /\ Expires(b)
  /\ rem[b].retries = 0
  /\ rem' = [rem EXCEPT ![b] = Blank]
  /\ sent' = Unsent({rem[b].sock})
  /\ b_remote' = [b_remote EXCEPT ![b] = None]
  /\ inflight' = Zapped({rem[b].query})
  /\ UNCHANGED <<caches, asked, stack>>

Resurrected(b) == Resurrections /\ cache[rem[b].query] # None

(***************************************************************************)
(* handle_resurrections: only the first client is sure to get the record,  *)
(* because make_dns_packet has then taken the counts off it: the others    *)
(* get what is left of it, up to the first it cannot make a packet of.     *)
(***************************************************************************)
Resurrect(b) ==
  /\ GivenUp(b)
  /\ Resurrected(b)
  /\ LET first == {c \in ClientsOf(b) : rem[b].locals[1].client = c}
     IN  \E others \in SUBSET (ClientsOf(b) \ first) :
           got' = [c \in Client |->
                     IF got[c] # "none" /\ c \in first \union others THEN "twice"
                     ELSE IF c \in first THEN cache[rem[b].query]
                     ELSE IF c \in others THEN "mangled" ELSE got[c]]

\* Mutant: the client is not told.
FailNoReply_silent(b) ==
  /\ GivenUp(b)
  /\ ~Resurrected(b)
  /\ UNCHANGED got

\* server_fail_noreply, whatever its local_num, answers local 0.
FailNoReply(b) ==
  /\ GivenUp(b)
  /\ ~Resurrected(b)
  /\ Tell(IF HandleNoreply
          THEN {c \in ClientsOf(b) : rem[b].locals[1].client = c} ELSE {},
          "fail")

-----------------------------------------------------------------------------
(***************************************************************************)
(* Time and clients.                                                       *)
(***************************************************************************)
\* The 120 seconds of an inflight entry, and TTLs.
Age(q) ==
  /\ TimePasses /\ q \in Expiring
  /\ stack = << >>
  /\ \/ inflight[q] # None /\ inflight' = Zapped({q}) /\ UNCHANGED caches
     \/ Fresh(q) /\ stale' = stale \union {q}
          /\ UNCHANGED <<inflight, cache, cname>>
     \/ cname[q] # None /\ cname' = [cname EXCEPT ![q] = None]
          /\ UNCHANGED <<inflight, cache, stale>>
  /\ UNCHANGED <<rem, b_remote, sent, users, stack>>

Waiting(c) == \E b \in Slot : \E l \in DOMAIN rem[b].locals :
                rem[b].locals[l].client = c

\* A client that has its reply, or waits for one that no slot will send,
\* can ask again.
Leave(c) ==
  /\ stack = << >>
  /\ asked[c] # None
  /\ ~Waiting(c)
  /\ asked' = [asked EXCEPT ![c] = None]
  /\ got' = [got EXCEPT ![c] = "none"]
  /\ UNCHANGED <<table, caches, stack>>

Init ==
  /\ rem = [b \in Slot |-> Blank]
  /\ b_remote = [b \in Slot |-> None]
  /\ sent = [f \in Fd |-> None]
  /\ inflight = [q \in Query |-> None]
  /\ cache = [q \in Query |-> None] /\ stale = {}
  /\ cname = [q \in Query |-> None]
  /\ asked = [c \in Client |-> None]
  /\ got = [c \in Client |-> "none"]
  /\ stack = << >>

\* The calls inside a handler.
Inner ==
  \/ Connect \/ Spawned \/ Forwarded
  \/ ReplyBad \/ ReplyBadIp \/ ReplyRefer \/ ReplyCname
  \/ ReplyToClient \/ ReplyToNsParent \/ ReplyToCnameParent \/ ReplyToChased
  \/ ReplyDone
  \/ CnameReply
  \/ SendToClient \/ SendToNsParent \/ SendToCnameParent \/ SendToChased
  \/ SendDone

Timeout(b) == Retry(b) \/ Resurrect(b) \/ FailNoReply(b)

Next ==
  \/ Inner
  \/ \E c \in Client, q \in Query :
       \/ AskCached(c, q) \/ AskChased(c, q)
       \/ AskAttach(c, q) \/ AskRefused(c, q)
       \/ \E lower \in Spellings : AskNew(c, q, lower)
  \/ \E b \in Slot, f \in Fd : Receive(b, f) \/ ReceiveStray(b, f)
  \/ \E b \in Slot : Timeout(b)
  \/ \E q \in Query : Age(q)
  \/ \E c \in Client : Leave(c)

Spec == Init /\ [][Next]_vars

\* bigloop runs for ever, so a handler ends and a slot that stays in use is
\* expired, unless what it receives puts its timeout off again and again.
FairSpec ==
  Spec /\ WF_vars(Inner) /\ \A b \in Slot : SF_vars(Timeout(b))

-----------------------------------------------------------------------------
(***************************************************************************)
(* Properties.                                                             *)
(***************************************************************************)
Pending ==
  [sock : Fd \union {None}, query : Query \union {None}, retries : 0..NumRetries,
   depth : Nat, child : Slot \union {None}, live : BOOLEAN,
   locals : Seq(Local)]

Frame ==
       [op : {"connect"}, b : Slot, lower : BOOLEAN]
  \union
       [op : {"spawned"}, b : Slot, n : Slot, type : {1, 2}]
  \union
       [op : {"forwarded"}, b : Slot, client : Client, q : Query]
  \union
       [op : {"reply"}, b : Slot, l : Nat \ {0}, says : Reply,
        lower : BOOLEAN, kill : BOOLEAN]
  \union
       [op : {"cname"}, b : Slot, q : Query \union {None},
        value : Query \union {None, "negative"}, depth : Nat]
  \union
       [op : {"send"}, b : Slot, q : Query, l : Nat \ {0}, value : Query,
        depth : Nat, whole : BOOLEAN]

TypeOK ==
  /\ rem \in [Slot -> Pending]
  /\ b_remote \in [Slot -> Fd \union {None}]
  /\ sent \in [Fd -> {None} \union
                 [slot : Slot, lower : BOOLEAN, left : 0..MaxReplies]]
  /\ inflight \in [Query -> Slot \union {None}]
  /\ cache \in [Query -> Query \union {None, "negative"}]
  /\ stale \subseteq Query
  /\ cname \in [Query -> Query \union {None}]
  /\ asked \in [Client -> Query \union {None}]
  /\ got \in [Client -> Query \union Notice \union {None}]
  /\ stack \in Seq(Frame)

(***************************************************************************)
(* find_inflight_query: the slot that inflight names is busy with that     *)
(* query, so that a client who joins gets the answer to his own question   *)
(* and the "Remove corrupt data" branch is never needed.                   *)
(***************************************************************************)
InflightPointsToQuery ==
  \A q \in Query : inflight[q] # None => rem[inflight[q]].query = q

(***************************************************************************)
(* A socket that is open is the one its slot will close: no path through   *)
(* retries, referrals, children and reused slots leaks a descriptor.       *)
(***************************************************************************)
SocketsOwned ==
  \A f \in Fd : sent[f] # None => rem[sent[f].slot].sock = f

(***************************************************************************)
(* "Sanity check" of rem[conn_num].child_id: slots are reused while their  *)
(* former children run on, and still a child that a slot would take the    *)
(* result of asks what that slot needs to know.                            *)
(***************************************************************************)
ChildServesParent ==
  \A p, b \in Slot : rem[p].child = b =>
    \A l \in DOMAIN rem[b].locals : rem[b].locals[l].conn = p =>
      CASE rem[b].locals[l].type = 1 -> rem[b].query \in NsOf[rem[p].query]
        [] rem[b].locals[l].type = 2 -> rem[b].query \in Says[rem[p].query]
        [] OTHER -> FALSE

\* "Infinite recursion protection": children of children come to an end.
DepthBounded == \A b \in Slot : rem[b].depth <= MaxDepth + 1

(***************************************************************************)
(* A slot that is too deep never has a socket: however slots are reused,   *)
(* the result of a child does not make a query that recursed too far go on *)
(* (dwx_glueless_done does not look at recurse_depth).                     *)
(***************************************************************************)
TooDeepIsSilent == \A b \in Slot : rem[b].depth > MaxDepth => rem[b].sock = None

\* The queries that the CNAMEs of q lead to, q included.
Reached(q) ==
  {w \in Query : \A S \in SUBSET Query :
     q \in S /\ (\A p \in S : Says[p] \cap Query \subseteq S) => w \in S}

(***************************************************************************)
(* An answer in the cache, or sent to a client, carries the data of the    *)
(* query itself or of one that its CNAMEs lead to, and of no other: the    *)
(* late result of a child does not complete what a stranger, who has the   *)
(* slot of its parent by then, asked.  dwx_incomplete_cname_done looks at  *)
(* child_id, dwx_send_glueless_cname_upstream does not, so this is lost    *)
(* where the child turns out to be a CNAME and the slot is a stranger's    *)
(* whose own CNAME leads elsewhere.                                        *)
(***************************************************************************)
AnswersBelong ==
  /\ \A q \in Query : cache[q] \in Query => cache[q] \in Reached(q)
  /\ \A c \in Client : got[c] \in Query => got[c] \in Reached(asked[c])

(***************************************************************************)
(* b_remote is the "list of active sockets": between two handlers each     *)
(* entry is the open socket of its own slot.  If it is closed select()     *)
(* fails and no packet gets in; if it is another slot's, the answer to     *)
(* that slot is read and thrown away.                                      *)
(***************************************************************************)
RemoteListed ==
  stack = << >> => \A b \in Slot : b_remote[b] = rem[b].sock

(***************************************************************************)
(* A client that was sent nothing is in the locals of a slot, where the    *)
(* answer or the timeout will find it.                                     *)
(***************************************************************************)
NoClientForgotten ==
  stack = << >> =>
    \A c \in Client : asked[c] # None /\ got[c] = "none" => Waiting(c)

\* No client is sent two replies to one question, or part of a record.
AnsweredOnce == \A c \in Client : got[c] \notin {"twice", "mangled"}

(***************************************************************************)
(* max_inflights: "send a reply to both clients once we have an answer".   *)
(* When a handler ends, or ends a slot, the clients merged in that slot    *)
(* have all been sent the same, and a slot is not ended by an answer that  *)
(* none of them got, unless the query was not spelled in lower case (its   *)
(* answer is then not found in the cache).  A timeout is no answer, and    *)
(* tells only the first of them.                                           *)
(***************************************************************************)
MergedAnsweredTogether ==
  [][stack # << >> => \A b \in Slot :
       /\ (stack' = << >> \/ ~rem'[b].live) =>
            \A c, d \in ClientsOf(b) : got'[c] = got'[d]
       /\ ~rem'[b].live =>
            \A c \in ClientsOf(b) :
              got'[c] # "none" \/ (Runs("reply") /\ ~Top.lower)]_vars

(***************************************************************************)
(* handle_overload: a client is refused when every slot is taken, or when  *)
(* max_inflights clients wait for the same query already.                  *)
(***************************************************************************)
RefusedOnlyWhenFull ==
  [][\A c \in Client : got[c] = "none" /\ got'[c] \in {"refused", "dropped"} =>
       \/ Free = {}
       \/ Cardinality({d \in Client : asked'[d] = asked'[c] /\ got'[d] = "none"})
            >= MaxInflights]_vars

\* Every client is sent something in the end, if only a server failure.
EveryoneAnswered ==
  \A c \in Client : asked[c] # None ~> got[c] # "none"
=============================================================================
