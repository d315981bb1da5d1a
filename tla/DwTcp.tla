------------------------------- MODULE DwTcp -------------------------------
(***************************************************************************)
(* DNS-over-TCP in Deadwood: src/deadwood-3.2.02/src/DwTcpSocket.c and the *)
(* places of DwUdpSocket.c and DwSocket.c that call it.                    *)
(*                                                                         *)
(* A TCP client has a slot of tcp_pend.  Its question is read piece by     *)
(* piece, then answered from the cache or put in the table rem[] of the    *)
(* UDP side, which keeps the NUMBER of the slot.  The reply is written to  *)
(* the slot and sent piece by piece; if the upstream answer was truncated  *)
(* the slot asks upstream over TCP and relays what comes.                  *)
(*                                                                         *)
(* bigloop is one thread: a turn handles what select() found, then each    *)
(* slot in order, then the deadlines.  A function of the code is an        *)
(* operator on worlds (records of the variables) and gives the set of the  *)
(* worlds it may leave; a handler that calls several functions is their    *)
(* composition, and one action.                                            *)
(***************************************************************************)
EXTENDS Integers, Sequences, FiniteSets, SequencesExt

CONSTANTS
  Client,              \* TCP connections that clients open, one time each
  Name,                \* names they ask about
  Leavers,             \* bound: the clients that may leave
  Asks,                \* what they may ask: a set of functions Client -> Name
  QuestionLen,         \* [Client -> Nat], the length of its DNS packet
  Nobody, NoName,      \* no client, no name
  AnswerLen,           \* the length of every reply
  max_tcp_procs,       \* slots of tcp_pend
  maxprocs,            \* slots of rem
  max_inflights,       \* clients that may share a pending query
  timeout_seconds,     \* of the UDP side, in ticks
  timeout_seconds_tcp, \* of an idle TCP connection, in ticks
  num_retries,         \* times the UDP side asks again
  handle_noreply,      \* BOOLEAN: SERVER FAIL when nothing answers
  MaxReferrals,        \* bound: referrals that put a query's deadline off
  LeastGot,            \* bound: how far below 0 a count of bytes sent falls
  SendBlocks           \* BOOLEAN: send() to a client may give -1

ASSUME DwTcpAssumption ==
  /\ Nobody \notin Client /\ NoName \notin Name
  /\ Asks \subseteq [Client -> Name] /\ QuestionLen \in [Client -> Nat]
  /\ {AnswerLen, max_tcp_procs, maxprocs, max_inflights, timeout_seconds,
      timeout_seconds_tcp} \subseteq Nat \ {0}
  /\ LeastGot \in Int
  /\ {num_retries, MaxReferrals} \subseteq Nat
  /\ {handle_noreply, SendBlocks} \subseteq BOOLEAN

VARIABLES
  tcp_pend,   \* the slots of TCP clients
  rem,        \* the pending queries of the UDP side
  client,     \* what each client has written, received and done
  asks,       \* the question of each client
  turn,       \* the slot bigloop is at, or Kill
  outlived    \* a query whose answer was truncated has timed out

vars == <<tcp_pend, rem, client, asks, turn, outlived>>

Slot == 0 .. max_tcp_procs - 1
Conn == 0 .. maxprocs - 1
Off == -1
Select == 0          \* before the first slot, what select() found is handled
Kill == max_tcp_procs
Tail12 == 12     \* the least length of a DNS packet, its header

Minimum(i, j) == IF i < j THEN i ELSE j
Maximum(i, j) == IF i < j THEN j ELSE i

\* init_tcp_pend and reset_tcp_pend.
FreeSlot == [local |-> Nobody, state |-> "read", buffer |-> NoName,
             wanted |-> 0, got |-> 0, sent |-> 0, die |-> Off]

\* reset_rem, what of it TCP clients depend on.
FreeConn == [query |-> NoName, locals |-> << >>, retries |-> 0, referrals |-> 0,
             asked |-> FALSE, truncated |-> FALSE, die |-> Off]

Init ==
  /\ tcp_pend = [b \in Slot |-> FreeSlot]
  /\ rem = [r \in Conn |-> FreeConn]
  /\ client = [c \in Client |-> [at |-> "away", rest |-> QuestionLen[c] + 2,
                                 unread |-> 0, gone |-> FALSE,
                                 received |-> << >>]]
  /\ asks \in Asks
  /\ turn = Select
  /\ outlived = FALSE

-----------------------------------------------------------------------------
(***************************************************************************)
(* Worlds and their composition.                                           *)
(***************************************************************************)
World == [pend |-> tcp_pend, rem |-> rem, client |-> client, out |-> outlived]

Become(w) ==
  /\ tcp_pend' = w.pend /\ rem' = w.rem /\ client' = w.client
  /\ outlived' = w.out /\ UNCHANGED asks

\* Slot b with the fields of f changed.
With(w, b, f) == [w EXCEPT !.pend[b] = f @@ @]

\* closesocket(local) and reset_tcp_pend(b).
Closed(w, b) ==
  LET c == w.pend[b].local IN
  [w EXCEPT !.pend[b] = FreeSlot,
            !.client = IF c = Nobody THEN @ ELSE [@ EXCEPT ![c].at = "closed"]]

\* A send(), or a recv() from upstream, of n bytes takes all of them or half.
Pieces(n) == {n, (n + 1) \div 2}

\* What recv() of n bytes from client c returns: what is there, up to n.
Received(c, n) ==
  LET there == Minimum(n, c.unread) IN
  IF there > 0 THEN {there} ELSE IF c.gone THEN {0} ELSE {-1}

\* What send() of n bytes to the client of slot b may return.
Sendable(w, b, n) ==
  LET c == w.pend[b].local IN
  IF c = Nobody THEN {-1}
  ELSE IF w.client[c].gone THEN {n, -1}
  ELSE Pieces(n) \cup (IF SendBlocks THEN {-1} ELSE {})

\* Bytes from..upto of a message reach c, which keeps what it received as
\* runs of successive bytes of one message.
Delivered(got, name, from, upto) ==
  LET last == got[Len(got)]
      run == [of |-> name, from |-> from, upto |-> upto] IN
  IF got # << >> /\ last.of = name /\ last.upto + 1 = from
  THEN [got EXCEPT ![Len(got)].upto = upto] ELSE Append(got, run)

\* n bytes of slot b's buffer, from byte i of it, have been sent.
Sent(w, b, i, n) ==
  LET c == w.pend[b].local IN
  IF n <= 0 \/ c = Nobody THEN w
  ELSE IF w.client[c].gone THEN w
  ELSE [w EXCEPT !.client[c].received =
                    Delivered(@, w.pend[b].buffer, i + 1, i + n)]

-----------------------------------------------------------------------------
(***************************************************************************)
(* What the UDP side calls.                                                *)
(***************************************************************************)
\* tcp_return_reply(b, packet, len).
TcpReturnReply(w, b, name) ==
  With(w, b, [state |-> "reply", buffer |-> name, wanted |-> AnswerLen + 2,
              got |-> 0, die |-> timeout_seconds_tcp])

\* tcp_truncated_retry: ask upstream over TCP.  `sent' and `die' stay.  The
\* connection may be refused, or there may be no address to connect to.
TcpTruncatedRetry(w, b, name) ==
  { With(w, b, [state |-> "ask", buffer |-> name, wanted |-> 2, got |-> 0]),
    Closed(w, b) }

\* find_inflight_query: the pending query with this question.
Inflight(w, name) == {r \in Conn : w.rem[r].query = name}

\* forward_local_udp_packet: join a pending query (which puts its deadline off,
\* or forward if it waits for TCP) or start one; with no room
\* for either nothing is done (send_server_fail is for UDP clients).
ForwardLocal(w, b, name) ==
  LET local == [tcp_num |-> b]
      same == Inflight(w, name)
      free == Inflight(w, NoName) IN
  IF same # {}
  THEN LET r == CHOOSE r \in same : TRUE IN
       IF Len(w.rem[r].locals) >= max_inflights - 1 THEN w
       ELSE [w EXCEPT !.rem[r].locals = Append(@, local),
                      !.rem[r].die = timeout_seconds]
  ELSE IF free = {} THEN w
  ELSE LET r == CHOOSE r \in free : \A q \in free : r <= q IN
       [w EXCEPT !.rem[r] = [FreeConn EXCEPT
          !.query = name, !.locals = <<local>>, !.retries = num_retries,
          !.asked = TRUE, !.die = timeout_seconds]]

\* A packet for pending query r that is no answer yet: get_rem_udp_packet_core
\* returns 3 and the query goes on, with a new deadline.
Referral(r) ==
  /\ turn = Select
  /\ rem[r].asked /\ rem[r].referrals < MaxReferrals
  /\ rem' = [rem EXCEPT ![r].referrals = @ + 1, ![r].die = timeout_seconds]
  /\ UNCHANGED <<asks, tcp_pend, client, turn, outlived>>

\* get_remote_udp_packet with an answer: every local of the query gets it.
UdpAnswer(r) ==
  /\ turn = Select
  /\ rem[r].asked
  /\ LET reply(w, l) == TcpReturnReply(w, l.tcp_num, rem[r].query)
         w == FoldLeft(reply, World, rem[r].locals) IN
     Become([w EXCEPT !.rem[r] = FreeConn])
  /\ UNCHANGED turn

\* get_remote_udp_packet with a truncated answer: the query stays, `to give
\* the UDP connection more time', and each local asks over TCP.
UdpTruncated(r) ==
  /\ turn = Select
  /\ rem[r].asked
  /\ LET retry(ws, l) == UNION {TcpTruncatedRetry(w, l.tcp_num, rem[r].query) :
                                w \in ws} IN
     \E w \in FoldLeft(retry, {World}, rem[r].locals) :
        Become([w EXCEPT !.rem[r].die = 8 * timeout_seconds,
                         !.rem[r].asked = FALSE, !.rem[r].truncated = TRUE])
  /\ UNCHANGED turn

\* handle_expired and kill_expired for query r: ask again, or give up and tell
\* each client (or close its connection).
ExpireConn(w, r) ==
  LET q == w.rem[r]
      tell(x, l) == IF handle_noreply THEN TcpReturnReply(x, l.tcp_num, q.query)
                    ELSE Closed(x, l.tcp_num)
      v == [w EXCEPT !.out = @ \/ q.truncated] IN
  IF q.die # 0 THEN w
  ELSE IF q.retries > 0
  THEN [v EXCEPT !.rem[r].retries = @ - 1, !.rem[r].asked = TRUE,
                 !.rem[r].die = timeout_seconds]
  ELSE [FoldLeft(tell, v, q.locals) EXCEPT !.rem[r] = FreeConn]

-----------------------------------------------------------------------------
(***************************************************************************)
(* tcp_handle_all: the functions of one slot, in the order they are called.*)
(***************************************************************************)
\* tcp_get_wanted: a client that has closed gives 0 bytes, and a deadline.
GetWanted(w, b) ==
  LET s == w.pend[b]
      toget == s.wanted - s.got IN
  IF toget <= 0 \/ s.state # "read" \/ s.local = Nobody THEN {w}
  ELSE { IF n < 0 THEN w
         ELSE [With(w, b, [got |-> s.got + n, die |-> timeout_seconds_tcp])
                 EXCEPT !.client[s.local].unread = @ - n] :
         n \in Received(w.client[s.local], toget) }

\* The length read from two bytes of a signed char buffer.
SignedLength(n) ==
  IF n % 256 >= 128 THEN (n % 256) - 256
  ELSE IF n >= 32768 THEN n - 65536 ELSE n

\* Mutant: the deadline of a slot that waits for the UDP side is that of an
\* idle connection ("<< 8" for "<< 10").
TcpToUdp_soon(w, b) ==
  LET name == asks[w.pend[b].local] IN
  { TcpReturnReply(w, b, name), w, Closed(w, b),
    With(ForwardLocal(w, b, name), b,
         [state |-> "udp", die |-> timeout_seconds_tcp]) }

\* tcp_to_udp: answered from the cache, refused with no word (an MX question
\* under reject_mx), not a question at all, or handed to the UDP side.
TcpToUdp(w, b) ==
  LET name == asks[w.pend[b].local] IN
  { TcpReturnReply(w, b, name), w, Closed(w, b),
    With(ForwardLocal(w, b, name), b,
         [state |-> "udp", die |-> 4 * timeout_seconds_tcp]) }

\* tcp_process_data: the length has come, or the packet has.
ProcessData(w, b) ==
  LET s == w.pend[b]
      wanted == SignedLength(QuestionLen[s.local]) IN
  IF s.wanted # s.got \/ s.local = Nobody \/ s.state # "read" THEN {w}
  ELSE IF s.wanted = 2
  THEN { IF wanted < Tail12 THEN Closed(w, b)
         ELSE With(w, b, [got |-> 0, wanted |-> wanted,
                          die |-> timeout_seconds_tcp]) }
  ELSE TcpToUdp(w, b)

\* Mutant: a slot that has sent everything is not closed, and its deadline is
\* put off.
SendWanted_open(w, b) ==
  LET s == w.pend[b]
      tosend == s.wanted - s.got IN
  IF s.state # "reply" THEN {w}
  ELSE { With(Sent(w, b, s.got, n), b,
              [got |-> s.got + n, die |-> timeout_seconds_tcp]) :
         n \in IF tosend > 0 THEN Sendable(w, b, tosend) ELSE {0} }

\* tcp_send_wanted: what send() returns is added, -1 too.
SendWanted(w, b) ==
  LET s == w.pend[b]
      tosend == s.wanted - s.got IN
  IF s.state # "reply" THEN {w}
  ELSE IF tosend <= 0 THEN {Closed(w, b)}
  ELSE { With(Sent(w, b, s.got, n), b,
              [got |-> Maximum(s.got + n, LeastGot),
               die |-> timeout_seconds_tcp]) :
         n \in Sendable(w, b, tosend) }

\* tcp_upstream_send and, when all is sent, tcp_prepare_upstream_len; the
\* query is one piece here.
UpstreamSend(w, b) ==
  IF w.pend[b].state # "ask" THEN {w}
  ELSE {w, With(w, b, [state |-> "length", wanted |-> 2, got |-> 0,
                       die |-> timeout_seconds])}

\* tcp_get_upstream_len: the two bytes of the length, then room for the reply.
GetUpstreamLen(w, b) ==
  LET s == w.pend[b]
      toget == s.wanted - s.got IN
  IF s.state # "length" THEN {w}
  ELSE IF toget > 0
  THEN {w} \cup { With(w, b, [got |-> s.got + n, die |-> timeout_seconds_tcp]) :
                  n \in Pieces(toget) }
  ELSE { With(w, b, [state |-> "relay", wanted |-> AnswerLen, got |-> 0,
                     die |-> timeout_seconds_tcp]) }

\* Mutant: what was sent is not added when it is not what came.
Forward_unsent(w, b, len) ==
  LET s == w.pend[b]
      due == s.got - s.sent + 2 IN
  { IF n = len /\ s.wanted = s.got THEN Closed(Sent(w, b, s.sent, n), b)
    ELSE [Sent(w, b, s.sent, n) EXCEPT !.pend[b].die = timeout_seconds_tcp] :
    n \in Sendable(w, b, due) }

\* The send() of tcp_downstream_forward.  It sends all that came and the two
\* bytes of the length, and compares what was sent with what came.
Forward(w, b, len) ==
  LET s == w.pend[b]
      due == s.got - s.sent + 2
      ways == IF due > 0 THEN Sendable(w, b, due) ELSE {-1} IN
  { IF n <= 0 THEN w
    ELSE IF n = len /\ s.wanted = s.got THEN Closed(Sent(w, b, s.sent, n), b)
    ELSE With(Sent(w, b, s.sent, n), b,
              [sent |-> s.sent + n,
               die |-> IF n = len THEN s.die ELSE timeout_seconds_tcp]) :
    n \in ways }

\* tcp_downstream_forward.
DownstreamForward(w, b) ==
  LET s == w.pend[b]
      toget == s.wanted - s.got IN
  IF s.state # "relay" THEN {w}
  ELSE IF toget <= 0 \/ s.sent >= s.wanted + 2 THEN {Closed(w, b)}
  ELSE {w} \cup
       UNION { Forward(With(w, b, [got |-> s.got + n,
                                   die |-> IF n = toget THEN s.die
                                           ELSE timeout_seconds_tcp]), b, n) :
               n \in Pieces(toget) }

\* f applied to each world of ws.
Then(ws, f(_, _), b) == UNION {f(w, b) : w \in ws}

TcpHandleAll(b) ==
  /\ turn = b
  /\ \E w \in Then(Then(Then(Then(Then(Then({World}, GetWanted, b),
              ProcessData, b), SendWanted, b), UpstreamSend, b),
              GetUpstreamLen, b), DownstreamForward, b) : Become(w)
  /\ turn' = b + 1

-----------------------------------------------------------------------------
(***************************************************************************)
(* The rest of bigloop, and the clients.                                   *)
(***************************************************************************)
\* find_free_tcp_pend: the first slot without a client.
FreeTcpPend ==
  LET free == {b \in Slot : tcp_pend[b].local = Nobody} IN
  {b \in free : \A d \in free : b <= d}

\* local_tcp_accept: a client whose address the ACL refuses is closed.
LocalTcpAccept(c) ==
  /\ turn = Select
  /\ client[c].at = "knocking"
  /\ \E b \in FreeTcpPend :
       \/ /\ tcp_pend' = [tcp_pend EXCEPT ![b] = [FreeSlot EXCEPT
                !.local = c, !.wanted = 2, !.die = timeout_seconds_tcp]]
          /\ client' = [client EXCEPT ![c].at = "open"]
       \/ /\ tcp_pend' = tcp_pend
          /\ client' = [client EXCEPT ![c].at = "closed"]
  /\ UNCHANGED <<asks, rem, turn, outlived>>

\* kill_tcp_expired for slot b: `upstream' is not closed.
ExpireSlot(w, b) == IF w.pend[b].die = 0 THEN Closed(w, b) ELSE w

\* kill_expired and kill_tcp_expired; then set_time, in the same tick or the
\* next, and select.
KillExpired(ticks) ==
  LET r1 == FoldLeft(ExpireConn, World, [i \in 1 .. maxprocs |-> i - 1])
      s1 == FoldLeft(ExpireSlot, r1, [i \in 1 .. max_tcp_procs |-> i - 1])
      aged(x) == IF x.die > 0 THEN [x EXCEPT !.die = @ - ticks] ELSE x IN
  /\ turn = Kill
  /\ Become([s1 EXCEPT !.pend = [b \in Slot |-> aged(@[b])],
                        !.rem = [r \in Conn |-> aged(@[r])]])
  /\ turn' = Select

\* A client connects and writes its question, or some of it.  What clients do
\* is seen when their slot's turn comes, so it happens before one begins.
Connect(c) ==
  /\ turn = Select
  /\ client[c].at = "away"
  /\ \E n \in {1, client[c].rest} :
       client' = [client EXCEPT ![c].at = "knocking", ![c].unread = n,
                                ![c].rest = @ - n]
  /\ UNCHANGED <<asks, tcp_pend, rem, turn, outlived>>

\* It writes the rest later.
WriteRest(c) ==
  /\ turn = Select
  /\ client[c].at = "open" /\ ~client[c].gone /\ client[c].rest > 0
  /\ client' = [client EXCEPT ![c].unread = @ + client[c].rest, ![c].rest = 0]
  /\ UNCHANGED <<asks, tcp_pend, rem, turn, outlived>>

\* It closes its connection before it was answered.
Leave(c) ==
  /\ turn = Select /\ c \in Leavers
  /\ client[c].at = "open" /\ ~client[c].gone
  /\ client' = [client EXCEPT ![c].gone = TRUE]
  /\ UNCHANGED <<asks, tcp_pend, rem, turn, outlived>>

Loop == \/ \E b \in Slot : TcpHandleAll(b)
        \/ \E ticks \in {0, 1} : KillExpired(ticks)

Next ==
  \/ Loop
  \/ \E r \in Conn : Referral(r) \/ UdpAnswer(r) \/ UdpTruncated(r)
  \/ \E c \in Client : Connect(c) \/ WriteRest(c) \/ Leave(c)
                       \/ LocalTcpAccept(c)

\* bigloop goes on (each of its steps can always be taken), and so does the
\* time its turns see.
Spec == Init /\ [][Next]_vars
        /\ WF_turn(turn' \in Slot \cup {Kill}) /\ SF_vars(KillExpired(1))

-----------------------------------------------------------------------------
(***************************************************************************)
(* Properties.                                                             *)
(***************************************************************************)
(***************************************************************************)
(* A TCP client receives the answer to its own question and nothing else,  *)
(* although rem[] knows it by the number of a slot that others use before  *)
(* and after it (tcp_return_reply does not look whose slot it is).  It     *)
(* holds because the UDP side gives up before the slot's own deadline, and *)
(* ends once a query whose answer was truncated times out, long after its  *)
(* client was served over TCP.                                             *)
(***************************************************************************)
AnswersBelong ==
  outlived \/ \A c \in Client : \A run \in ToSet(client[c].received) :
                run.of = asks[c]

(***************************************************************************)
(* What a client has received is the beginning of one message: the two     *)
(* bytes of the length and then the reply, in order, whether it was sent   *)
(* by tcp_send_wanted or in pieces by tcp_downstream_forward.              *)
(***************************************************************************)
BytesInOrder ==
  outlived \/ \A c \in Client : LET got == client[c].received IN
                got # << >> => Len(got) = 1 /\ got[1].from = 1

(***************************************************************************)
(* timeout_seconds_tcp: whatever upstream servers do, a client that does   *)
(* not leave has its slot for a bounded time: it is answered or closed.    *)
(* (Each client connects once, so in the end none is left open.)           *)
(***************************************************************************)
ClientsReleased ==
  <>[](\A c \in Client : client[c].at = "open" => client[c].gone)

(***************************************************************************)
(* The same for clients that leave, which the code does not do: the recv() *)
(* of a closed connection puts the deadline off.                           *)
(***************************************************************************)
SlotsReleased == <>[](\A c \in Client : client[c].at # "open")

(***************************************************************************)
(* local_tcp_accept: "send the query in their packet upstream, then send   *)
(* <len><DNS reply> back to the TCP client".  AnswersBelong with no        *)
(* exception.                                                              *)
(***************************************************************************)
RepliesToTheClient ==
  \A c \in Client : \A run \in ToSet(client[c].received) : run.of = asks[c]

=============================================================================
