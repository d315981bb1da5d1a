------------------------------ MODULE DwAnswer ------------------------------
(***************************************************************************)
(* What Deadwood makes of the replies of upstream servers: DwRecurse.c     *)
(* takes a reply apart (dwx_dissect_packet), keeps what belongs to the     *)
(* question, and caches an answer, follows a referral to servers further   *)
(* down, or chases an incomplete CNAME chain.                              *)
(*                                                                         *)
(* A name is a sequence of labels, the root the empty one; a record is     *)
(* [owner, type, data], and data is a sequence too: the name that a NS or  *)
(* CNAME record holds, or an address, which read as a name is nobody's.    *)
(*                                                                         *)
(* One question is worked on at a time, with the children that look up     *)
(* name servers and CNAME targets on the stack above it; how the slots     *)
(* of several questions interleave is the subject of DwRemote.             *)
(***************************************************************************)
EXTENDS Integers, SequencesExt

CONSTANTS
  Labels,        \* what names and addresses are made of
  Bytes,         \* Bytes[name]: the length of a name in a packet
  Configured,    \* root_servers and upstream_servers: lists of servers
  Questions,     \* what clients ask for: [name, type]
  Packets,       \* what upstream servers send: [nx, an, ns, ar]
  Heap,          \* what malloc may leave behind the record types of a reply
  Blacklisted,   \* ip_blacklist: addresses that no answer may have
  GluelessType,  \* ns_glueless_type
  GlueRange,     \* GLUE_RANGE: NS records of a referral that are looked at
  Room,          \* records that a composed reply has room for
  MaxDepth,      \* slots for one question and its children
  NumRetries,    \* num_retries
  MaxReplies     \* bound: replies to one question and its children

Question == [name : Seq(Labels), type : STRING]
Record == [owner : Seq(Labels), type : STRING, data : Seq(Labels)]
Server == [glued : BOOLEAN, what : Seq(Labels)]
ServerList ==
  [servers : SUBSET Server, zone : Seq(Labels), from : Seq(Labels),
   upstream : BOOLEAN, configured : BOOLEAN]

\* What is configured stays in the cache, each list for its own zone.
ASSUME ConfiguredAssumption ==
  \A z \in DOMAIN Configured :
    Configured[z] \in ServerList /\ Configured[z].zone = z /\ Configured[z].configured

ASSUME MessagesAssumption ==
  /\ \A q \in Questions : q \in Question
  /\ \A p \in Packets : p.an \in Seq(Record) /\ p.ns \in Seq(Record) /\ p.ar \in Seq(Record)
  /\ \A p \in Packets : \A i \in DOMAIN p.ns : Bytes[p.ns[i].owner] \in Nat
  /\ GluelessType \in STRING

ASSUME NumbersAssumption == NumRetries \in Nat /\ MaxDepth \in Nat /\ GlueRange \in Nat

VARIABLES
  answers,       \* the cache: complete answers, by question
  cnames,        \* the cache: CNAME chains without their end, by question
  servers,       \* the cache: the servers of a zone, by zone
  stack,         \* rem[]: the question of a client, and its children above it
  told,          \* what became of the client's question
  replies,       \* replies since the client asked
  alive          \* the process has not divided by zero

vars == <<answers, cnames, servers, stack, told, replies, alive>>

With(f, k, v) == [x \in DOMAIN f \cup {k} |-> IF x = k THEN v ELSE f[x]]
Without(f, k) == [x \in DOMAIN f \ {k} |-> f[x]]

Addresses(rec) == {i \in DOMAIN rec.an : rec.an[i].type = "A"}
Blank(rec) == rec.type = "ANSWER" /\ rec.an = <<>>

-----------------------------------------------------------------------------
(***************************************************************************)
(* The answer section (dwx_check_answer_section, and _any for ANY).  Only  *)
(* what answers the question, or continues the chain of CNAME records that *)
(* starts at it, is kept.  The end of the chain is looked up in the record *)
(* whose place in the packet is the length of the chain.                   *)
(***************************************************************************)
Wanted(q, rr) == IF q.type = "ANY" THEN rr.type # "CNAME" ELSE rr.type = q.type

NextOwner(q, an, chain) == IF chain = 0 THEN q.name ELSE an[chain].data

\* Mutant: whose records answer is not looked at.
Direct_any(q, an, s, i) == Wanted(q, an[i])

Direct(q, an, s, i) ==
  /\ Wanted(q, an[i])
  /\ an[i].owner \in {q.name, NextOwner(q, an, s.chain)}

Links(q, an, s, i) ==
  /\ an[i].type = "CNAME"
  /\ q.type # "CNAME"
  /\ s.useCname
  /\ an[i].owner = NextOwner(q, an, s.chain)
  /\ q.type = "ANY" => s.chain = i - 1

CheckAnswer(q, an) ==
  LET upTo[n \in 0..Len(an)] ==
        IF n = 0 THEN [keep |-> {}, chain |-> 0, useCname |-> TRUE]
        ELSE LET s == upTo[n - 1] IN
               IF Direct(q, an, s, n)
                 THEN [s EXCEPT !.keep = @ \cup {n}, !.useCname = FALSE]
               ELSE IF Links(q, an, s, n)
                 THEN [s EXCEPT !.keep = @ \cup {n}, !.chain = @ + 1]
               ELSE s
  IN upTo[Len(an)]

Keep(q, an) == CheckAnswer(q, an).keep

Kept(q, an) ==
  LET upTo[n \in 0..Len(an)] ==
        IF n = 0 THEN <<>>
        ELSE IF n \in Keep(q, an) THEN Append(upTo[n - 1], an[n])
        ELSE upTo[n - 1]
  IN upTo[Len(an)]

(***************************************************************************)
(* dwx_determine_answer_type.  The types of the first seven records are    *)
(* read, however many there are; a record that was not kept is passed      *)
(* over, or, for ANY, is taken for an answer.  Without answers the first   *)
(* record of the authority section decides, and is read if there is none.  *)
(***************************************************************************)
FirstOf(q, an) == IF q.type = "ANY" THEN 1 ELSE Min(Keep(q, an))

StartsWithCname(q, an) ==
  LET first == FirstOf(q, an)
  IN first \in Keep(q, an) /\ an[first].type = "CNAME" /\ q.type # "CNAME"

EndsInAnswer(q, an) ==
  \E i \in DOMAIN an :
    /\ i > FirstOf(q, an) /\ i <= 32
    /\ IF q.type = "ANY" THEN ~ (i \in Keep(q, an) /\ an[i].type = "CNAME")
                         ELSE i \in Keep(q, an) /\ an[i].type = q.type

AnswerType(q, an, heap) ==
  IF q.type = "ANY" \/ Keep(q, an) # {}
    THEN IF FirstOf(q, an) > 7 THEN "NO_USEFUL_DATA"
         ELSE IF ~ StartsWithCname(q, an) \/ EndsInAnswer(q, an) THEN "ANSWER"
         ELSE "CNAME_REFER"
    ELSE IF Len(an) < 7 /\ heap = q.type THEN "ANSWER" ELSE "NO_USEFUL_DATA"

AuthorityType(nx, ns, heap) ==
  LET head == IF ns = <<>> THEN heap ELSE ns[1].type
  IN CASE head = "SOA" -> IF nx THEN "NXDOMAIN" ELSE "NOT_THERE"
       [] head = "NS" -> "NS_REFER"
       [] OTHER -> "NO_USEFUL_DATA"

Empty(p) == p.an = <<>> /\ p.ns = <<>> /\ p.ar = <<>>

ReplyType(q, p, heap) ==
  IF Empty(p) THEN IF q.type = "AAAA" THEN "NOT_THERE" ELSE "NO_USEFUL_DATA"
  ELSE IF p.an # <<>> THEN AnswerType(q, p.an, heap)
  ELSE AuthorityType(p.nx, p.ns, heap)

-----------------------------------------------------------------------------
(***************************************************************************)
(* Referrals.  Of the first GlueRange records of the authority section     *)
(* those are out of bailiwick that do not own an ancestor of the name      *)
(* asked for, or are not below the zone whose servers sent the reply.  A   *)
(* NS record in bailiwick gives the addresses its host has in the          *)
(* additional section or, when it has none there, the name of its host.    *)
(* The zone is the owner that is left with the most bytes; with none left  *)
(* it is the root, and there are no servers.                               *)
(***************************************************************************)
\* Mutants: only one part of the check of the bailiwick is made, or a zone may
\* refer to itself.
OutOfBailiwick_other(q, zone, ns, i) ==
  i <= GlueRange /\ ~ IsStrictSuffix(zone, ns[i].owner)

OutOfBailiwick_above(q, zone, ns, i) ==
  i <= GlueRange /\ ~ IsSuffix(ns[i].owner, q.name)

OutOfBailiwick_same(q, zone, ns, i) ==
  i <= GlueRange /\ ~ (IsSuffix(ns[i].owner, q.name) /\ IsSuffix(zone, ns[i].owner))

OutOfBailiwick(q, zone, ns, i) ==
  /\ i <= GlueRange
  /\ ~ (IsSuffix(ns[i].owner, q.name) /\ IsStrictSuffix(zone, ns[i].owner))

InBailiwick(q, zone, ns) ==
  {i \in DOMAIN ns : /\ ns[i].type \in {"NS", "SOA"}
                     /\ ~ OutOfBailiwick(q, zone, ns, i)}

Hosts(q, zone, ns) ==
  {ns[i].data : i \in {j \in InBailiwick(q, zone, ns) :
                         ns[j].type = "NS" /\ j <= GlueRange}}

Glue(ar, host) ==
  {ar[i].data : i \in {j \in DOMAIN ar : ar[j].type = "A" /\ ar[j].owner = host}}

Address(a) == [glued |-> TRUE, what |-> a]
Name(n) == [glued |-> FALSE, what |-> n]

ReferralServers(q, zone, p) ==
  UNION {IF Glue(p.ar, h) = {} THEN {Name(h)} ELSE {Address(a) : a \in Glue(p.ar, h)} :
           h \in Hosts(q, zone, p.ns)}

\* dwx_find_ns_referral takes the first, of those with as many bytes.
ReferralZone(q, zone, ns) ==
  LET left == InBailiwick(q, zone, ns)
      longest == {i \in left : \A j \in left :
                    Bytes[ns[j].owner] <= Bytes[ns[i].owner]}
  IN  IF left = {} THEN <<>>
      ELSE ns[CHOOSE i \in longest : \A j \in longest : i <= j].owner

Referral(e, p) ==
  [servers |-> ReferralServers(e.q, e.list.zone, p),
   zone |-> ReferralZone(e.q, e.list.zone, p.ns),
   from |-> e.list.zone, upstream |-> FALSE, configured |-> FALSE]

-----------------------------------------------------------------------------
(***************************************************************************)
(* Connections.  get_upstream_ns strips labels from the name until the     *)
(* cache has servers for what is left.  dwx_ns_getip takes one of them; a  *)
(* name is looked up in the cache and, when that gives no address, by a    *)
(* child, which has to find a server it can ask at once.                   *)
(***************************************************************************)
ZonesOf(known, name) == {z \in DOMAIN known : IsSuffix(z, name)}

\* No list at all, which no list that is configured or learnt looks like.
NoServers(name) ==
  [servers |-> {}, zone |-> name, from |-> name, upstream |-> TRUE,
   configured |-> FALSE]

Nearest(known, name) ==
  IF ZonesOf(known, name) = {} THEN NoServers(name)
  ELSE known[CHOOSE z \in ZonesOf(known, name) :
               \A y \in ZonesOf(known, name) : Len(y) <= Len(z)]

Entry(q, kind, chain, list) ==
  [q |-> q, kind |-> kind, chain |-> chain, list |-> list, sent |-> FALSE,
   retries |-> NumRetries, referrals |-> 0]

AddressOf(n) == [name |-> n, type |-> GluelessType]

Cached(s) ==
  /\ ~ s.glued
  /\ AddressOf(s.what) \in DOMAIN answers
  /\ answers[AddressOf(s.what)].type = "ANSWER"
Divides(s) == Cached(s) /\ Addresses(answers[AddressOf(s.what)]) = {}
CanAsk(s) == s.glued \/ (Cached(s) /\ ~ Divides(s))

WithLast(st, e) == [st EXCEPT ![Len(st)] = e]
Sent(st) == WithLast(st, [Last(st) EXCEPT !.sent = TRUE])
Waiting(st) == WithLast(st, [Last(st) EXCEPT !.sent = FALSE])

Dies == alive' = FALSE /\ stack' = <<>>

\* dwx_do_glueless_new: a child that cannot send its question at once is
\* given up, and the entry below it waits.
Spawn(st, q, kind, known) ==
  \/ /\ \/ Len(st) = MaxDepth
        \/ Nearest(known, q.name).servers = {}
        \/ \E s \in Nearest(known, q.name).servers : ~ Cached(s) /\ ~ s.glued
     /\ stack' = Waiting(st)
     /\ UNCHANGED alive
  \/ /\ Len(st) < MaxDepth
     /\ \E s \in Nearest(known, q.name).servers :
          \/ /\ CanAsk(s)
             /\ stack' = Sent(Append(Waiting(st),
                                     Entry(q, kind, <<>>, Nearest(known, q.name))))
             /\ UNCHANGED alive
          \/ Divides(s) /\ Dies

\* make_remote_connection for the last entry.
Connect(st, known) ==
  LET list == Last(st).list IN
  \/ list.servers = {} /\ stack' = Waiting(st) /\ UNCHANGED alive
  \/ \E s \in list.servers :
       \/ CanAsk(s) /\ stack' = Sent(st) /\ UNCHANGED alive
       \/ Divides(s) /\ Dies
       \/ ~ s.glued /\ ~ Cached(s) /\ Spawn(st, AddressOf(s.what), "server", known)

(***************************************************************************)
(* dwx_make_cname_reply, for the entry at the top and then, while entries  *)
(* wait for the end of a CNAME chain, for those below: the chain and the   *)
(* records of the answer become the answer to the entry's own question.    *)
(* An answer without records, a chain that is gone and one too long for    *)
(* the buffer leave the entry as it is.                                    *)
(***************************************************************************)
ChainRecord(q, list, i) ==
  [owner |-> IF i = 1 THEN q.name ELSE list[i - 1], type |-> "CNAME", data |-> list[i]]

Composed(q, list, an) ==
  LET whole == [i \in DOMAIN list |-> ChainRecord(q, list, i)] \o an
  IN [type |-> "ANSWER", an |-> SubSeq(whole, 1, Min({Room, Len(whole)}))]

ChainOf(e, chains) ==
  IF e.chain # <<>> THEN e.chain
  ELSE IF e.q \in DOMAIN chains THEN chains[e.q] ELSE <<>>

Composes(e, chains, an) ==
  /\ an # <<>>
  /\ ChainOf(e, chains) # <<>>
  /\ Len(ChainOf(e, chains)) <= Room

Compose(s, chains) ==
  LET e == stack[s.left]
  IN IF s.left = 0 \/ ~ s.open THEN s
     ELSE IF ~ Composes(e, chains, s.an)
       THEN IF e.kind = "client" /\ e.chain # <<>>
              THEN [s EXCEPT !.left = 0, !.told = "nothing", !.open = FALSE]
              ELSE [s EXCEPT !.open = FALSE]
     ELSE LET new == Composed(e.q, ChainOf(e, chains), s.an)
          IN [answers |-> With(s.answers, e.q, new), left |-> s.left - 1,
              an |-> new.an, open |-> e.kind # "server",
              told |-> IF e.kind = "client" THEN "answered" ELSE s.told]

ComposeReplies(left, rec, known, chains) ==
  LET end == FoldLeftDomain(LAMBDA s, i : Compose(s, chains),
                            [answers |-> known, left |-> left, an |-> rec.an,
                             open |-> TRUE, told |-> told],
                            stack)
  IN /\ answers' = end.answers
     /\ told' = end.told
     /\ \E left2 \in 0..Len(stack) :
          /\ left2 = end.left
          /\ stack' = IF left2 = 0 THEN <<>>
                      ELSE IF left2 = Len(stack) THEN stack
                      ELSE Waiting(SubSeq(stack, 1, left2))
     /\ UNCHANGED alive

-----------------------------------------------------------------------------
\* get_local_udp_packet: an answer in the cache, a CNAME chain in the cache
\* whose end is asked for, or a new question.  A question that cannot be
\* sent at once is refused.
AskCached(q) ==
  /\ q \in DOMAIN answers
  /\ ~ Blank(answers[q])
  /\ told' = "answered"
  /\ UNCHANGED <<answers, stack, alive>>

Uncached(q) == ~ (q \in DOMAIN answers /\ ~ Blank(answers[q]))
Zapped(q) == IF q \in DOMAIN answers THEN Without(answers, q) ELSE answers

AskChased(q) ==
  LET target == [name |-> Last(cnames[q]), type |-> q.type] IN
  /\ Uncached(q)
  /\ q \in DOMAIN cnames
  /\ answers' = Zapped(q)
  /\ told' = "asked"
  /\ Connect(<<Entry(q, "client", cnames[q], NoServers(q.name)),
               Entry(target, "chased", <<>>, Nearest(servers, target.name))>>, servers)

AskNew(q) ==
  /\ Uncached(q)
  /\ q \notin DOMAIN cnames
  /\ answers' = Zapped(q)
  /\ LET list == Nearest(servers, q.name)
     IN \/ \E s \in list.servers :
             \/ /\ CanAsk(s)
                /\ stack' = Sent(<<Entry(q, "client", <<>>, list)>>)
                /\ told' = "asked"
                /\ UNCHANGED alive
             \/ Divides(s) /\ Dies /\ told' = "nothing"
        \/ /\ \/ list.servers = {}
              \/ \E s \in list.servers : ~ s.glued /\ ~ Cached(s)
           /\ told' = "failed"
           /\ UNCHANGED <<stack, alive>>

Ask(q) ==
  /\ alive
  /\ stack = <<>>
  /\ AskCached(q) \/ AskChased(q) \/ AskNew(q)
  /\ replies' = 0
  /\ UNCHANGED <<cnames, servers>>

-----------------------------------------------------------------------------
\* What the entry at the top is told, when it is taken off the stack.
Below == SubSeq(stack, 1, Len(stack) - 1)

\* dwx_glueless_done: one of the addresses of the server is asked.
ServerFound(rec) ==
  \/ /\ rec.type = "ANSWER"
     /\ Addresses(rec) # {}
     /\ stack' = Sent(Below)
     /\ UNCHANGED alive
  \/ rec.type = "ANSWER" /\ Addresses(rec) = {} /\ Dies
  \/ rec.type # "ANSWER" /\ stack' = Below /\ UNCHANGED alive

\* dwx_cache_reply and send_reply_from_cache for a complete answer; the
\* client of an empty one is not told, and the empty one is removed.
ReceiveAnswer(e, rec) ==
  LET known == With(answers, e.q, rec) IN
  /\ \/ /\ e.kind = "client"
        /\ answers' = IF Blank(rec) THEN Without(known, e.q) ELSE known
        /\ told' = IF Blank(rec) THEN "nothing" ELSE "answered"
        /\ stack' = <<>>
        /\ UNCHANGED alive
     \/ /\ e.kind = "server"
        /\ answers' = known
        /\ ServerFound(rec)
        /\ UNCHANGED told
     \/ /\ e.kind \in {"cname", "chased"}
        /\ ComposeReplies(Len(stack) - 1, rec, known, cnames)
  /\ UNCHANGED <<cnames, servers>>

Answer(q, p, type) ==
  [type |-> type, an |-> IF type = "ANSWER" THEN Kept(q, p.an) ELSE <<>>]

\* dwx_handle_ns_refer: the servers are kept for their zone, unless the zone
\* is one of dwood3rc, and asked.
ReceiveReferral(e, list) ==
  /\ servers' = IF list.zone \in DOMAIN servers /\ servers[list.zone].configured
                  THEN servers ELSE With(servers, list.zone, list)
  /\ Connect(WithLast(stack, [e EXCEPT !.list = list, !.referrals = @ + 1]), servers')
  /\ UNCHANGED <<answers, cnames, told>>

\* dwx_handle_cname_refer: the chain is kept, and its end looked up in the
\* cache or asked for.
ReceiveCname(e, chain) ==
  LET target == [name |-> Last(chain), type |-> e.q.type] IN
  /\ cnames' = With(cnames, e.q, chain)
  /\ \/ /\ target \in DOMAIN answers
        /\ ComposeReplies(Len(stack), answers[target], answers, cnames')
     \/ /\ target \notin DOMAIN answers
        /\ Spawn(stack, target, "cname", servers)
        /\ UNCHANGED <<answers, told>>
  /\ UNCHANGED servers

\* make_synth_not_there: a client is told so, nothing is cached.
ReceiveBadIp(e) ==
  /\ told' = IF e.kind = "client" THEN "answered"
             ELSE IF e.kind = "chased" THEN "nothing" ELSE told
  /\ stack' = IF e.kind = "chased" THEN <<>> ELSE Below
  /\ UNCHANGED <<answers, cnames, servers, alive>>

BadIp(p) == \E i \in DOMAIN p.an : p.an[i].type = "A" /\ p.an[i].data \in Blacklisted

Chain(q, an) == [i \in DOMAIN Kept(q, an) |-> Kept(q, an)[i].data]

\* cache_dns_reply.  A reply of no use is dropped, and so is anything but an
\* answer from a server of upstream_servers.
Receive(p, heap) ==
  LET e == Last(stack)
      type == ReplyType(e.q, p, heap)
  IN /\ alive
     /\ stack # <<>>
     /\ e.sent
     /\ replies < MaxReplies
     /\ replies' = replies + 1
     /\ \/ BadIp(p) /\ ReceiveBadIp(e)
        \/ /\ ~ BadIp(p)
           /\ \/ /\ type \in {"ANSWER", "NXDOMAIN", "NOT_THERE"}
                 /\ ReceiveAnswer(e, Answer(e.q, p, type))
              \/ /\ type = "NS_REFER"
                 /\ ~ e.list.upstream
                 /\ ReceiveReferral(e, Referral(e, p))
              \/ /\ type = "CNAME_REFER"
                 /\ ~ e.list.upstream
                 /\ ReceiveCname(e, Chain(e.q, p.an))

\* handle_expired: another try, or the client is told that the server failed
\* and what waits for a child goes on waiting.
Retry ==
  LET e == Last(stack)
      list == IF e.list = NoServers(e.q.name) THEN Nearest(servers, e.q.name)
                                              ELSE e.list
  IN /\ alive
     /\ stack # <<>>
     /\ e.retries > 0
     /\ Connect(WithLast(stack, [e EXCEPT !.retries = @ - 1, !.list = list]), servers)
     /\ UNCHANGED <<answers, cnames, servers, told, replies>>

GiveUp ==
  /\ alive
  /\ stack # <<>>
  /\ Last(stack).retries = 0
  /\ stack' = IF Last(stack).kind = "chased" THEN <<>> ELSE Below
  /\ told' = IF Last(stack).kind = "client" THEN "failed"
             ELSE IF Last(stack).kind = "chased" THEN "nothing" ELSE told
  /\ UNCHANGED <<answers, cnames, servers, replies, alive>>

\* A record of the cache expires or is evicted.
Expire ==
  /\ alive
  /\ \/ \E q \in DOMAIN answers :
          answers' = Without(answers, q) /\ UNCHANGED <<cnames, servers>>
     \/ \E q \in DOMAIN cnames :
          cnames' = Without(cnames, q) /\ UNCHANGED <<answers, servers>>
     \/ \E z \in DOMAIN servers :
          /\ ~ servers[z].configured
          /\ servers' = Without(servers, z)
          /\ UNCHANGED <<answers, cnames>>
  /\ UNCHANGED <<stack, told, replies, alive>>

Nothing == [x \in {} |-> x]

Init ==
  /\ answers = Nothing
  /\ cnames = Nothing
  /\ servers = Configured
  /\ stack = <<>>
  /\ told = "nothing"
  /\ replies = 0
  /\ alive = TRUE

Next ==
  \/ \E q \in Questions : Ask(q)
  \/ \E p \in Packets, heap \in Heap : Receive(p, heap)
  \/ Retry \/ GiveUp \/ Expire

Spec == Init /\ [][Next]_vars

-----------------------------------------------------------------------------
(***************************************************************************)
(* Properties.                                                             *)
(***************************************************************************)

\* The bailiwick check, part one: a question is only put to servers of a
\* zone that the name is in, whatever referrals led to them.
AskedOfAncestors ==
  \A i \in DOMAIN stack : IsSuffix(stack[i].list.zone, stack[i].q.name)

\* The bailiwick check, part two: servers that were learnt are kept for the
\* zone they serve, and were named by servers of a zone above it.
ServersFromAbove ==
  \A z \in DOMAIN servers :
    /\ servers[z].zone = z
    /\ servers[z].configured \/ IsStrictSuffix(servers[z].from, z)

\* Each referral leads further down, so servers that refer for ever are left
\* after as many referrals as the name has labels.
ReferralsBounded ==
  \A i \in DOMAIN stack :
    \/ stack[i].list.servers = {}
    \/ stack[i].referrals <= Len(stack[i].list.zone)

\* An answer that is kept begins with a record of the name asked for, and
\* one that was put together from a chain and its end too: what is cached for
\* one name never answers for another.
AnswersBegin ==
  \A q \in DOMAIN answers :
    answers[q].an # <<>> => answers[q].an[1].owner = q.name

\* "The only allowed responses are" those to the question and those to where
\* a CNAME record before them points (dwx_check_answer_section).
AnswersChained ==
  \A q \in DOMAIN answers : \A i \in DOMAIN answers[q].an :
    LET an == answers[q].an IN
      \/ an[i].owner = q.name
      \/ \E j \in 1..(i - 1) : an[j].type = "CNAME" /\ an[j].data = an[i].owner

\* dwx_get_rr_from_answer draws one of the addresses of an answer: there is
\* one, whichever way the answer came into the cache.
NeverDivides == alive

\* "NS referrals must always bring us closer to the answer we seek": what a
\* question is put to next is below what it was put to before.
ReferralsDescend ==
  [][\A i \in DOMAIN stack \cap DOMAIN stack' :
       stack'[i].q = stack[i].q /\ stack'[i].referrals > stack[i].referrals
         => IsStrictSuffix(stack[i].list.zone, stack'[i].list.zone)]_vars

\* A client whose question is given up has been told something.
ClientTold == stack = <<>> => told # "nothing" \/ replies = 0

=============================================================================
