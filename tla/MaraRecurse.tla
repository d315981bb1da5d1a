---------------------------- MODULE MaraRecurse ----------------------------
(***************************************************************************)
(* The old recursive resolver of maradns (server/recursive.c): a thread    *)
(* for each query that is not in the cache, one lock (big_lock) around all *)
(* that a thread does, which is only let go while the thread waits for a   *)
(* remote server, and one cache with its fila.                             *)
(*                                                                         *)
(* recurse_call calls itself: for the name of a server without an address, *)
(* for the target of a CNAME, and at its end, to give the answer from the  *)
(* cache.  A thread has a stack with one frame for each call that waits    *)
(* for another; the calls at the end replace their frame.                  *)
(*                                                                         *)
(* A name is a sequence of labels, in lower case.  Remote servers, the     *)
(* network and the clock choose freely.  An answer has one CNAME at most.  *)
(***************************************************************************)
EXTENDS Integers, Sequences, FiniteSets, SequencesExt, Functions, FilaOrder

CONSTANTS
  Client,     \* those who ask, each once
  Query,      \* Query[c]: the queries [name, type] that c may ask
  Address,    \* remote servers
  Says(_, _, _),   \* Says(server, name, type): what a server may say
  Hardcoded,  \* the root_servers (or upstream_servers): zone -> addresses
  Spammer,    \* addresses of servers that are not talked to
  Free,       \* no thread
  root_or_upstream, handle_noreply, retry_cycles, max_queries_total,
  max_glueless_level, maximum_num_of_threads,
  cache_max,  \* maximum_cache_elements
  Axed,       \* records that the custodian destroys at a time (8)
  CanFail,    \* socket(), bind() or send() may fail
  MaxAging    \* bound: how often something in the cache gets older

ASSUME RecurseAssumption ==
  /\ Free \notin Client
  /\ root_or_upstream \in BOOLEAN /\ CanFail \in BOOLEAN
  /\ handle_noreply \in 0..2
  /\ retry_cycles \in 1..31
  /\ max_queries_total \in Nat /\ max_glueless_level \in Nat
  /\ maximum_num_of_threads \in Nat
  /\ IsFiniteSet(DOMAIN Hardcoded)
  /\ cache_max \in Nat \ {0} /\ Axed \in Nat \ {0} /\ MaxAging \in Nat

VARIABLES
  db,       \* dnscache, with the fila and custodian_mode
  lock,     \* who has big_lock
  main,     \* the query that the main thread is in launch_thread with
  thread,   \* the query, the state and the stack of each thread
  running,  \* num_of_threads_running
  reply,    \* what was sent to each client
  deep,     \* who went over a limit
  aged      \* counts towards MaxAging

vars == <<db, lock, main, thread, running, reply, deep, aged>>

Root == << >>
\* Addresses are sequences as well; Nowhere is 255.255.255.255.
NoIp == <<"no address">>
Nowhere == <<"255.255.255.255">>
Suffix(name, k) == SubSeq(name, k + 1, Len(name))
InBailiwick(name, zone) ==
  Len(name) >= Len(zone) /\ Suffix(name, Len(name) - Len(zone)) = zone

\* An entry: its kind, its chain of records [id, value], the address a CNAME
\* has got, how old it is.  The servers from the configuration never get old.
Entry(kind, chain, hard) ==
  [kind |-> kind, chain |-> chain, ip |-> NoIp, age |-> 0, hard |-> hard]
Item(id, value) == [id |-> id, value |-> value]
Values(e) == [i \in DOMAIN e.chain |-> e.chain[i].value]

Says_answer(data) == [kind |-> "answer", data |-> data]
Says_cname(target) == [kind |-> "cname", target |-> target]
Says_negative == [kind |-> "negative"]
Says_nothing == [kind |-> "nothing"]
Says_other == [kind |-> "other"]
\* A server of a zone: its name and, or NoIp, its address.
Server(name, glue) == [name |-> name, glue |-> glue]
\* The names in the NS records of a zone; the servers the addresses are of.
Says_referral(zone, names, glue) ==
  [kind |-> "referral", zone |-> zone, names |-> names, glue |-> glue]

-----------------------------------------------------------------------------
(***************************************************************************)
(* The cache.  The fila has an element [key, id] for each entry that may   *)
(* be removed, the newest first; id is the first record of its chain.      *)
(***************************************************************************)
Holds(d, key, kinds) ==
  key \in DOMAIN d.hash /\ d.hash[key].kind \in kinds
FirstId(d, key) == d.hash[key].chain[1].id
NewId(d) ==
  LET used == UNION {{d.hash[k].chain[i].id : i \in DOMAIN d.hash[k].chain}
                       : k \in DOMAIN d.hash}
  IN CHOOSE i \in 1..(Cardinality(used) + 1) : i \notin used

Element(d, key) == [key |-> key, id |-> FirstId(d, key)]
\* An entry from the configuration has no element: the pointer is null.
MoveToTop(d, key) ==
  [d EXCEPT !.fila = IF d.hash[key].hard THEN @
                     ELSE MovedToFront(@, Element(d, key))]

\* mhash_undef and unlink_rr or unlink_closer.
\* Mutant: the element of the fila stays.
Unlink_hash(d, key) ==
  [d EXCEPT !.hash = [k \in DOMAIN d.hash \ {key} |-> d.hash[k]]]
Unlink(d, key) ==
  [d EXCEPT !.hash = [k \in DOMAIN d.hash \ {key} |-> d.hash[k]],
            !.fila = IF d.hash[key].hard THEN @
                     ELSE Unlinked(@, Element(d, key))]

\* Mutant: only when there are more than cache_max.
Custodian_more(d) ==
  LET n == Cardinality(DOMAIN d.hash)
      mode == IF n > cache_max THEN cache_max \div 100 ELSE d.custodian_mode
      kept == IF Axed < Len(d.fila) THEN Len(d.fila) - Axed ELSE 0
      zapped == {d.fila[i].key : i \in (kept + 1)..Len(d.fila)}
  IN IF n <= cache_max /\ d.custodian_mode <= 0 THEN d
     ELSE [d EXCEPT
            !.hash = [k \in DOMAIN d.hash \ zapped |-> d.hash[k]],
            !.fila = SubSeq(d.fila, 1, kept),
            !.custodian_mode = IF Axed > Len(d.fila) THEN mode ELSE mode - Axed,
            !.exited = @ \/ ~ zapped \subseteq DOMAIN d.hash]

\* It exits when what the fila says is not in the hash.
Custodian(d) ==
  LET n == Cardinality(DOMAIN d.hash)
      mode == IF n >= cache_max THEN cache_max \div 100 ELSE d.custodian_mode
      kept == IF Axed < Len(d.fila) THEN Len(d.fila) - Axed ELSE 0
      zapped == {d.fila[i].key : i \in (kept + 1)..Len(d.fila)}
  IN IF n < cache_max /\ d.custodian_mode <= 0 THEN d
     ELSE [d EXCEPT
            !.hash = [k \in DOMAIN d.hash \ zapped |-> d.hash[k]],
            !.fila = SubSeq(d.fila, 1, kept),
            !.custodian_mode = IF Axed > Len(d.fila) THEN mode ELSE mode - Axed,
            !.exited = @ \/ ~ zapped \subseteq DOMAIN d.hash]

\* A new entry, at the top of the fila; what had its place is unlinked.
Overwrite(d, key, kind, value) ==
  LET clear == IF key \in DOMAIN d.hash THEN Unlink(d, key) ELSE d
      id == NewId(clear)
      new == Entry(kind, <<Item(id, value)>>, FALSE)
  IN [clear EXCEPT
       !.hash = [k \in DOMAIN clear.hash \union {key} |->
                   IF k = key THEN new ELSE clear.hash[k]],
       !.fila = AtFront(@, [key |-> key, id |-> id])]
AppendTo(d, key, value) ==
  [d EXCEPT !.hash[key].chain = Append(@, Item(NewId(d), value))]

\* substring_add_rr and mhash_put_data.
AddRr(d, key, kind, value, append) ==
  Custodian(IF append /\ key \in DOMAIN d.hash THEN AppendTo(d, key, value)
            ELSE Overwrite(d, key, kind, value))
\* add_closer_jsip and add_closer_js: no custodian after one is appended.
AddCloser(d, key, server, append) ==
  IF append /\ key \in DOMAIN d.hash THEN AppendTo(d, key, server)
  ELSE Custodian(Overwrite(d, key, "NS", server))

\* A whole answer or referral: the first record overwrites what there was,
\* the others are appended.
AddRecord(d, key, kind, value, append) ==
  IF kind = "NS" THEN AddCloser(d, key, value, append)
  ELSE AddRr(d, key, kind, value, append)
AddAll(d, key, kind, values) ==
  LET added[i \in 0..Len(values)] ==
        IF i = 0 THEN d
        ELSE AddRecord(added[i - 1], key, kind, values[i], i > 1)
  IN added[Len(values)]

\* Mutant: the first record is appended, too.
AddAnswer_append(d, key, data) ==
  LET added[i \in 0..Len(data)] ==
        IF i = 0 THEN d ELSE AddRr(added[i - 1], key, "RR", data[i], TRUE)
  IN added[Len(data)]
AddAnswer(d, key, data) == AddAll(d, key, "RR", data)
AddClosers(d, zone, servers) == AddAll(d, <<zone, "NS">>, "NS", servers)

\* The address of the target is added to the CNAME that the hash has now.
AddIp(d, key, value) ==
  IF Holds(d, key, {"RR"}) /\ d.hash[key].ip = NoIp
  THEN [d EXCEPT !.hash[key].ip = value] ELSE d

\* The TTL is over, or a CNAME has waited for its address for too long.
Dead(e, key) ==
  \/ e.age = 2
  \/ e.age = 1 /\ e.kind = "RR" /\ key[2] = "CNAME" /\ e.ip = NoIp

\* udpsuccess rotates the chain; the element of the fila goes along.
\* Mutant: it does not.
Rotated_fila(d, key) ==
  LET c == d.hash[key].chain
  IN [d EXCEPT !.hash[key].chain = Append(Tail(c), Head(c))]
Rotated(d, key) ==
  LET c == d.hash[key].chain
      turned == Append(Tail(c), Head(c))
  IN [d EXCEPT
       !.hash[key].chain = turned,
       !.fila = [i \in DOMAIN @ |->
                   IF @[i] = Element(d, key)
                   THEN [key |-> key, id |-> turned[1].id] ELSE @[i]]]

-----------------------------------------------------------------------------
(***************************************************************************)
(* A call of recurse_call.  want: the answer is for the client, or the     *)
(* caller wants an address or (below arpa) a PTR record.  at: where it is. *)
(***************************************************************************)
Nothing == [ok |-> TRUE, value |-> NoIp]
Frame(name, type, sent, level, want) ==
  [name |-> name, type |-> type, sent |-> sent, level |-> level,
   want |-> want, at |-> "enter", zone |-> Root, plan |-> << >>,
   server |-> NoIp, asked |-> "none", got |-> Nothing]
Again(f) == Frame(f.name, f.type, f.sent + 1, f.level, f.want)

Top(c) == Last(thread[c].stack)
With(s, f) == Front(s) \o <<f>>
Call(s, f, callee) == Front(s) \o <<f, callee>>
Returned(s, ok, value) ==
  IF Len(s) = 1 THEN << >>
  ELSE [Front(s) EXCEPT ![Len(s) - 1].got = [ok |-> ok, value |-> value]]

\* The thread goes on with this stack; waiting for a server, and at its end,
\* it lets the lock go.
Move(c, d, stack) ==
  /\ db' = d
  /\ thread' = [thread EXCEPT ![c].stack = stack,
                              ![c].state = IF stack = << >> THEN "ends" ELSE @]
  /\ lock' = IF stack = << >> THEN Free
             ELSE IF Last(stack).at = "waiting" THEN Free ELSE c
  /\ UNCHANGED <<main, running, aged>>
Silent == UNCHANGED <<reply, deep>>

Shows(kind, name, type, data, ip) ==
  [kind |-> kind, name |-> name, type |-> type, data |-> data, ip |-> ip]
Send(c, what) ==
  /\ reply' = [reply EXCEPT ![c] = Append(@, what)]
  /\ UNCHANGED deep

Runs(c, at) == lock = c /\ thread[c].stack # << >> /\ Top(c).at = at
TooFar(f) == f.sent > max_queries_total \/ f.level > max_glueless_level

\* udpnotfound or udpsuccess, from an entry.
ReplyFrom(name, type, e) ==
  IF e.kind = "NEG" THEN Shows("notfound", name, type, << >>, NoIp)
  ELSE Shows("answer", name, type, Values(e), e.ip)
AfterReply(d, key) == IF d.hash[key].kind = "RR" THEN Rotated(d, key) ELSE d

-----------------------------------------------------------------------------
(***************************************************************************)
(* recurse_call, from its start until it asks servers.                     *)
(***************************************************************************)
\* Nobody is told.
TooDeep(c) ==
  /\ Runs(c, "enter") /\ TooFar(Top(c))
  /\ Move(c, db, Returned(thread[c].stack, FALSE, NoIp))
  /\ deep' = deep \union {c}
  /\ UNCHANGED reply

\* ANY: the A and the MX records are looked up first.
AnyAsks(c, at, type, then) ==
  /\ Runs(c, at)
  /\ LET f == Top(c)
     IN /\ ~TooFar(f) /\ f.got.ok
        /\ at = "enter" => f.type = "ANY"
        /\ Move(c, db, Call(thread[c].stack, [f EXCEPT !.at = then],
                            Frame(f.name, type, f.sent + 1, f.level, "ip")))
  /\ Silent
AnyA(c) == AnyAsks(c, "enter", "A", "any_a")
AnyMx(c) == AnyAsks(c, "any_a", "MX", "any_mx")

\* The A and the MX records that were found, or else the CNAME.
AnyEnds(c) ==
  /\ Runs(c, "any_mx") /\ Top(c).got.ok
  /\ LET f == Top(c)
         records(t) == IF Holds(db, <<f.name, t>>, {"RR"})
                       THEN Values(db.hash[<<f.name, t>>]) ELSE << >>
         asked == records("A") \o records("MX")
         found == IF asked # << >> THEN asked ELSE records("CNAME")
         not == {t \in {"A", "MX"} : Holds(db, <<f.name, t>>, {"NEG"})}
         stack == Returned(thread[c].stack, TRUE, NoIp)
     IN \/ /\ found # << >>
           /\ Send(c, Shows("answer", f.name, "ANY", found, NoIp))
           /\ Move(c, db, stack)
        \/ \E t \in not :
             /\ found = << >> /\ (t = "MX" => "A" \notin not)
             /\ Send(c, Shows("notfound", f.name, t, << >>, NoIp))
             /\ Move(c, MoveToTop(db, <<f.name, t>>), stack)
        \/ /\ found = << >> /\ not = {}
           /\ Silent
           /\ Move(c, db, stack)

AnyFails(c) ==
  /\ Runs(c, "any_a") \/ Runs(c, "any_mx")
  /\ ~Top(c).got.ok
  /\ Move(c, db, Returned(thread[c].stack, FALSE, NoIp))
  /\ Silent

\* give_answer: the entry for the type, or else the CNAME.
Hits(f) ==
  {k \in {<<f.name, f.type>>} : Holds(db, k, {"NEG", "RR"})}
Cnames(f) ==
  {k \in {<<f.name, "CNAME">>} : Hits(f) = {} /\ Holds(db, k, {"RR"})}

GiveClient(c, key) ==
  /\ Top(c).want = "client"
  /\ Move(c, AfterReply(MoveToTop(db, key), key),
          Returned(thread[c].stack, TRUE, NoIp))
  /\ Send(c, ReplyFrom(Top(c).name, Top(c).type, db.hash[key]))
\* 255.255.255.255 says that there is no address.  Only who looks for an A
\* record is led on by a CNAME (cname_answer is 1, which is RR_A).
GiveCaller(c, key, cname) ==
  LET f == Top(c)
      type == IF f.want = "ip" THEN "A" ELSE "PTR"
      found == db.hash[key].chain[1].value
      stack == thread[c].stack
      d == MoveToTop(db, key)
  IN /\ f.want # "client" /\ Silent
     /\ \/ /\ db.hash[key].kind = "NEG"
           /\ Move(c, d, Returned(stack, TRUE,
                           IF f.want = "ip" THEN Nowhere ELSE NoIp))
        \/ /\ db.hash[key].kind = "RR" /\ ~cname
           /\ Move(c, d, Returned(stack, TRUE,
                           IF key[2] = type THEN found ELSE NoIp))
        \/ /\ cname
           /\ Move(c, d, With(stack, Frame(found, type, f.sent + 1,
                                           f.level + 1, f.want)))
FromCache(c) ==
  /\ Runs(c, "enter") /\ ~TooFar(Top(c)) /\ Top(c).type # "ANY"
  /\ \E key \in Hits(Top(c)) \union Cnames(Top(c)) :
       \/ /\ Dead(db.hash[key], key)
          /\ Move(c, Unlink(MoveToTop(db, key), key),
                  With(thread[c].stack, Again(Top(c))))
          /\ Silent
       \/ ~Dead(db.hash[key], key) /\ GiveClient(c, key)
       \/ /\ ~Dead(db.hash[key], key)
          /\ GiveCaller(c, key, key \in Cnames(Top(c)) /\ Top(c).type = "A")

\* The closest zone above the name whose servers are known.
Zones(f) ==
  {zone \in {Suffix(f.name, k) : k \in 0..Len(f.name)} :
     Holds(db, <<zone, "NS">>, {"NS"})}
Closest(f) == {z \in Zones(f) : \A y \in Zones(f) : Len(y) <= Len(z)}
Misses(c) ==
  /\ Runs(c, "enter") /\ ~TooFar(Top(c)) /\ Top(c).type # "ANY"
  /\ Hits(Top(c)) = {} /\ Cnames(Top(c)) = {}

\* The servers of a zone in the order in which they are asked: from the one
\* drawn, those with an address first, then the names that are not below the
\* zone; all of it retry_cycles times.
IsAddress(server) == server.glue # NoIp
Plan(servers, first, zone) ==
  LET turned == SubSeq(servers, first, Len(servers))
                  \o SubSeq(servers, 1, first - 1)
      outside(s) == ~IsAddress(s) /\ ~InBailiwick(s.name, zone)
  IN FlattenSeq([i \in 1..retry_cycles |->
                   SelectSeq(turned, IsAddress) \o SelectSeq(turned, outside)])

\* The list is copied, as the lock will be let go; hardcoded servers count as
\* one when the first is drawn.
AskZone(c) ==
  /\ Misses(c) /\ Silent
  /\ \E zone \in Closest(Top(c)) :
       LET f == Top(c)
           key == <<zone, "NS">>
           e == db.hash[key]
       IN \/ /\ e.age = 2 /\ ~e.hard
             /\ Move(c, Unlink(db, key), With(thread[c].stack, Again(f)))
          \/ /\ e.age # 2 \/ e.hard
             /\ \E i \in 1..(IF e.hard THEN 1 ELSE Len(e.chain)) :
                  Move(c, MoveToTop(db, key),
                       With(thread[c].stack,
                            [f EXCEPT !.at = "ask", !.zone = zone,
                                      !.plan = Plan(Values(e), i, zone)]))

Unanswered(c, value) ==
  /\ Move(c, db, Returned(thread[c].stack, TRUE, value))
  /\ IF Top(c).want = "client" /\ handle_noreply # 0
     THEN Send(c, Shows("noreply", Top(c).name, Top(c).type, << >>, NoIp))
     ELSE Silent

\* Here a PTR record that is wanted stays an empty string.
NoZone(c) ==
  /\ Misses(c) /\ Zones(Top(c)) = {}
  /\ Unanswered(c, IF Top(c).want = "ptr" THEN Root ELSE NoIp)

-----------------------------------------------------------------------------
(***************************************************************************)
(* Asking the servers.                                                     *)
(***************************************************************************)
\* Mutant: the one that failed is asked again later.
Onward_ever(f) ==
  [f EXCEPT !.at = "ask", !.plan = Append(Tail(@), Head(@)),
            !.got = Nothing]
Onward(f) ==
  [f EXCEPT !.at = "ask", !.plan = Tail(@), !.got = Nothing]

Asking(c) == Runs(c, "ask") /\ Top(c).plan # << >>
Usable(ip) == ip \notin Spammer \union {NoIp, Nowhere}

\* query_nameserver until select().
AskServer(c, f, ip) ==
  /\ Silent
  /\ \/ /\ Usable(ip)
        /\ Move(c, db, With(thread[c].stack,
                            [f EXCEPT !.at = "waiting", !.server = ip]))
     \/ /\ ~Usable(ip) \/ CanFail
        /\ Move(c, db, With(thread[c].stack, Onward(f)))

AskAddress(c) ==
  /\ Asking(c) /\ IsAddress(Head(Top(c).plan))
  /\ AskServer(c, Top(c), Head(Top(c).plan).glue)

\* Mutant: the address of the server goes to the client.
AskGlueless_client(c) ==
  /\ Asking(c) /\ ~IsAddress(Head(Top(c).plan)) /\ Silent
  /\ LET f == Top(c)
     IN Move(c, db, Call(thread[c].stack, [f EXCEPT !.at = "glueless"],
                         Frame(Head(f.plan).name, "A", f.sent + 1,
                               f.level + 1, "client")))
AskGlueless(c) ==
  /\ Asking(c) /\ ~IsAddress(Head(Top(c).plan)) /\ Silent
  /\ LET f == Top(c)
     IN Move(c, db, Call(thread[c].stack, [f EXCEPT !.at = "glueless"],
                         Frame(Head(f.plan).name, "A", f.sent + 1,
                               f.level + 1, "ip")))

\* A name server that leads too deep is the end of the whole query.
Glueless(c) ==
  /\ Runs(c, "glueless")
  /\ \/ /\ Top(c).got.ok
        /\ AskServer(c, [Top(c) EXCEPT !.got = Nothing], Top(c).got.value)
     \/ /\ ~Top(c).got.ok /\ Silent
        /\ Move(c, db, Returned(thread[c].stack, FALSE, NoIp))

NoReply(c) == Runs(c, "ask") /\ Top(c).plan = << >> /\ Unanswered(c, NoIp)

-----------------------------------------------------------------------------
(***************************************************************************)
(* The rest of query_nameserver, from the end of select().                 *)
(***************************************************************************)
Gets(c) ==
  lock = Free /\ thread[c].stack # << >> /\ Top(c).at = "waiting"

\* Nothing came, or nothing that can be used.
GetsNothing(c) ==
  /\ Gets(c) /\ Silent
  /\ Move(c, db, With(thread[c].stack, Onward(Top(c))))

\* Answers, but none to the question.  Each is compared with the question and
\* with its name as CNAME; where the packet ends with the last one, the type
\* of the query is not put back.
GetsOther(c) ==
  /\ Gets(c) /\ Silent
  /\ LET f == Top(c)
     IN /\ Says_other \in Says(f.server, f.name, f.type)
        /\ \/ Move(c, db, With(thread[c].stack, Again(f)))
           \/ Move(c, db, With(thread[c].stack, Onward([f EXCEPT !.type = "CNAME"])))

GetsAnswer(c) ==
  /\ Gets(c) /\ Silent
  /\ LET f == Top(c)
     IN \E said \in Says(f.server, f.name, f.type) :
          /\ said.kind = "answer"
          /\ Move(c, AddAnswer(db, <<f.name, f.type>>, said.data),
                  With(thread[c].stack, Again(f)))

\* handle_negative_data: a SOA record instead of a referral.
GetsNegative(c) ==
  /\ Gets(c) /\ Silent
  /\ LET f == Top(c)
     IN /\ Says_negative \in Says(f.server, f.name, f.type)
        /\ Move(c, AddRr(db, <<f.name, f.type>>, "NEG", NoIp, FALSE),
                With(thread[c].stack, Again(f)))

\* A CNAME is put in the cache and its target is looked up at once, with the
\* counts of what was asked at 0 again.  The type of the query is CNAME
\* until that has ended.
Below(name) == name # << >> /\ Last(name) = "arpa"
GetsCname(c) ==
  /\ Gets(c) /\ Silent
  /\ LET f == Top(c)
         key == <<f.name, "CNAME">>
         chase(target) ==
           IF Below(f.name) THEN Frame(target, "PTR", 0, 0, "ptr")
           ELSE Frame(target, "A", 0, 0, "ip")
     IN \E said \in Says(f.server, f.name, f.type) :
          LET d == AddRr(db, key, "RR", said.target, FALSE)
          IN /\ said.kind = "cname"
             /\ IF Holds(d, key, {"RR"})
                THEN Move(c, MoveToTop(d, key),
                          Call(thread[c].stack,
                               [f EXCEPT !.at = "chase", !.type = "CNAME",
                                         !.asked = f.type],
                               chase(said.target)))
                ELSE Move(c, d, With(thread[c].stack, Again(f)))

\* When that fails the type is not put back.
Chased(c) ==
  /\ Runs(c, "chase") /\ Silent
  /\ LET f == Top(c)
         d == IF f.got.value = NoIp THEN db
              ELSE AddIp(db, <<f.name, "CNAME">>, f.got.value)
     IN \/ /\ f.got.ok
           /\ Move(c, d, With(thread[c].stack,
                              Again([f EXCEPT !.type = f.asked])))
        \/ /\ ~f.got.ok
           /\ Move(c, db, With(thread[c].stack, Onward(f)))

\* A referral: the addresses given, then the names of all servers.  One that
\* gives the address of the server itself is lame.
GetsReferral(c) ==
  /\ Gets(c) /\ Silent
  /\ LET f == Top(c)
         stack == thread[c].stack
         add(zone, servers) == AddClosers(db, zone, servers)
     IN \E said \in Says(f.server, f.name, f.type) :
          /\ said.kind = "referral"
          /\ LET follows == ~root_or_upstream /\ InBailiwick(said.zone, f.zone)
                 lame == {i \in DOMAIN said.glue : said.glue[i].glue = f.server}
                 names == [i \in DOMAIN said.names |->
                             Server(said.names[i], NoIp)]
             IN \/ ~follows /\ Move(c, db, With(stack, Onward(f)))
                \/ \E i \in lame :
                     /\ follows /\ \A j \in lame : i <= j
                     /\ Move(c, add(said.zone, SubSeq(said.glue, 1, i - 1)),
                             With(stack, Onward(f)))
                \/ /\ follows /\ lame = {}
                   /\ Move(c, add(said.zone, said.glue \o names),
                           With(stack, Again(f)))

-----------------------------------------------------------------------------
(***************************************************************************)
(* launch_thread, in the main thread, and recurse_thread.                  *)
(***************************************************************************)
\* What answers at once: the type asked for, or any entry for a CNAME.
Held(key) == Holds(db, key, {"RR", "NEG"})
Ready(key) == Held(key) /\ ~Dead(db.hash[key], key)
Seen(d, key) == IF Held(key) THEN MoveToTop(d, key) ELSE d

AnswerAtOnce(c, q, key, d) ==
  /\ Ready(key)
  /\ LET e == db.hash[key]
     IN Send(c, ReplyFrom(q.name, IF e.kind = "NEG" THEN key[2] ELSE q.type, e))
  /\ db' = AfterReply(MoveToTop(d, key), key)
  /\ thread' = [thread EXCEPT ![c].query = q, ![c].state = "done"]
  /\ UNCHANGED main

LaunchThread(c) ==
  /\ main = Free /\ lock = Free /\ thread[c].state = "none"
  /\ \E q \in Query[c] :
       LET own == <<q.name, q.type>>
           alias == <<q.name, "CNAME">>
       IN \/ AnswerAtOnce(c, q, own, db)
          \/ ~Ready(own) /\ AnswerAtOnce(c, q, alias, Seen(db, own))
          \/ /\ ~Ready(own) /\ ~Ready(alias)
             /\ main' = c
             /\ thread' = [thread EXCEPT ![c].query = q]
             /\ db' = Seen(Seen(db, own), alias)
             /\ Silent
  /\ UNCHANGED <<lock, running, aged>>

\* The count of threads is one that threads make when they begin.
SpawnThread(c) ==
  /\ main = c /\ main' = Free
  /\ \/ /\ running > maximum_num_of_threads
        /\ Send(c, Shows("refused", thread[c].query.name,
                         thread[c].query.type, << >>, NoIp))
        /\ thread' = [thread EXCEPT ![c].state = "done"]
     \/ /\ running <= maximum_num_of_threads
        /\ thread' = [thread EXCEPT ![c].state = "spawned"]
        /\ Silent
  /\ UNCHANGED <<db, lock, running, aged>>

BeginThread(c) ==
  /\ thread[c].state = "spawned"
  /\ thread' = [thread EXCEPT ![c].state = "begun"]
  /\ running' = running + 1
  /\ UNCHANGED <<db, lock, main, reply, deep, aged>>

RecurseThread(c) ==
  /\ thread[c].state = "begun" /\ lock = Free /\ lock' = c
  /\ thread' = [thread EXCEPT
                 ![c].state = "recurses",
                 ![c].stack = <<Frame(thread[c].query.name,
                                      thread[c].query.type, 0, 0, "client")>>]
  /\ UNCHANGED <<db, main, running, reply, deep, aged>>

EndThread(c) ==
  /\ thread[c].state = "ends"
  /\ thread' = [thread EXCEPT ![c].state = "done"]
  /\ running' = running - 1
  /\ UNCHANGED <<db, lock, main, reply, deep, aged>>

\* Time goes by while nobody has the lock: 0 to 1 is the time a CNAME may
\* lack its address.
Age(key) ==
  /\ aged < MaxAging /\ aged' = aged + 1 /\ lock = Free
  /\ ~db.hash[key].hard
  /\ \E age \in (db.hash[key].age + 1)..2 :
       db' = [db EXCEPT !.hash[key].age = age]
  /\ UNCHANGED <<lock, main, thread, running, reply, deep>>

-----------------------------------------------------------------------------
(***************************************************************************)
(* The specification.                                                      *)
(***************************************************************************)
\* init_cache and add_hardcoded_ns: not in the fila.
InitialHash ==
  LET zones == SetToSeq(DOMAIN Hardcoded)
      before(z) == LET i == CHOOSE i \in DOMAIN zones : zones[i] = z
                   IN FoldLeft(LAMBDA n, y : n + Len(Hardcoded[y]), 0,
                               SubSeq(zones, 1, i - 1))
  IN [key \in {<<z, "NS">> : z \in DOMAIN Hardcoded} |->
        Entry("NS", [i \in DOMAIN Hardcoded[key[1]] |->
                       Item(before(key[1]) + i,
                            Server(Root, Hardcoded[key[1]][i]))], TRUE)]

Init ==
  /\ db = [hash |-> InitialHash, fila |-> << >>, custodian_mode |-> 0,
           exited |-> FALSE]
  /\ lock = Free /\ main = Free /\ running = 0 /\ aged = 0 /\ deep = {}
  /\ thread = [c \in Client |-> [state |-> "none", stack |-> << >>,
                                 query |-> CHOOSE q \in Query[c] : TRUE]]
  /\ reply = [c \in Client |-> << >>]

Recurse(c) ==
  \/ TooDeep(c) \/ AnyA(c) \/ AnyMx(c) \/ AnyEnds(c) \/ AnyFails(c)
  \/ FromCache(c) \/ AskZone(c) \/ NoZone(c)
  \/ AskAddress(c) \/ AskGlueless(c) \/ Glueless(c)
  \/ NoReply(c) \/ Chased(c)
FromNetwork(c) ==
  \/ GetsNothing(c) \/ GetsOther(c) \/ GetsAnswer(c) \/ GetsNegative(c)
  \/ GetsCname(c) \/ GetsReferral(c)
Thread(c) == BeginThread(c) \/ RecurseThread(c) \/ EndThread(c)

\* All is done; the clients of this small world do not ask again.
Done ==
  /\ \A c \in Client : thread[c].state = "done"
  /\ UNCHANGED vars

\* What goes on by itself, once a query has come.
Works ==
  \E c \in Client : SpawnThread(c) \/ Thread(c) \/ Recurse(c) \/ FromNetwork(c)

Next ==
  \/ \E c \in Client : LaunchThread(c)
  \/ Works
  \/ \E key \in DOMAIN db.hash : Age(key)
  \/ Done

Spec == Init /\ [][Next]_vars

-----------------------------------------------------------------------------
(***************************************************************************)
(* Properties.                                                             *)
(***************************************************************************)
Keys == DOMAIN db.hash

\* The types of the variables; no frame goes further than one over a limit.
TypeOK ==
  /\ lock \in Client \union {Free} /\ main \in Client \union {Free}
  /\ running \in 0..Cardinality(Client) /\ aged \in 0..MaxAging
  /\ deep \subseteq Client /\ db.exited \in BOOLEAN
  /\ \A k \in Keys : db.hash[k].kind \in {"RR", "NEG", "NS"}
                     /\ db.hash[k].age \in 0..2 /\ db.hash[k].chain # << >>
  /\ \A c \in Client :
       /\ thread[c].state \in {"none", "spawned", "begun", "recurses", "ends",
                               "done"}
       /\ thread[c].stack # << >> <=> thread[c].state = "recurses"
       /\ \A i \in DOMAIN thread[c].stack :
            thread[c].stack[i].level \in 0..(max_glueless_level + 1)

\* The fila has each entry that is not hardcoded, once, and points to the
\* first record of its chain: whatever the custodian takes from it is found
\* in the hash ("I thought I fixed this bug", before exit(1)), and destroyed
\* whole (mhash_put_data, unlink_rr, unlink_closer, add_closer_jsip,
\* udpsuccess).
FilaMatches ==
  LET listed == {[key |-> k, id |-> FirstId(db, k)]
                   : k \in {k \in Keys : ~db.hash[k].hard}}
  IN /\ ~db.exited
     /\ Range(db.fila) = listed
     /\ Len(db.fila) = Cardinality(listed)

\* The cache stays below cache_max as long as there is something to destroy,
\* however many threads add to it (custodian).
CacheBounded == Cardinality(Keys) < cache_max \/ db.fila = << >>

\* A client gets one reply at most, whatever was looked up for it: recurse_call
\* calls itself with ipret or ptrret, and a call with either must not reply.
OneReply == \A c \in Client : Len(reply[c]) <= 1

\* The records under a name and type are those of one answer, all of them and
\* once each, also when two threads have asked the same (query_nameserver).
NoMixedAnswers ==
  \A k \in Keys :
    db.hash[k].kind = "RR" /\ k[2] # "CNAME" =>
      \E s \in Address : \E said \in Says(s, k[1], k[2]) :
        /\ said.kind = "answer"
        /\ Len(said.data) = Len(db.hash[k].chain)
        /\ Range(said.data) = Range(Values(db.hash[k]))

\* A thread that ends without a reply to its client has gone over a limit
\* (or it was ANY, for which nothing was found; or the mararc asks for it):
\* one server, one CNAME, or one name server that fails is not enough
\* (recurse_call, query_nameserver).
SilentOnlyTooDeep ==
  \A c \in Client :
    thread[c].state = "done" /\ reply[c] = << >>
      => c \in deep \/ handle_noreply = 0 \/ thread[c].query.type = "ANY"

\* What launch_thread owes to its client: one reply, or none and then for
\* one of these reasons, however many calls its thread made.
RepliedOnce == OneReply /\ SilentOnlyTooDeep

\* Every query that launch_thread takes up comes to its end, as long as there
\* is always some thread that goes on: no server is asked for ever and no call
\* calls itself for ever (recurse_call).  The lock is given to someone, and
\* select() ends after timeout_seconds.
EveryRequestEnds ==
  LET idle == \A c \in Client : main # c /\ thread[c].state \in {"none", "done"}
  IN []<>idle \/ []<><<TRUE>>_thread
       => \A c \in Client : main = c ~> thread[c].state = "done"

\* The reply has the question of the client in it (launch_thread changes the
\* type of the query and restores it; so does query_nameserver).
QuestionKept ==
  \A c \in Client : \A i \in DOMAIN reply[c] :
    /\ reply[c][i].name = thread[c].query.name
    /\ reply[c][i].type \in {thread[c].query.type} \union
         (IF thread[c].query.type = "ANY" THEN {"A", "MX"} ELSE {})

\* "The maximum number of threads or processes that MaraDNS is allowed to run
\* at the same time." (doc/en/source/mararc.ej:602)
ThreadsBounded == running <= maximum_num_of_threads

\* "The root name server IPs never expire" and "will never be zapped"
\* (add_closer_ipv4pair).
HardcodedStay == \A zone \in DOMAIN Hardcoded : <<zone, "NS">> \in Keys

\* The address that goes with a CNAME is one of the name the CNAME has now.
TargetHasIp ==
  \A k \in Keys :
    LET e == db.hash[k]
    IN e.kind = "RR" /\ k[2] = "CNAME" /\ e.ip \notin {NoIp, Nowhere} =>
         \E s \in Address : \E said \in Says(s, e.chain[1].value, "A") :
           said.kind = "answer" /\ e.ip \in Range(said.data)
=============================================================================
