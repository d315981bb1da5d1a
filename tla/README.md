# A TLA+ verification of MaraDNS and Deadwood

TLA+ modules that model the two servers of MaraDNS, TLC configurations that
check them on small instances, and proofs that TLAPS checks for every
instance.  Deadwood's files (`Dw*.c`) are under `src/deadwood-3.2.02/src/`,
all others under `src/`.

Contents: 1 the system, 2 the modules, 3 the runs, 4 the proofs, 5 where code
and documentation differ, 6 what is not modelled, 7 what could come next.

## 1. The system

MaraDNS 1.4 is two servers.  `maradns` answers with authority from zone files
(`server/MaraDNS.c`) and has an old recursive resolver built in
(`server/recursive.c`); `zoneserver` gives its zones to others over TCP and
`fetchzone` fetches them.  Deadwood 3.2 (`src/deadwood-3.2.02`) is the
recursive, caching resolver that replaces the old one.

### 1.1 Components

| component | state | operations | called by |
|---|---|---|---|
| Deadwood's cache (`DwHash.c`) | hash of records; `size`, `max`; the *fila*, a circular list by last use | `dwh_add`, `dwh_get`, `dwh_zap`, eviction in `dwh_place_new` | every handler |
| cache file (`DwHash.c`, `DwSys.c`) | one file | `dwh_write_hash` on signals, `dwh_read_hash` at start | `bigloop`, `main` |
| pending queries (`DwSocket.c`, `DwUdpSocket.c`) | `rem[]`, `b_remote[]`, the inflight hash | a client's packet, an upstream packet, a timeout | `bigloop` |
| recursion (`DwRecurse.c`) | writes NS referrals and CNAMEs into the cache, child slots into `rem[]` | a reply: answer, referral, CNAME chain; results of children | the UDP code, which it calls back |
| DNS over TCP (`DwTcpSocket.c`) | `tcp_pend[]`, seven states | accept, read, to UDP, reply, relay of truncated answers | `bigloop`, the UDP code |
| compression (`DwCompress.c`) | none | packet to cache form and back | the UDP code |
| zone files (`parse/Csv2_*.c`) | the stream, origin, TTL, origin stack, the buffer before the SOA record | `csv2_read_rr`, `csv2_add_rr` | `maradns` at start, `zoneserver` for each transfer |
| the big hash (`server/MaraBigHash.c`, `MaraAnyChain.c`) | chains of records, pointers to NS and address records, ANY lists; as the cache of the old resolver also a fila | `mhash_add_rr` and others | loading, replies, the resolver |
| authoritative lookup (`server/MaraDNS.c`, `udpsuccess.c`) | rotates chains | `proc_query`, `udpany`, `udpsuccess`, delegation, stars | the server's loop |
| old resolver (`server/recursive.c`) | threads, one lock, the cache | `launch_thread`, `recurse_call`, `query_nameserver`, the custodian | `proc_query` |
| zone transfer (`tcp/zoneserver.c`, `fetchzone.c`) | children and their count | accept, fork, wait, serve a zone, forward a query | clients |
| MaraDNS's codec (`dns/`) | none | `compress_data`, `decompress_data` | replies, the old resolver |
| strings, configuration, random numbers, tools | none that a handler shares | | all |

`PROJECT.json` lists all of them with their status.

### 1.2 How they interact

Deadwood's `bigloop` is one thread.  Each turn it waits in `select()`, runs a
handler for each readable socket and then `kill_expired`.  A handler is never
interrupted, so what is concurrent is not code but *slots*: pending queries
whose packets and timeouts come in any order, which point at each other by
index (`inflight`, `child_id`, `glueless_conn`, `tcp_num`) while slots are reset
and reused.  One packet can complete a child, whose completion completes its
parent, each resetting its slot while the caller still loops over its clients.

In `maradns` zone files go through `csv2_read_rr` (text to records) and
`csv2_add_rr` into the big hash; `zoneserver` uses the same two functions but
sends the records.  What it does not know `maradns` gives to a thread of the old
resolver; all threads hold one lock except in `select()`.  A message on its way
from `maradns` through Deadwood to a client passes four conversions: compressed,
decompressed into the cache, compressed for the client, decompressed by it.

### 1.3 What is hard

Indices and pointers that outlive what they name; descriptors held in two
places; timeouts that race with answers; restarts with another configuration;
one handler calling another back in the middle of a loop; the order of records in a zone
file and of zones in a hash; children of a process that end together; parsers
that leave one character for the next; pointers into packets that are still being
written.  `PROJECT.json` lists 40 such places under `hazards`.

### 1.4 What makes each component correct

* **cache**: fila and hash hold the same records up to immutable ones; the
  maximum is kept; no expiry is invented; a restart keeps the order of use.
* **pending queries**: `inflight` names a slot busy with that query; no descriptor
  leaks; nobody who waits is forgotten or answered twice; in the end all are answered.
* **recursion**: a child's result goes to a slot that asked for it; servers of a name
  are learnt from servers above it; referrals end.
* **TCP**: a client gets the bytes of one reply in their order; slots come free.
* **zone files**: the records that are read are those that were written, with the
  origin and TTL of their place.
* **authoritative server**: pointers between records stay alive; authority wins over
  glue in every order of loading; NXDOMAIN means that nothing is there; rotation
  loses no record.
* **old resolver**: each entry of the cache is one answer, and on the fila; each query
  ends; silence means that a limit was passed.
* **zone transfer**: what is fetched is what is served; children are counted;
  everyone is served.
* **codecs**: each reads what the one before it wrote.

## 2. The modules

| module | models | composed from |
|---|---|---|
| `FilaOrder` | what the fila operations do to a sequence | |
| `FilaQueue` | abstract specification of the fila: a queue by last use | `FilaOrder` |
| `DwFila` | the pointers of the fila; refines `FilaQueue` | `INSTANCE FilaQueue` |
| `DwHash` | the cache, its file, start and end of the process | `FilaOrder` |
| `DwRemote`, `MCDwRemote` | `rem[]`, `b_remote[]`, inflight, children, timeouts, clients | |
| `DwAnswer`, `MCDwAnswer` | what Deadwood makes of a reply: sections, bailiwick, CNAME chains, referrals, glue, choice of servers, what is cached | |
| `DwTcp`, `MCDwTcp` | `tcp_pend[]`, with the part of `rem[]` that answers it | |
| `Wire` | what a message is, and every form RFC 1035 lets a server send it in | |
| `MaraCodec` | `compress_data`, `decompress_data` | `Wire` |
| `DwCodec` | `dwc_decompress`, `dwc_compress` and the packets around them | `Wire` |
| `Journey`, `MCJourney` | a message from a server through Deadwood's cache to a client | `INSTANCE MaraCodec`, `DwCodec` |
| `Csv2` | `csv2_read_rr` and all it calls | |
| `Csv2Zone`, `MCCsv2` | the author of a zone file, by the rules of the manual, and the loop that reads it | `Csv2` |
| `MaraZone` | loading: `csv2_add_rr` and the big hash with its pointers | |
| `MaraQuery`, `MCMaraQuery` | `proc_query` over what was loaded | `MaraZone` |
| `ZoneFile` | `csv2_add_rr` as its two users have it | |
| `ZoneServer`, `MCZoneServer` | accept, fork, wait, a transfer, its client, and loading what was fetched | `ZoneFile` |
| `MaraRecurse`, `MCMaraRecurse` | the threads, the lock, the cache and the custodian | `FilaOrder` |
| `FilaOrder_proofs` | lemmas on induction over numbers, on sequences, and on what the fila operations do to one | `FilaOrder`, TLAPS |
| `DwFila_proofs`, `DwHash_proofs` | theorems on the fila and the cache | their module, `FilaOrder_proofs` |
| `DwRemote_proofs` | theorems on slots, sockets and clients | `DwRemote`, TLAPS |
| `MaraRecurse_proofs`, `MaraQuery_proofs` | theorems on the two parts of maradns | their module, `FilaOrder_proofs` |
| `ZoneServer_proofs` | theorems on children, transfers and SOA replies | `ZoneServer`, `FilaOrder_proofs` |
| `DwAnswer_proofs` | theorems on what answers make Deadwood ask | `DwAnswer`, TLAPS |

Operators named `X_something` with a comment "Mutant" are bugs one could make
in `X`; no specification uses them.  They show that each property can fail.

### 2.1 DwFila and DwHash

`DwFila` keeps `next`, `last` and `head` (`hash->fila`) as the C does; the
refinement mapping reads the ring from `head` along `next`.  `DwHash` then uses the
queue.  There a record is its expiry and its `immutable` flag.  `pc` is where the
process is: `off`, `reading` the cache file, `configuring` (adding server entries),
`refused` (`dw_fatal`), `serving`, `writing`.  `ReadElement` and `WriteElement` are
one round of the loops of `dwh_read_hash` and `dwh_write_hash`, so that `Crash` can
fall between them.  `HeapByte` is what the `immutable` byte of a record read from the
file may be, because `dwh_get_hash_element` does not set it.

### 2.2 DwRemote

A slot is a record `[sock, query, retries, depth, child, live, locals]`.  `sent[f]` is the
network's view of descriptor `f`; descriptors are given out lowest first, as `socket()` does,
because reuse is what makes a stale entry bite.  `stack` is the C call stack: a
frame for each call that can call back.  Outside events need an empty stack.

| action | code |
|---|---|
| `AskCached`, `AskChased`, `AskAttach`, `AskRefused`, `AskNew`, `Forwarded` | `get_local_udp_packet`, one action per outcome |
| `Connect`, `Spawned` | `make_remote_connection`, `dwx_do_glueless_new` |
| `Receive`, `ReceiveStray` | `process_results`, `get_remote_udp_packet` |
| `ReplyBad`, `ReplyBadIp`, `ReplyRefer`, `ReplyCname`, `ReplyTo...`, `ReplyDone` | `get_rem_udp_packet_core` for one local |
| `CnameReply`, `SendTo...`, `SendDone` | `dwx_make_cname_reply` |
| `Retry`, `Resurrect`, `FailNoReply` | `handle_expired`, `kill_expired` |
| `Age` | the end of an inflight entry, of a TTL, of a cached CNAME |
| `Leave` | external: a client that is done, or has given up, and asks again |

An answer is the query whose data it carries; `Says[q]` is what servers may
say to `q`, `NsOf[q]` where it may be sent (`"ip"`, or a name to be looked up first).
Deadlines are not clocks: a slot in use may expire at any moment.

### 2.3 DwAnswer

Here packets have sections and records, and one question is worked on at a
time, with its children on `stack` (`DwRemote` has the interleavings).
`Receive` is `dwx_dissect_packet` to `dwx_cache_reply`: which records of the answer section
are kept (`Kept`), whether the packet is an answer, a referral or the beginning of a chain of CNAMEs
(`ReplyType`), whether its authority section is in bailiwick, which servers are found in it, with glue or
by name.  `Connect` chooses a server; a name without an address becomes a child.
`ComposeReplies` is `dwx_make_cname_reply` for everyone that waits for the end of a chain.
`Packets` is any mixture of the world's records.  `Heap` is what `malloc` left in the
array of record types, of which seven are read whatever the packet has.
Left out: capital letters, TTLs, AAAA glue, resurrections, truncation, lists of over 31 servers.

### 2.4 DwTcp

A function of the code is an operator on worlds that gives the set of worlds it may
leave (how many bytes `recv()` and `send()` take is a choice), so that an action is a
whole turn of `bigloop` for one slot.  Deadlines are ticks here, because the properties depend
on the UDP side's being earlier than the slot's own.  `outlived` is a history
variable: it becomes true when a truncated query times out after its client was served
over TCP, which is when `tcp_num` goes stale (section 5).

### 2.5 Wire, MaraCodec, DwCodec, Journey

A packet is a sequence of cells: a byte of a header, a length, a label, a pointer.
`Written(message)` has each form in which RFC 1035 (and 3597 for types it does not know)
lets a server send a message: each name whole, or cut at any label and continued by any
pointer that reads the same.  `MaraCodec` and `DwCodec` are the two codecs with their
tables of record types, their limits, and in Deadwood's case the two signs of
offsets (into the question, into the records).

### 2.6 Csv2, Csv2Zone

`Csv2` has one operator for each function of the reader, from `csv2_readchar` on, on a
record that is the stream and the state together.  A cell of text is a character or a
run of characters that all functions treat alike.  `Csv2Zone` writes a file entry by entry
in one *layout* (what separates fields, what ends lines, comments or not, the
value of `csv2_tilde_handling`), keeping what the manual says that it means (`means`), and then reads it
with `ReadNext`.  A layout with `scribbled` writes records with any few characters
between them instead, to see what counts as a separator.

### 2.7 MaraZone, MaraQuery

C pointers are the subject, so records are objects of an arena and a chain is a
sequence of them; `ns` and `any` hold objects, and see the chain from there on.
`ReadLine` takes one line of the open file through `csv2_add_rr`, `mhash_add_rr` and the
ANY lists; zones are opened in any order (`unread`).  `ProcQuery` is the whole of
`proc_query`: the name itself, ANY, CNAME, delegation, NXDOMAIN and "not there"
replies, star records and stars at the end, the default zone.

### 2.8 ZoneFile, ZoneServer

`ZoneFile` is `csv2_add_rr` for both users (`Served`: what a file is in the hash).
`ZoneServer` has `main()` (`accept`, `wait`, `fork`, `count`, `reap`), the signal handler
(`HandleChilds`; several deaths are one signal), and for each connection a child that reads
the query, answers the SOA request, and sends the zone in rounds.  Clients may leave, stay silent,
or ask for something else that is forwarded.  A fetched zone is loaded again by
`Served`, with the other server's addresses; `Output` is what `fetchzone` writes,
where a record from outside of the zone is a comment, which the parser makes nothing of.
`Reading` is a recursive function over the lines, as `csv2_parse_zone` is a loop over them; the child reads the
same lines by the other method, a step for each.

### 2.9 MaraRecurse

A thread has a stack with a frame for each `recurse_call` that waits for another;
`lock` is `big_lock`, let go only in `select()`.  `db` has the cache with chains, closer
servers, negative entries, the fila and `custodian_mode`.  An action is what a
thread does from one unlock, call or return to the next.

## 3. The runs

All run in minutes with two workers.  Bounds are named in the modules and set in the cfg.

| run | world | checks | distinct states |
|---|---|---|---|
| `fila` | 4 nodes | `RingWhole`, `RefinesQueue` | 3,992 |
| `hash` | 4 keys, maximum 4, one dwood3rc | `WithinMaximum`, `FilaMatchesHash`, `ServersStay`, `DropsOnlyTheOldest`, `NothingInvented`, `RestartKeepsOrder` | 150,192 |
| `remote_merge` | 3 clients, 2 queries, one slot free at a time, 1 retry, all kinds of replies | `InflightPointsToQuery`, `MergedAnsweredTogether`, `AnsweredOnce` | 1,056,705 |
| `remote_nested` | 4 queries: `www` is an alias of its own name server `ns`, which answers or is an alias of `web`, as `ftp` always is | `SocketsOwned`, `ChildServesParent`, `AnswersBelong`, `RemoteListed` | 1,207,967 |
| `remote_live` | name servers that need themselves, calls that fail, 1 retry | `NoClientForgotten`, `EveryoneAnswered` | 201,359 |
| `dw_answer` | a name, its alias in another zone, and a server named in that zone | `AskedOfAncestors`, `ServersFromAbove`, `ReferralsBounded` | 115,461 |
| `tcp` | 2 clients for 1 TCP slot and 1 pending query | `BytesInOrder`, `ClientsReleased` | 609,394 |
| `journey` | messages with every form of record, all ways to compress them | `ServedReads`, `ClientReads` | 31,503 |
| `csv2` | files of 3 lines: a record of any type among addresses and slash commands, 20 layouts; 4 values of `csv2_tilde_handling` with any separators | `ReadsAsWritten`, `TildesSeparate` | 617,581 |
| `maradns` | two zones, one below the other, and a default zone, 4 mararc files, 15 queries | `NsPointersLive`, `AnyListsTheName`, `AuthorityWins`, `NxdomainHonest`, `ZonesAnswered`, `EveryRecordVisible` | 12,312 |
| `zoneserver` | 3 clients, 5 files | `FetchedIsServed`, `ChildrenCounted`, `SoaReplyFits`, `EveryoneServed` | 232,414 |
| `recursive` | 2 clients, a zone whose servers are glueless, a CNAME, ANY | `FilaMatches`, `NoMixedAnswers`, `RepliedOnce`, `EveryRequestEnds` | 767,658 |

Some properties hold in some worlds only, and section 5 has the worlds where they
fail: `WithinMaximum` needs heap bytes that are not 1 and, after a restart, no more servers than before; `RemoteListed` needs
`num_retries` 0 or servers with addresses; `NoClientForgotten` needs `max_inflights` 1 and names that
are not CNAMEs; `AnsweredOnce` needs resurrections off or clients that are not merged; `MergedAnsweredTogether` needs names that
are not CNAMEs; `AnswersBelong` needs names whose CNAMEs lead to the same end, or timeouts later than the children; `SoaReplyFits` needs files in which no delegation follows the
zone's NS records directly; `AskedOfAncestors`, `ServersFromAbove` and `ReferralsBounded` need authority sections of at most `GLUE_RANGE` records; `ClientReads` needs names without two equal labels in a row at their end.

**Bounds.**

* *fila, cache.*  The corner cases are rings of one, two and three nodes and a node that is neither head nor
  last: four.  The cache needs an immutable record, one read from the file and one added since: four keys.
* *DwRemote.*  The hazards involve a slot, its child, and the child's child or a stranger that
  reuses one of the two: three slots, one descriptor more because a new socket opens before the old
  one closes.  A third client shows what happens after the loop has continued.  `MaxDepth` (32) is 1.
  `Expiring` names the queries whose answers get old in the cache; a world in which more of them do is larger and has no other handlers.
  In `remote_nested` a child may end after its parent's slot is a stranger's, with data that would be wrong for the
  stranger (`www` and `ftp`); such a child comes through `dwx_incomplete_cname_done`, which looks at `child_id`.  The other way
  in, `dwx_send_glueless_cname_upstream`, does not, and there the stranger is one that the data is right for: where it is not,
  `AnswersBelong` is violated (`MCDwRemote_reused.cfg`).
* *DwAnswer.*  Three labels give referrals down, up, sideways and to the zone itself; the server's name
  is in another zone and may be an alias of the first, so every kind of child happens.
  `MaxReplies` 3 is a referral, the address of its server, and an answer.  `MaxDepth` 3, `Room` 5,
  `GlueRange` 2 (31), `NumRetries` 1.  Deadlock is off because the process may die (section 5).
* *DwTcp.*  One slot for two clients is what makes `tcp_num` stale.  Bytes come and go whole or by halves; replies
  have 2 bytes of data, questions 17; timeouts are 1 tick each, one retry, one referral (`MaxReferrals`).
  `Leavers` may close before their reply: one of the two in the run, both in the configurations of section 5.
* *Journey.*  Up to two records over the labels w, c and a long one, so that names share ends, a
  label does not fit, and a pointer lands on a pointer.  `MaxPoints` 20 and the room of the buffers are
  above what the messages need; `MCJourney_full.cfg` has less.  A journey ends: deadlock is off.
* *Csv2.*  Three lines, at most one of them not a plain address or a command, are what state between records needs: a
  command, the record, and the one after it.  `/opush` twice and `/opop` are in an
  included file.  Separators are up to two characters of blank, tilde, `#` and newline, and some of three.
  A file ends: deadlock is off.
* *MaraQuery.*  Each zone has a file in order and files that are not; both may serve the name of a server that one
  delegates to.  `max_ar_chain` is 1 where rotation is looked at.
* *ZoneServer.*  One connection fetches (and may leave), one stays silent, one asks for something else;
  `maxprocs` 1 lets the server wait for children.  `FirstRead` 3 (29), `Round` 2 (20) and `BufferMax` 8 (66) are met
  by files of four and five lines.  Clients connect once: deadlock is off.
* *MaraRecurse.*  `cache_max` 5 and `Axed` 1 (8) make the custodian destroy what other threads use.  Two threads, six
  queries and one level of glueless servers are met.  Records get old `MaxAging` times, while nobody has the lock.

**Fairness.**

* `DwRemote!FairSpec`: weak fairness of `Inner`, because nothing in a handler blocks; strong fairness of
  `Timeout(b)`, because `bigloop` calls `kill_expired` on every turn and a handler running is what
  disables it in between.  A packet for the slot puts its deadline off, and
  a fair timeout assumes that they do not come for ever; `"refer"` is therefore not in the world of
  `remote_live` (that referrals end is `ReferralsBounded`).  None of servers, network or clients.
* `DwTcp!FairSpec`: the loop goes on (`turn` changes), and time passes now and then
  (strong fairness of `KillExpired(1)`).  None of clients or servers.
* `ZoneServer!Spec`: weak fairness of `Main`, the signal handler, each child, the alarm that ends
  the wait for a query, a client's second query if it sends one at all, and its reading the end of the connection; strong
  fairness of `Accept` for each connection, because the queue of `listen()` is in order.
* `EveryRequestEnds` has its premise in the formula: infinitely often no thread is at work, or infinitely often one takes a
  step.  The lock has no queue, so no more can be said of one thread.

## 4. The proofs

TLAPS checks, from the named assumptions on the constants (`FilaAssumption`, `HashAssumption`, `RemoteAssumption`,
`ConfiguredAssumption`, `MessagesAssumption`, `NumbersAssumption`, `RecurseAssumption`, `ZoneAssumption`, `QueryAssumption`,
`ZoneServerAssumption`: types and
what the configuration parser or the code guarantees), the theorems below.  Some have a hypothesis
more; what TLC finds without it is said in its place.

**The fila** (`FilaOrder_proofs`, `DwFila_proofs`)

* `RingInvariant`: `Spec => [](TypeOK /\ RingLinked /\ RingWhole)` for any
  set of nodes.  `RingWhole` quantifies over sets closed under `next`, so no induction
  over the ring is needed: each edit is shown to keep every such set the whole.
* `RefinementTheorem`: `Spec => RefinesQueue`, the ring implements `FilaQueue`.  The refinement mapping is a recursive function
  along `next`, about which nothing can be said step by step.  So the invariant is `Ordered`: `Ring`, and there is a
  sequence that *represents* the ring (its first is the head, each is followed by its `next`, the last by the first, and it has every
  linked node once).  `OrderIs` shows the mapping to be such a sequence, by a least index where they would
  differ.  Each call then has one lemma: what represents the ring afterwards is what the queue's call makes of what represented it.

**The cache** (`DwHash_proofs`)

* `HashInvariant`, `ServersInvariant`: types, `FilaMatchesHash`,
  `SizeCounts`, `ServersStay`, for any keys, limits, TTLs, clocks, heap contents and
  changes of configuration.  The inductive invariant is `HashOK /\ ClockOK`.  To the
  properties it adds `ServersKept` (the server entries added so far are in the hash,
  immutable, also while the process is still configuring, when `ServersStay` says nothing),
  that none are left to add once the process serves, and that the loop over the fila stays
  within it.  The work is in `Place`: the victim is a member of the fila, hence of the
  hash, hence removing it takes one from its cardinality; and the fila without duplicates
  does not hold it twice.
* `NothingInventedTheorem`, `DropsOnlyTheOldestTheorem`: the two action properties of the cache,
  from the invariant of `HashInvariant`.  The first needs what `Place` may do to a record that it does
  not place (nothing, `PlaceValues`), and that what is written comes from the fila and so from the hash.  The
  second needs the order of the fila: taking a key out of a sequence keeps the order of the others
  (`UnlinkedKeepsOrder`), and the victim is its last (`UnlinkedLast`), so all that stay but the new one were ahead of it.
* `RestartTheorem`: `RestartKeepsOrder`.  The inductive invariant `OrderInv` adds to that of `HashInvariant` what each
  of the two loops has done so far (`WritingOK`, `ReadingOK`), that no record of the fila is one that the writer leaves
  out or the reader rejects (`FilaOK`), and that the file has each key once and is shorter than the maximum of
  the process that will read it (`FileOK`): so the reader finds each key new and never a full hash, and nothing it reads is
  given up.  It rests on 1024 being no less than the least `maximum_cache_elements`, 32 (`DwHash.c:1083`).
* `WithinMaximumTheorem`: `WithinMaximum`, under `Roomy(n)`: a maximum above the least, no heap byte that is 1, and
  n servers in each dwood3rc.  `RoomInv` adds to `OrderInv` that `size` counts the fila and the servers added so far (`Counts`), and that
  what is still to be added fits (`Room`), because the process that wrote the file had as many servers in the same
  hash.  Without the three: the least maximum becomes 1024 (`DwHash.c:1083`); a stray immutable flag is
  `DwHash_heap_maximum.cfg`; a restart with more servers exceeds the maximum.

**Pending queries** (`DwRemote_proofs`), for any number of clients, queries, slots and descriptors

* `TableInvariant`, `SocketsOwnedTheorem`: types, `InflightPointsToQuery`, `SocketsOwned`,
  `DepthBounded`, for any behaviour
  of servers.  The inductive invariant adds `LiveHasQuery` (a slot that is in use has a
  query, so a child has a parent to take its depth from) and the types of the frames on
  the stack.  There is one lemma per action; the lemmas about `Reset`, `Release`, `Dial` and
  `Spawn` carry the argument: a descriptor is given to a slot only when the one it had
  is closed in the same step, and a slot's inflight entry goes whenever its query does.
* `ChildServesParentTheorem`: `ChildServesParent`, for any CNAMEs, retries and reused slots.  Between two handlers the property is nearly
  inductive; in the middle of one it depends on the calls that will go on with slots they chose before.
  `Serving` therefore adds that a slot not in use has no socket, child or locals (`Used`), and for the whole stack, what each
  frame relies on (`FrameServes`: the slots it names are in use, a child just spawned has no locals yet) and what a
  frame may not do to the slots of those below it (`PairServes`).
* `RemoteListedTheorem`: `RemoteListed` when `num_retries` is 0, which is legal (the default is 5).  It says that the retry is the only path that
  breaks the list: with retries `MCDwRemote_findings.cfg` violates it.
* `MergedAnsweredTogetherTheorem`, `AnswersBelongTheorem`: under `NoCnames` (no server answers with a CNAME; with them
  `MCDwRemote_merged_cname.cfg` and `MCDwRemote_reused.cfg` violate these).  `ClientsInv` says where each client may be held: a client in a slot waits for that
  slot's query, in one local of one slot, except the locals that the reply loop has passed (`Told`);
  and each datagram, cached answer and frame carries data of its own query.
  `MergedAnsweredTogether` is about the steps that end a handler or a slot: all clients merged in a slot have by then been sent
  the same, and a slot is not ended by an answer that they did not get.  `SaidInv` adds for it that the loop over the
  locals has said one thing to all those it has passed, and that no other call that is under way is such a loop.  Two steps are allowed
  for: the answer to a query in upper case is not found again, and reaches none of them; a timeout is no answer, and
  is told to the first only.
* `AnsweredOnceTheorem`: from the same invariant, `AnsweredOnce`, if resurrections are off or `max_inflights` is 1; with both,
  `handle_resurrections` may send a second reply.  (With CNAMEs it fails for merged clients; with `max_inflights` 1 TLC found no
  violation, and the theorem does not say.)
* `NoClientForgottenTheorem`: `NoClientForgotten`, under `OneByOne`: `NoCnames`, `max_inflights` 1, `handle_noreply` on and queries in lower
  case.  `RememberInv` adds that a client told nothing is held by a slot or by the frame that is
  about to answer it.  The default of `max_inflights` is 8, for which `MCDwRemote_findings.cfg` violates the property.

**Recursion** (`DwAnswer_proofs`), for any configuration, questions and packets

* `ReferralsBoundedTheorem`: `ReferralsBounded`.  The invariant `IInv` follows a list of servers from the packet to the cache, to a question,
  to its children and into the cache again: an entry of the stack is sent only with servers, and with servers it has followed no more referrals than
  its zone has labels.  The heart is `OutOfBailiwick` (`dwx_string_in_bailiwick`): a host is asked only for a record that is
  strictly below the zone that was asked, and the zone of a referral is the owner with the most bytes, so the count of labels grows
  with each (`ReferralOK`), under `ShortReferrals`: authority sections have at most `GLUE_RANGE` (31) records.  Then every owner
  that is left is an end of the name that was asked, and of two such ends the one with more bytes has more labels.  In a longer section the
  owners behind the first 31 are not looked at, but measured (`DwRecurse.c:1129`): one with fewer labels and more bytes becomes the
  zone, and the bound fails; TLC finds this with `GlueRange` 1, a referral [NS of w.a.c, NS of o] and a long label o.
* `AskedOfAncestorsTheorem`, `ServersFromAboveTheorem`: from the same invariant, under `ShortReferrals` too; with
  `GlueRange` 1 TLC finds both violated, the first with a referral [NS of c, NS of n.o].  The second needs servers for the root
  as well (`RootConfigured`; the code has them when dwood3rc has none): else the empty list of a referral
  without any record in bailiwick is cached for the root.

**The old resolver** (`MaraRecurse_proofs`), for any clients, names, servers, limits and interleaving of the threads

* `RepliedOnceTheorem`: `RepliedOnce`, from `OneReplyTheorem` and `SilentOnlyTooDeepTheorem`.  `IInv` says of each stack of calls that the lowest answers the client and all
  others return an address or a name (`want`), that only the lowest can be for ANY, and that one that returned without
  success has put its client among the too deep; of each client, that it has no reply until its thread
  ends; and of `launch_thread`, that the query it hands over has no thread yet.  A call ends in many places, and each
  either replies, returns or calls again: the lemmas about what is done to the stack are what they have in common.
* `FilaMatchesTheorem`, `CacheBoundedTheorem`: `FilaMatches`, and that the cache stays below its maximum or has nothing left that may
  be removed, if what servers say is lists (`SaysLists`, a type).  The invariant is on the cache and the fila together (`Bounded`): every
  chain that is not from the configuration is a sequence with a first record, and the fila, which never has an element twice, has exactly
  the first records of these (`Listed`).  Each place that adds, replaces, rotates or destroys a chain has one lemma, because each has to put the
  fila right for itself; the custodian needs that what it takes off the end is in the hash.  `AddAll` puts the records of a reply
  in one after the other and is a recursive function: that it exists and what each of its steps is follows by a least natural number
  for which it would not.

**The authoritative server** (`MaraQuery_proofs`), for any zones, files in any order, mararc settings and queries

* `NsPointersLiveTheorem`, `AnyListsTheNameTheorem`, `AuthorityWinsTheorem`: the three invariants of the big hash.  `LoadInv` has of the
  hash that a chain goes on to the head of a chain of NS records and that the list behind ANY has one object of each chain of its name
  (`DbOK`), which is its head as long as files are read and nothing is rotated (`HeadsOK`); of the files, which of their lines are in
  the hash (`FileOK`, `ReadOK`); and that no chain goes on to the NS records of a zone that is unread or whose own NS records are
  being read (`Untouched`).  Only NS records of such a zone can be replaced, so that nobody has a pointer to what is freed.
* `NxdomainHonestTheorem`: `NxdomainHonest`.  NXDOMAIN comes from `udpnotfound` alone, and the proof goes through its callers: each
  has looked at the name, and at the stars where `bind_star_handling` is 1.
* `OursAnsweredTheorem`, `ZonesAnsweredTheorem`: a name in a zone that is served is never refused, and a negative reply has the SOA of the
  innermost such zone (`RulersOK`: where the lookup is going up, the zones below are none of ours).  The first is for any configuration and leaves
  SERVER FAIL open; the second, `ZonesAnswered`, excludes it when the first SOA of each file is for its
  own zone (`SoasNamed`) and `bind_star_handling` is not 2.  Neither is checked by the code: `csv2_set_soa` takes any name, and with
  `bind_star_handling = 2` glue for a name outside of every zone ends a lookup that then looks for a SOA.

**Zone transfer** (`ZoneServer_proofs`)

* `CountInvariant`, `BoundInvariant`: `ChildrenCounted`, and never more than `maxprocs` + 1 children, for any
  connections, files, permissions and `maxprocs`.  The inductive invariant adds where a connection is
  (`ConnectionOK`: no process for it before its client was accepted), because `fork` must add a child and not replace one,
  and `wait` takes away one that is there; steps that neither fork, count nor wait are one lemma (`Steady`).
* `EverythingSentTheorem`, `FetchedIsServedTheorem`: a client that has seen the second SOA has all that maradns serves of the
  file, and a maradns that loads what was fetched serves the same zone, for any files, clients and interleaving.  The
  inductive invariant `SendOK` says of each child that what its client has, followed by what is in the buffer, are the
  records that maradns has of the lines read so far (`Reads`): two states of `csv2_add_rr`, by methods 1 and 2, step by
  step side by side.  It needs that the buffer never overflows (`BeginRoom`, `RoundRoom`: a bound on what n lines of the
  beginning and of a round make), and what comes in which order (`Shape`: one SOA, the NS records of the zone, the
  rest).  The second reading, of what was fetched, is shown by the same order: no SOA or NS record comes where it would be
  thrown away or where another server would synthesize some (`ServedAgain`).  All readings are recursive functions on
  line numbers, and the least line where a claim fails (`LeastNatural`, `UpTo`) takes the place of induction.
* `SoaReplyFitsTheorem`: the SOA reply has the SOA and NS records of the zone.  `ReplyOK` adds to `SendOK` that a child that reads the
  beginning has seen SOA and NS records of the zone only; behind the beginning no line makes any (`ServedTop`).
* Hypotheses: `Roomy` (with the numbers of the code, 66, 29 and 20 records, at most 13 synthesized addresses; with more of them a file that begins
  with 29 SOA records, and with more than 31 a file without NS records, may lose records, see section 5);
  `SoaAtTop` (a SOA record on the first line is the zone's; the parser does not look at its name); for
  `FetchedIsServed`, that the second server has no addresses to synthesize for if the first has none, because then a zone may be without
  NS records; for the reply, `HeadingsFirst` (no delegation right behind the NS records: `MCZoneServer_delegation.cfg`).
  `WorldAssumption` checks them in the world of the run.

Only model-checked:

* liveness (`EveryoneAnswered`, `ClientsReleased`, `EveryoneServed`, `EveryRequestEnds`), which TLAPS cannot do under fairness, and
  `EveryRecordVisible` of the authoritative server, which is liveness too;
* all that is about `Csv2`, `Csv2Zone`, `Wire`, `MaraCodec`, `DwCodec` and `Journey`: what these say is what a
  recursive definition computes from a file or a packet, and a proof for every file would be an induction over data;
* `NoMixedAnswers` of the old resolver: it depends on what the servers of the run's world say, and is false in others;
* `ZonesAnswered` with `bind_star_handling = 2` in the run's zones;
* `BytesInOrder`, which holds only where `send()` does not block and the UDP side gives up before the deadline of a slot that
  waits for it, which the values of dwood3rc decide: with `num_retries` 5 in the run's world TLC finds it violated.

## 5. Where code and documentation differ

These configurations are not part of the regular set: TLC ends each with a violation of the property.
Where a configuration has several, TLC stops at the first it meets; `-continue`, or taking the others out,
shows each.

| cfg | property | what it shows |
|---|---|---|
| `DwHash_heap_maximum.cfg` | `WithinMaximum` | `immutable` of a record read from the cache file is uninitialised; a stray 1 makes it unremovable (`DwHash.c:1020`; doc/Deadwood.txt:231) |
| `MCDwRemote_findings.cfg` | `RemoteListed` | a retry closes the socket and leaves it in `b_remote` when the next server is a glueless name (`DwSocket.c:905`) |
| | `NoClientForgotten` | only the first of merged clients is told of a failure (`DwUdpSocket.c:1252`) |
| `MCDwRemote_merged_cname.cfg` | `MergedAnsweredTogether` | the second of merged clients gets nothing from a completed CNAME: the slot ends, and `make_dns_packet` has used up the answer that was made for the first (`DwRecurse.c:2067`) |
| `MCDwRemote_reused.cfg` | `AnswersBelong` | a late child that was a CNAME itself completes the CNAME of a stranger, and a wrong answer is cached: `dwx_send_glueless_cname_upstream` does not look at `child_id` (`DwRecurse.c:1981`) |
| `MCDwAnswer_junk.cfg` | `AnswersChained` | the end of a chain of CNAMEs is looked up by its length in the packet, not in what was accepted of it (against the comment at `DwRecurse.c:430`) |
| `MCDwAnswer_findings.cfg` | `ReferralsDescend` | a referral to the zone itself, or up, is taken when the reply came from the zone's own servers (against "must always bring us closer", `DwRecurse.c:751`); it leaves a slot without servers |
| | `NeverDivides` | the address of a server is drawn from an answer without addresses: division by zero (`DwRecurse.c:2520`) |
| | `ClientTold` | an ANY question whose reply has other records only ends without a word |
| `MCDwTcp_findings.cfg` | `RepliesToTheClient` | a reply goes to the client that has the slot now (`DwTcpSocket.c:295`) |
| | `BytesInOrder` | the -1 of a `send()` that would block is added to the bytes sent (`DwTcpSocket.c:325`) |
| `MCJourney_twins.cfg` | `ClientReads` | two equal labels at the end of a name: the second is compared with itself and with a byte that nobody wrote, and becomes a pointer to itself (`DwCompress.c:430`) |
| `MCJourney_full.cfg` | `ClientReads` | `dw_append` fails when the packet is full, which is not looked at: a label is missing (`DwCompress.c:712`, `:822`) |
| `MCMaraQuery_rotated.cfg` | `WholeRRset` | after a rotation, lists that point at the former head see the end of the chain only (`server/udpsuccess.c:449`) |
| `MCZoneServer_delegation.cfg` | `SoaReplyFits` | the SOA reply takes an NS record of a delegation for one of the zone |
| `MCZoneServer_hold.cfg` | `EveryoneServed` | a client that asks for the SOA and then for nothing keeps a child for ever (`tcp/zoneserver.c:741`) |

What else the models showed, as remarks for whoever works on that code:

* *Cache.*  `maximum_cache_elements` below 1024 becomes 1024 when a cache file is read (`DwHash.c:1083`);
  a dwood3rc with new server entries is refused when the file that is read has filled the cache; one with more of
  them than before may leave the cache above its maximum, with records that are not servers' too.
* *Pending queries.*  `max_inflights` n admits n - 1 clients (`DwUdpSocket.c:384`).  A query whose first server is glueless is
  refused as in an overload (`:403`).  A client of a cached CNAME gets no SERVER FAIL (`:1234`), and nothing when the target of the CNAME is denied.  The
  answer to a query in upper case is not found again (`:1023`).
* *Recursion.*  An authority section [NS out of bailiwick, SOA] is cached as a zone without servers.  Seven record
  types are read whatever the packet has.  NS records beyond `GLUE_RANGE` are not looked at
  but count for the name of the zone, so that servers can be kept for a zone that the bailiwick check did not see
  (`ServersFromAbove` is violated with `GlueRange` 1).  An NS name that is a CNAME never wakes its parent
  (`DwRecurse.c:2053`).  An incomplete CNAME whose target does not exist ends in SERVER FAIL.
* *TCP.*  `recv()` of a closed connection puts the deadline off, so its slot is kept (`DwTcpSocket.c:203`).  A question whose
  length has a low byte over 127 closes the connection.  A client that finds the table full gets no
  reply.  Upstream sockets of relays are not closed.  The end of a relayed reply that is sent
  in part is lost.
* *Compression.*  MaraDNS gives up a message with more than 150 places to point to, where it could stop remembering.
* *Zone files.*  `/opop` does not take its element off the count of `/opush` (`parse/Csv2_parse.c:1561`; the manual has "up
  to seven elements"): the ninth `/opush` of a file is refused, however few are open.  `/read foo` without a blank or tilde
  swallows the next line (`:1598`); a file that is missing, or is the ninth inside
  another, is ignored; the last line of a file without a newline goes on in the
  one that reads it.  `/read` as the first entry fails when tildes are undecided.  In WKS
  the last port is lost when the line ends right after it, and two separators add port 0 (`parse/Csv2_rr_wks.c:166`).
  Letters of an NSAP address count from 0 (`:311`).  NAPTR expands `%` to nothing (`:689`).
  Coordinates of LOC that cannot be read give zeros.  A name that is the root is accepted only where a name
  may begin with a dot, so an NS record cannot have it.  A tilde in the wrong place closes the
  stream, which then looks like the end of the file: the rest of the zone is dropped.
* *Authoritative server.*  A star CNAME above a name is never found (`server/MaraDNS.c:3397`).  A zone with a SOA
  record only has no NS records and is refused.  A default zone file takes the first NS record of another name for its own.
* *Zone transfer.*  More than 32 synthesized addresses are lost in a transfer (`csv2_push_buffer`).  `fetchzone` takes an early end for
  success.  ACL entries that overlap add their permission bits (`tcp/zoneserver.c:311`).  One child more than
  `maxprocs` runs.  An error in a file ends it for both users.
* *Old resolver.*  `maximum_num_of_threads` is checked before the thread counts itself (`server/recursive.c:3507`, `:2627`);
  hardcoded root servers can be replaced (`:3621`); the question of a reply may be of another type (`:2084`); a CNAME
  starts both counters again (`:2130`), so that a chain through `arpa` names is bounded by the names only.

## 6. What is not modelled

* Deadwood: ACLs, query filters other than blacklisted addresses, IPv6 sockets, the random number generator, TTL arithmetic
  inside a record, the bucket chains of the hash and `dwh_autogrow`, `malloc()` failing, Windows.
* `DwAnswer`: AAAA glue, resurrections, rotation in the cache, lists of over 31 servers.  When no record of an answer was kept, the byte of the heap
  that is read for a type may be that of the query, or not (`AnswerType`); that it reads as CNAME (`DwRecurse.c:1439`), so that the reply is
  taken for a CNAME chain without names, is left out.
* Codecs: malformed packets.
* Zone files: limits on lengths and on records (`csv2_parse_zone` and the transfer stop after 100000 records or rounds,
  `parse/Csv2_main.c:634`, `:519`), CR, TAB and `{`, the default zone file's names, what numbers and addresses are converted to, and csv1.
* `MaraZone`, `MaraQuery`: the PTR records of FQDN4, the size of a packet, remote administration, `reject_aaaa` and `reject_ptr`, csv1.
* `MaraRecurse`: answers with more than one CNAME, answers to the question behind others, capital letters, log levels; `pthread_create()` failing
  (`server/recursive.c:3548`), after which the client is told nothing.
* `ZoneServer`: csv1 zones and `getzone`, `fork()` failing, the inetd code that `main()` refuses; `num_children++`
  and `--` are one step each.
* Strings, hash libraries, configuration parsers, random numbers, tools, tests: no state that two actors share, or none after start.

## 7. What could come next

1. Proofs about the bytes of `DwTcp` where `send()` does not block, and about the order in which `MaraZone` reads one chain.
2. An abstract specification of the resolver, a query that is asked and answered at most once by its own data,
   implemented by `DwRemote` where section 5 leaves it true: the theorems of `DwRemote_proofs` are its parts.
3. The old resolver composed with `MaraQuery`, through `recurse_delegation` and the shared chains.
4. The edits of TTLs and record order inside a cached packet (`DwDnsStr.c`), the netmask of `DwMararc.c`,
   timestamps that wrap (`qual/qual_timestamp.c`).
