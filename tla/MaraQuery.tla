----------------------------- MODULE MaraQuery -----------------------------
(***************************************************************************)
(* What maradns answers to a query (server/MaraDNS.c: proc_query and what  *)
(* it calls; server/udpsuccess.c), over the big hash of MaraZone.  The     *)
(* only state that a query changes is the order of the chain it was        *)
(* answered from, which is rotated.                                        *)
(***************************************************************************)
EXTENDS MaraZone, FiniteSets

CONSTANTS
  Query,    \* the queries [name, type, rd, allowed, form] that come in
  Patient,  \* those of them that EveryRecordVisible is about
  Mararc    \* the settings maradns may be started with

(***************************************************************************)
(* The settings are those of the mararc file: bind_star_handling,          *)
(* dos_protection_level, recurse_delegation, max_chain, max_ar_chain and   *)
(* no_fingerprint.                                                         *)
(***************************************************************************)
ASSUME QueryAssumption ==
  /\ Patient \subseteq Query
  /\ \A q \in Query : q.name \in Seq(Range(q.name))
  /\ \A c \in Mararc :
       /\ c.bind_star_handling \in 0..2
       /\ c.dos_protection_level \in 0..78
       /\ c.recurse_delegation \in BOOLEAN
       /\ c.no_fingerprint \in BOOLEAN
       /\ c.max_chain \in Nat \ {0} /\ c.max_ar_chain \in Nat \ {0}

VARIABLES
  rc,      \* the settings
  reply    \* the last query and what was answered

vars == <<db, disk, file, unread, phase, rc, reply>>

\* an: pairs of the owner name shown and the object; ns and ar: objects.
Reply(kind, rcode, an, ns, ar) ==
  [kind |-> kind, rcode |-> rcode, an |-> an, ns |-> ns, ar |-> ar]
NoQuery == [name |-> << >>, type |-> "none", rd |-> FALSE, allowed |-> FALSE,
            form |-> "none"]
NoReply == Reply("none", 0, << >>, << >>, << >>)
Bare(kind, rcode) == Reply(kind, rcode, << >>, << >>, << >>)

-----------------------------------------------------------------------------
(***************************************************************************)
(* Putting replies together.                                               *)
(***************************************************************************)
Take(s, n) == SubSeq(s, 1, IF n < Len(s) THEN n ELSE Len(s))
Owned(d, objects) ==
  [i \in DOMAIN objects |-> <<d.rr[objects[i]].name, objects[i]>>]

\* Behind its own records a chain has the NS records of its zone.
ZoneNs(d, chain) ==
  LET p == d.ns[d.rr[chain[1]].name, d.rr[chain[1]].type]
  IN IF p = 0 THEN << >> ELSE From(d, p)

\* The addresses of each record, each address once (the "seen" flags).
Additional(d, shown) ==
  FoldLeft(LAMBDA ar, r :
             ar \o Take(SelectSeq(IF d.rr[r].ip = 0 THEN << >>
                                  ELSE From(d, d.rr[r].ip),
                                  LAMBDA a : a \notin Range(ar)),
                        rc.max_ar_chain),
           << >>, shown)

\* The records of the type asked for that a CNAME leads to, found in the
\* ANY list of its target.
\* Mutant: whatever is the first in that list.
Followed_first(d, type, r) ==
  IF d.rr[r].type # "CNAME" THEN << >>
  ELSE LET heads == At(d.any, d.rr[r].to)
       IN IF heads = << >> THEN << >> ELSE From(d, heads[1])
Followed(d, type, r) ==
  IF d.rr[r].type # "CNAME" THEN << >>
  ELSE LET heads == SelectSeq(At(d.any, d.rr[r].to),
                              LAMBDA h : d.rr[h].type = type)
       IN IF heads = << >> THEN << >> ELSE From(d, heads[1])

\* udpsuccess: the chain, its CNAMEs followed, and NS records for what is
\* authoritative.  A chain of NS records for another type is a delegation.
Success(d, type, chain) ==
  LET first == d.rr[chain[1]]
      delegation == type # "NS" /\ first.type = "NS"
      shown == Take(chain, rc.max_chain)
      ns == IF first.auth THEN Take(ZoneNs(d, chain), rc.max_chain) ELSE << >>
  IN IF delegation
     THEN Reply("delegation", 0, << >>, shown, Additional(d, shown))
     ELSE Reply("answer", 0,
            FoldLeft(LAMBDA an, r :
                       an \o Owned(d, <<r>> \o Followed(d, type, r)),
                     << >>, shown),
            ns, Additional(d, shown \o ns))

\* udpsuccess rotates the chain it answered from; the ANY list and the
\* pointers of other records keep pointing to the objects they did.
\* Mutant: two of the records only change places.
Rotated_swap(d, type, k) ==
  LET c == d.list[k]
  IN IF Len(c) < 2 \/ rc.max_ar_chain # 1 \/ type = "NS" \/ k[2] = "NS" THEN d
     ELSE [d EXCEPT !.list[k] = <<c[2], c[1]>> \o SubSeq(c, 3, Len(c))]
Rotated(d, type, k) ==
  LET c == d.list[k]
  IN IF Len(c) < 2 \/ rc.max_ar_chain # 1 \/ type = "NS" \/ k[2] = "NS" THEN d
     ELSE [d EXCEPT !.list[k] = Append(Tail(c), Head(c))]

\* udpstar: all of the chain under the name asked for; no limits.
Star(d, name, chain) ==
  LET ns == ZoneNs(d, chain)
      addresses == SelectSeq(chain \o ns, LAMBDA r : d.rr[r].ip # 0)
  IN Reply("star", 0, [i \in DOMAIN chain |-> <<name, chain[i]>>], ns,
           [i \in DOMAIN addresses |-> d.rr[addresses[i]].ip])

\* udpnotfound: NXDOMAIN, unless something has the name or always says
\* that it is only not there.
NotFound(d, q, soa, always) ==
  IF soa = 0 THEN Bare("servfail", 2)
  ELSE Reply("notfound", IF always \/ HasAny(d, q.name) THEN 0 ELSE 3,
             << >>, <<soa>>, << >>)

-----------------------------------------------------------------------------
(***************************************************************************)
(* Looking up.  The star labels of a.b.c are *.b.c, *.c and *; those at    *)
(* the end of it are a.b.*, a.* and *.                                     *)
(***************************************************************************)
Above(name, k) == SubSeq(name, k + 1, Len(name))
StarLabel(name, k) == <<"*">> \o Above(name, k)
EndStars(name) ==
  [k \in 1..Len(name) |-> Take(name, Len(name) - k) \o <<"*">>]

\* The first of the replies that is one.
FirstOf(replies) ==
  LET i == SelectInSeq(replies, LAMBDA r : r # NoReply)
  IN IF i = 0 THEN NoReply ELSE replies[i]

\* udpany: every chain of the ANY list, from its object on.
AnyReply(d, q) ==
  LET name == q.name
      names == <<name>> \o [k \in 1..Len(name) |-> StarLabel(name, k)]
                 \o (IF HasDefault THEN EndStars(name) ELSE << >>)
      i == SelectInSeq(names, LAMBDA n : HasAny(d, n))
      heads == At(d.any, names[i])
      an == FoldLeft(LAMBDA a, h : a \o Take(From(d, h), rc.max_chain),
                     << >>, heads)
  IN IF q.type # "ANY" \/ rc.dos_protection_level > 13 \/ i = 0 THEN NoReply
     ELSE IF i = 1 /\ \A j \in DOMAIN heads : d.rr[heads[j]].type = "NS"
     THEN NoReply
     ELSE Reply("answer", 0, [j \in DOMAIN an |-> <<name, an[j]>>],
                << >>, << >>)

\* The entry that answers by itself: the type asked for, then a CNAME.
HitKey(d, q) ==
  CASE Chain(d, q.name, q.type) # << >> -> <<q.name, q.type>>
    [] Chain(d, q.name, q.type) = << >> /\ rc.dos_protection_level <= 7
         /\ Chain(d, q.name, "CNAME") # << >> -> <<q.name, "CNAME">>
    [] OTHER -> << >>

\* May this query go to the recursive half instead?
Recursive(q) == q.allowed /\ q.rd

\* The nearest name, upward from the query's, that has NS records; the root
\* if none has.
NsName(d, q) ==
  LET k == {i \in 0..Len(q.name) : Chain(d, Above(q.name, i), "NS") # << >>}
  IN IF k = {} THEN << >>
     ELSE Above(q.name, CHOOSE i \in k : \A j \in k : i <= j)
\* Whether going up is skipped: dos_protection_level, or recursion that is
\* preferred to delegation.
NoClimb(q) == \/ rc.dos_protection_level > 11
              \/ Recursive(q) /\ rc.recurse_delegation
Authority(d, q) ==
  LET c == Chain(d, NsName(d, q), "NS")
  IN ~NoClimb(q) /\ c # << >> /\ d.rr[c[1]].auth
\* nxstore: the SOA of that name, 0 if it has none.
NxStore(d, q) ==
  LET c == Chain(d, NsName(d, q), "SOA")
  IN IF Authority(d, q) /\ c # << >> THEN c[1] ELSE 0

\* A delegation at the name asked for or above it.
Delegation(d, q) ==
  LET here == Chain(d, q.name, "NS")
      above == Chain(d, NsName(d, q), "NS")
      Delegates(c) == c # << >> /\ ~d.rr[c[1]].auth
  IN CASE rc.dos_protection_level > 11 -> NoReply
       [] rc.dos_protection_level <= 11 /\ Delegates(here) ->
            IF rc.recurse_delegation /\ Recursive(q) THEN Bare("recurse", 0)
                                                 ELSE Success(d, q.type, here)
       [] rc.dos_protection_level <= 11 /\ ~Delegates(here) /\ ~NoClimb(q)
            /\ Delegates(above) -> Success(d, q.type, above)
       [] OTHER -> NoReply

\* Star records, the nearest first.  A name or a star with other records
\* stops BIND-like handling, in the order of the loop.
StarStep(d, q, k) ==
  LET name == StarLabel(q.name, k)
      chain == Chain(d, name, q.type)
      \* Some star up to this one, or only an earlier one, has records.
      there == \E j \in 1..k : HasAny(d, StarLabel(q.name, j))
      collision == HasAny(d, Above(q.name, k))
  IN CASE chain # << >> -> Star(d, q.name, chain)
       [] chain = << >> /\ rc.bind_star_handling = 2 /\ collision /\ k = 1 ->
            NotFound(d, q, NxStore(d, q), there)
       [] chain = << >> /\ rc.bind_star_handling = 2 /\ collision /\ k > 1
            /\ ~HasAny(d, name) -> NotFound(d, q, NxStore(d, q), FALSE)
       [] OTHER -> NoReply

\* Star records that are CNAMEs.  Above the nearest star, the lookup of the
\* CNAME is overwritten by that of ANY when bind_star_handling is not 0.
StarCname(d, q) ==
  LET chain(k) == Chain(d, StarLabel(q.name, k), "CNAME")
      hits == {k \in 2..Len(q.name) : chain(k) # << >>}
  IN CASE rc.dos_protection_level > 7 -> NoReply
       [] rc.dos_protection_level <= 7 /\ chain(1) # << >> ->
            Star(d, q.name, chain(1))
       [] rc.dos_protection_level <= 7 /\ chain(1) = << >>
            /\ rc.bind_star_handling = 0 /\ hits # {} ->
            Star(d, q.name, chain(CHOOSE k \in hits : \A j \in hits : k <= j))
       [] OTHER -> NoReply

\* Does the name, one of its stars or one of its end stars have records, so
\* that the reply is "not there" instead of NXDOMAIN?
\* Mutant: only the name itself counts.
AlwaysNotThere_name(d, q) ==
  /\ rc.bind_star_handling >= 1 /\ rc.dos_protection_level <= 17
  /\ HasAny(d, q.name)
AlwaysNotThere(d, q) ==
  \/ /\ rc.bind_star_handling >= 1 /\ rc.dos_protection_level <= 17
     /\ \/ HasAny(d, q.name)
        \/ \E k \in 1..Len(q.name) : HasAny(d, StarLabel(q.name, k))
  \/ /\ HasDefault
     /\ \E k \in 1..Len(q.name) : HasAny(d, EndStars(q.name)[k])

Stars(d, q) ==
  IF q.name = << >> \/ rc.dos_protection_level > 17
       \/ (rc.bind_star_handling >= 1 /\ HasAny(d, q.name))
  THEN NoReply
  ELSE FirstOf([k \in 1..Len(q.name) |-> StarStep(d, q, k)]
                 \o <<StarCname(d, q)>>)

\* The default zone: stars at the end, then its own SOA.  Without a SOA
\* there is no reply at all.
DefaultStars(d, q) ==
  LET stars == EndStars(q.name)
      i == SelectInSeq(stars, LAMBDA n : Chain(d, n, q.type) # << >>)
      soa == Chain(d, DefaultZone, "SOA")
  IN CASE ~HasDefault -> NoReply
       [] HasDefault /\ i # 0 -> Star(d, q.name, Chain(d, stars[i], q.type))
       [] HasDefault /\ i = 0 /\ soa # << >> ->
            NotFound(d, q, soa[1], AlwaysNotThere(d, q))
       [] OTHER -> Bare("dropped", 0)

\* The end of proc_query: recursion, a refusal, or a negative reply.
Otherwise(d, q) ==
  IF Authority(d, q) THEN NotFound(d, q, NxStore(d, q), AlwaysNotThere(d, q))
  ELSE IF Recursive(q) THEN Bare("recurse", 0) ELSE Bare("refused", 5)

\* Queries that are rejected before anything is looked up.
Rejected(q) ==
  LET Unless(hidden, r) == IF hidden THEN Bare("dropped", 0) ELSE r
  IN CASE q.form = "response" -> Bare("dropped", 0)
       [] q.form = "malformed" ->
            Unless(rc.no_fingerprint, Bare("formerr", 1))
       [] q.form = "opcode" -> Bare("notimp", 4)
       [] q.form = "class" -> Unless(rc.no_fingerprint, Bare("notimp", 4))
       [] q.type \in {"AXFR", "MAILB"} /\ q.form = "query" ->
            Unless(rc.no_fingerprint, Bare("notimp", 4))
       [] OTHER -> NoReply

Found(d, q) ==
  IF Rejected(q) # NoReply \/ rc.dos_protection_level = 78 THEN Rejected(q)
  ELSE LET key == HitKey(d, q)
       IN FirstOf(<<AnyReply(d, q),
                    IF key = << >> THEN NoReply
                    ELSE Success(d, q.type, d.list[key]),
                    Delegation(d, q), Stars(d, q), DefaultStars(d, q)>>)

Answer(d, q) == IF Found(d, q) # NoReply THEN Found(d, q) ELSE Otherwise(d, q)

\* Is it the chain of HitKey that the reply is made from?
FromChain(d, q) ==
  /\ Rejected(q) = NoReply /\ rc.dos_protection_level # 78
  /\ AnyReply(d, q) = NoReply /\ HitKey(d, q) # << >>

-----------------------------------------------------------------------------
Init ==
  /\ ZoneInit
  /\ rc \in Mararc
  /\ reply = [to |-> NoQuery, is |-> NoReply]

Pending == reply.to # NoQuery /\ reply.is = NoReply

\* getudp: one query at a time is read from the socket.
Ask(q) ==
  /\ phase = "serving" /\ ~Pending
  /\ reply' = [to |-> q, is |-> NoReply]
  /\ UNCHANGED <<db, disk, file, unread, phase, rc>>

ProcQuery ==
  /\ Pending
  /\ \E a \in {Answer(db, reply.to)} : reply' = [reply EXCEPT !.is = a]
  /\ db' = IF FromChain(db, reply.to)
           THEN Rotated(db, reply.to.type, HitKey(db, reply.to)) ELSE db
  /\ UNCHANGED <<disk, file, unread, phase, rc>>

Next ==
  \/ Load /\ UNCHANGED <<rc, reply>>
  \/ \E q \in Query : Ask(q)
  \/ ProcQuery

Spec == Init /\ [][Next]_vars

-----------------------------------------------------------------------------
(***************************************************************************)
(* Properties.                                                             *)
(***************************************************************************)
Objects == DOMAIN db.rr
ReplyKinds == {"none", "answer", "delegation", "star", "notfound", "servfail",
               "refused", "recurse", "dropped", "formerr", "notimp"}

\* Every pointer is to an object, and a reply is one that the code makes.
TypeOK ==
  /\ phase \in {"loading", "serving"} /\ unread \subseteq Zone
  /\ file = NoFile \/ file.zone \in DOMAIN disk
  /\ \A k \in DOMAIN db.list :
       Range(db.list[k]) \subseteq Objects /\ db.ns[k] \in Objects \cup {0}
  /\ \A n \in DOMAIN db.any : Range(db.any[n]) \subseteq Objects
  /\ \A o \in Objects : db.rr[o].ip \in Objects \cup {0}
  /\ reply.is.kind \in ReplyKinds /\ reply.is.rcode \in 0..5

\* A record that replaces glue frees what it replaces.  No other chain goes
\* on to NS records that were freed, whatever the order of the zones.
NsPointersLive ==
  \A k \in DOMAIN db.ns :
    db.ns[k] # 0 =>
      LET r == db.rr[db.ns[k]] IN Chain(db, r.name, "NS")[1] = db.ns[k]

\* The list behind ANY names the chains that its name has, each once, and
\* nothing that was replaced.
AnyListsTheName ==
  LET names == {k[1] : k \in DOMAIN db.list} \cup DOMAIN db.any
  IN \A n \in names :
       LET heads == At(db.any, n)
           types == {k[2] : k \in {j \in DOMAIN db.list : j[1] = n}}
       IN /\ {db.rr[h].type : h \in Range(heads)} = types
          /\ Len(heads) = Cardinality(types)
          /\ \A h \in Range(heads) : h \in Range(Chain(db, n, db.rr[h].type))

\* Glue never hides a record that a zone has authority over, and never adds
\* to its chain: neither the order of the zones nor that of their lines
\* decides between them.
AuthorityWins ==
  \A z \in Zone :
    phase = "serving" =>
      \A i \in DOMAIN disk[z] :
        LET r == disk[z][i]
            chain == Chain(db, r.name, r.type)
        IN r.type \notin {"NS", "SOA"} /\ HasAuthority(z, r) =>
             /\ \E o \in Range(chain) : db.rr[o].to = r.to
             /\ \A o \in Range(chain) : db.rr[o].auth

\* What is answered fits the question: records of the type asked for, or
\* CNAMEs, under the name asked for or one that a CNAME in the reply leads to.
AnswersFit ==
  LET an == reply.is.an
      q == reply.to
  IN \A i \in DOMAIN an :
       LET r == db.rr[an[i][2]]
       IN /\ r.type \in {q.type, "CNAME"} \/ q.type = "ANY"
          /\ \/ an[i][1] = q.name
             \/ \E j \in 1..(i - 1) : /\ db.rr[an[j][2]].type = "CNAME"
                                      /\ db.rr[an[j][2]].to = an[i][1]

\* NXDOMAIN is not said of a name that has records of another type, nor,
\* with bind_star_handling = 1, of one that a star has records for.
NxdomainHonest ==
  reply.is.rcode = 3 =>
    /\ ~HasAny(db, reply.to.name)
    /\ rc.bind_star_handling = 1 /\ rc.dos_protection_level <= 17 =>
         \A k \in 1..Len(reply.to.name) :
           ~HasAny(db, StarLabel(reply.to.name, k))

\* Where upward from the name asked for the zones begin that we have NS
\* records for.
Ours(q) ==
  {k \in 0..Len(q.name) :
     /\ Above(q.name, k) \in Zone
     /\ \E r \in Range(Chain(db, Above(q.name, k), "NS")) : db.rr[r].auth}
LookedUp == /\ reply.is # NoReply /\ reply.to.form = "query"
            /\ ~NoClimb(reply.to)

\* A name in such a zone is never refused, and a negative reply has the SOA
\* of the innermost one.
OursAnswered ==
  LET q == reply.to
      ours == Ours(q)
  IN LookedUp =>
       /\ reply.is.kind = "refused" => ours = {}
       /\ reply.is.kind = "notfound" /\ ~HasDefault =>
            \E k \in ours : /\ \A j \in ours : k <= j
                            /\ db.rr[reply.is.ns[1]].name = Above(q.name, k)

\* Nor does a reply fail for want of a SOA.
ZonesAnswered ==
  OursAnswered /\ (LookedUp => reply.is.kind # "servfail")

\* "All records will be visible, although not at the same time if there are
\* more than max_chain" (the mararc manual, of max_chain): to clients that
\* ask for them and are answered again and again, each is shown again and
\* again, whatever else is asked for in between.
Known == UNION {Range(f) : f \in (UNION Range(Files)) \cup DefaultFiles}
Here(r) == \E o \in Range(Chain(db, r.name, r.type)) : db.rr[o].to = r.to
Shown(r) == \E i \in DOMAIN reply.is.an :
              LET o == db.rr[reply.is.an[i][2]]
              IN o.name = r.name /\ o.type = r.type /\ o.to = r.to
Direct(q) == /\ phase = "serving" /\ rc.max_ar_chain = 1
             /\ FromChain(db, q) /\ HitKey(db, q) = <<q.name, q.type>>
EveryRecordVisible ==
  \A q \in Patient :
    []<>(Pending /\ reply.to = q) /\ []<>~Pending =>
      \A r \in {x \in Known : x.name = q.name /\ x.type = q.type} :
        [](q.type # "NS" /\ Direct(q) /\ Here(r) => <>Shown(r))

\* "A query to www.example.com will return a list of three IPs" (the
\* authoritative DNS manual): a reply has all records of each chain it shows
\* any of, when there are no more than max_chain.
WholeRRset ==
  \A i \in DOMAIN reply.is.an :
    LET r == db.rr[reply.is.an[i][2]]
        chain == Range(Chain(db, r.name, r.type))
    IN Cardinality(chain) <= rc.max_chain =>
         chain \subseteq {reply.is.an[j][2] : j \in DOMAIN reply.is.an}
=============================================================================
