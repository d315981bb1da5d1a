------------------------------ MODULE MaraZone ------------------------------
(***************************************************************************)
(* How maradns reads its csv2 zone files into the big hash at start        *)
(* (parse/Csv2_database.c, server/MaraBigHash.c, server/MaraAnyChain.c).   *)
(*                                                                         *)
(* A name is the sequence of its labels, "*" for the label that the code   *)
(* stores as '_'.  A record is [name, type, to]; "to" is the address, or   *)
(* the name that an NS, an MX or a CNAME leads to.                         *)
(*                                                                         *)
(* The hash holds C pointers, so the records are objects in an arena: rr   *)
(* is the arena and an object is its index.  list[name, type] is the       *)
(* linked chain of the hash entry from its head, ns[name, type] the NS     *)
(* object that the chain goes on to (0 if none), any[name] the list behind *)
(* the ANY entry: the object that was the head of each chain when it was   *)
(* put.  Whoever holds a pointer into a chain sees the chain from that     *)
(* object on.                                                              *)
(***************************************************************************)
EXTENDS Naturals, SequencesExt

CONSTANTS
  Zone,          \* names of the zones in csv2[]
  Files,         \* zone -> the files it may have, sequences of records
  DefaultFiles,  \* the files that csv2_default_zonefile may have
  SynthIp        \* the addresses that NS records are synthesized for, in order

DefaultZone == <<"*">>

ASSUME ZoneAssumption ==
  /\ DefaultZone \notin Zone
  /\ SynthIp \in Seq(Range(SynthIp))
  /\ DOMAIN Files = Zone
  /\ \A f \in (UNION Range(Files)) \cup DefaultFiles :
       f \in Seq(Range(f)) /\ \A i \in DOMAIN f : f[i].name # << >>

VARIABLES
  db,      \* the big hash
  disk,    \* zone -> its file, the sequence of its records
  file,    \* the zone file that is read: csv2_add_state
  unread,  \* the zones whose file is still to be read
  phase    \* "loading" or "serving"

zoneVars == <<db, disk, file, unread, phase>>

HasDefault == DefaultZone \in DOMAIN disk

Record(name, type, to) == [name |-> name, type |-> type, to |-> to]
NoFile == [zone |-> "none"]

-----------------------------------------------------------------------------
(***************************************************************************)
(* The big hash.                                                           *)
(***************************************************************************)
EmptyDb == [rr |-> << >>, list |-> << >>, ns |-> << >>, any |-> << >>]

\* mhash_put: f[x] is v.
With(f, x, v) == [y \in DOMAIN f \cup {x} |-> IF y = x THEN v ELSE f[y]]

\* mhash_get of the entry f[k]: the empty sequence if there is none.
At(f, k) == IF k \in DOMAIN f THEN f[k] ELSE << >>
Chain(d, name, type) == At(d.list, <<name, type>>)
HasAny(d, name) == At(d.any, name) # << >>

\* What a pointer to object p sees of the chain p is in.
From(d, p) ==
  LET c == Chain(d, d.rr[p].name, d.rr[p].type)
  IN SubSeq(c, SelectInSeq(c, LAMBDA x : x = p), Len(c))

\* A new entry: the chain's head, in the ANY list and with the NS of its
\* zone behind it.
Put(d, zone, r, auth) ==
  LET id == Len(d.rr) + 1
      zoneNs == Chain(d, zone, "NS")
  IN [rr   |-> Append(d.rr, [name |-> r.name, type |-> r.type, to |-> r.to,
                             auth |-> auth, ip |-> 0]),
      list |-> With(d.list, <<r.name, r.type>>, <<id>>),
      ns   |-> With(d.ns, <<r.name, r.type>>,
                    IF r.type = "NS" \/ zoneNs = << >> THEN 0 ELSE zoneNs[1]),
      any  |-> With(d.any, r.name, Append(At(d.any, r.name), id))]

\* One more record of a chain: the last of it, but the second of NS records.
AddRr(d, r, auth) ==
  LET id == Len(d.rr) + 1
      k == <<r.name, r.type>>
  IN [d EXCEPT !.rr = Append(@, [name |-> r.name, type |-> r.type,
                                 to |-> r.to, auth |-> auth, ip |-> 0]),
               !.list[k] = IF r.type = "NS" THEN InsertAt(@, 2, id)
                                            ELSE Append(@, id)]

\* Takes an entry out of the hash and its head out of the ANY list.
\* Mutant: the ANY list keeps it.
Undef_any(d, name, type) ==
  [d EXCEPT !.list = Restrict(@, DOMAIN @ \ {<<name, type>>}),
            !.ns = Restrict(@, DOMAIN @ \ {<<name, type>>})]
Undef(d, name, type) ==
  [d EXCEPT !.list = Restrict(@, DOMAIN @ \ {<<name, type>>}),
            !.ns = Restrict(@, DOMAIN @ \ {<<name, type>>}),
            !.any[name] = LET its == CHOOSE i \in DOMAIN @ :
                                       @[i] = Chain(d, name, type)[1]
                          IN RemoveAt(@, its)]

\* Is a record of the zone's file authoritative, or glue and delegation?
HasAuthority(zone, r) ==
  r.name = zone \/ (r.type # "NS" /\ Tail(r.name) = zone)

\* Authoritative data replaces glue; glue does not replace anything.
\* Mutant: whatever is there already stays.
AddRrToBighash_first(d, zone, r) ==
  LET chain == Chain(d, r.name, r.type)
      auth == HasAuthority(zone, r)
  IN IF chain = << >> THEN Put(d, zone, r, auth)
     ELSE IF d.rr[chain[1]].auth = auth THEN AddRr(d, r, auth) ELSE d
AddRrToBighash(d, zone, r) ==
  LET chain == Chain(d, r.name, r.type)
      auth == HasAuthority(zone, r)
  IN CASE chain = << >> -> Put(d, zone, r, auth)
       [] chain # << >> /\ d.rr[chain[1]].auth = auth -> AddRr(d, r, auth)
       [] chain # << >> /\ ~d.rr[chain[1]].auth /\ auth ->
            Put(Undef(d, r.name, r.type), zone, r, auth)
       [] OTHER -> d

-----------------------------------------------------------------------------
(***************************************************************************)
(* Reading zone files.                                                     *)
(***************************************************************************)
ZoneInit ==
  /\ db = EmptyDb
  /\ \/ disk \in [Zone -> UNION Range(Files)]
     \/ \E f \in DefaultFiles, g \in [Zone -> UNION Range(Files)] :
          disk = With(g, DefaultZone, f)
  /\ \A z \in Zone : disk[z] \in Files[z]
  /\ file = NoFile
  /\ unread = Zone
  /\ phase = "loading"

\* csv2_init_add_state: soa is the SOA held back in the state's buffer.
NewFile(z) ==
  [zone |-> z, rest |-> disk[z], first |-> TRUE, inNs |-> TRUE,
   nses |-> FALSE, soa |-> << >>]

\* The hash has no order: any zone may be next.  The default zone comes
\* last, when the pointers to additional records are made already.
OpenZone(z) ==
  /\ phase = "loading" /\ file = NoFile
  /\ z \in unread
  /\ file' = NewFile(z)
  /\ unread' = unread \ {z}
  /\ UNCHANGED <<db, disk, phase>>

\* The records go in one after the other.
AddAll(d, z, records) ==
  LET added[i \in 0..Len(records)] ==
        IF i = 0 THEN d ELSE AddRrToBighash(added[i - 1], z, records[i])
  IN added[Len(records)]

\* NS records are synthesized for all addresses first, then the addresses.
\* The label is made of the address: synth-ip-7f000001.
SynthName(z, ip) == <<ip>> \o z
SynthNs(z) ==
  [i \in 1..Len(SynthIp) |-> Record(z, "NS", SynthName(z, SynthIp[i]))]
SynthA(z) ==
  [i \in 1..Len(SynthIp) |-> Record(SynthName(z, SynthIp[i]), "A", SynthIp[i])]
SynthesizeNs(d, z) == AddAll(AddAll(d, z, SynthNs(z)), z, SynthA(z))

\* csv2_add_soa: the SOA goes in after the zone's NS records.
AddSoa(d, f) == IF f.soa = << >> THEN d
                ELSE AddRrToBighash(d, f.zone, f.soa[1])

\* The first record that is not the zone's SOA or NS: what the file does
\* not give of NS is made up, the SOA goes in, and the record after them.
\* Mutant: the record goes in before them.
FirstData_early(d, f, r) ==
  LET e == AddRrToBighash(d, f.zone, r)
  IN AddSoa(IF f.nses THEN e ELSE SynthesizeNs(e, f.zone), f)
FirstData(d, f, r) ==
  AddRrToBighash(AddSoa(IF f.nses THEN d ELSE SynthesizeNs(d, f.zone), f),
                 f.zone, r)

ZoneNsLine(f, r) == r.type = "NS" /\ r.name = f.zone

\* The records that csv2_add_rr says it ignores.
Ignored(f, r) ==
  \/ r.type = "SOA" /\ ~f.first
  \/ ZoneNsLine(f, r) /\ ~f.inNs
  \/ f.zone = DefaultZone /\ \/ r.type = "NS" /\ ~f.inNs
                             \/ r.type = "CNAME"
                             \/ r.type # "SOA" /\ f.first

\* The SOA is held back in the buffer until the NS records are in.  A zone
\* whose file has none gets one, but for the default zone, to which nothing
\* but SOA and NS is added as long as it has no NS.
ReadLine ==
  /\ phase = "loading" /\ file # NoFile
  /\ file.rest # << >>
  /\ LET r == Head(file.rest)
         made == IF file.first /\ file.zone # DefaultZone
                 THEN <<Record(file.zone, "SOA", "synth")>> ELSE file.soa
         read == [file EXCEPT !.rest = Tail(@), !.first = FALSE]
         f == [read EXCEPT !.soa = made]
         barred == file.zone = DefaultZone /\ ~file.nses
     IN \/ /\ Ignored(file, r) \/ (file.inNs /\ ~ZoneNsLine(file, r)
                                    /\ r.type # "SOA" /\ barred)
           /\ file' = read
           /\ db' = db
        \/ /\ ~Ignored(file, r) /\ r.type = "SOA"
           /\ file' = [read EXCEPT !.soa = <<r>>]
           /\ db' = db
        \/ /\ ~Ignored(file, r) /\ ZoneNsLine(file, r)
           /\ file' = [f EXCEPT !.nses = TRUE]
           /\ db' = AddRrToBighash(db, file.zone, r)
        \/ /\ ~Ignored(file, r) /\ ~ZoneNsLine(file, r) /\ r.type # "SOA"
           /\ file.inNs /\ ~barred
           /\ file' = [f EXCEPT !.soa = << >>, !.inNs = FALSE]
           /\ db' = FirstData(db, f, r)
        \/ /\ ~Ignored(file, r) /\ ~ZoneNsLine(file, r) /\ r.type # "SOA"
           /\ ~file.inNs
           /\ file' = read
           /\ db' = AddRrToBighash(db, file.zone, r)
  /\ UNCHANGED <<disk, unread, phase>>

\* The end of the file: a zone of SOA and NS records only gets its SOA.
\* Mutant: the SOA is not there if the file has nothing but NS records.
CloseZone_plain ==
  /\ phase = "loading" /\ file # NoFile
  /\ file.rest = << >>
  /\ file' = NoFile
  /\ phase' = IF file.zone = DefaultZone THEN "serving" ELSE phase
  /\ UNCHANGED <<db, disk, unread>>
CloseZone ==
  /\ phase = "loading" /\ file # NoFile
  /\ file.rest = << >>
  /\ db' = IF file.inNs THEN AddSoa(db, file) ELSE db
  /\ file' = NoFile
  /\ phase' = IF file.zone = DefaultZone THEN "serving" ELSE phase
  /\ UNCHANGED <<disk, unread>>

\* add_an: MX and NS point to the A chain of their target.  (A CNAME's
\* pointer to the ANY entry of its target is that entry, by name.)
WithAdditional(d) ==
  [d EXCEPT !.rr =
     [i \in DOMAIN @ |->
        LET a == IF @[i].type \in {"MX", "NS"}
                 THEN Chain(d, @[i].to, "A") ELSE << >>
            linked == \E k \in DOMAIN d.list : i \in Range(d.list[k])
        IN IF linked /\ a # << >> THEN [@[i] EXCEPT !.ip = a[1]] ELSE @[i]]]

Additions ==
  /\ phase = "loading" /\ file = NoFile /\ unread = {}
  /\ db' = WithAdditional(db)
  /\ IF HasDefault THEN /\ file' = NewFile(DefaultZone) /\ phase' = phase
                   ELSE /\ file' = file /\ phase' = "serving"
  /\ UNCHANGED <<disk, unread>>

Load ==
  \/ \E z \in Zone : OpenZone(z)
  \/ ReadLine
  \/ CloseZone
  \/ Additions
=============================================================================
