------------------------------ MODULE ZoneFile ------------------------------
(***************************************************************************)
(* csv2_add_rr (src/parse/Csv2_database.c) as both of its users have it:   *)
(* maradns adds the records of a zone file to its hash (method 1), the     *)
(* zone server puts them in a buffer and sends them (method 2).            *)
(*                                                                         *)
(* A line of a file is a record or Bad, something the parser cannot read;  *)
(* csv2_error closes the file, so nothing after it is seen.  Or it is a    *)
(* Comment, of which the parser makes nothing.                             *)
(***************************************************************************)
EXTENDS Naturals, Sequences, FiniteSets, SequencesExt, Functions

CONSTANTS
  SynthIp,     \* the addresses NS records are synthesized for
  BufferMax    \* records the buffer takes (66)

ASSUME ZoneFileAssumption ==
  BufferMax \in Nat /\ SynthIp \in Seq(Range(SynthIp))

\* Where a record's name is: the top of the zone, below it, or elsewhere (the
\* glue of a server elsewhere, the PTR record that FQDN4 makes).
Record(type, at, data) == [type |-> type, at |-> at, data |-> data]
Bad == Record("bad", "zone", "")
Comment == Record("comment", "zone", "")
SynthSoa == Record("SOA", "zone", "hostmaster")
SynthNs(ip) == Record("NS", "zone", ip)
SynthA(ip) == Record("A", "below", ip)

\* csv2_init_add_state and csv2_open.
Opened(file) == [rest |-> file, rrnum |-> 0, in_ns |-> TRUE, nses |-> FALSE,
                 buffer |-> << >>, hash |-> {}, ended |-> FALSE]

\* csv2_push_buffer, for one record after the other: what does not fit is
\* not there.
Push(s, rrs) ==
  LET all == s.buffer \o rrs IN
  [s EXCEPT !.buffer = IF Len(all) <= BufferMax THEN all
                       ELSE SubSeq(all, 1, BufferMax)]

\* csv2_add_rr_w; FQDN4 is a PTR record and an A record.
AddRrW(s, rrs, method) ==
  IF method = 1 THEN [s EXCEPT !.hash = @ \cup Range(rrs)] ELSE Push(s, rrs)
Records(r) ==
  IF r.type = "FQDN4"
  THEN <<Record("PTR", "elsewhere", r.data), [r EXCEPT !.type = "A"]>> ELSE <<r>>

\* csv2_synthesize_ns: all NS records, then their addresses.
Synth(ips) ==
  [i \in 1..Len(ips) |-> SynthNs(ips[i])] \o [i \in 1..Len(ips) |-> SynthA(ips[i])]
SynthesizeNs(s, ips, method) == AddRrW(s, Synth(ips), method)

\* csv2_add_soa: the SOA, which waits in the buffer, goes to the hash.
AddSoa(s) == IF ~s.in_ns \/ s.buffer = << >> THEN s
             ELSE [s EXCEPT !.hash = @ \cup {Head(s.buffer)},
                            !.buffer = Tail(@), !.in_ns = FALSE]

ZoneNs(r) == r.type = "NS" /\ r.at = "zone"

\* csv2_add_rr.
AddRr(s, r, ips, method) ==
  LET n == [s EXCEPT !.rrnum = @ + 1]
      t == IF s.rrnum = 0 THEN Push(n, <<SynthSoa>>) ELSE n
      u == IF t.nses THEN t ELSE SynthesizeNs(t, ips, method)
      v == IF method = 1 THEN AddSoa(u) ELSE u IN
  IF r.type = "SOA" THEN IF s.rrnum = 0 THEN Push(n, <<r>>) ELSE n
  ELSE IF ZoneNs(r)
  THEN IF t.in_ns THEN AddRrW([t EXCEPT !.nses = TRUE], <<r>>, method) ELSE n
  ELSE AddRrW(IF t.in_ns THEN [v EXCEPT !.in_ns = FALSE] ELSE t,
              Records(r), method)

\* csv2_read_rr: one record, or a negative result (the end, or an error).
ReadRr(s, ips, method) ==
  CASE s.rest = << >> \/ (s.rest # << >> /\ Head(s.rest) = Bad) ->
         [s EXCEPT !.ended = TRUE, !.rest = << >>]
    [] s.rest # << >> /\ Head(s.rest) = Comment -> [s EXCEPT !.rest = Tail(@)]
    [] OTHER -> AddRr([s EXCEPT !.rest = Tail(@)], Head(s.rest), ips, method)

\* csv2_parse_zone: what maradns has of a file, and of its first n lines.
Reading(file, ips) ==
  LET read[n \in 0..Len(file)] ==
        IF n = 0 THEN Opened(file) ELSE ReadRr(read[n - 1], ips, 1)
  IN read
Served(file, ips) == AddSoa(Reading(file, ips)[Len(file)]).hash

\* csv2_tcp_spit_soa: the SOA and the NS records behind it.
SoaReply(buffer) ==
  LET others == {i \in 2 .. Len(buffer) : buffer[i].type # "NS"}
      upto == IF others = {} THEN Len(buffer)
              ELSE (CHOOSE i \in others : \A j \in others : i <= j) - 1
  IN SubSeq(buffer, 1, upto)
=============================================================================
