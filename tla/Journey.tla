------------------------------ MODULE Journey -------------------------------
(***************************************************************************)
(* The way of a message from a server through Deadwood to a client: the    *)
(* server, MaraDNS or any other, compresses it; Deadwood decompresses it   *)
(* for its cache and compresses it for each client that asks; the client   *)
(* is one of MaraDNS's own programs and decompresses what it gets.         *)
(***************************************************************************)
EXTENDS Wire

CONSTANTS
  Messages, MaxPoints, MaxCompressed, MaxDlabel, OutRoom, StackRoom,
  Stale          \* what malloc may leave behind the packet being written

Mara == INSTANCE MaraCodec
Deadwood == INSTANCE DwCodec

VARIABLES
  message,       \* what the server has to say
  wire,          \* the packet that it sends
  value,         \* what Deadwood has in its cache
  reply          \* the packet that the client gets

vars == <<message, wire, value, reply>>

None == [cells |-> <<>>, offsets |-> <<>>]

Init == message \in Messages /\ wire = <<>> /\ value = None /\ reply = <<>>

Serve ==
  /\ wire = <<>>
  /\ wire' = Mara!CompressData(Plain(message))
  /\ UNCHANGED <<message, value, reply>>

ServeOther ==
  /\ wire = <<>>
  /\ wire' \in Written(message)
  /\ UNCHANGED <<message, value, reply>>

\* cache_dns_reply
Take ==
  /\ wire # <<>>
  /\ value = None
  /\ value' = Deadwood!Decompress(Question(message), Deadwood!PacketToCache(wire))
  /\ UNCHANGED <<message, wire, reply>>

\* get_reply_from_cache
Answer(stale) ==
  /\ value # None
  /\ reply' = Deadwood!DnsPacket(Question(message), value, stale)
  /\ UNCHANGED <<message, wire, value>>

Next == Serve \/ ServeOther \/ Take \/ \E stale \in Stale : Answer(stale)

Spec == Init /\ [][Next]_vars

\* decompress_data gives back every packet that RFC 1035 allows for a
\* message, and MaraDNS's compress_data makes no other.
ServedReads == wire # <<>> => Mara!DecompressData(wire) = Plain(message)

\* dwc_decompress, whatever part of it upstream has compressed, caches the
\* records as they are, and its offsets are those of their names and types.
TakenWhole ==
  value # None =>
    /\ <<Header(Len(message.rrs))>> \o Question(message) \o <<Class>> \o value.cells
         = Plain(message)
    /\ \A i \in DOMAIN value.offsets :
         /\ At(value.cells, value.offsets[i][2]).of = message.rrs[i].type
         /\ NameAt(value.cells, value.offsets[i][1]) = message.rrs[i].owner

\* What dwc_compress makes of the cache's records, a client reads as what the
\* server meant; a packet that has no room is not sent at all.
ClientReads == reply # <<>> => Mara!DecompressData(reply) = Plain(message)
=============================================================================
