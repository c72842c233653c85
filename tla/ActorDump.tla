------------------------------ MODULE ActorDump ------------------------------
(***************************************************************************)
(* The actor-dump bridge, tools/bridge/af_ds_udp_bridge_v5_actor_dump.py:  *)
(* a relay for one client at a time that decodes a copy of every datagram  *)
(* and writes the bunches worth a look to a file.  Bridge v9 holds the     *)
(* same decoder, and takes a client's datagram only if it decodes.         *)
(*                                                                         *)
(* A datagram is the bits inside of the cipher; one that does not decrypt  *)
(* is NoBits.  A packet is an id and records: acknowledgements of packets  *)
(* and bunches of payload bits on channels.                                *)
(***************************************************************************)
EXTENDS Integers, Sequences, SequencesExt, FiniteSets, TLC

CONSTANTS
  Clients,     \* addresses
  Packets,     \* what the two ends send
  Noise,       \* bits no end means as a packet
  CH2_DUMP_LIMIT, OTHER_CHANNEL_EARLY_DUMP_LIMIT,
  MaxBunches   \* bound: bunches on actor channels before the last datagram

DumpAssumption ==
  /\ CH2_DUMP_LIMIT \in Nat /\ OTHER_CHANNEL_EARLY_DUMP_LIMIT \in Nat /\ MaxBunches \in Nat
  /\ \A p \in Packets : p.id \in 0..16383

VARIABLES
  client,   \* the address replies go to
  wire,     \* the datagram relayed last: its direction, packet and bits
  log       \* the bunches on actor channels so far, and which of them are in the dump file

vars == <<client, wire, log>>

-----------------------------------------------------------------------------
(* Packets as bits, the least significant bit of a number first.           *)

\* The bits read_int reads for numbers below a maximum: mask = 1, 2, 4 .. while below it.
Maxima == {16384, 1023, 1024, 8, 4096}
BadWidth == [maximum \in Maxima |-> CHOOSE n \in 0..15 : 2^n > maximum /\ (n = 0 \/ 2^(n - 1) <= maximum)]
Width == [maximum \in Maxima |-> CHOOSE n \in 0..15 : 2^n >= maximum /\ (n = 0 \/ 2^(n - 1) < maximum)]

\* What the game sends; 16384 packet ids, 1023 channels, 1024 sequence numbers, 8 channel
\* types, payloads below 4096 bits, a stop bit and zeros up to a whole byte.
Bits(v, n) == [k \in 1..n |-> (v \div 2^(k - 1)) % 2]
EncodeRecord(r) ==
  IF r.ack = 1 THEN <<1>> \o Bits(r.id, 14)
  ELSE <<0, r.ctl>> \o (IF r.ctl = 1 THEN <<r.op, r.cl>> ELSE <<>>) \o <<r.rel>>
         \o Bits(r.ch, 10) \o (IF r.rel = 1 THEN Bits(r.seq, 10) ELSE <<>>)
         \o (IF r.rel = 1 \/ r.op = 1 THEN Bits(r.type, 3) ELSE <<>>)
         \o Bits(Len(r.payload), 12) \o r.payload
Encode(p) ==
  LET bare == Bits(p.id, 14) \o FlattenSeq([k \in DOMAIN p.records |-> EncodeRecord(p.records[k])])
                \o <<1>>
  IN  bare \o [k \in 1..((8 - (Len(bare) % 8)) % 8) |-> 0]

NoBits == <<>>
NoPacket == [id |-> -1, records |-> <<>>]
Failed == [ok |-> FALSE]

\* The fields of a record in order; one a record has not is 0.
Layout == <<"ack", "id", "ctl", "op", "cl", "rel", "ch", "seq", "type", "length">>
FieldWidth(f) ==
  CASE f = "id" -> Width[16384] [] f = "ch" -> Width[1023] [] f = "seq" -> Width[1024]
    [] f = "type" -> Width[8] [] f = "length" -> Width[4096] [] OTHER -> 1
Has(r, f) ==
  CASE f = "ack" -> TRUE [] f = "id" -> r.ack = 1
    [] f \in {"op", "cl"} -> r.ctl = 1 [] f = "seq" -> r.rel = 1
    [] f = "type" -> r.rel = 1 \/ r.op = 1 [] OTHER -> r.ack = 0
Blank == [f \in ToSet(Layout) \cup {"end"} |-> 0]

\* Positions count from 0; past the last bit there are zeros, and an error.
NumberAt(bits, k, width) ==
  LET from[j \in 0..width] ==
        IF j = width THEN 0
        ELSE (IF k + j < Len(bits) THEN bits[k + j + 1] ELSE 0) + 2 * from[j + 1]
  IN  from[0]
Record(bits, k) ==
  FoldLeft(LAMBDA r, f :
             IF Has(r, f) THEN [r EXCEPT ![f] = NumberAt(bits, r.end, FieldWidth(f)),
                                         !.end = @ + FieldWidth(f)]
             ELSE r,
           [Blank EXCEPT !.end = k], Layout)

\* parse_packet: records up to the stop bit, which is the last bit set.  Reading past
\* the last bit is an error, and so is a payload that reaches the stop bit; a header
\* that does is not.
Fits(bits, stop, r) == r.end <= Len(bits) /\ (r.ack = 1 \/ r.end + r.length <= stop)
Before(bits, r, rest) ==
  IF ~rest.ok THEN Failed
  ELSE [ok |-> TRUE, records |->
          <<[head |-> r, payload |-> SubSeq(bits, r.end + 1, r.end + r.length)]>> \o rest.records]
RecordsFrom(bits, stop) ==
  LET from[k \in Nat] ==
        LET goOn(r) == IF Fits(bits, stop, r) THEN Before(bits, r, from[r.end + r.length])
                       ELSE Failed
        IN  IF k >= stop THEN [ok |-> TRUE, records |-> <<>>] ELSE goOn(Record(bits, k))
  IN  from[Width[16384]]
Parse(bits) ==
  LET set == {k \in 1..Len(bits) : bits[k] = 1}
  IN  IF set = {} \/ Len(bits) < Width[16384] THEN Failed
      ELSE [id |-> NumberAt(bits, 0, Width[16384])] @@ RecordsFrom(bits, Max(set) - 1)

\* What can arrive, and how each decodes.
Datagrams == {[packet |-> p, bits |-> Encode(p)] : p \in Packets}
               \cup {[packet |-> NoPacket, bits |-> b] : b \in Noise}
Decoded == [bits \in {d.bits : d \in Datagrams} |-> Parse(bits)]

-----------------------------------------------------------------------------
(* The relay.                                                              *)

Init ==
  /\ client = "none" /\ wire = [way |-> "none", sent |-> [packet |-> NoPacket, bits |-> NoBits]]
  /\ log = [bunches |-> <<>>, seen |-> <<>>, dump |-> {}]

Limit(ch) == IF ch = 2 THEN CH2_DUMP_LIMIT ELSE OTHER_CHANNEL_EARLY_DUMP_LIMIT

\* actor_payload_detail: a bunch is counted in ACTOR_SEEN, by direction and channel,
\* and dumped if it opens the channel or is an early one.
BadWorthDumping(b, count) == b.op = 1 \/ count < Limit(b.ch)
WorthDumping(b, count) == b.op = 1 \/ count <= Limit(b.ch)
Counted(seen, key) == (key :> 1 + (IF key \in DOMAIN seen THEN seen[key] ELSE 0)) @@ seen
Detail(old, seen, way, b) ==
  [bunches |-> Append(old.bunches, [way |-> way, ch |-> b.ch, op |-> b.op]),
   seen |-> seen,
   dump |-> old.dump \cup (IF WorthDumping(b, seen[<<way, b.ch>>])
                            THEN {1 + Len(old.bunches)} ELSE {})]
Summarize(way, parsed) ==
  log' = IF ~parsed.ok THEN log
         ELSE FoldLeft(LAMBDA old, r :
                         IF r.head.ack = 1 \/ r.head.ch = 0 THEN old
                         ELSE Detail(old, Counted(old.seen, <<way, r.head.ch>>), way, r.head),
                       log, parsed.records)

\* Any datagram from a client makes it the one the replies go to, and goes on unchanged.
FromClient(c, d) ==
  /\ Len(log.bunches) < MaxBunches
  /\ client' = c /\ wire' = [way |-> "C->S", sent |-> d]
  /\ Summarize("C->S", Decoded[d.bits])

\* A datagram of the server, and of nobody else, goes to the client that spoke last,
\* if one has.
FromServer(d) ==
  /\ Len(log.bunches) < MaxBunches
  /\ wire' = [way |-> IF client = "none" THEN "dropped" ELSE "S->C", sent |-> d]
  /\ Summarize("S->C", Decoded[d.bits])
  /\ UNCHANGED client

Next == \E d \in Datagrams : FromServer(d) \/ \E c \in Clients : FromClient(c, d)
Spec == Init /\ [][Next]_vars

-----------------------------------------------------------------------------
\* Every packet decodes to what its sender meant, whatever its fields' values: no bit
\* belongs to two fields or to none.
Meant(r, s) ==
  /\ r.head.ack = s.ack
  /\ IF s.ack = 1 THEN r.head.id = s.id
     ELSE /\ \A f \in {"ctl", "op", "cl", "rel", "ch", "seq", "type"} : r.head[f] = s[f]
          /\ r.payload = s.payload
DecodedRight ==
  LET asSent(parsed, p) ==
        /\ parsed.ok /\ parsed.id = p.id /\ Len(parsed.records) = Len(p.records)
        /\ \A k \in DOMAIN p.records : Meant(parsed.records[k], p.records[k])
  IN  wire.sent.packet # NoPacket => asSent(Decoded[wire.sent.bits], wire.sent.packet)

\* In the dump are all channel opens and the first bunches of each direction and
\* channel up to its limit, and no others, however they are spread over packets.
DumpComplete ==
  \A i \in DOMAIN log.bunches :
    LET same(j) == \A f \in {"way", "ch"} : log.bunches[j][f] = log.bunches[i][f]
    IN  i \in log.dump <=>
          \/ log.bunches[i].op = 1
          \/ Cardinality({j \in 1..i - 1 : same(j)}) < Limit(log.bunches[i].ch)
=============================================================================
