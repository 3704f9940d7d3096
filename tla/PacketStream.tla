----------------------------- MODULE PacketStream -----------------------------
(***************************************************************************)
(* From packets to a byte stream and back: the three packet factories of   *)
(* the repository (Frames/DataFramesPackets, Threads/                      *)
(* PacketFactoryAsciiLines, the demo's PacketFactorySimple) under the loop *)
(* of ThreadHandler::slotOnReadyToRead.                                    *)
(*                                                                         *)
(* A byte is a small number and a field of a header is one byte; packet    *)
(* numbers and times are left out.  The network cuts the stream anywhere   *)
(* and noise bytes may come between packets.  A step is a packet written,  *)
(* bytes that arrive, or one call of tryExtractPacket().                   *)
(***************************************************************************)
EXTENDS Integers, FiniteSets, SequencesExt, Sublists

CONSTANT Streams \* ways to use a factory

(* In a stream: the factory, the bytes that come from nowhere, and bounds  *)
(* on their number, on the packets sent, on the bytes of a packet's data   *)
(* and on those that arrive at once.                                       *)
ASSUME PacketStreamAssumption ==
  Streams \subseteq [factory : {"frames", "simple", "lines"}, noise : SUBSET (0 .. 9),
                     noises : Nat, packets : Nat, body : 0 .. 2, chunk : Nat \ {0}]

VARIABLES
  stream,   \* one of Streams
  wire,     \* bytes under way
  buffer,   \* _inputBuffer
  working,  \* the loop of slotOnReadyToRead runs
  sent,     \* history: the data of the packets written, for lines the lines
  received, \* history: the data of the packets extracted
  noises    \* bound counter

streamVars == <<stream, wire, buffer, working, sent, received, noises>>

TAG == 9            \* 0x5A, 0x55
TAG2 == 8           \* 0xAA
CR == 6
LF == 5
MaximumValue == 3   \* of PacketType
PacketNeedsTicket == 1

Bodies == BoundedSeq({0, TAG}, stream.body)

(* The check sum tells apart all data of at most two bytes. *)
Crc16(data) == FoldLeft(LAMBDA crc, byte : (2 * crc) + 1 + (byte % 2), 0, data)

HeaderSize == IF stream.factory = "frames" THEN 5 ELSE 4

(* DataFramesPacketHeader is <<tag, tag, type, length, check sum>>;        *)
(* PacketSimpleHeader has no type the factory looks at.                    *)
Packet(data) ==
  CASE stream.factory = "frames" -> <<TAG, TAG, PacketNeedsTicket, Len(data), Crc16(data)>> \o data
    [] stream.factory = "simple" -> <<TAG, TAG2, Len(data), Crc16(data)>> \o data
    [] stream.factory = "lines"  -> data \o <<CR, LF>>

(* The packets of one call and what is left of the data. *)
Nothing(data) == [packets |-> <<>>, rest |-> data]

(* Mutant of Body: the header stays in the buffer. *)
BodyKeepsHeader(data) ==
  LET length == data[HeaderSize - 1]
  IN IF Len(data) < HeaderSize + length THEN Nothing(data)
     ELSE [packets |-> <<SubSeq(data, HeaderSize + 1, HeaderSize + length)>>,
           rest    |-> SubSeq(data, length + 1, Len(data))]

(* A header at the start of the data: the end of tryExtractPacket(), the   *)
(* same in both factories with headers.                                    *)
Body(data) ==
  LET length == data[HeaderSize - 1]
      body   == SubSeq(data, HeaderSize + 1, HeaderSize + length)
  IN IF Len(data) < HeaderSize + length \/ Crc16(body) # data[HeaderSize]
     THEN Nothing(data)
     ELSE [packets |-> <<body>>, rest |-> SubSeq(data, HeaderSize + length + 1, Len(data))]

Drop(data, n) == SubSeq(data, n + 1, Len(data))

(* DataFramesPacketFactory.  The text it looks for, "\0x5A\0x5A", begins   *)
(* with a zero byte and is empty for indexOf(): the position found is      *)
(* always 0, and only a packet type out of range removes a byte.           *)
GarbageEnds(data, k) == Len(data) - k < HeaderSize \/ data[k + 3] < MaximumValue
Garbage(data) == CHOOSE k \in 0 .. Len(data) : GarbageEnds(data, k) /\ \A j \in 0 .. (k - 1) : ~GarbageEnds(data, j)

ExtractFrames(data) ==
  LET rest == Drop(data, Garbage(data))
  IN IF Len(rest) < HeaderSize THEN Nothing(rest) ELSE Body(rest)

(* PacketFactorySimple looks for the first byte of the tag. *)
ExtractSimple(data) ==
  LET rest == Drop(data, SelectInSeq(data, LAMBDA byte : byte = TAG) - 1)
  IN IF ~Contains(data, TAG) THEN Nothing(data)
     ELSE IF Len(rest) < HeaderSize THEN Nothing(rest) ELSE Body(rest)

(* Where lines end, and the last of these places before place i.           *)
LineEnds(data) == {i \in DOMAIN data : data[i] \in {CR, LF}}
EndBefore(data, i) == Max({0} \cup {e \in LineEnds(data) : e < i})

(* PacketFactoryAsciiLines: the non-empty lines up to the last CR or LF    *)
(* are one packet.                                                         *)
ExtractLines(data) ==
  LET lines == [i \in DOMAIN data |-> SubSeq(data, EndBefore(data, i) + 1, i - 1)]
  IN [packets |-> Sublist(lines, {i \in LineEnds(data) : lines[i] # <<>>}),
      rest    |-> Drop(data, EndBefore(data, Len(data) + 1))]

TryExtractPacket(data) ==
  CASE stream.factory = "frames" -> ExtractFrames(data)
    [] stream.factory = "simple" -> ExtractSimple(data)
    [] stream.factory = "lines"  -> ExtractLines(data)

StreamInit ==
  /\ stream \in Streams
  /\ wire = <<>> /\ buffer = <<>> /\ working = FALSE
  /\ sent = <<>> /\ received = <<>> /\ noises = 0

Send(data) ==
  /\ Len(sent) < stream.packets
  /\ wire' = wire \o Packet(data)
  /\ sent' = Append(sent, data)
  /\ UNCHANGED <<stream, buffer, working, received, noises>>

(* External: bytes from the line or of a peer's mistake. *)
Disturb(byte) ==
  /\ noises < stream.noises
  /\ wire' = Append(wire, byte)
  /\ noises' = noises + 1
  /\ UNCHANGED <<stream, buffer, working, sent, received>>

(* The first part of slotOnReadyToRead: what could be read. *)
Read(n) ==
  /\ ~working
  /\ n <= Len(wire)
  /\ buffer' = buffer \o SubSeq(wire, 1, n)
  /\ wire' = Drop(wire, n)
  /\ working' = TRUE
  /\ UNCHANGED <<stream, sent, received, noises>>

(* Mutant of Extract: one packet for each arrival. *)
ExtractOnce ==
  /\ working
  /\ LET result == TryExtractPacket(buffer)
     IN /\ buffer' = result.rest
        /\ received' = received \o result.packets
        /\ working' = FALSE
  /\ UNCHANGED <<stream, wire, sent, noises>>

(* One turn of its loop. *)
Extract ==
  /\ working
  /\ LET result == TryExtractPacket(buffer)
     IN /\ buffer' = result.rest
        /\ received' = received \o result.packets
        /\ working' = (result.packets # <<>>)
  /\ UNCHANGED <<stream, wire, sent, noises>>

StreamNext ==
  \/ \E data \in Bodies : Send(data)
  \/ \E byte \in stream.noise : Disturb(byte)
  \/ \E n \in 1 .. stream.chunk : Read(n)
  \/ Extract

StreamSpec == StreamInit /\ [][StreamNext]_streamVars

---------------------------------------------------------------------------

(* What the other side is to receive: empty lines are not lines. *)
Expected == IF stream.factory = "lines" THEN Sublist(sent, {i \in DOMAIN sent : sent[i] # <<>>}) ELSE sent

(* However the network cuts the stream, what comes out is what was sent,   *)
(* in its order and with no packet cut, doubled or made up: every call     *)
(* removes from the buffer what it has used and nothing else.              *)
ReceivedInOrder == IsPrefix(received, Expected)

(* When all bytes have arrived and the loop has ended, every packet has    *)
(* been extracted, whatever stood between the packets: the loop never      *)
(* stops while a whole packet is in the buffer, and garbage is removed.    *)
AllExtracted == (wire = <<>> /\ ~working) => received = Expected

---------------------------------------------------------------------------
(***************************************************************************)
(* The inductive invariant.                                                *)
(***************************************************************************)
(* Noise no factory takes for a part of a packet.                          *)
NoiseHarmless ==
  \A s \in Streams :
    /\ s.factory = "frames" => s.noise \subseteq MaximumValue .. 9
    /\ s.factory = "simple" => TAG \notin s.noise
    /\ s.factory = "lines"  => s.noise \subseteq {CR, LF}

Datas == BoundedSeq({0, TAG}, 2)
Bytes == (0 .. 9) \cup {Crc16(data) : data \in Datas}

(* The bytes a factory knows a packet by, and the bytes between these.     *)
Whole(s, data) ==
  CASE s.factory = "frames" -> <<TAG, TAG, PacketNeedsTicket, Len(data), Crc16(data)>> \o data
    [] s.factory = "simple" -> <<TAG, TAG2, Len(data), Crc16(data)>> \o data
    [] s.factory = "lines"  -> data \o <<CR>>

Filler(s) == s.noise \cup (IF s.factory = "lines" THEN {CR, LF} ELSE {})

(* The place behind packet i, if it begins at places[i].                   *)
Behind(s, datas, places, i) == places[i] + Len(Whole(s, datas[i]))

(* The bytes are packets with these data, at these places, and fillers.    *)
Lies(s, bytes, datas, places) ==
  /\ \A i \in DOMAIN datas : Behind(s, datas, places, i) <= Len(bytes) + 1
  /\ \A i \in DOMAIN datas : \A j \in DOMAIN Whole(s, datas[i]) : bytes[places[i] + j - 1] = Whole(s, datas[i])[j]
  /\ \A i, j \in DOMAIN datas : i < j => Behind(s, datas, places, i) <= places[j]
  /\ \A x \in DOMAIN bytes :
        bytes[x] \in Filler(s) \/ \E i \in DOMAIN datas : places[i] <= x /\ x < Behind(s, datas, places, i)
  /\ s.factory = "lines" => \A i \in DOMAIN datas : datas[i] # <<>>

StreamTypeOK ==
  /\ stream \in Streams
  /\ wire \in Seq(Bytes) /\ buffer \in Seq(Bytes)
  /\ working \in BOOLEAN
  /\ sent \in Seq(Datas) /\ received \in Seq(Datas)
  /\ noises \in Nat

(* What is still to come lies in the buffer and on the wire, packet by     *)
(* packet, and while the loop does not run the first of them is not whole  *)
(* in the buffer.                                                          *)
ToCome == Drop(Expected, Len(received))

StreamInv ==
  /\ StreamTypeOK
  /\ ReceivedInOrder
  /\ \E places \in [DOMAIN ToCome -> 1 .. (Len(buffer) + Len(wire))] :
        /\ Lies(stream, buffer \o wire, ToCome, places)
        /\ ~working /\ ToCome # <<>> => Behind(stream, ToCome, places, 1) > Len(buffer) + 1

=============================================================================
