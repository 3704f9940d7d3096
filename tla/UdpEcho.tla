------------------------------- MODULE UdpEcho -------------------------------
(***************************************************************************)
(* The demonstration of UDP (Demo/Udp) over HandlerUdpSocket: a listener   *)
(* on 0.0.0.0 that sends back what it gets, from any number of peers.      *)
(*                                                                         *)
(* read() notes the sender of a datagram in _remoteAddress, write() sends  *)
(* the whole output buffer there as one datagram.  The thread goes round   *)
(* as in module ThreadHandler; here a round is one step.  A byte is        *)
(* <<peer, number>>.                                                       *)
(***************************************************************************)
EXTENDS Integers, SequencesExt

CONSTANTS
  Peers,           \* addresses that send datagrams
  Sizes,           \* how long these are; 0 is possible
  MaximumDataSize, \* MAXIMUM_DATA_SIZE (65507)
  MaxBytes         \* bounds on the bytes and the empty datagrams of a peer

VARIABLES
  remoteAddress, \* where write() sends to
  unread,        \* datagrams in the socket
  outputBuffer,  \* bytes to be sent
  sentBy,        \* peer -> how many bytes it has sent
  empty,         \* peers that have sent an empty datagram
  echoes         \* history: datagrams sent back

udpVars == <<remoteAddress, unread, outputBuffer, sentBy, empty, echoes>>

INADDR_ANY == "0.0.0.0"

(* The constructor resolves the host: that of a listener is no address.    *)
Init ==
  /\ remoteAddress = INADDR_ANY
  /\ unread = <<>> /\ outputBuffer = <<>> /\ echoes = <<>>
  /\ sentBy = [p \in Peers |-> 0] /\ empty = {}

(* External: a datagram comes in.                                          *)
PeerSends(p, size) ==
  /\ sentBy[p] + size <= MaxBytes
  /\ size = 0 => p \notin empty
  /\ unread' = Append(unread, [peer |-> p, data |-> [i \in 1 .. size |-> <<p, sentBy[p] + i>>]])
  /\ sentBy' = [sentBy EXCEPT ![p] = @ + size]
  /\ empty' = IF size = 0 THEN empty \cup {p} ELSE empty
  /\ UNCHANGED <<remoteAddress, outputBuffer, echoes>>

(* How many datagrams slotOnReadyToRead() takes: an empty one looks like   *)
(* the end of the data.                                                    *)
Taken ==
  LET end == SelectInSeq(unread, LAMBDA d : d.data = <<>>)
  IN IF end = 0 THEN Len(unread) ELSE end

(* Mutant of Read: the first sender is kept.                               *)
ReadKeepingAddress(datagrams) == IF remoteAddress = INADDR_ANY THEN datagrams[1].peer ELSE remoteAddress

Read(datagrams) == Last(datagrams).peer

(* onReadData(): all that was read goes to the output stream.              *)
OnReadData(buffer, datagrams) == buffer \o FlattenSeq([i \in DOMAIN datagrams |-> datagrams[i].data])

(* write(): what is too much for a datagram is not sent, nor what the      *)
(* system refuses.                                                         *)
Write(data, refused) ==
  IF data = <<>> \/ Len(data) > MaximumDataSize \/ refused THEN <<>>
  ELSE <<[peer |-> remoteAddress, data |-> data]>>

(* A round: output that waits is written before input is read.             *)
Round(refused) ==
  /\ outputBuffer # <<>> \/ unread # <<>>
  /\ LET datagram == Write(outputBuffer, refused)
         kept == IF datagram = <<>> THEN outputBuffer ELSE <<>>
         datagrams == SubSeq(unread, 1, Taken)
     IN /\ echoes' = echoes \o datagram
        /\ outputBuffer' = OnReadData(kept, datagrams)
        /\ remoteAddress' = IF datagrams = <<>> THEN remoteAddress ELSE Read(datagrams)
        /\ unread' = SubSeq(unread, Taken + 1, Len(unread))
  /\ UNCHANGED <<sentBy, empty>>

Next ==
  \/ \E p \in Peers, size \in Sizes : PeerSends(p, size)
  \/ \E refused \in BOOLEAN : Round(refused)

Spec == Init /\ [][Next]_udpVars

---------------------------------------------------------------------------

Data(datagrams) == FlattenSeq([i \in DOMAIN datagrams |-> datagrams[i].data])

(* Every byte of a peer is sent back once and in its order, however the    *)
(* datagrams were joined; and a datagram goes to the peer whose byte ends  *)
(* it, so a peer that is alone gets its own back.  Only an empty datagram  *)
(* can turn the bytes of others to its sender.                             *)
EchoesInOrder ==
  /\ \A p \in Peers :
       SelectSeq(Data(echoes) \o outputBuffer \o Data(unread), LAMBDA byte : byte[1] = p)
         = [i \in 1 .. sentBy[p] |-> <<p, i>>]
  /\ \A i \in DOMAIN echoes : echoes[i].peer \in empty \cup {Last(echoes[i].data)[1]}
=============================================================================
