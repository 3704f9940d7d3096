---------------------------- MODULE DataFramesLink ----------------------------
(***************************************************************************)
(* Threads/ThreadDataFrames with Frames/DataFramesPackets: a client and    *)
(* the server it is connected to, connection after connection.             *)
(*                                                                         *)
(* The client is one ThreadDataFrames that reconnects; its queue, current  *)
(* packet and packet numbers live on.  On the server every connection is a *)
(* ThreadDataFrames of its own, built on the accepted descriptor.  The     *)
(* client sends frames that need a ticket (numbered here in the order they *)
(* are queued) and both sides send frames that do not.                     *)
(*                                                                         *)
(* A step is one call into a ThreadDataFrames object, which runs in its    *)
(* own thread, or an event of the connection.  The packets between the two *)
(* objects of a connection (output buffer, network, input buffer) are one  *)
(* sequence for each direction; a connection that breaks loses the end of  *)
(* both, and each side notices in its own time.                            *)
(***************************************************************************)
EXTENDS Integers, FiniteSets, SequencesExt, Sublists

CONSTANTS
  IdLimit,      \* packet identifiers are below it (0x1FFFFFFF)
  Garbage,      \* what the uninitialised _nextPacketId may hold
  PlainFrom,    \* the sides that send frames without ticket
  MaxFrames,    \* bound: frames with ticket
  MaxPlain,     \* bound: frames without ticket
  MaxWire,      \* bound: packets under way when a side sends on its own
  MaxSessions,  \* bound: connections; the last one does not break
  MaxResets     \* bound: calls of resetQueue()

ASSUME LinkAssumption ==
  /\ IdLimit \in Nat /\ IdLimit > 1
  /\ Garbage \subseteq Int /\ PlainFrom \subseteq {"client", "server"}
  /\ MaxFrames \in Nat /\ MaxPlain \in Nat /\ MaxWire \in Nat /\ MaxSessions \in Nat \ {0} /\ MaxResets \in Nat

VARIABLES
  queue,              \* client: _queuePackets
  currentPacket,      \* client: _currentPacket
  packetId,           \* client: _packetId of the packet factory
  nextPacketId,       \* client: _nextPacketId
  session,            \* client: its connection, 0 when disconnected
  age,                \* client: seconds since _lastPacketSent (2: more than two)
  link,               \* connections: not opened, up, broken, closed by the server
  serverPacketId, serverNextPacketId, \* the server object of each connection
  toServer, toClient, \* packets under way on each connection
  queued, received, applied, \* history: frames queued, received, confirmed
  heard, resent,      \* history: connections on which the server has received
                      \* a packet, the client has sent a packet again
  reported,           \* history: calls of onPacketIdDiscontinuity
  resets, plains      \* bound counters

clientVars  == <<queue, currentPacket, packetId, nextPacketId, session, age>>
serverVars  == <<serverPacketId, serverNextPacketId>>
wireVars    == <<link, toServer, toClient>>
historyVars == <<queued, received, applied, heard, resent, reported>>
bounds      == <<resets, plains>>
linkVars    == <<clientVars, serverVars, wireVars, historyVars, bounds>>

Sessions == 1 .. MaxSessions

NoPacket == [frame |-> 0, id |-> 0]   \* nullptr

PacketTypes == {"PacketWithoutTicket", "PacketNeedsTicket", "Ticket"}
Packet == [type : PacketTypes, id : 0 .. IdLimit - 1, frame : Nat, ticket : Nat]

PACKET_ID_EMPTY == 0

(* A packet of the queue.                                                  *)
BuildPacket(frame) == [frame |-> frame, id |-> PACKET_ID_EMPTY]

PlainPacket(id) == [type |-> "PacketWithoutTicket", id |-> id, frame |-> 0, ticket |-> 0]
FramePacket(p)  == [type |-> "PacketNeedsTicket", id |-> p.id, frame |-> p.frame, ticket |-> 0]
TicketPacket(id, confirmed) == [type |-> "Ticket", id |-> id, frame |-> 0, ticket |-> confirmed]

Init ==
  /\ queue = <<>> /\ currentPacket = NoPacket
  /\ packetId = 0 /\ nextPacketId \in Garbage
  /\ session = 0 /\ age = 0
  /\ link = [c \in Sessions |-> "none"]
  /\ serverPacketId = [c \in Sessions |-> 0]
  /\ serverNextPacketId = [c \in Sessions |-> 0]
  /\ toServer = [c \in Sessions |-> <<>>]
  /\ toClient = [c \in Sessions |-> <<>>]
  /\ queued = 0 /\ received = {} /\ applied = {}
  /\ heard = {} /\ resent = {} /\ reported = {}
  /\ resets = 0 /\ plains = 0

-----------------------------------------------------------------------------
(* Helpers.                                                                *)

Enqueue(packet) == Append(queue, packet)
First(packets) == IF packets = <<>> THEN NoPacket ELSE Head(packets)
Reset(packets) == [i \in DOMAIN packets |-> [packets[i] EXCEPT !.id = PACKET_ID_EMPTY]]

GenerateNextPacketId(id) == IF id + 1 >= IdLimit THEN 1 ELSE id + 1

(* Bound: room for a packet that answers no other.                         *)
RoomOn(c) == c \in Sessions => Len(toServer[c]) + Len(toClient[c]) < MaxWire

(* sendPacket() of the client: nothing while it is not connected; on a     *)
(* broken connection it believes to be connected.                          *)
ClientSend(packet) ==
  IF session = 0
  THEN UNCHANGED <<toServer, age>>
  ELSE /\ age' = 0
       /\ toServer' = IF link[session] = "up"
                      THEN [toServer EXCEPT ![session] = Append(@, packet)]
                      ELSE toServer

(* Mutant: a packet whose ticket does not come is not sent again.          *)
ProcessQueueOnce(packets, current) ==
  IF current # NoPacket \/ First(packets) = NoPacket
  THEN /\ queue' = packets /\ currentPacket' = current
       /\ UNCHANGED <<packetId, toServer, age, resent>>
  ELSE /\ packetId' = GenerateNextPacketId(packetId)
       /\ currentPacket' = [First(packets) EXCEPT !.id = packetId']
       /\ queue' = [packets EXCEPT ![1] = currentPacket']
       /\ ClientSend(FramePacket(currentPacket'))
       /\ UNCHANGED resent

(* processQueue(), with what its caller has made of the queue and of the   *)
(* current packet: a current packet is sent again when nothing has been    *)
(* sent for two seconds; otherwise the first packet of the queue gets a    *)
(* number and becomes the current one.                                     *)
ProcessQueue(packets, current) ==
  IF current # NoPacket
  THEN /\ queue' = packets /\ currentPacket' = current
       /\ UNCHANGED packetId
       /\ IF age = 2
          THEN ClientSend(FramePacket(current)) /\ resent' = resent \cup {session}
          ELSE UNCHANGED <<toServer, age, resent>>
  ELSE IF First(packets) = NoPacket
  THEN /\ queue' = packets /\ currentPacket' = current
       /\ UNCHANGED <<packetId, toServer, age, resent>>
  ELSE /\ packetId' = GenerateNextPacketId(packetId)
       /\ currentPacket' = [First(packets) EXCEPT !.id = packetId']
       /\ queue' = [packets EXCEPT ![1] = currentPacket']
       /\ ClientSend(FramePacket(currentPacket'))
       /\ UNCHANGED resent

(* applyTicket() of the queue.                                             *)
PacketsWithout(id) == Sublist(queue, {i \in DOMAIN queue : queue[i].id # id})

(* applyTicket(): the packets with this number leave the queue.            *)
ApplyTicket(id) ==
  LET rest == PacketsWithout(id)
      gone == {p.frame : p \in {q \in ToSet(queue) : q.id = id}}
  IN IF gone = {}
     THEN UNCHANGED <<queue, currentPacket, packetId, toServer, age, applied, resent>>
     ELSE /\ applied' = applied \cup gone
          /\ ProcessQueue(rest, NoPacket)

-----------------------------------------------------------------------------
(* The client.                                                             *)

(* sendFrame() of a frame that needs a ticket.                             *)
SendFrame ==
  /\ queued < MaxFrames /\ RoomOn(session)
  /\ queued' = queued + 1
  /\ ProcessQueue(Enqueue(BuildPacket(queued + 1)), currentPacket)
  /\ UNCHANGED <<nextPacketId, session, serverVars, link, toClient,
                 received, applied, heard, reported, bounds>>

(* sendFrame() of a frame that does not: sent at once, or lost.            *)
ClientSendPlain ==
  /\ "client" \in PlainFrom /\ RoomOn(session) /\ plains < MaxPlain
  /\ plains' = plains + 1
  /\ packetId' = GenerateNextPacketId(packetId)
  /\ ClientSend(PlainPacket(packetId'))
  /\ UNCHANGED <<queue, currentPacket, nextPacketId, session, serverVars, link, toClient,
                 historyVars, resets>>

(* processQueue() and resetQueue() called by the application's subclass.   *)
CallProcessQueue ==
  /\ RoomOn(session)
  /\ ProcessQueue(queue, currentPacket)
  /\ UNCHANGED <<nextPacketId, session, serverVars, link, toClient,
                 queued, received, applied, heard, reported, bounds>>

ResetQueue ==
  /\ resets < MaxResets /\ resets' = resets + 1
  /\ currentPacket' = NoPacket
  /\ queue' = Reset(queue)
  /\ UNCHANGED <<packetId, nextPacketId, session, age, serverVars, wireVars, historyVars, plains>>

(* onPacketReceived().                                                     *)
ClientReceive ==
  /\ session # 0 /\ toClient[session] # <<>>
  /\ LET packet == Head(toClient[session])
     IN /\ reported' = IF nextPacketId >= 0 /\ nextPacketId # packet.id
                       THEN reported \cup {[at |-> "client", session |-> session, first |-> FALSE,
                                             wrapped |-> nextPacketId = IdLimit]}
                       ELSE reported
        /\ nextPacketId' = packet.id + 1
        /\ \/ /\ packet.type = "Ticket"
              /\ ApplyTicket(packet.ticket)
           \/ /\ packet.type = "PacketWithoutTicket"
              /\ packetId' = GenerateNextPacketId(packetId)
              /\ ClientSend(TicketPacket(packetId', packet.id))
              /\ UNCHANGED <<queue, currentPacket, applied, resent>>
  /\ toClient' = [toClient EXCEPT ![session] = Tail(@)]
  /\ UNCHANGED <<session, serverVars, link, queued, received, heard, bounds>>

(* A second passes (time is counted as far as the two seconds need it).    *)
Tick ==
  /\ age' = (IF age < 2 THEN age + 1 ELSE age)
  /\ UNCHANGED <<queue, currentPacket, packetId, nextPacketId, session, serverVars, wireVars,
                 historyVars, bounds>>

-----------------------------------------------------------------------------
(* The server object of connection c.                                      *)

ServerUp(c) == link[c] \in {"up", "down"}

ServerSend(c, packet) ==
  toClient' = IF link[c] = "up" THEN [toClient EXCEPT ![c] = Append(@, packet)] ELSE toClient

ServerSendPlain(c) ==
  /\ "server" \in PlainFrom /\ ServerUp(c) /\ RoomOn(c) /\ plains < MaxPlain
  /\ plains' = plains + 1
  /\ serverPacketId' = [serverPacketId EXCEPT ![c] = GenerateNextPacketId(@)]
  /\ ServerSend(c, PlainPacket(serverPacketId'[c]))
  /\ UNCHANGED <<clientVars, serverNextPacketId, link, toServer, historyVars, resets>>

(* onPacketReceived().  A ticket for a frame without ticket meets an empty *)
(* queue.  "Received" is what the ticket confirms; the code reads no frames *)
(* from a packet that needs a ticket.                                      *)
ServerReceive(c) ==
  /\ ServerUp(c) /\ toServer[c] # <<>>
  /\ LET packet == Head(toServer[c])
     IN /\ reported' = IF serverNextPacketId[c] >= 0 /\ serverNextPacketId[c] # packet.id
                       THEN reported \cup {[at |-> "server", session |-> c, first |-> c \notin heard,
                                             wrapped |-> serverNextPacketId[c] = IdLimit]}
                       ELSE reported
        /\ serverNextPacketId' = [serverNextPacketId EXCEPT ![c] = packet.id + 1]
        /\ \/ /\ packet.type = "Ticket"
              /\ UNCHANGED <<serverPacketId, toClient, received>>
           \/ /\ packet.type # "Ticket"
              /\ serverPacketId' = [serverPacketId EXCEPT ![c] = GenerateNextPacketId(@)]
              /\ ServerSend(c, TicketPacket(serverPacketId'[c], packet.id))
              /\ received' = IF packet.type = "PacketNeedsTicket"
                             THEN received \cup {packet.frame} ELSE received
  /\ toServer' = [toServer EXCEPT ![c] = Tail(@)]
  /\ heard' = heard \cup {c}
  /\ UNCHANGED <<clientVars, link, queued, applied, resent, bounds>>

-----------------------------------------------------------------------------
(* Connections.                                                            *)

(* Mutant: the factory numbers each connection's packets from 1.           *)
ConnectRenumbering(c) ==
  /\ session = 0 /\ link[c] = "none" /\ \A d \in 1 .. c - 1 : link[d] # "none"
  /\ session' = c /\ nextPacketId' = -1 /\ age' = 0 /\ packetId' = 0
  /\ link' = [link EXCEPT ![c] = "up"]
  /\ \E garbage \in Garbage : serverNextPacketId' = [serverNextPacketId EXCEPT ![c] = garbage]
  /\ UNCHANGED <<queue, currentPacket, serverPacketId, toServer, toClient, historyVars, bounds>>

(* Mutant: the client's expected number survives the connection.           *)
ConnectKeepingNumber(c) ==
  /\ session = 0 /\ link[c] = "none" /\ \A d \in 1 .. c - 1 : link[d] # "none"
  /\ session' = c /\ age' = 0
  /\ link' = [link EXCEPT ![c] = "up"]
  /\ \E garbage \in Garbage : serverNextPacketId' = [serverNextPacketId EXCEPT ![c] = garbage]
  /\ UNCHANGED <<queue, currentPacket, packetId, nextPacketId, serverPacketId, toServer, toClient,
                 historyVars, bounds>>

(* The client connects, onConnected(); the server accepts and builds its   *)
(* object.  ThreadHandler's constructor cannot reach the onConnected() of  *)
(* ThreadDataFrames, so the object's _nextPacketId stays uninitialised.    *)
Connect(c) ==
  /\ session = 0 /\ link[c] = "none" /\ \A d \in 1 .. c - 1 : link[d] # "none"
  /\ session' = c /\ nextPacketId' = -1 /\ age' = 0
  /\ link' = [link EXCEPT ![c] = "up"]
  /\ \E garbage \in Garbage : serverNextPacketId' = [serverNextPacketId EXCEPT ![c] = garbage]
  /\ UNCHANGED <<queue, currentPacket, packetId, serverPacketId, toServer, toClient,
                 historyVars, bounds>>

(* The connection breaks; of what is under way only the beginning arrives. *)
Break(c) ==
  /\ link[c] = "up" /\ c < MaxSessions
  /\ link' = [link EXCEPT ![c] = "down"]
  /\ \E n \in 0 .. Len(toServer[c]), m \in 0 .. Len(toClient[c]) :
       /\ toServer' = [toServer EXCEPT ![c] = SubSeq(@, 1, n)]
       /\ toClient' = [toClient EXCEPT ![c] = SubSeq(@, 1, m)]
  /\ UNCHANGED <<clientVars, serverVars, historyVars, bounds>>

(* Each side notices, and what it has not read is cleared (clearBuffers).  *)
ClientDisconnected ==
  /\ session # 0 /\ link[session] # "up"
  /\ session' = 0
  /\ toClient' = [toClient EXCEPT ![session] = <<>>]
  /\ UNCHANGED <<queue, currentPacket, packetId, nextPacketId, age, serverVars, link, toServer,
                 historyVars, bounds>>

ServerDisconnected(c) ==
  /\ link[c] = "down"
  /\ link' = [link EXCEPT ![c] = "closed"]
  /\ toServer' = [toServer EXCEPT ![c] = <<>>]
  /\ UNCHANGED <<clientVars, serverVars, toClient, historyVars, bounds>>

-----------------------------------------------------------------------------
Next ==
  \/ SendFrame \/ ClientSendPlain \/ CallProcessQueue \/ ResetQueue
  \/ ClientReceive \/ Tick \/ ClientDisconnected
  \/ \E c \in Sessions :
       \/ ServerSendPlain(c) \/ ServerReceive(c) \/ ServerDisconnected(c)
       \/ Connect(c) \/ Break(c)

Spec == Init /\ [][Next]_linkVars

(* Both threads are scheduled, time passes, the client reconnects, and the *)
(* subclass calls processQueue() again and again (from its onIdle()).      *)
Fairness ==
  /\ WF_linkVars(ClientReceive) /\ WF_linkVars(CallProcessQueue) /\ WF_linkVars(Tick)
  /\ WF_linkVars(ClientDisconnected)
  /\ \A c \in Sessions : WF_linkVars(ServerReceive(c)) /\ WF_linkVars(Connect(c))

FairSpec == Spec /\ Fairness

-----------------------------------------------------------------------------
(* Properties.                                                             *)

(* Refinement: frames with a ticket are received in order and confirmed    *)
(* after they were received, whatever connections are lost on the way.     *)
Channel == INSTANCE TicketChannel
ImplementsTicketChannel == Channel!ChannelSpec

(* onPacketIdDiscontinuity(), after a connection's first packet, is called *)
(* only where the client has sent a packet again, or where the numbers     *)
(* begin again (the code expects 0x1FFFFFFF, which no packet has).         *)
DiscontinuityExplained ==
  \A r \in reported : ~r.first => r.session \in resent \/ r.wrapped

(* The inductive invariant behind DiscontinuityExplained.  Connections    *)
(* come one after another, and only the client's own has packets for it.   *)
QueuedPacket == [frame : Nat, id : 0 .. IdLimit - 1]

TypeOK ==
  /\ queue \in Seq(QueuedPacket) /\ currentPacket \in QueuedPacket
  /\ packetId \in 0 .. IdLimit - 1 /\ nextPacketId \in Int
  /\ session \in 0 .. MaxSessions
  /\ link \in [Sessions -> {"none", "up", "down", "closed"}]
  /\ serverPacketId \in [Sessions -> 0 .. IdLimit - 1] /\ serverNextPacketId \in [Sessions -> Int]
  /\ toServer \in [Sessions -> Seq(Packet)] /\ toClient \in [Sessions -> Seq(Packet)]
  /\ queued \in Nat /\ resets \in Nat /\ plains \in Nat

ConnectionOK ==
  \A c \in Sessions :
    /\ link[c] = "up" => c = session
    /\ link[c] = "none" => c \notin heard /\ toServer[c] = <<>> /\ c # session
    /\ c # session => toClient[c] = <<>>

(* The number the next packet of a connection should have, if any.         *)
ByServer(c) == IF c \in heard THEN {serverNextPacketId[c]} ELSE {}
ByClient == IF nextPacketId >= 0 THEN {nextPacketId} ELSE {}

(* Packets under way are numbered one after another; the first is the one  *)
(* the other side expects, the last has the sender's own number.           *)
Consecutive(packets) ==
  \A i \in 1 .. Len(packets) - 1 : packets[i + 1].id = GenerateNextPacketId(packets[i].id)

InOrder(packets, expected) ==
  /\ Consecutive(packets)
  /\ packets # <<>> => expected \subseteq {packets[1].id, IdLimit}

UpTo(packets, expected, id) ==
  IF packets # <<>> THEN packets[Len(packets)].id = id ELSE expected \subseteq {id + 1}

ToServerOK ==
  \A c \in Sessions : c \notin resent =>
    /\ InOrder(toServer[c], ByServer(c))
    /\ link[c] = "up" => UpTo(toServer[c], ByServer(c), packetId)

ToClientOK ==
  \A c \in Sessions : c = session =>
    /\ InOrder(toClient[c], ByClient)
    /\ link[c] = "up" => UpTo(toClient[c], ByClient, serverPacketId[c])

NumberedInv == TypeOK /\ ConnectionOK /\ ToServerOK /\ ToClientOK /\ DiscontinuityExplained

(* The inductive invariant behind the refinement, which holds where the    *)
(* client numbers fewer packets than there are numbers.                    *)
NumbersSuffice == MaxFrames + MaxPlain + MaxResets < IdLimit

(* Of n frames queued a queue holds those that are not confirmed, and only *)
(* its first has a number, while it is the current packet.                 *)
QueueShape(packets, current, n, confirmed) ==
  /\ Len(packets) <= n /\ confirmed = 1 .. n - Len(packets)
  /\ \A i \in DOMAIN packets : packets[i].frame = n - Len(packets) + i
  /\ \A i \in DOMAIN packets : i # 1 \/ current = NoPacket => packets[i].id = PACKET_ID_EMPTY
  /\ current # NoPacket => packets # <<>> /\ current = packets[1] /\ current.id # PACKET_ID_EMPTY

(* Each number was given for a frame, for a reset that made a frame be     *)
(* numbered again, or for a frame without ticket of either side.           *)
Unnumbered(packets, current) == IF current = NoPacket THEN Len(packets) ELSE Len(packets) - 1
Plains(packets) == {i \in DOMAIN packets : packets[i].type = "PacketWithoutTicket"}
Unanswered == IF session = 0 THEN 0 ELSE Cardinality(Plains(toClient[session]))

NumbersOK ==
  /\ packetId + Unnumbered(queue, currentPacket) + Unanswered <= queued + plains + resets
  /\ queued <= MaxFrames /\ plains <= MaxPlain /\ resets <= MaxResets

(* What is under way says of the current packet only what happened to it,  *)
(* and of a frame only what its turn has come for.                         *)
GoodPackets(current, id, n, confirmed) ==
  {p \in Packet :
     /\ p.id \in 1 .. id
     /\ p.type = "PacketNeedsTicket" => p.frame \in 1 .. n /\ 1 .. p.frame - 1 \subseteq confirmed
     /\ current # NoPacket /\ p.id = current.id => p.type = "PacketNeedsTicket" /\ p.frame = current.frame}

GoodAnswers(current, id, got) ==
  {p \in Packet : p.type = "Ticket" =>
     /\ p.ticket \in 1 .. id
     /\ current # NoPacket /\ p.ticket = current.id => current.frame \in got}

TicketsOK ==
  /\ currentPacket # NoPacket => currentPacket.id \in 1 .. packetId
  /\ toServer \in [Sessions -> Seq(GoodPackets(currentPacket, packetId, queued, applied))]
  /\ toClient \in [Sessions -> Seq(GoodAnswers(currentPacket, packetId, received))]

ChannelInv == QueueShape(queue, currentPacket, queued, applied) /\ NumbersOK /\ TicketsOK

(* Every queued frame is eventually confirmed, once connections stop       *)
(* breaking: the queue does not keep a frame for ever.                     *)
FrameApplied == []<>(1 .. queued \subseteq applied)
=============================================================================
