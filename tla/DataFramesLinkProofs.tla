-------------------------- MODULE DataFramesLinkProofs --------------------------
(***************************************************************************)
(* Theorems about DataFramesLink: a discontinuity of the numbers has a     *)
(* cause, and frames with a ticket travel as TicketChannel promises.       *)
(***************************************************************************)
EXTENDS DataFramesLink, SublistsProofs, FiniteSetTheorems, TLAPS

USE DEF Sessions, linkVars, clientVars, serverVars, wireVars, historyVars, bounds

LEMMA NextNumber ==
  ASSUME NEW id \in 0 .. IdLimit - 1
  PROVE  /\ GenerateNextPacketId(id) \in 1 .. IdLimit - 1
         /\ GenerateNextPacketId(id) = id + 1 \/ IdLimit = id + 1
         /\ GenerateNextPacketId(id) \in 0 .. IdLimit - 1
BY LinkAssumption DEF GenerateNextPacketId

(***************************************************************************)
(* Packets under way.                                                      *)
(***************************************************************************)
(* A packet with the next number keeps the order.                          *)
LEMMA OrderAppend ==
  ASSUME NEW s \in Seq(Packet), NEW p \in Packet, NEW expected, NEW id \in 0 .. IdLimit - 1,
         InOrder(s, expected), UpTo(s, expected, id), p.id = GenerateNextPacketId(id)
  PROVE  InOrder(Append(s, p), expected) /\ UpTo(Append(s, p), expected, p.id)
<1> DEFINE t == Append(s, p)
<1>1. /\ Len(s) \in Nat /\ Len(t) = Len(s) + 1 /\ t # <<>>
      /\ t[Len(s) + 1] = p /\ \A i \in 1 .. Len(s) : t[i] = s[i]
  OBVIOUS
<1> HIDE DEF t
<1>2. UpTo(t, expected, p.id)
  BY <1>1 DEF UpTo
<1>3. CASE s = <<>>
  <2>1. Len(s) = 0 /\ t[1] = p
    BY <1>1, <1>3
  <2>2. Consecutive(t)
    BY <1>1, <2>1 DEF Consecutive
  <2>3. expected \subseteq {id + 1} /\ id + 1 \in {p.id, IdLimit}
    BY <1>3, NextNumber DEF UpTo
  <2>4. QED
    BY <1>2, <2>1, <2>2, <2>3 DEF InOrder, t
<1>4. CASE s # <<>>
  <2>1. Len(s) > 0 /\ t[1] = s[1] /\ s[Len(s)].id = id
    BY <1>1, <1>4 DEF UpTo
  <2>2. ASSUME NEW i \in 1 .. Len(t) - 1
        PROVE  t[i + 1].id = GenerateNextPacketId(t[i].id)
    <3>1. CASE i = Len(s)
      <4>1. t[i + 1] = p /\ t[i] = s[Len(s)]
        BY <1>1, <2>1, <3>1
      <4>2. QED
        BY <2>1, <4>1
    <3>2. CASE i # Len(s)
      <4>1. i \in 1 .. Len(s) - 1 /\ i + 1 \in 1 .. Len(s)
        BY <1>1, <3>2
      <4>2. t[i + 1] = s[i + 1] /\ t[i] = s[i]
        BY <1>1, <4>1
      <4>3. s[i + 1].id = GenerateNextPacketId(s[i].id)
        BY <4>1 DEF InOrder, Consecutive
      <4>4. QED
        BY <4>2, <4>3
    <3>3. QED
      BY <3>1, <3>2
  <2>3. QED
    BY <1>2, <1>4, <2>1, <2>2 DEF InOrder, Consecutive, t
<1>5. QED
  BY <1>3, <1>4

(* The first packet taken, the next is expected.                           *)
LEMMA OrderTail ==
  ASSUME NEW s \in Seq(Packet), s # <<>>, NEW expected, InOrder(s, expected)
  PROVE  /\ Head(s) \in Packet /\ Head(s) = s[1] /\ Tail(s) \in Seq(Packet)
         /\ InOrder(Tail(s), {Head(s).id + 1})
         /\ \A id \in Nat : UpTo(s, expected, id) => UpTo(Tail(s), {Head(s).id + 1}, id)
<1> DEFINE t == Tail(s)
<1>1. /\ Len(s) \in Nat /\ Len(s) > 0 /\ Len(t) = Len(s) - 1 /\ t \in Seq(Packet)
      /\ Head(s) = s[1] /\ s[1] \in Packet
      /\ \A i \in 1 .. Len(t) : t[i] = s[i + 1]
  OBVIOUS
<1> HIDE DEF t
<1>2. ASSUME NEW i \in 1 .. Len(t) - 1
      PROVE  t[i + 1].id = GenerateNextPacketId(t[i].id)
  <2>1. /\ i + 1 \in 1 .. Len(s) - 1 /\ i \in 1 .. Len(t) /\ i + 1 \in 1 .. Len(t)
        /\ (i + 1) + 1 = i + 2
    BY <1>1
  <2>2. t[i + 1] = s[i + 2] /\ t[i] = s[i + 1]
    BY <1>1, <2>1
  <2>3. s[i + 2].id = GenerateNextPacketId(s[i + 1].id)
    BY <2>1 DEF InOrder, Consecutive
  <2>4. QED
    BY <2>2, <2>3
<1>3. s[1].id \in 0 .. IdLimit - 1
  BY <1>1 DEF Packet
<1>4. ASSUME t # <<>>
      PROVE  s[1].id + 1 \in {t[1].id, IdLimit}
  <2>1. 1 \in 1 .. Len(s) - 1 /\ 1 \in 1 .. Len(t) /\ 1 + 1 = 2
    BY <1>1, <1>4
  <2>2. t[1] = s[2]
    BY <1>1, <2>1
  <2>3. s[2].id = GenerateNextPacketId(s[1].id)
    BY <2>1 DEF InOrder, Consecutive
  <2>4. QED
    BY <1>3, <2>2, <2>3, NextNumber
<1>5. InOrder(t, {s[1].id + 1})
  BY <1>2, <1>4 DEF InOrder, Consecutive
<1>6. ASSUME NEW id \in Nat, UpTo(s, expected, id)
      PROVE  UpTo(t, {s[1].id + 1}, id)
  <2>1. s[Len(s)].id = id
    BY <1>6 DEF UpTo
  <2>2. CASE t # <<>>
    <3>1. Len(t) \in 1 .. Len(t) /\ Len(t) + 1 = Len(s)
      BY <1>1, <2>2
    <3>2. t[Len(t)] = s[Len(s)]
      BY <1>1, <3>1
    <3>3. QED
      BY <2>1, <2>2, <3>2 DEF UpTo
  <2>3. CASE t = <<>>
    <3>1. Len(s) = 1
      BY <1>1, <2>3
    <3>2. QED
      BY <2>1, <2>3, <3>1 DEF UpTo
  <2>4. QED
    BY <2>2, <2>3
<1>7. QED
  BY <1>1, <1>5, <1>6 DEF t

(* What is cut off at the end disturbs nothing.                            *)
LEMMA OrderPrefix ==
  ASSUME NEW s \in Seq(Packet), NEW n \in 0 .. Len(s), NEW expected, InOrder(s, expected)
  PROVE  SubSeq(s, 1, n) \in Seq(Packet) /\ InOrder(SubSeq(s, 1, n), expected)
<1> DEFINE t == SubSeq(s, 1, n)
<1>1. /\ t \in Seq(Packet) /\ Len(t) = n /\ n \in Nat /\ Len(s) \in Nat /\ n <= Len(s)
      /\ \A i \in 1 .. n : t[i] = s[i]
  OBVIOUS
<1> HIDE DEF t
<1>2. ASSUME NEW i \in 1 .. Len(t) - 1
      PROVE  t[i + 1].id = GenerateNextPacketId(t[i].id)
  <2>1. i \in 1 .. n /\ i + 1 \in 1 .. n /\ i \in 1 .. Len(s) - 1
    BY <1>1
  <2>2. s[i + 1].id = GenerateNextPacketId(s[i].id)
    BY <2>1 DEF InOrder, Consecutive
  <2>3. QED
    BY <1>1, <2>1, <2>2
<1>3. ASSUME t # <<>>
      PROVE  s # <<>> /\ t[1] = s[1]
  BY <1>1, <1>3
<1>4. QED
  BY <1>1, <1>2, <1>3 DEF InOrder, Consecutive, t

LEMMA InitNumbered == Init => NumberedInv
<1>1. SUFFICES ASSUME Init
               PROVE  NumberedInv
  OBVIOUS
<1>2. <<>> \in Seq(Packet) /\ <<>> \in Seq(QueuedPacket)
  OBVIOUS
<1>3. TypeOK
  BY <1>1, <1>2, LinkAssumption DEF Init, TypeOK, QueuedPacket, NoPacket
<1>4. ConnectionOK
  BY <1>1, LinkAssumption DEF Init, ConnectionOK
<1>5. Consecutive(<<>>)
  BY DEF Consecutive
<1>6. ToServerOK
  BY <1>1, <1>5 DEF Init, ToServerOK, InOrder
<1>7. ToClientOK
  BY <1>1 DEF Init, ToClientOK
<1>8. DiscontinuityExplained
  BY <1>1 DEF Init, DiscontinuityExplained
<1>9. QED
  BY <1>3, <1>4, <1>6, <1>7, <1>8 DEF NumberedInv

(***************************************************************************)
(* What the client sends.                                                  *)
(***************************************************************************)
(* p is put on the client's connection, where it is up.                    *)
Sent(p) ==
  toServer' = IF session # 0 /\ link[session] = "up"
              THEN [toServer EXCEPT ![session] = Append(@, p)] ELSE toServer

(* Nothing is sent, a packet is sent again, or a new one is numbered.      *)
SendsNothing == UNCHANGED <<packetId, toServer, resent>>
SendsAgain(p) == UNCHANGED packetId /\ resent' = resent \cup {session} /\ Sent(p)
SendsNew(p) ==
  packetId' = GenerateNextPacketId(packetId) /\ p.id = packetId' /\ UNCHANGED resent /\ Sent(p)
ClientSends == SendsNothing \/ \E p \in Packet : SendsAgain(p) \/ SendsNew(p)

LEMMA ClientSendIsSent ==
  ASSUME NEW p, TypeOK, ClientSend(p)
  PROVE  Sent(p) /\ age' \in {age, 0}
BY DEF ClientSend, Sent

(* ProcessQueue numbers at most one packet, the first of the queue.        *)
LEMMA ProcessQueueFacts ==
  ASSUME TypeOK, NEW packets \in Seq(QueuedPacket), NEW current \in QueuedPacket,
         ProcessQueue(packets, current)
  PROVE  /\ queue' \in Seq(QueuedPacket) /\ currentPacket' \in QueuedPacket
         /\ ClientSends
         /\ \/ /\ queue' = packets /\ currentPacket' = current /\ UNCHANGED packetId
               /\ current = NoPacket => packets = <<>> \/ packets[1] = NoPacket
               /\ SendsNothing \/ (current # NoPacket /\ SendsAgain(FramePacket(current)))
            \/ /\ current = NoPacket /\ packets # <<>>
               /\ SendsNew(FramePacket(currentPacket'))
               /\ currentPacket' = [packets[1] EXCEPT !.id = packetId']
               /\ queue' = [packets EXCEPT ![1] = currentPacket']
<1>1. packetId \in 0 .. IdLimit - 1 /\ session \in 0 .. MaxSessions
  BY DEF TypeOK
<1>2. \A x \in QueuedPacket : FramePacket(x) \in Packet /\ FramePacket(x).id = x.id
  BY DEF QueuedPacket, FramePacket, Packet, PacketTypes
<1>3. First(packets) = IF packets = <<>> THEN NoPacket ELSE packets[1]
  BY DEF First
<1>4. CASE current # NoPacket
  <2>1. queue' = packets /\ currentPacket' = current /\ UNCHANGED packetId
    BY <1>4 DEF ProcessQueue
  <2>2. CASE age = 2
    <3>1. ClientSend(FramePacket(current)) /\ resent' = resent \cup {session}
      BY <1>4, <2>2 DEF ProcessQueue
    <3>2. SendsAgain(FramePacket(current))
      BY <2>1, <3>1, ClientSendIsSent DEF SendsAgain
    <3>3. QED
      BY <1>2, <1>4, <2>1, <3>2 DEF ClientSends
  <2>3. CASE age # 2
    <3>1. SendsNothing
      BY <1>4, <2>3 DEF ProcessQueue, SendsNothing
    <3>2. QED
      BY <1>4, <2>1, <3>1 DEF ClientSends
  <2>4. QED
    BY <2>2, <2>3
<1>5. CASE current = NoPacket /\ First(packets) = NoPacket
  <2>1. /\ queue' = packets /\ currentPacket' = current /\ SendsNothing
    BY <1>5 DEF ProcessQueue, SendsNothing
  <2>2. UNCHANGED packetId
    BY <2>1 DEF SendsNothing
  <2>3. QED
    BY <1>3, <1>5, <2>1, <2>2 DEF ClientSends
<1>6. CASE current = NoPacket /\ First(packets) # NoPacket
  <2>1. packets # <<>> /\ First(packets) = packets[1]
    BY <1>3, <1>6
  <2>2. /\ packetId' = GenerateNextPacketId(packetId)
        /\ currentPacket' = [packets[1] EXCEPT !.id = packetId']
        /\ queue' = [packets EXCEPT ![1] = currentPacket']
        /\ ClientSend(FramePacket(currentPacket')) /\ UNCHANGED resent
    BY <1>6, <2>1 DEF ProcessQueue
  <2>3. packets[1] \in QueuedPacket
    BY <2>1
  <2>4. packetId' \in 0 .. IdLimit - 1
    BY <1>1, <2>2, NextNumber
  <2>5. currentPacket' \in QueuedPacket /\ currentPacket'.id = packetId'
    BY <2>2, <2>3, <2>4 DEF QueuedPacket
  <2>6. queue' \in Seq(QueuedPacket)
    <3>1. packets \in [1 .. Len(packets) -> QueuedPacket] /\ Len(packets) \in Nat
      OBVIOUS
    <3>2. queue' \in [1 .. Len(packets) -> QueuedPacket]
      BY <2>2, <2>5, <3>1
    <3>3. \A n \in Nat : \A s \in [1 .. n -> QueuedPacket] : s \in Seq(QueuedPacket)
      OBVIOUS
    <3>4. QED
      BY <3>1, <3>2, <3>3
  <2>7. PICK p : p = FramePacket(currentPacket')
    OBVIOUS
  <2>8. p \in Packet /\ p.id = packetId' /\ ClientSend(p)
    BY <1>2, <2>2, <2>5, <2>7
  <2>9. SendsNew(p)
    BY <2>2, <2>8, ClientSendIsSent DEF SendsNew
  <2>10. QED
    BY <1>6, <2>1, <2>2, <2>5, <2>6, <2>7, <2>8, <2>9 DEF ClientSends
<1>7. QED
  BY <1>4, <1>5, <1>6

(* What the client sends keeps the order of its packets.                   *)
LEMMA ClientSendsKeep ==
  ASSUME NumberedInv, ClientSends, UNCHANGED <<session, link, serverNextPacketId, heard>>
  PROVE  /\ packetId' \in 0 .. IdLimit - 1 /\ toServer' \in [Sessions -> Seq(Packet)]
         /\ ToServerOK' /\ resent \subseteq resent'
         /\ \A c \in Sessions : link[c] = "none" => toServer'[c] = <<>>
<1>1. TypeOK /\ ConnectionOK /\ ToServerOK
  BY DEF NumberedInv
<1>2. packetId \in 0 .. IdLimit - 1 /\ toServer \in [Sessions -> Seq(Packet)] /\ session \in 0 .. MaxSessions
  BY <1>1 DEF TypeOK
<1>3. \A c \in Sessions : ByServer(c)' = ByServer(c)
  BY DEF ByServer
<1>4. CASE SendsNothing
  <2>1. UNCHANGED <<packetId, toServer, resent>>
    BY <1>4 DEF SendsNothing
  <2>2. ToServerOK'
    BY <1>1, <1>3, <2>1 DEF ToServerOK
  <2>3. QED
    BY <1>1, <1>2, <2>1, <2>2 DEF ConnectionOK
<1>5. ASSUME NEW p \in Packet, Sent(p)
      PROVE  /\ toServer' \in [Sessions -> Seq(Packet)]
             /\ \A c \in Sessions : toServer'[c] = IF c = session /\ link[c] = "up" THEN Append(toServer[c], p) ELSE toServer[c]
             /\ \A c \in Sessions : link[c] = "none" => toServer'[c] = <<>>
  <2>1. CASE session # 0 /\ link[session] = "up"
    <3>1. session \in Sessions /\ toServer' = [toServer EXCEPT ![session] = Append(toServer[session], p)]
      BY <1>2, <1>5, <2>1 DEF Sent
    <3>2. Append(toServer[session], p) \in Seq(Packet)
      BY <1>2, <3>1
    <3>3. toServer' \in [Sessions -> Seq(Packet)]
      BY <1>2, <3>1, <3>2
    <3>4. \A c \in Sessions : toServer'[c] = IF c = session THEN Append(toServer[c], p) ELSE toServer[c]
      BY <1>2, <3>1
    <3>5. QED
      BY <1>1, <2>1, <3>3, <3>4 DEF ConnectionOK
  <2>2. CASE ~(session # 0 /\ link[session] = "up")
    <3>1. toServer' = toServer
      BY <1>5, <2>2 DEF Sent
    <3>2. QED
      BY <1>1, <1>2, <2>2, <3>1, 0 \notin Sessions DEF ConnectionOK
  <2>3. QED
    BY <2>1, <2>2
<1>6. ASSUME NEW p \in Packet, SendsAgain(p)
      PROVE  /\ packetId' \in 0 .. IdLimit - 1 /\ toServer' \in [Sessions -> Seq(Packet)]
             /\ ToServerOK' /\ resent \subseteq resent'
             /\ \A c \in Sessions : link[c] = "none" => toServer'[c] = <<>>
  <2>1. UNCHANGED packetId /\ resent' = resent \cup {session} /\ Sent(p)
    BY <1>6 DEF SendsAgain
  <2>2. \A c \in Sessions : c \notin resent' => c \notin resent /\ toServer'[c] = toServer[c]
    BY <1>5, <2>1
  <2>3. ToServerOK'
    BY <1>1, <1>3, <2>1, <2>2 DEF ToServerOK
  <2>4. QED
    BY <1>2, <1>5, <2>1, <2>3
<1>7. ASSUME NEW p \in Packet, SendsNew(p)
      PROVE  /\ packetId' \in 0 .. IdLimit - 1 /\ toServer' \in [Sessions -> Seq(Packet)]
             /\ ToServerOK' /\ resent \subseteq resent'
             /\ \A c \in Sessions : link[c] = "none" => toServer'[c] = <<>>
  <2>1. packetId' = GenerateNextPacketId(packetId) /\ p.id = packetId' /\ UNCHANGED resent /\ Sent(p)
    BY <1>7 DEF SendsNew
  <2>2. packetId' \in 0 .. IdLimit - 1
    BY <1>2, <2>1, NextNumber
  <2>3. ASSUME NEW c \in Sessions, c \notin resent
        PROVE  /\ InOrder(toServer'[c], ByServer(c))
               /\ link[c] = "up" => UpTo(toServer'[c], ByServer(c), packetId')
    <3>1. toServer[c] \in Seq(Packet) /\ InOrder(toServer[c], ByServer(c))
      BY <1>1, <1>2, <2>3 DEF ToServerOK
    <3>2. CASE c = session /\ link[c] = "up"
      <4>1. toServer'[c] = Append(toServer[c], p)
        BY <1>5, <2>1, <3>2
      <4>2. UpTo(toServer[c], ByServer(c), packetId)
        BY <1>1, <2>3, <3>2 DEF ToServerOK
      <4>3. p.id = GenerateNextPacketId(packetId)
        BY <2>1
      <4>4. InOrder(Append(toServer[c], p), ByServer(c)) /\ UpTo(Append(toServer[c], p), ByServer(c), p.id)
        BY <1>2, <3>1, <4>2, <4>3, OrderAppend
      <4>5. QED
        BY <2>1, <4>1, <4>4
    <3>3. CASE ~(c = session /\ link[c] = "up")
      <4>1. toServer'[c] = toServer[c] /\ link[c] # "up"
        BY <1>1, <1>5, <2>1, <3>3 DEF ConnectionOK
      <4>2. QED
        BY <3>1, <4>1
    <3>4. QED
      BY <3>2, <3>3
  <2>4. ToServerOK'
    BY <1>3, <2>1, <2>3 DEF ToServerOK
  <2>5. QED
    BY <1>5, <2>1, <2>2, <2>4
<1>8. QED
  BY <1>4, <1>6, <1>7 DEF ClientSends

(* A step of the client that takes nothing from its connection.            *)
LEMMA ClientStep ==
  ASSUME NumberedInv, ClientSends,
         UNCHANGED <<nextPacketId, session, serverVars, link, toClient, heard, reported>>,
         queue' \in Seq(QueuedPacket), currentPacket' \in QueuedPacket,
         queued' \in Nat, plains' \in Nat, resets' \in Nat
  PROVE  NumberedInv'
<1>1. TypeOK /\ ConnectionOK /\ ToServerOK /\ ToClientOK /\ DiscontinuityExplained
  BY DEF NumberedInv
<1>2. /\ packetId' \in 0 .. IdLimit - 1 /\ toServer' \in [Sessions -> Seq(Packet)]
      /\ ToServerOK' /\ resent \subseteq resent'
      /\ \A c \in Sessions : link[c] = "none" => toServer'[c] = <<>>
  BY ClientSendsKeep
<1>3. TypeOK'
  BY <1>1, <1>2 DEF TypeOK
<1>4. ConnectionOK'
  BY <1>1, <1>2 DEF ConnectionOK
<1>5. ToClientOK'
  BY <1>1 DEF ToClientOK, ByClient
<1>6. DiscontinuityExplained'
  BY <1>1, <1>2 DEF DiscontinuityExplained
<1>7. QED
  BY <1>2, <1>3, <1>4, <1>5, <1>6 DEF NumberedInv

LEMMA NumberedSendFrame == NumberedInv /\ SendFrame => NumberedInv'
<1>1. SUFFICES ASSUME NumberedInv, SendFrame
               PROVE  NumberedInv'
  OBVIOUS
<1>2. TypeOK
  BY <1>1 DEF NumberedInv
<1>3. queued \in Nat /\ queue \in Seq(QueuedPacket) /\ currentPacket \in QueuedPacket
  BY <1>2 DEF TypeOK
<1>4. BuildPacket(queued + 1) \in QueuedPacket
  BY <1>3, LinkAssumption DEF BuildPacket, QueuedPacket, PACKET_ID_EMPTY
<1>5. Enqueue(BuildPacket(queued + 1)) \in Seq(QueuedPacket)
  BY <1>3, <1>4 DEF Enqueue
<1>6. /\ queued' = queued + 1 /\ ProcessQueue(Enqueue(BuildPacket(queued + 1)), currentPacket)
      /\ UNCHANGED <<nextPacketId, session, serverVars, link, toClient, heard, reported, bounds>>
  BY <1>1 DEF SendFrame
<1>7. queue' \in Seq(QueuedPacket) /\ currentPacket' \in QueuedPacket /\ ClientSends
  BY <1>2, <1>3, <1>5, <1>6, ProcessQueueFacts
<1>8. queued' \in Nat /\ plains' \in Nat /\ resets' \in Nat
  BY <1>2, <1>6 DEF TypeOK
<1>9. QED
  BY <1>1, <1>6, <1>7, <1>8, ClientStep

LEMMA PlainIsPacket ==
  ASSUME NEW id \in 0 .. IdLimit - 1, NEW n \in Nat
  PROVE  /\ PlainPacket(id) \in Packet /\ PlainPacket(id).id = id /\ PlainPacket(id).type = "PacketWithoutTicket"
         /\ TicketPacket(id, n) \in Packet /\ TicketPacket(id, n).id = id
         /\ TicketPacket(id, n).type = "Ticket" /\ TicketPacket(id, n).ticket = n
BY DEF PlainPacket, TicketPacket, Packet, PacketTypes

(* A packet that the client numbers and sends at once.                     *)
LEMMA NewPacketSent ==
  ASSUME TypeOK, NEW p \in Packet, packetId' = GenerateNextPacketId(packetId), p.id = packetId', ClientSend(p),
         UNCHANGED resent
  PROVE  ClientSends
BY ClientSendIsSent DEF ClientSends, SendsNew

LEMMA NumberedClientSendPlain == NumberedInv /\ ClientSendPlain => NumberedInv'
<1>1. SUFFICES ASSUME NumberedInv, ClientSendPlain
               PROVE  NumberedInv'
  OBVIOUS
<1>2. TypeOK
  BY <1>1 DEF NumberedInv
<1>3. /\ plains' = plains + 1 /\ packetId' = GenerateNextPacketId(packetId) /\ ClientSend(PlainPacket(packetId'))
      /\ UNCHANGED <<queue, currentPacket, nextPacketId, session, serverVars, link, toClient, historyVars, resets>>
  BY <1>1 DEF ClientSendPlain
<1>4. packetId' \in 0 .. IdLimit - 1
  BY <1>2, <1>3, NextNumber DEF TypeOK
<1>5. PICK p : p = PlainPacket(packetId')
  OBVIOUS
<1>6. p \in Packet /\ p.id = packetId'
  <2>1. \A id \in 0 .. IdLimit - 1 : PlainPacket(id) \in Packet /\ PlainPacket(id).id = id
    BY PlainIsPacket, 0 \in Nat
  <2>2. QED
    BY <1>4, <1>5, <2>1
<1>7. ClientSends
  BY <1>2, <1>3, <1>5, <1>6, NewPacketSent
<1>8. /\ queue' \in Seq(QueuedPacket) /\ currentPacket' \in QueuedPacket
      /\ queued' \in Nat /\ plains' \in Nat /\ resets' \in Nat
  BY <1>2, <1>3 DEF TypeOK
<1>9. QED
  BY <1>1, <1>3, <1>7, <1>8, ClientStep

LEMMA NumberedCallProcessQueue == NumberedInv /\ CallProcessQueue => NumberedInv'
<1>1. SUFFICES ASSUME NumberedInv, CallProcessQueue
               PROVE  NumberedInv'
  OBVIOUS
<1>2. TypeOK
  BY <1>1 DEF NumberedInv
<1>3. /\ ProcessQueue(queue, currentPacket)
      /\ UNCHANGED <<nextPacketId, session, serverVars, link, toClient, queued, heard, reported, bounds>>
  BY <1>1 DEF CallProcessQueue
<1>4. queue' \in Seq(QueuedPacket) /\ currentPacket' \in QueuedPacket /\ ClientSends
  <2>1. queue \in Seq(QueuedPacket) /\ currentPacket \in QueuedPacket
    BY <1>2 DEF TypeOK
  <2>2. QED
    BY <1>2, <1>3, <2>1, ProcessQueueFacts
<1>5. queued' \in Nat /\ plains' \in Nat /\ resets' \in Nat
  BY <1>2, <1>3 DEF TypeOK
<1>6. QED
  BY <1>1, <1>3, <1>4, <1>5, ClientStep

LEMMA NoPacketType == PACKET_ID_EMPTY \in 0 .. IdLimit - 1 /\ NoPacket \in QueuedPacket
<1>1. PACKET_ID_EMPTY \in 0 .. IdLimit - 1 /\ 0 \in 0 .. IdLimit - 1 /\ 0 \in Nat
  BY LinkAssumption DEF PACKET_ID_EMPTY
<1>2. QED
  BY <1>1 DEF NoPacket, QueuedPacket

LEMMA ResetFacts ==
  ASSUME NEW s \in Seq(QueuedPacket)
  PROVE  /\ Reset(s) \in Seq(QueuedPacket) /\ Len(Reset(s)) = Len(s) /\ DOMAIN Reset(s) = DOMAIN s
         /\ \A i \in DOMAIN s : Reset(s)[i].frame = s[i].frame /\ Reset(s)[i].id = PACKET_ID_EMPTY
<1>1. DOMAIN s = 1 .. Len(s) /\ Len(s) \in Nat /\ \A i \in 1 .. Len(s) : s[i] \in QueuedPacket
  OBVIOUS
<1>2. \A x \in QueuedPacket : /\ [x EXCEPT !.id = PACKET_ID_EMPTY] \in QueuedPacket
                              /\ [x EXCEPT !.id = PACKET_ID_EMPTY].frame = x.frame
                              /\ [x EXCEPT !.id = PACKET_ID_EMPTY].id = PACKET_ID_EMPTY
  BY NoPacketType DEF QueuedPacket
<1>3. Reset(s) = [i \in 1 .. Len(s) |-> [s[i] EXCEPT !.id = PACKET_ID_EMPTY]]
  BY <1>1 DEF Reset
<1>4. Reset(s) \in [1 .. Len(s) -> QueuedPacket]
  BY <1>1, <1>2, <1>3
<1>5. \A n \in Nat : \A x \in [1 .. n -> QueuedPacket] : x \in Seq(QueuedPacket) /\ Len(x) = n /\ DOMAIN x = 1 .. n
  OBVIOUS
<1>6. Reset(s) \in Seq(QueuedPacket) /\ Len(Reset(s)) = Len(s) /\ DOMAIN Reset(s) = 1 .. Len(s)
  BY <1>1, <1>4, <1>5
<1>7. \A i \in 1 .. Len(s) : Reset(s)[i] = [s[i] EXCEPT !.id = PACKET_ID_EMPTY]
  BY <1>3
<1>8. \A i \in 1 .. Len(s) : Reset(s)[i].frame = s[i].frame /\ Reset(s)[i].id = PACKET_ID_EMPTY
  <2>1. SUFFICES ASSUME NEW i \in 1 .. Len(s)
                 PROVE  Reset(s)[i].frame = s[i].frame /\ Reset(s)[i].id = PACKET_ID_EMPTY
    OBVIOUS
  <2>2. Reset(s)[i] = [s[i] EXCEPT !.id = PACKET_ID_EMPTY] /\ s[i] \in QueuedPacket
    BY <1>1, <1>7
  <2>3. QED
    BY <1>2, <2>2
<1>9. QED
  BY <1>1, <1>6, <1>8

LEMMA NumberedResetQueue == NumberedInv /\ ResetQueue => NumberedInv'
<1>1. SUFFICES ASSUME NumberedInv, ResetQueue
               PROVE  NumberedInv'
  OBVIOUS
<1>2. TypeOK
  BY <1>1 DEF NumberedInv
<1>3. /\ resets' = resets + 1 /\ currentPacket' = NoPacket /\ queue' = Reset(queue)
      /\ UNCHANGED <<packetId, nextPacketId, session, serverVars, wireVars, historyVars, plains>>
  BY <1>1 DEF ResetQueue
<1>4. queue' \in Seq(QueuedPacket) /\ currentPacket' \in QueuedPacket
  <2>1. queue \in Seq(QueuedPacket)
    BY <1>2 DEF TypeOK
  <2>2. QED
    BY <1>3, <2>1, ResetFacts, NoPacketType
<1>5. queued' \in Nat /\ plains' \in Nat /\ resets' \in Nat
  BY <1>2, <1>3 DEF TypeOK
<1>6. ClientSends
  BY <1>3 DEF ClientSends, SendsNothing
<1>7. QED
  BY <1>1, <1>3, <1>4, <1>5, <1>6, ClientStep

LEMMA NumberedTick == NumberedInv /\ Tick => NumberedInv'
<1>1. SUFFICES ASSUME NumberedInv, Tick
               PROVE  NumberedInv'
  OBVIOUS
<1>2. UNCHANGED <<queue, currentPacket, packetId, nextPacketId, session, serverVars, wireVars, historyVars, bounds>>
  BY <1>1 DEF Tick
<1>3. ClientSends
  BY <1>2 DEF ClientSends, SendsNothing
<1>4. /\ queue' \in Seq(QueuedPacket) /\ currentPacket' \in QueuedPacket
      /\ queued' \in Nat /\ plains' \in Nat /\ resets' \in Nat
  BY <1>1, <1>2 DEF NumberedInv, TypeOK
<1>5. QED
  BY <1>1, <1>2, <1>3, <1>4, ClientStep


(***************************************************************************)
(* What the client receives.                                               *)
(***************************************************************************)
LEMMA PacketsWithoutType ==
  ASSUME TypeOK, NEW id
  PROVE  PacketsWithout(id) \in Seq(QueuedPacket)
<1>1. \A s \in Seq(QueuedPacket) : \A kept \in SUBSET DOMAIN s : Sublist(s, kept) \in Seq(QueuedPacket)
  BY SublistFacts
<1>2. QED
  BY <1>1 DEF TypeOK, PacketsWithout

LEMMA ApplyTicketSends ==
  ASSUME TypeOK, NEW id, ApplyTicket(id)
  PROVE  queue' \in Seq(QueuedPacket) /\ currentPacket' \in QueuedPacket /\ ClientSends
<1>1. CASE UNCHANGED <<queue, currentPacket, packetId, toServer, age, applied, resent>>
  BY <1>1 DEF ClientSends, SendsNothing, TypeOK
<1>2. CASE ProcessQueue(PacketsWithout(id), NoPacket)
  BY <1>2, PacketsWithoutType, NoPacketType, ProcessQueueFacts
<1>3. QED
  BY <1>1, <1>2 DEF ApplyTicket

LEMMA ClientReceiveSends ==
  ASSUME TypeOK, ClientReceive
  PROVE  queue' \in Seq(QueuedPacket) /\ currentPacket' \in QueuedPacket /\ ClientSends
<1>1. PICK packet : packet = Head(toClient[session])
  OBVIOUS
<1>2. CASE ApplyTicket(packet.ticket)
  BY <1>2, ApplyTicketSends
<1>3. CASE /\ packet.type = "PacketWithoutTicket"
           /\ packetId' = GenerateNextPacketId(packetId)
           /\ ClientSend(TicketPacket(packetId', packet.id))
           /\ UNCHANGED <<queue, currentPacket, applied, resent>>
  <2>1. packetId' \in 0 .. IdLimit - 1
    BY <1>3, NextNumber DEF TypeOK
  <2>2. packet.id \in Nat
    <3>1. session \in Sessions /\ toClient[session] # <<>>
      BY DEF ClientReceive, TypeOK
    <3>2. \A s \in Seq(Packet) : s # <<>> => Head(s) \in Packet
      OBVIOUS
    <3>3. packet \in Packet
      BY <1>1, <3>1, <3>2 DEF TypeOK
    <3>4. QED
      BY <3>3, LinkAssumption DEF Packet
  <2>3. PICK p : p = TicketPacket(packetId', packet.id)
    OBVIOUS
  <2>4. \A id \in 0 .. IdLimit - 1 : \A n \in Nat : TicketPacket(id, n) \in Packet /\ TicketPacket(id, n).id = id
    BY PlainIsPacket
  <2>5. p \in Packet /\ p.id = packetId'
    BY <2>1, <2>2, <2>3, <2>4
  <2>6. ClientSends
    BY <1>3, <2>3, <2>5, NewPacketSent
  <2>7. QED
    BY <1>3, <2>6 DEF TypeOK
<1>4. QED
  BY <1>1, <1>2, <1>3 DEF ClientReceive

LEMMA NumberedClientReceive == NumberedInv /\ ClientReceive => NumberedInv'
<1>1. SUFFICES ASSUME NumberedInv, ClientReceive
               PROVE  NumberedInv'
  OBVIOUS
<1>2. TypeOK /\ ConnectionOK /\ ToServerOK /\ ToClientOK /\ DiscontinuityExplained
  BY <1>1 DEF NumberedInv
<1>3. PICK packet : packet = Head(toClient[session])
  OBVIOUS
<1>4. /\ session # 0 /\ toClient[session] # <<>>
      /\ nextPacketId' = packet.id + 1
      /\ reported' = IF nextPacketId >= 0 /\ nextPacketId # packet.id
                     THEN reported \cup {[at |-> "client", session |-> session, first |-> FALSE,
                                           wrapped |-> nextPacketId = IdLimit]}
                     ELSE reported
      /\ toClient' = [toClient EXCEPT ![session] = Tail(toClient[session])]
      /\ UNCHANGED <<session, serverVars, link, queued, received, heard, bounds>>
  BY <1>1, <1>3 DEF ClientReceive
<1>5. session \in Sessions /\ toClient[session] \in Seq(Packet) /\ nextPacketId \in Int
  BY <1>2, <1>4 DEF TypeOK
<1>6. queue' \in Seq(QueuedPacket) /\ currentPacket' \in QueuedPacket /\ ClientSends
  BY <1>1, <1>2, ClientReceiveSends
<1>7. /\ packetId' \in 0 .. IdLimit - 1 /\ toServer' \in [Sessions -> Seq(Packet)]
      /\ ToServerOK' /\ resent \subseteq resent'
      /\ \A c \in Sessions : link[c] = "none" => toServer'[c] = <<>>
  BY <1>1, <1>4, <1>6, ClientSendsKeep
<1>8. InOrder(toClient[session], ByClient)
  BY <1>2, <1>5 DEF ToClientOK
<1>9. /\ packet \in Packet /\ packet = toClient[session][1] /\ Tail(toClient[session]) \in Seq(Packet)
      /\ InOrder(Tail(toClient[session]), {packet.id + 1})
      /\ \A id \in Nat : UpTo(toClient[session], ByClient, id) => UpTo(Tail(toClient[session]), {packet.id + 1}, id)
  BY <1>3, <1>4, <1>5, <1>8, OrderTail
<1>10. packet.id \in Nat /\ packet.id + 1 \in Int /\ packet.id + 1 >= 0
  BY <1>9, LinkAssumption DEF Packet
<1>11. ByClient' = {packet.id + 1}
  BY <1>4, <1>10 DEF ByClient
<1>12. TypeOK'
  <2>1. toClient' \in [Sessions -> Seq(Packet)]
    BY <1>2, <1>4, <1>9 DEF TypeOK
  <2>2. QED
    BY <1>2, <1>4, <1>6, <1>7, <1>10, <2>1 DEF TypeOK
<1>13. ConnectionOK'
  <2>1. \A c \in Sessions : c # session => toClient'[c] = toClient[c]
    BY <1>2, <1>4 DEF TypeOK
  <2>2. QED
    BY <1>2, <1>4, <1>7, <2>1 DEF ConnectionOK
<1>14. ToClientOK'
  <2>1. toClient'[session] = Tail(toClient[session])
    BY <1>2, <1>4, <1>5 DEF TypeOK
  <2>2. serverPacketId[session] \in Nat
    BY <1>2, <1>5, LinkAssumption DEF TypeOK
  <2>3. link[session] = "up" => UpTo(toClient[session], ByClient, serverPacketId[session])
    BY <1>2, <1>5 DEF ToClientOK
  <2>4. QED
    BY <1>4, <1>9, <1>11, <2>1, <2>2, <2>3 DEF ToClientOK
<1>15. DiscontinuityExplained'
  <2>1. nextPacketId >= 0 => nextPacketId \in {packet.id, IdLimit}
    BY <1>4, <1>8, <1>9 DEF InOrder, ByClient
  <2>2. \A r \in reported' : r \in reported \/ r.wrapped
    <3>1. CASE nextPacketId >= 0 /\ nextPacketId # packet.id
      <4>1. nextPacketId = IdLimit
        BY <2>1, <3>1
      <4>2. [at |-> "client", session |-> session, first |-> FALSE, wrapped |-> nextPacketId = IdLimit].wrapped
            = (nextPacketId = IdLimit)
        BY Zenon
      <4>3. QED
        BY <1>4, <3>1, <4>1, <4>2, Zenon
    <3>2. CASE ~(nextPacketId >= 0 /\ nextPacketId # packet.id)
      BY <1>4, <3>2
    <3>3. QED
      BY <3>1, <3>2
  <2>3. QED
    BY <1>2, <1>7, <2>2 DEF DiscontinuityExplained
<1>16. QED
  BY <1>7, <1>12, <1>13, <1>14, <1>15 DEF NumberedInv


(***************************************************************************)
(* The server's objects.                                                   *)
(***************************************************************************)
LEMMA ServerSendsKeep ==
  ASSUME NumberedInv, NEW c \in Sessions, NEW p \in Packet,
         serverPacketId' = [serverPacketId EXCEPT ![c] = GenerateNextPacketId(serverPacketId[c])],
         p.id = serverPacketId'[c], ServerSend(c, p), UNCHANGED <<session, link, nextPacketId>>
  PROVE  /\ serverPacketId' \in [Sessions -> 0 .. IdLimit - 1] /\ toClient' \in [Sessions -> Seq(Packet)]
         /\ ToClientOK' /\ \A d \in Sessions : d # session => toClient'[d] = <<>>
<1>1. TypeOK /\ ConnectionOK /\ ToClientOK
  BY DEF NumberedInv
<1>2. serverPacketId \in [Sessions -> 0 .. IdLimit - 1] /\ toClient \in [Sessions -> Seq(Packet)]
  BY <1>1 DEF TypeOK
<1>3. /\ serverPacketId' \in [Sessions -> 0 .. IdLimit - 1]
      /\ serverPacketId'[c] = GenerateNextPacketId(serverPacketId[c])
  <2>1. GenerateNextPacketId(serverPacketId[c]) \in 0 .. IdLimit - 1
    BY <1>2, NextNumber
  <2>2. QED
    BY <1>2, <2>1
<1>4. ByClient' = ByClient
  BY DEF ByClient
<1>5. CASE link[c] = "up"
  <2>1. c = session /\ toClient' = [toClient EXCEPT ![c] = Append(toClient[c], p)]
    BY <1>1, <1>5 DEF ConnectionOK, ServerSend
  <2>2. Append(toClient[c], p) \in Seq(Packet)
    BY <1>2
  <2>3. toClient' \in [Sessions -> Seq(Packet)] /\ toClient'[c] = Append(toClient[c], p)
    BY <1>2, <2>1, <2>2
  <2>4. toClient[c] \in Seq(Packet) /\ InOrder(toClient[c], ByClient) /\ UpTo(toClient[c], ByClient, serverPacketId[c])
    BY <1>1, <1>2, <1>5, <2>1 DEF ToClientOK
  <2>5. serverPacketId[c] \in 0 .. IdLimit - 1 /\ p.id = GenerateNextPacketId(serverPacketId[c])
    BY <1>2, <1>3
  <2>6. InOrder(Append(toClient[c], p), ByClient) /\ UpTo(Append(toClient[c], p), ByClient, p.id)
    BY <2>4, <2>5, OrderAppend
  <2>7. ToClientOK'
    BY <1>4, <2>1, <2>3, <2>6 DEF ToClientOK
  <2>8. \A d \in Sessions : d # session => toClient'[d] = <<>>
    BY <1>1, <1>2, <2>1 DEF ConnectionOK
  <2>9. QED
    BY <1>3, <2>3, <2>7, <2>8
<1>6. CASE link[c] # "up"
  <2>1. toClient' = toClient
    BY <1>6 DEF ServerSend
  <2>2. \A d \in Sessions : link[d] = "up" => serverPacketId'[d] = serverPacketId[d]
    BY <1>2, <1>6
  <2>3. ToClientOK'
    BY <1>1, <1>4, <2>1, <2>2 DEF ToClientOK
  <2>4. QED
    BY <1>1, <1>2, <1>3, <2>1, <2>3 DEF ConnectionOK
<1>7. QED
  BY <1>5, <1>6

LEMMA NumberedServerSendPlain == ASSUME NEW c \in Sessions PROVE NumberedInv /\ ServerSendPlain(c) => NumberedInv'
<1>1. SUFFICES ASSUME NumberedInv, ServerSendPlain(c)
               PROVE  NumberedInv'
  OBVIOUS
<1>2. TypeOK /\ ConnectionOK /\ ToServerOK /\ DiscontinuityExplained
  BY <1>1 DEF NumberedInv
<1>3. /\ plains' = plains + 1
      /\ serverPacketId' = [serverPacketId EXCEPT ![c] = GenerateNextPacketId(serverPacketId[c])]
      /\ ServerSend(c, PlainPacket(serverPacketId'[c]))
      /\ UNCHANGED <<clientVars, serverNextPacketId, link, toServer, historyVars, resets>>
  BY <1>1 DEF ServerSendPlain
<1>4. serverPacketId'[c] \in 0 .. IdLimit - 1
  <2>1. serverPacketId[c] \in 0 .. IdLimit - 1
    BY <1>2 DEF TypeOK
  <2>2. serverPacketId'[c] = GenerateNextPacketId(serverPacketId[c])
    BY <1>2, <1>3 DEF TypeOK
  <2>3. QED
    BY <2>1, <2>2, NextNumber
<1>5. PICK p : p = PlainPacket(serverPacketId'[c])
  OBVIOUS
<1>6. p \in Packet /\ p.id = serverPacketId'[c]
  <2>1. \A id \in 0 .. IdLimit - 1 : PlainPacket(id) \in Packet /\ PlainPacket(id).id = id
    BY PlainIsPacket, 0 \in Nat
  <2>2. QED
    BY <1>4, <1>5, <2>1
<1>7. /\ serverPacketId' \in [Sessions -> 0 .. IdLimit - 1] /\ toClient' \in [Sessions -> Seq(Packet)]
      /\ ToClientOK' /\ \A d \in Sessions : d # session => toClient'[d] = <<>>
  BY <1>1, <1>3, <1>5, <1>6, ServerSendsKeep
<1>8. TypeOK'
  BY <1>2, <1>3, <1>7 DEF TypeOK
<1>9. ConnectionOK' /\ ToServerOK' /\ DiscontinuityExplained'
  BY <1>2, <1>3, <1>7 DEF ConnectionOK, ToServerOK, ByServer, DiscontinuityExplained
<1>10. QED
  BY <1>7, <1>8, <1>9 DEF NumberedInv

LEMMA NumberedServerReceive == ASSUME NEW c \in Sessions PROVE NumberedInv /\ ServerReceive(c) => NumberedInv'
<1>1. SUFFICES ASSUME NumberedInv, ServerReceive(c)
               PROVE  NumberedInv'
  OBVIOUS
<1>2. TypeOK /\ ConnectionOK /\ ToServerOK /\ ToClientOK /\ DiscontinuityExplained
  BY <1>1 DEF NumberedInv
<1>3. PICK packet : packet = Head(toServer[c])
  OBVIOUS
<1>4. /\ ServerUp(c) /\ toServer[c] # <<>>
      /\ reported' = IF serverNextPacketId[c] >= 0 /\ serverNextPacketId[c] # packet.id
                     THEN reported \cup {[at |-> "server", session |-> c, first |-> c \notin heard,
                                           wrapped |-> serverNextPacketId[c] = IdLimit]}
                     ELSE reported
      /\ serverNextPacketId' = [serverNextPacketId EXCEPT ![c] = packet.id + 1]
      /\ toServer' = [toServer EXCEPT ![c] = Tail(toServer[c])]
      /\ heard' = heard \cup {c}
      /\ UNCHANGED <<clientVars, link, queued, applied, resent, bounds>>
  BY <1>1, <1>3 DEF ServerReceive
<1>5. toServer[c] \in Seq(Packet) /\ serverNextPacketId \in [Sessions -> Int]
  BY <1>2 DEF TypeOK
<1>6. packet \in Packet
  <2>1. \A s \in Seq(Packet) : s # <<>> => Head(s) \in Packet
    OBVIOUS
  <2>2. QED
    BY <1>3, <1>4, <1>5, <2>1
<1>7. packet.id \in Nat /\ packet.id + 1 \in Int
  BY <1>6, LinkAssumption DEF Packet
<1>8. /\ serverPacketId' \in [Sessions -> 0 .. IdLimit - 1] /\ toClient' \in [Sessions -> Seq(Packet)]
      /\ ToClientOK' /\ \A d \in Sessions : d # session => toClient'[d] = <<>>
  <2>1. CASE UNCHANGED <<serverPacketId, toClient>>
    <3>1. ToClientOK'
      BY <1>2, <1>4, <2>1 DEF ToClientOK, ByClient
    <3>2. QED
      BY <1>2, <2>1, <3>1 DEF TypeOK, ConnectionOK
  <2>2. CASE /\ serverPacketId' = [serverPacketId EXCEPT ![c] = GenerateNextPacketId(serverPacketId[c])]
             /\ ServerSend(c, TicketPacket(serverPacketId'[c], packet.id))
    <3>1. serverPacketId'[c] \in 0 .. IdLimit - 1
      <4>1. serverPacketId[c] \in 0 .. IdLimit - 1
        BY <1>2 DEF TypeOK
      <4>2. serverPacketId'[c] = GenerateNextPacketId(serverPacketId[c])
        BY <1>2, <2>2 DEF TypeOK
      <4>3. QED
        BY <4>1, <4>2, NextNumber
    <3>2. PICK p : p = TicketPacket(serverPacketId'[c], packet.id)
      OBVIOUS
    <3>3. \A id \in 0 .. IdLimit - 1 : \A n \in Nat : TicketPacket(id, n) \in Packet /\ TicketPacket(id, n).id = id
      BY PlainIsPacket
    <3>4. p \in Packet /\ p.id = serverPacketId'[c]
      BY <1>7, <3>1, <3>2, <3>3
    <3>5. QED
      BY <1>1, <1>4, <2>2, <3>2, <3>4, ServerSendsKeep
  <2>3. QED
    BY <1>1, <1>3, <2>1, <2>2 DEF ServerReceive
<1>9. TypeOK'
  <2>1. Tail(toServer[c]) \in Seq(Packet)
    <3>1. \A s \in Seq(Packet) : s # <<>> => Tail(s) \in Seq(Packet)
      OBVIOUS
    <3>2. QED
      BY <1>4, <1>5, <3>1
  <2>2. toServer' \in [Sessions -> Seq(Packet)] /\ serverNextPacketId' \in [Sessions -> Int]
    BY <1>2, <1>4, <1>5, <1>7, <2>1 DEF TypeOK
  <2>3. QED
    BY <1>2, <1>4, <1>8, <2>2 DEF TypeOK
<1>10. \A d \in Sessions : d # c => toServer'[d] = toServer[d] /\ serverNextPacketId'[d] = serverNextPacketId[d] /\ (d \in heard' <=> d \in heard)
  BY <1>2, <1>4 DEF TypeOK
<1>11. ConnectionOK'
  <2>1. link[c] # "none"
    BY <1>4 DEF ServerUp
  <2>2. QED
    BY <1>2, <1>4, <1>8, <1>10, <2>1 DEF ConnectionOK
<1>12. ToServerOK'
  <2>1. SUFFICES ASSUME NEW d \in Sessions, d \notin resent
                 PROVE  /\ InOrder(toServer'[d], ByServer(d)')
                        /\ link[d] = "up" => UpTo(toServer'[d], ByServer(d)', packetId)
    BY <1>4 DEF ToServerOK
  <2>2. InOrder(toServer[d], ByServer(d)) /\ (link[d] = "up" => UpTo(toServer[d], ByServer(d), packetId))
    BY <1>2, <2>1 DEF ToServerOK
  <2>3. CASE d = c
    <3>1. /\ Head(toServer[c]) = packet
          /\ InOrder(Tail(toServer[c]), {packet.id + 1})
          /\ \A id \in Nat : UpTo(toServer[c], ByServer(c), id) => UpTo(Tail(toServer[c]), {packet.id + 1}, id)
      BY <1>3, <1>4, <1>5, <2>2, <2>3, OrderTail
    <3>2. toServer'[c] = Tail(toServer[c]) /\ ByServer(c)' = {packet.id + 1}
      BY <1>2, <1>4, <1>5 DEF TypeOK, ByServer
    <3>3. packetId \in Nat
      BY <1>2, LinkAssumption DEF TypeOK
    <3>4. QED
      BY <2>2, <2>3, <3>1, <3>2, <3>3
  <2>4. CASE d # c
    <3>1. toServer'[d] = toServer[d] /\ ByServer(d)' = ByServer(d)
      BY <1>10, <2>4 DEF ByServer
    <3>2. QED
      BY <2>2, <3>1
  <2>5. QED
    BY <2>3, <2>4
<1>13. DiscontinuityExplained'
  <2>1. CASE /\ serverNextPacketId[c] >= 0 /\ serverNextPacketId[c] # packet.id
    <3>1. PICK r : r = [at |-> "server", session |-> c, first |-> c \notin heard, wrapped |-> serverNextPacketId[c] = IdLimit]
      OBVIOUS
    <3>2. r.session = c /\ r.first = (c \notin heard) /\ r.wrapped = (serverNextPacketId[c] = IdLimit)
      BY <3>1, Zenon
    <3>3. ASSUME c \in heard, c \notin resent
          PROVE  serverNextPacketId[c] = IdLimit
      <4>1. InOrder(toServer[c], ByServer(c)) /\ ByServer(c) = {serverNextPacketId[c]}
        BY <1>2, <3>3 DEF ToServerOK, ByServer
      <4>2. packet = toServer[c][1]
        BY <1>3, <1>4, <1>5
      <4>3. QED
        BY <1>4, <2>1, <4>1, <4>2 DEF InOrder
    <3>4. ~r.first => r.session \in resent \/ r.wrapped
      BY <3>2, <3>3, Zenon
    <3>5. reported' = reported \cup {r}
      BY <1>4, <2>1, <3>1
    <3>6. \A q \in reported' : q \in reported \/ q = r
      BY <3>5
    <3>7. UNCHANGED resent
      BY <1>4
    <3>8. QED
      BY <1>2, <3>4, <3>6, <3>7, Zenon DEF DiscontinuityExplained
  <2>2. CASE ~(serverNextPacketId[c] >= 0 /\ serverNextPacketId[c] # packet.id)
    BY <1>2, <1>4, <2>2 DEF DiscontinuityExplained
  <2>3. QED
    BY <2>1, <2>2
<1>14. QED
  BY <1>8, <1>9, <1>11, <1>12, <1>13 DEF NumberedInv

(***************************************************************************)
(* Connections.                                                            *)
(***************************************************************************)
LEMMA NumberedConnect == ASSUME NEW c \in Sessions PROVE NumberedInv /\ Connect(c) => NumberedInv'
<1>1. SUFFICES ASSUME NumberedInv, Connect(c)
               PROVE  NumberedInv'
  OBVIOUS
<1>2. TypeOK /\ ConnectionOK /\ ToServerOK /\ ToClientOK /\ DiscontinuityExplained
  BY <1>1 DEF NumberedInv
<1>3. /\ session = 0 /\ link[c] = "none" /\ session' = c /\ nextPacketId' = -1
      /\ link' = [link EXCEPT ![c] = "up"]
      /\ UNCHANGED <<queue, currentPacket, packetId, serverPacketId, toServer, toClient, historyVars, bounds>>
  BY <1>1 DEF Connect
<1>4. PICK garbage \in Garbage : serverNextPacketId' = [serverNextPacketId EXCEPT ![c] = garbage]
  BY <1>1 DEF Connect
<1>5. TypeOK'
  BY <1>2, <1>3, <1>4, LinkAssumption DEF TypeOK
<1>6. \A d \in Sessions : d # c => link'[d] = link[d] /\ serverNextPacketId'[d] = serverNextPacketId[d]
  BY <1>2, <1>3, <1>4 DEF TypeOK
<1>7. link'[c] = "up" /\ toServer[c] = <<>> /\ toClient[c] = <<>> /\ c \notin heard
  BY <1>2, <1>3 DEF TypeOK, ConnectionOK
<1>8. ConnectionOK'
  BY <1>2, <1>3, <1>6, <1>7, 0 \notin Sessions DEF ConnectionOK
<1>9. Consecutive(<<>>)
  BY DEF Consecutive
<1>10. ToServerOK'
  <2>1. InOrder(<<>>, {}) /\ UpTo(<<>>, {}, packetId)
    BY <1>9 DEF InOrder, UpTo
  <2>2. ByServer(c)' = {} /\ \A d \in Sessions : d # c => ByServer(d)' = ByServer(d)
    BY <1>3, <1>6, <1>7 DEF ByServer
  <2>3. QED
    BY <1>2, <1>3, <1>6, <1>7, <2>1, <2>2 DEF ToServerOK
<1>11. ToClientOK'
  <2>1. InOrder(<<>>, {}) /\ UpTo(<<>>, {}, serverPacketId[c])
    BY <1>9 DEF InOrder, UpTo
  <2>2. ByClient' = {}
    BY <1>3 DEF ByClient
  <2>3. QED
    BY <1>3, <1>7, <2>1, <2>2 DEF ToClientOK
<1>12. DiscontinuityExplained'
  BY <1>2, <1>3 DEF DiscontinuityExplained
<1>13. QED
  BY <1>5, <1>8, <1>10, <1>11, <1>12 DEF NumberedInv

LEMMA NumberedBreak == ASSUME NEW c \in Sessions PROVE NumberedInv /\ Break(c) => NumberedInv'
<1>1. SUFFICES ASSUME NumberedInv, Break(c)
               PROVE  NumberedInv'
  OBVIOUS
<1>2. TypeOK /\ ConnectionOK /\ ToServerOK /\ ToClientOK /\ DiscontinuityExplained
  BY <1>1 DEF NumberedInv
<1>3. /\ link[c] = "up" /\ link' = [link EXCEPT ![c] = "down"]
      /\ UNCHANGED <<clientVars, serverVars, historyVars, bounds>>
  BY <1>1 DEF Break
<1>4. PICK n \in 0 .. Len(toServer[c]), m \in 0 .. Len(toClient[c]) :
        /\ toServer' = [toServer EXCEPT ![c] = SubSeq(toServer[c], 1, n)]
        /\ toClient' = [toClient EXCEPT ![c] = SubSeq(toClient[c], 1, m)]
  BY <1>1 DEF Break
<1>5. /\ toServer[c] \in Seq(Packet) /\ toClient[c] \in Seq(Packet)
      /\ SubSeq(toServer[c], 1, n) \in Seq(Packet) /\ SubSeq(toClient[c], 1, m) \in Seq(Packet)
  <2>1. \A s \in Seq(Packet) : \A k \in 0 .. Len(s) : SubSeq(s, 1, k) \in Seq(Packet)
    OBVIOUS
  <2>2. toServer[c] \in Seq(Packet) /\ toClient[c] \in Seq(Packet)
    BY <1>2 DEF TypeOK
  <2>3. QED
    BY <2>1, <2>2
<1>6. TypeOK'
  <2>1. /\ toServer' \in [Sessions -> Seq(Packet)] /\ toClient' \in [Sessions -> Seq(Packet)]
        /\ link' \in [Sessions -> {"none", "up", "down", "closed"}]
    BY <1>2, <1>3, <1>4, <1>5 DEF TypeOK
  <2>2. QED
    BY <1>2, <1>3, <2>1 DEF TypeOK
<1>7. /\ toServer'[c] = SubSeq(toServer[c], 1, n) /\ toClient'[c] = SubSeq(toClient[c], 1, m) /\ link'[c] = "down"
      /\ \A d \in Sessions : d # c => toServer'[d] = toServer[d] /\ toClient'[d] = toClient[d] /\ link'[d] = link[d]
  BY <1>2, <1>3, <1>4 DEF TypeOK
<1>8. c = session
  BY <1>2, <1>3 DEF ConnectionOK
<1>9. ConnectionOK'
  BY <1>2, <1>3, <1>7, <1>8 DEF ConnectionOK
<1>10. ToServerOK'
  <2>1. \A d \in Sessions : ByServer(d)' = ByServer(d)
    BY <1>3 DEF ByServer
  <2>2. c \notin resent => InOrder(toServer'[c], ByServer(c))
    <3>1. SUFFICES ASSUME c \notin resent
                   PROVE  InOrder(toServer'[c], ByServer(c))
      OBVIOUS
    <3>2. InOrder(toServer[c], ByServer(c))
      BY <1>2, <3>1 DEF ToServerOK
    <3>3. QED
      BY <1>5, <1>7, <3>2, OrderPrefix
  <2>3. QED
    BY <1>2, <1>3, <1>7, <2>1, <2>2 DEF ToServerOK
<1>11. ToClientOK'
  <2>1. InOrder(toClient[c], ByClient)
    BY <1>2, <1>8 DEF ToClientOK
  <2>2. InOrder(toClient'[c], ByClient)
    BY <1>5, <1>7, <2>1, OrderPrefix
  <2>3. ByClient' = ByClient
    BY <1>3 DEF ByClient
  <2>4. QED
    BY <1>3, <1>7, <1>8, <2>2, <2>3 DEF ToClientOK
<1>12. DiscontinuityExplained'
  BY <1>2, <1>3 DEF DiscontinuityExplained
<1>13. QED
  BY <1>6, <1>9, <1>10, <1>11, <1>12 DEF NumberedInv

LEMMA NumberedClientDisconnected == NumberedInv /\ ClientDisconnected => NumberedInv'
<1>1. SUFFICES ASSUME NumberedInv, ClientDisconnected
               PROVE  NumberedInv'
  OBVIOUS
<1>2. TypeOK /\ ConnectionOK /\ ToServerOK /\ ToClientOK /\ DiscontinuityExplained
  BY <1>1 DEF NumberedInv
<1>3. /\ session # 0 /\ link[session] # "up" /\ session' = 0
      /\ toClient' = [toClient EXCEPT ![session] = <<>>]
      /\ UNCHANGED <<queue, currentPacket, packetId, nextPacketId, serverVars, link, toServer, historyVars, bounds>>
  BY <1>1 DEF ClientDisconnected
<1>4. <<>> \in Seq(Packet)
  OBVIOUS
<1>5. TypeOK'
  <2>1. toClient' \in [Sessions -> Seq(Packet)]
    BY <1>2, <1>3, <1>4 DEF TypeOK
  <2>2. 0 \in 0 .. MaxSessions
    BY LinkAssumption
  <2>3. QED
    BY <1>2, <1>3, <2>1, <2>2 DEF TypeOK
<1>6. 0 \notin Sessions
  OBVIOUS
<1>7. \A d \in Sessions : toClient'[d] = <<>>
  BY <1>2, <1>3 DEF TypeOK, ConnectionOK
<1>8. ConnectionOK' /\ ToClientOK'
  BY <1>2, <1>3, <1>6, <1>7 DEF ConnectionOK, ToClientOK
<1>9. ToServerOK' /\ DiscontinuityExplained'
  BY <1>2, <1>3 DEF ToServerOK, ByServer, DiscontinuityExplained
<1>10. QED
  BY <1>5, <1>8, <1>9 DEF NumberedInv

LEMMA NumberedServerDisconnected == ASSUME NEW c \in Sessions PROVE NumberedInv /\ ServerDisconnected(c) => NumberedInv'
<1>1. SUFFICES ASSUME NumberedInv, ServerDisconnected(c)
               PROVE  NumberedInv'
  OBVIOUS
<1>2. TypeOK /\ ConnectionOK /\ ToServerOK /\ ToClientOK /\ DiscontinuityExplained
  BY <1>1 DEF NumberedInv
<1>3. /\ link[c] = "down" /\ link' = [link EXCEPT ![c] = "closed"] /\ toServer' = [toServer EXCEPT ![c] = <<>>]
      /\ UNCHANGED <<clientVars, serverVars, toClient, historyVars, bounds>>
  BY <1>1 DEF ServerDisconnected
<1>4. <<>> \in Seq(Packet)
  OBVIOUS
<1>5. TypeOK'
  <2>1. toServer' \in [Sessions -> Seq(Packet)] /\ link' \in [Sessions -> {"none", "up", "down", "closed"}]
    BY <1>2, <1>3, <1>4 DEF TypeOK
  <2>2. QED
    BY <1>2, <1>3, <2>1 DEF TypeOK
<1>6. /\ toServer'[c] = <<>> /\ link'[c] = "closed"
      /\ \A d \in Sessions : d # c => toServer'[d] = toServer[d] /\ link'[d] = link[d]
  BY <1>2, <1>3 DEF TypeOK
<1>7. ConnectionOK'
  BY <1>2, <1>3, <1>6 DEF ConnectionOK
<1>8. ToServerOK'
  <2>1. InOrder(<<>>, ByServer(c))
    BY DEF InOrder, Consecutive
  <2>2. \A d \in Sessions : ByServer(d)' = ByServer(d)
    BY <1>3 DEF ByServer
  <2>3. QED
    BY <1>2, <1>3, <1>6, <2>1, <2>2 DEF ToServerOK
<1>9. ToClientOK' /\ DiscontinuityExplained'
  BY <1>2, <1>3, <1>6 DEF ToClientOK, ByClient, DiscontinuityExplained
<1>10. QED
  BY <1>5, <1>7, <1>8, <1>9 DEF NumberedInv

LEMMA NextNumbered == NumberedInv /\ [Next]_linkVars => NumberedInv'
<1>1. SUFFICES ASSUME NumberedInv, [Next]_linkVars
               PROVE  NumberedInv'
  OBVIOUS
<1>2. CASE SendFrame \/ ClientSendPlain \/ CallProcessQueue \/ ResetQueue \/ ClientReceive \/ Tick \/ ClientDisconnected
  BY <1>1, <1>2, NumberedSendFrame, NumberedClientSendPlain, NumberedCallProcessQueue, NumberedResetQueue,
     NumberedClientReceive, NumberedTick, NumberedClientDisconnected
<1>3. ASSUME NEW c \in Sessions,
             ServerSendPlain(c) \/ ServerReceive(c) \/ ServerDisconnected(c) \/ Connect(c) \/ Break(c)
      PROVE  NumberedInv'
  BY <1>1, <1>3, NumberedServerSendPlain, NumberedServerReceive, NumberedServerDisconnected, NumberedConnect, NumberedBreak
<1>4. CASE UNCHANGED linkVars
  <2>1. TypeOK' /\ ConnectionOK'
    BY <1>1, <1>4 DEF NumberedInv, TypeOK, ConnectionOK
  <2>2. ToServerOK' /\ ToClientOK' /\ DiscontinuityExplained'
    BY <1>1, <1>4 DEF NumberedInv, ToServerOK, ToClientOK, ByServer, ByClient, DiscontinuityExplained
  <2>3. QED
    BY <2>1, <2>2 DEF NumberedInv
<1>5. QED
  BY <1>1, <1>2, <1>3, <1>4 DEF Next

(***************************************************************************)
(* For any numbers, however often they begin again, any loss and any       *)
(* number of connections: on a connection on which nothing was sent again  *)
(* the packets arrive numbered one after another, so that a discontinuity  *)
(* has one of the two causes DiscontinuityExplained names.                 *)
(***************************************************************************)
THEOREM DiscontinuityExplainedHolds == Spec => []DiscontinuityExplained
<1>1. NumberedInv => DiscontinuityExplained
  BY DEF NumberedInv
<1>2. QED
  BY <1>1, InitNumbered, NextNumbered, PTL DEF Spec


(***************************************************************************)
(* The channel: numbers and the queue.                                     *)
(***************************************************************************)
LEMMA InitChannel == Init => ChannelInv
<1>1. SUFFICES ASSUME Init
               PROVE  ChannelInv
  OBVIOUS
<1>2. QueueShape(queue, currentPacket, queued, applied)
  BY <1>1 DEF Init, QueueShape, NoPacket
<1>3. NumbersOK
  BY <1>1, LinkAssumption DEF Init, NumbersOK, Unnumbered, Unanswered
<1>4. \A S : <<>> \in Seq(S)
  OBVIOUS
<1>5. TicketsOK
  BY <1>1, <1>4 DEF Init, TicketsOK
<1>6. QED
  BY <1>2, <1>3, <1>5 DEF ChannelInv

(* A number not yet given is the next one.                                 *)
LEMMA FreshNumber ==
  ASSUME NEW id \in 0 .. IdLimit - 1, id + 1 < IdLimit
  PROVE  GenerateNextPacketId(id) = id + 1
BY LinkAssumption DEF GenerateNextPacketId

LEMMA SeqMonotone ==
  ASSUME NEW S, NEW T, S \subseteq T, NEW f \in [Sessions -> Seq(S)]
  PROVE  f \in [Sessions -> Seq(T)]
<1>1. \A s \in Seq(S) : s \in Seq(T)
  OBVIOUS
<1>2. QED
  BY <1>1

(* Plain packets counted along a connection.                               *)
LEMMA PlainsFinite ==
  ASSUME NEW s \in Seq(Packet)
  PROVE  IsFiniteSet(Plains(s)) /\ Cardinality(Plains(s)) \in Nat
<1>1. IsFiniteSet(1 .. Len(s))
  BY IntervalSize, Len(s) \in Nat
<1>2. Plains(s) \in SUBSET (1 .. Len(s))
  BY DEF Plains
<1>3. QED
  BY <1>1, <1>2, FS_Subset, FS_CardinalityType

LEMMA PlainsAppend ==
  ASSUME NEW s \in Seq(Packet), NEW p \in Packet
  PROVE  Cardinality(Plains(Append(s, p))) = Cardinality(Plains(s)) + (IF p.type = "PacketWithoutTicket" THEN 1 ELSE 0)
<1> DEFINE t == Append(s, p)
<1>1. /\ Len(s) \in Nat /\ DOMAIN s = 1 .. Len(s) /\ DOMAIN t = 1 .. Len(s) + 1
      /\ t[Len(s) + 1] = p /\ \A i \in 1 .. Len(s) : t[i] = s[i]
  OBVIOUS
<1> HIDE DEF t
<1>2. \A i \in 1 .. Len(s) + 1 : i \in 1 .. Len(s) \/ i = Len(s) + 1
  BY <1>1
<1>3. Len(s) + 1 \notin Plains(s)
  BY <1>1 DEF Plains
<1>4. CASE p.type = "PacketWithoutTicket"
  <2>1. Plains(t) = Plains(s) \cup {Len(s) + 1}
    BY <1>1, <1>2, <1>4 DEF Plains
  <2>2. QED
    BY <1>3, <1>4, <2>1, PlainsFinite, FS_AddElement DEF t
<1>5. CASE p.type # "PacketWithoutTicket"
  <2>1. Plains(t) = Plains(s)
    BY <1>1, <1>2, <1>5 DEF Plains
  <2>2. QED
    BY <1>5, <2>1, PlainsFinite DEF t
<1>6. QED
  BY <1>4, <1>5

LEMMA PlainsTail ==
  ASSUME NEW s \in Seq(Packet), s # <<>>
  PROVE  Cardinality(Plains(Tail(s))) + (IF s[1].type = "PacketWithoutTicket" THEN 1 ELSE 0) <= Cardinality(Plains(s))
<1> DEFINE t == Tail(s)
           rest == Plains(s) \ {1}
           f == [i \in Plains(t) |-> i + 1]
<1>1. /\ Len(s) \in Nat /\ Len(s) > 0 /\ DOMAIN s = 1 .. Len(s) /\ t \in Seq(Packet) /\ DOMAIN t = 1 .. Len(s) - 1
      /\ \A i \in 1 .. Len(s) - 1 : t[i] = s[i + 1]
  OBVIOUS
<1> HIDE DEF t
<1>2. ASSUME NEW i \in Plains(t)
      PROVE  i \in Nat /\ i + 1 \in rest
  <2>1. i \in 1 .. Len(s) - 1 /\ t[i].type = "PacketWithoutTicket"
    BY <1>1 DEF Plains
  <2>2. i + 1 \in 1 .. Len(s) /\ i + 1 # 1 /\ s[i + 1] = t[i]
    BY <1>1, <2>1
  <2>3. QED
    BY <1>1, <2>1, <2>2 DEF Plains
<1>3. IsFiniteSet(Plains(s)) /\ Cardinality(Plains(s)) \in Nat /\ IsFiniteSet(Plains(t)) /\ Cardinality(Plains(t)) \in Nat
  BY <1>1, PlainsFinite
<1>4. /\ IsFiniteSet(rest)
      /\ Cardinality(rest) = IF 1 \in Plains(s) THEN Cardinality(Plains(s)) - 1 ELSE Cardinality(Plains(s))
  BY <1>3, FS_RemoveElement
<1>5. f \in Injection(Plains(t), rest)
  <2>1. f \in [Plains(t) -> rest]
    BY <1>2
  <2>2. \A i, j \in Plains(t) : f[i] = f[j] => i = j
    BY <1>2
  <2>3. QED
    BY <2>1, <2>2 DEF Injection, IsInjective
<1> HIDE DEF f, rest
<1>6. Cardinality(Plains(t)) <= Cardinality(rest)
  BY <1>4, <1>5, FS_Injection
<1>7. 1 \in Plains(s) <=> s[1].type = "PacketWithoutTicket"
  BY <1>1 DEF Plains
<1>8. QED
  BY <1>3, <1>4, <1>6, <1>7 DEF t

LEMMA PlainsPrefix ==
  ASSUME NEW s \in Seq(Packet), NEW n \in 0 .. Len(s)
  PROVE  Cardinality(Plains(SubSeq(s, 1, n))) <= Cardinality(Plains(s))
<1> DEFINE t == SubSeq(s, 1, n)
<1>1. Len(s) \in Nat /\ DOMAIN s = 1 .. Len(s) /\ DOMAIN t = 1 .. n /\ \A i \in 1 .. n : t[i] = s[i]
  OBVIOUS
<1> HIDE DEF t
<1>2. Plains(t) \in SUBSET Plains(s)
  BY <1>1 DEF Plains
<1>3. QED
  BY <1>2, PlainsFinite, FS_Subset DEF t

(* What ProcessQueue does with a queue in shape and a number to give.      *)
LEMMA ProcessQueueKeeps ==
  ASSUME TypeOK, NEW packets \in Seq(QueuedPacket), NEW current \in QueuedPacket, ProcessQueue(packets, current),
         NEW n \in Nat, NEW confirmed, QueueShape(packets, current, n, confirmed),
         NEW room \in Nat, packetId + Unnumbered(packets, current) <= room, room < IdLimit,
         current # NoPacket => current.id \in 1 .. packetId,
         toServer \in [Sessions -> Seq(GoodPackets(current, packetId, n, confirmed))],
         NEW got, NEW answers, answers \in [Sessions -> Seq(GoodAnswers(current, packetId, got))]
  PROVE  /\ QueueShape(queue', currentPacket', n, confirmed)
         /\ packetId' + Unnumbered(queue', currentPacket') <= room
         /\ currentPacket' # NoPacket => currentPacket'.id \in 1 .. packetId'
         /\ toServer' \in [Sessions -> Seq(GoodPackets(currentPacket', packetId', n, confirmed))]
         /\ answers \in [Sessions -> Seq(GoodAnswers(currentPacket', packetId', got))]
<1>1. packetId \in 0 .. IdLimit - 1 /\ packetId \in Nat /\ session \in 0 .. MaxSessions
  BY LinkAssumption DEF TypeOK
<1>2. ASSUME NEW p, NEW S, Sent(p), p \in S, toServer \in [Sessions -> Seq(S)]
      PROVE  toServer' \in [Sessions -> Seq(S)]
  <2>1. CASE session # 0 /\ link[session] = "up"
    <3>1. session \in Sessions /\ toServer' = [toServer EXCEPT ![session] = Append(toServer[session], p)]
      BY <1>1, <1>2, <2>1 DEF Sent
    <3>2. Append(toServer[session], p) \in Seq(S)
      BY <1>2, <3>1
    <3>3. QED
      BY <1>2, <3>1, <3>2
  <2>2. CASE ~(session # 0 /\ link[session] = "up")
    BY <1>2, <2>2 DEF Sent
  <2>3. QED
    BY <2>1, <2>2
<1>3. packets # <<>> => /\ 1 \in DOMAIN packets /\ Len(packets) \in Nat \ {0} /\ packets[1] \in QueuedPacket
                        /\ packets[1].frame = n - Len(packets) + 1 /\ Len(packets) <= n
                        /\ confirmed = 1 .. n - Len(packets)
  BY DEF QueueShape
<1>4. ASSUME NEW x \in QueuedPacket, packets # <<>>, x.frame = packets[1].frame, NEW id \in 0 .. IdLimit - 1, x.id \in 1 .. id
      PROVE  FramePacket(x) \in GoodPackets(x, id, n, confirmed)
  <2>1. /\ FramePacket(x) \in Packet /\ FramePacket(x).id = x.id /\ FramePacket(x).frame = x.frame
        /\ FramePacket(x).type = "PacketNeedsTicket"
    BY <1>4 DEF FramePacket, Packet, PacketTypes, QueuedPacket
  <2>2. x.frame \in 1 .. n /\ x.frame - 1 = n - Len(packets)
    <3>1. \A k \in Nat \ {0} : k <= n => n - k + 1 \in 1 .. n /\ (n - k + 1) - 1 = n - k
      OBVIOUS
    <3>2. Len(packets) \in Nat \ {0} /\ Len(packets) <= n /\ x.frame = n - Len(packets) + 1
      BY <1>3, <1>4
    <3>3. QED
      BY <3>1, <3>2
  <2>3. 1 .. x.frame - 1 \subseteq confirmed
    BY <1>3, <1>4, <2>2
  <2>4. QED
    BY <1>4, <2>1, <2>2, <2>3 DEF GoodPackets
<1>5. CASE /\ queue' = packets /\ currentPacket' = current /\ UNCHANGED packetId
           /\ SendsNothing \/ (current # NoPacket /\ SendsAgain(FramePacket(current)))
  <2>1. CASE SendsNothing
    BY <1>5, <2>1 DEF SendsNothing
  <2>2. CASE current # NoPacket /\ SendsAgain(FramePacket(current))
    <3>1. packets # <<>> /\ current = packets[1]
      BY <2>2 DEF QueueShape
    <3>2. FramePacket(current) \in GoodPackets(current, packetId, n, confirmed)
      BY <1>1, <1>4, <2>2, <3>1
    <3>3. Sent(FramePacket(current))
      BY <2>2 DEF SendsAgain
    <3>4. toServer' \in [Sessions -> Seq(GoodPackets(current, packetId, n, confirmed))]
      BY <1>2, <3>2, <3>3
    <3>5. QED
      BY <1>5, <3>4
  <2>3. QED
    BY <1>5, <2>1, <2>2
<1>6. CASE /\ current = NoPacket /\ packets # <<>>
           /\ SendsNew(FramePacket(currentPacket'))
           /\ currentPacket' = [packets[1] EXCEPT !.id = packetId']
           /\ queue' = [packets EXCEPT ![1] = currentPacket']
           /\ currentPacket' \in QueuedPacket
  <2>1. packetId' = GenerateNextPacketId(packetId) /\ Sent(FramePacket(currentPacket'))
    BY <1>6 DEF SendsNew
  <2>2. Unnumbered(packets, current) = Len(packets) /\ Len(packets) \in Nat \ {0}
    BY <1>3, <1>6 DEF Unnumbered
  <2>3. packetId' = packetId + 1 /\ packetId' \in 0 .. IdLimit - 1 /\ packetId' <= room
    <3>1. packetId + 1 <= room
      BY <1>1, <2>2
    <3>2. packetId + 1 < IdLimit
      BY <1>1, <3>1, LinkAssumption
    <3>3. QED
      BY <1>1, <2>1, <3>1, <3>2, FreshNumber, LinkAssumption
  <2>4. currentPacket'.id = packetId + 1 /\ currentPacket'.frame = packets[1].frame
    BY <1>3, <1>6, <2>3 DEF QueuedPacket
  <2>5. currentPacket' # NoPacket
    BY <1>1, <2>4 DEF NoPacket
  <2>6. FramePacket(currentPacket') \in GoodPackets(currentPacket', packetId', n, confirmed)
    <3>1. currentPacket'.id \in 1 .. packetId'
      BY <1>1, <2>3, <2>4
    <3>2. PICK x \in QueuedPacket : x = currentPacket'
      BY <1>6
    <3>3. PICK id \in 0 .. IdLimit - 1 : id = packetId'
      BY <2>3
    <3>4. QED
      BY <1>4, <1>6, <2>4, <3>1, <3>2, <3>3
  <2>7. GoodPackets(current, packetId, n, confirmed) \subseteq GoodPackets(currentPacket', packetId', n, confirmed)
    BY <1>1, <2>3, <2>4 DEF GoodPackets
  <2>8. GoodAnswers(current, packetId, got) \subseteq GoodAnswers(currentPacket', packetId', got)
    BY <1>1, <2>3, <2>4 DEF GoodAnswers
  <2>9. toServer' \in [Sessions -> Seq(GoodPackets(currentPacket', packetId', n, confirmed))]
    <3>1. toServer \in [Sessions -> Seq(GoodPackets(currentPacket', packetId', n, confirmed))]
      BY <2>7, SeqMonotone
    <3>2. QED
      BY <1>2, <2>1, <2>6, <3>1
  <2>10. answers \in [Sessions -> Seq(GoodAnswers(currentPacket', packetId', got))]
    BY <2>8, SeqMonotone
  <2>11. /\ Len(queue') = Len(packets) /\ DOMAIN queue' = DOMAIN packets /\ queue' # <<>> /\ queue'[1] = currentPacket'
         /\ \A i \in DOMAIN packets : i # 1 => queue'[i] = packets[i]
    BY <1>3, <1>6
  <2>12. QueueShape(queue', currentPacket', n, confirmed)
    <3>1. \A i \in DOMAIN queue' : queue'[i].frame = n - Len(queue') + i
      BY <1>3, <2>4, <2>11 DEF QueueShape
    <3>2. \A i \in DOMAIN queue' : i # 1 => queue'[i].id = PACKET_ID_EMPTY
      BY <2>11 DEF QueueShape
    <3>3. currentPacket'.id # PACKET_ID_EMPTY
      BY <1>1, <2>4 DEF PACKET_ID_EMPTY
    <3>4. QED
      BY <2>5, <2>11, <3>1, <3>2, <3>3 DEF QueueShape
  <2>13. packetId' + Unnumbered(queue', currentPacket') <= room
    <3>1. Unnumbered(queue', currentPacket') = Len(packets) - 1
      BY <2>5, <2>11 DEF Unnumbered
    <3>2. packetId + Len(packets) <= room
      BY <2>2
    <3>3. QED
      BY <1>1, <2>2, <2>3, <3>1, <3>2
  <2>14. currentPacket'.id \in 1 .. packetId'
    BY <1>1, <2>3, <2>4
  <2>15. QED
    BY <2>9, <2>10, <2>12, <2>13, <2>14
<1>7. /\ currentPacket' \in QueuedPacket
      /\ \/ /\ queue' = packets /\ currentPacket' = current /\ UNCHANGED packetId
            /\ SendsNothing \/ (current # NoPacket /\ SendsAgain(FramePacket(current)))
         \/ /\ current = NoPacket /\ packets # <<>>
            /\ SendsNew(FramePacket(currentPacket'))
            /\ currentPacket' = [packets[1] EXCEPT !.id = packetId']
            /\ queue' = [packets EXCEPT ![1] = currentPacket']
  BY ProcessQueueFacts
<1>8. QED
  BY <1>5, <1>6, <1>7


(***************************************************************************)
(* The ticket of the current packet takes the first packet of the queue.   *)
(***************************************************************************)
LEMMA PlaceBehindFirst ==
  ASSUME NEW n \in Nat, NEW i \in 1 .. n
  PROVE  Place(2 .. n + 1, i) = i + 1 /\ IsFiniteSet(2 .. n + 1) /\ Cardinality(2 .. n + 1) = n
<1> DEFINE K == 2 .. n + 1
<1>1. \A m \in Nat : IsFiniteSet(2 .. m + 1) /\ Cardinality(2 .. m + 1) = m
  <2>1. SUFFICES ASSUME NEW m \in Nat
                 PROVE  IsFiniteSet(2 .. m + 1) /\ Cardinality(2 .. m + 1) = m
    OBVIOUS
  <2>2. /\ IsFiniteSet(2 .. m + 1)
        /\ Cardinality(2 .. m + 1) = IF 2 > m + 1 THEN 0 ELSE (m + 1) - 2 + 1
    BY FS_Interval, 2 \in Int, m + 1 \in Int
  <2>3. QED
    BY <2>2
<1>2. K \in SUBSET Nat /\ IsFiniteSet(K) /\ Cardinality(K) = n
  BY <1>1
<1>3. i + 1 \in K /\ i \in 1 .. Cardinality(K) /\ i \in Nat
  BY <1>2
<1>4. {k \in K : k <= i + 1} = 2 .. i + 1
  BY <1>3
<1>5. Rank(K, i + 1) = i
  BY <1>1, <1>3, <1>4 DEF Rank
<1> HIDE DEF K
<1>6. PICK j \in K : Rank(K, j) = i /\ Place(K, i) = j
  <2>1. \E j \in K : Rank(K, j) = i
    BY <1>2, <1>3, RankOnto
  <2>2. QED
    BY <2>1 DEF Place
<1>7. ~(j < i + 1) /\ ~(i + 1 < j)
  <2>1. j < i + 1 => Rank(K, j) < Rank(K, i + 1)
    BY <1>2, <1>3, RankUp
  <2>2. i + 1 < j => Rank(K, i + 1) < Rank(K, j)
    BY <1>2, <1>3, RankUp
  <2>3. QED
    BY <1>3, <1>5, <1>6, <2>1, <2>2
<1>8. j = i + 1
  BY <1>2, <1>3, <1>7
<1>9. QED
  BY <1>2, <1>6, <1>8 DEF K

LEMMA RestOfQueue ==
  ASSUME TypeOK, QueueShape(queue, currentPacket, queued, applied), NEW id \in Nat \ {0},
         NEW k \in DOMAIN queue, queue[k].id = id
  PROVE  /\ currentPacket # NoPacket /\ currentPacket = queue[1] /\ currentPacket.id = id /\ Len(queue) \in Nat \ {0}
         /\ {p.frame : p \in {q \in ToSet(queue) : q.id = id}} = {currentPacket.frame}
         /\ PacketsWithout(id) \in Seq(QueuedPacket) /\ Len(PacketsWithout(id)) = Len(queue) - 1
         /\ \A i \in 1 .. Len(queue) - 1 : PacketsWithout(id)[i] = queue[i + 1]
<1>1. queue \in Seq(QueuedPacket) /\ DOMAIN queue = 1 .. Len(queue) /\ Len(queue) \in Nat \ {0}
  BY DEF TypeOK
<1>2. id # PACKET_ID_EMPTY
  BY DEF PACKET_ID_EMPTY
<1>3. k = 1 /\ currentPacket # NoPacket /\ currentPacket = queue[1] /\ queue[1].id = id
  BY <1>2 DEF QueueShape
<1>4. \A i \in 1 .. Len(queue) : queue[i].id = id <=> i = 1
  BY <1>1, <1>2, <1>3 DEF QueueShape
<1>5. {q \in ToSet(queue) : q.id = id} = {queue[1]}
  BY <1>1, <1>3, <1>4 DEF ToSet
<1> DEFINE n == Len(queue) - 1
           kept == {i \in DOMAIN queue : queue[i].id # id}
<1>6. kept = 2 .. n + 1 /\ n \in Nat
  <2>1. \A i \in 1 .. Len(queue) : i \in kept <=> i # 1
    BY <1>1, <1>4
  <2>2. kept \subseteq 1 .. Len(queue)
    BY <1>1
  <2>3. \A i : i \in 2 .. n + 1 <=> i \in 1 .. Len(queue) /\ i # 1
    BY <1>1
  <2> HIDE DEF kept
  <2>4. kept = 2 .. n + 1
    BY <2>1, <2>2, <2>3
  <2>5. QED
    BY <1>1, <2>4
<1>7. PacketsWithout(id) = Sublist(queue, kept) /\ kept \in SUBSET DOMAIN queue
  BY DEF PacketsWithout
<1>8. \A s \in Seq(QueuedPacket) : \A places \in SUBSET DOMAIN s :
        /\ Sublist(s, places) \in Seq(QueuedPacket) /\ Len(Sublist(s, places)) = Cardinality(places)
        /\ \A i \in 1 .. Cardinality(places) : Sublist(s, places)[i] = s[Place(places, i)]
  BY SublistFacts
<1> HIDE DEF n, kept
<1>9. Cardinality(kept) = n
  <2>1. IsFiniteSet(2 .. n + 1) /\ Cardinality(2 .. n + 1) = IF 2 > n + 1 THEN 0 ELSE (n + 1) - 2 + 1
    BY <1>6, FS_Interval, 2 \in Int, n + 1 \in Int
  <2>2. QED
    BY <1>6, <2>1
<1>10. \A i \in 1 .. n : Place(kept, i) = i + 1
  BY <1>6, PlaceBehindFirst
<1>11. /\ PacketsWithout(id) \in Seq(QueuedPacket) /\ Len(PacketsWithout(id)) = n
       /\ \A i \in 1 .. n : PacketsWithout(id)[i] = queue[i + 1]
  BY <1>1, <1>7, <1>8, <1>9, <1>10
<1>12. QED
  BY <1>1, <1>3, <1>5, <1>11 DEF n


(***************************************************************************)
(* The channel: the client's steps.                                        *)
(***************************************************************************)
(* Under NumbersSuffice every number that is given is new.                 *)
LEMMA RoomForNumbers ==
  ASSUME NumbersSuffice, TypeOK, NumbersOK, QueueShape(queue, currentPacket, queued, applied)
  PROVE  /\ queued + plains + resets < IdLimit
         /\ packetId \in Nat /\ queued \in Nat /\ plains \in Nat /\ resets \in Nat
         /\ Unanswered \in Nat /\ Unnumbered(queue, currentPacket) \in Nat
         /\ packetId + Unnumbered(queue, currentPacket) + Unanswered <= queued + plains + resets
         /\ queued <= MaxFrames /\ plains <= MaxPlain /\ resets <= MaxResets
         /\ MaxFrames + MaxPlain + MaxResets < IdLimit
<1>1. packetId \in Nat /\ queued \in Nat /\ plains \in Nat /\ resets \in Nat /\ Len(queue) \in Nat
  BY LinkAssumption DEF TypeOK
<1>2. Unanswered \in Nat
  <2>1. session # 0 => toClient[session] \in Seq(Packet)
    BY DEF TypeOK
  <2>2. QED
    BY <2>1, PlainsFinite DEF Unanswered
<1>3. queued <= MaxFrames /\ plains <= MaxPlain /\ resets <= MaxResets
  BY DEF NumbersOK
<1>4. MaxFrames \in Nat /\ MaxPlain \in Nat /\ MaxResets \in Nat /\ IdLimit \in Nat /\ MaxFrames + MaxPlain + MaxResets < IdLimit
  BY LinkAssumption DEF NumbersSuffice
<1>5. queued + plains + resets < IdLimit
  BY <1>1, <1>3, <1>4
<1>6. Unnumbered(queue, currentPacket) \in Nat
  <2>1. currentPacket # NoPacket => Len(queue) # 0
    BY <1>1 DEF QueueShape, TypeOK
  <2>2. QED
    BY <1>1, <2>1 DEF Unnumbered
<1>7. QED
  BY <1>1, <1>2, <1>3, <1>4, <1>5, <1>6 DEF NumbersOK

(* More frames queued, confirmed or received contradict no packet.         *)
LEMMA GoodMonotone ==
  ASSUME NEW id \in Nat, NEW n \in Nat, NEW m \in Nat, n <= m, NEW S, NEW T, S \subseteq T, NEW current
  PROVE  /\ GoodPackets(current, id, n, S) \subseteq GoodPackets(current, id, m, T)
         /\ GoodPackets(current, id, n, S) \subseteq GoodPackets(NoPacket, id, m, T)
         /\ GoodAnswers(current, id, S) \subseteq GoodAnswers(current, id, T)
         /\ GoodAnswers(current, id, S) \subseteq GoodAnswers(NoPacket, id, T)
<1>1. \A f \in 1 .. n : f \in 1 .. m
  OBVIOUS
<1>2. QED
  BY <1>1 DEF GoodPackets, GoodAnswers

LEMMA ChannelSendFrame == NumbersSuffice /\ NumberedInv /\ ChannelInv /\ SendFrame => ChannelInv'
<1>1. SUFFICES ASSUME NumbersSuffice, NumberedInv, ChannelInv, SendFrame
               PROVE  ChannelInv'
  OBVIOUS
<1>2. TypeOK /\ NumbersOK /\ TicketsOK /\ QueueShape(queue, currentPacket, queued, applied)
  BY <1>1 DEF NumberedInv, ChannelInv
<1>3. queued \in Nat /\ queue \in Seq(QueuedPacket) /\ Len(queue) \in Nat /\ currentPacket \in QueuedPacket /\ packetId \in Nat
  BY <1>2, LinkAssumption DEF TypeOK
<1> DEFINE packet == BuildPacket(queued + 1)
           packets == Append(queue, packet)
<1>4. packet \in QueuedPacket /\ packet.frame = queued + 1 /\ packet.id = PACKET_ID_EMPTY
  BY <1>3, NoPacketType DEF BuildPacket, QueuedPacket
<1>5. /\ queued < MaxFrames /\ queued' = queued + 1 /\ ProcessQueue(packets, currentPacket)
      /\ UNCHANGED <<session, toClient, received, applied, plains, resets>>
  BY <1>1 DEF SendFrame, Enqueue
<1> HIDE DEF packet
<1>6. /\ packets \in Seq(QueuedPacket) /\ Len(packets) = Len(queue) + 1 /\ DOMAIN packets = 1 .. Len(queue) + 1
      /\ DOMAIN queue = 1 .. Len(queue)
      /\ packets[Len(queue) + 1] = packet /\ \A i \in 1 .. Len(queue) : packets[i] = queue[i]
  BY <1>3, <1>4
<1>7. \A i \in 1 .. Len(queue) + 1 : i \in Nat /\ (i \in 1 .. Len(queue) \/ i = Len(queue) + 1)
  BY <1>3
<1> HIDE DEF packets
<1>8. QueueShape(packets, currentPacket, queued + 1, applied)
  <2>1. Len(packets) <= queued + 1 /\ (queued + 1) - Len(packets) = queued - Len(queue)
    BY <1>2, <1>3, <1>6 DEF QueueShape
  <2>2. applied = 1 .. (queued + 1) - Len(packets)
    BY <1>2, <2>1 DEF QueueShape
  <2>3. \A i \in DOMAIN packets : packets[i].frame = (queued + 1) - Len(packets) + i
    BY <1>2, <1>3, <1>4, <1>6, <1>7, <2>1 DEF QueueShape
  <2>4. \A i \in DOMAIN packets : i # 1 \/ currentPacket = NoPacket => packets[i].id = PACKET_ID_EMPTY
    BY <1>2, <1>4, <1>6, <1>7 DEF QueueShape
  <2>5. currentPacket # NoPacket => packets # <<>> /\ currentPacket = packets[1] /\ currentPacket.id # PACKET_ID_EMPTY
    <3>1. SUFFICES ASSUME currentPacket # NoPacket
                   PROVE  packets # <<>> /\ currentPacket = packets[1] /\ currentPacket.id # PACKET_ID_EMPTY
      OBVIOUS
    <3>2. queue # <<>> /\ currentPacket = queue[1] /\ currentPacket.id # PACKET_ID_EMPTY
      BY <1>2, <3>1 DEF QueueShape
    <3>3. 1 \in 1 .. Len(queue)
      BY <1>3, <3>2
    <3>4. QED
      BY <1>6, <3>2, <3>3
  <2>6. QED
    BY <2>1, <2>2, <2>3, <2>4, <2>5 DEF QueueShape
<1> DEFINE room == queued + 1 + plains + resets - Unanswered
<1>9. /\ room \in Nat /\ room < IdLimit /\ packetId + Unnumbered(packets, currentPacket) <= room
      /\ room + Unanswered = queued' + plains + resets
  <2>1. Unnumbered(packets, currentPacket) = Unnumbered(queue, currentPacket) + 1
    BY <1>3, <1>6 DEF Unnumbered
  <2>2. currentPacket # NoPacket => Len(queue) # 0
    BY <1>2, <1>3 DEF QueueShape
  <2>3. Unnumbered(queue, currentPacket) \in Nat
    BY <1>3, <2>2 DEF Unnumbered
  <2>4. queued + 1 <= MaxFrames /\ MaxFrames \in Nat /\ MaxPlain \in Nat /\ MaxResets \in Nat /\ IdLimit \in Nat
    BY <1>3, <1>5, LinkAssumption
  <2>5. \A un, ans, pid, q, pl, re, a, b, c, lim \in Nat :
          /\ q + 1 <= a /\ pl <= b /\ re <= c /\ a + b + c < lim /\ pid + un + ans <= q + pl + re
          => LET r == q + 1 + pl + re - ans
             IN r \in Nat /\ r < lim /\ pid + (un + 1) <= r /\ r + ans = q + 1 + pl + re
    OBVIOUS
  <2>6. /\ packetId + Unnumbered(queue, currentPacket) + Unanswered <= queued + plains + resets
        /\ plains \in Nat /\ resets \in Nat /\ Unanswered \in Nat
        /\ plains <= MaxPlain /\ resets <= MaxResets /\ MaxFrames + MaxPlain + MaxResets < IdLimit
    BY <1>1, <1>2, RoomForNumbers
  <2>7. QED
    BY <1>3, <1>5, <2>1, <2>3, <2>4, <2>5, <2>6
<1>10. /\ currentPacket # NoPacket => currentPacket.id \in 1 .. packetId
       /\ toServer \in [Sessions -> Seq(GoodPackets(currentPacket, packetId, queued + 1, applied))]
       /\ toClient \in [Sessions -> Seq(GoodAnswers(currentPacket, packetId, received))]
  <2>1. GoodPackets(currentPacket, packetId, queued, applied) \subseteq GoodPackets(currentPacket, packetId, queued + 1, applied)
    BY <1>3, GoodMonotone
  <2>2. toServer \in [Sessions -> Seq(GoodPackets(currentPacket, packetId, queued, applied))]
    BY <1>2 DEF TicketsOK
  <2>3. toServer \in [Sessions -> Seq(GoodPackets(currentPacket, packetId, queued + 1, applied))]
    BY <2>1, <2>2, SeqMonotone
  <2>4. QED
    BY <1>2, <2>3 DEF TicketsOK
<1> HIDE DEF room
<1>11. queued + 1 \in Nat
  BY <1>3
<1>12. /\ QueueShape(queue', currentPacket', queued + 1, applied)
       /\ packetId' + Unnumbered(queue', currentPacket') <= room
       /\ currentPacket' # NoPacket => currentPacket'.id \in 1 .. packetId'
       /\ toServer' \in [Sessions -> Seq(GoodPackets(currentPacket', packetId', queued + 1, applied))]
       /\ toClient \in [Sessions -> Seq(GoodAnswers(currentPacket', packetId', received))]
  BY <1>2, <1>3, <1>5, <1>6, <1>8, <1>9, <1>10, <1>11, ProcessQueueKeeps
<1>13. TicketsOK' /\ QueueShape(queue', currentPacket', queued', applied')
  BY <1>5, <1>12 DEF TicketsOK
<1>14. NumbersOK'
  <2>1. TypeOK'
    BY <1>1, NumberedSendFrame DEF NumberedInv
  <2>2. packetId' \in Nat /\ Unnumbered(queue', currentPacket') \in Int
    <3>1. packetId' \in Nat /\ queue' \in Seq(QueuedPacket)
      BY <2>1, LinkAssumption DEF TypeOK
    <3>2. Len(queue') \in Nat
      BY <3>1
    <3>3. QED
      BY <3>1, <3>2 DEF Unnumbered
  <2>3. Unanswered' = Unanswered /\ Unanswered \in Nat
    BY <1>1, <1>2, <1>5, RoomForNumbers DEF Unanswered
  <2>4. packetId' + Unnumbered(queue', currentPacket') + Unanswered <= queued' + plains + resets
    BY <1>9, <1>12, <2>2, <2>3
  <2>5. queued' <= MaxFrames /\ plains <= MaxPlain /\ resets <= MaxResets
    BY <1>2, <1>3, <1>5, LinkAssumption DEF NumbersOK
  <2>6. QED
    BY <1>5, <2>3, <2>4, <2>5 DEF NumbersOK
<1>15. QED
  BY <1>13, <1>14 DEF ChannelInv

LEMMA SentKeeps ==
  ASSUME session \in 0 .. MaxSessions, NEW S, NEW p \in S, Sent(p), toServer \in [Sessions -> Seq(S)]
  PROVE  toServer' \in [Sessions -> Seq(S)]
<1>1. CASE session # 0 /\ link[session] = "up"
  <2>1. session \in Sessions /\ toServer' = [toServer EXCEPT ![session] = Append(toServer[session], p)]
    BY <1>1 DEF Sent
  <2>2. Append(toServer[session], p) \in Seq(S)
    BY <2>1
  <2>3. QED
    BY <2>1, <2>2
<1>2. CASE ~(session # 0 /\ link[session] = "up")
  BY <1>2 DEF Sent
<1>3. QED
  BY <1>1, <1>2

(* A number that the client gives to a packet of no frame.                 *)
LEMMA OtherNumber ==
  ASSUME TypeOK, TicketsOK, packetId + 1 < IdLimit, packetId' = GenerateNextPacketId(packetId),
         NEW p \in Packet, p.id = packetId', p.type # "PacketNeedsTicket", ClientSend(p),
         NEW answers \in [Sessions -> Seq(GoodAnswers(currentPacket, packetId, received))]
  PROVE  /\ packetId' = packetId + 1
         /\ currentPacket # NoPacket => currentPacket.id \in 1 .. packetId'
         /\ toServer' \in [Sessions -> Seq(GoodPackets(currentPacket, packetId', queued, applied))]
         /\ answers \in [Sessions -> Seq(GoodAnswers(currentPacket, packetId', received))]
<1>1. packetId \in 0 .. IdLimit - 1 /\ packetId \in Nat /\ session \in 0 .. MaxSessions
  BY LinkAssumption DEF TypeOK
<1>2. packetId' = packetId + 1
  BY <1>1, FreshNumber
<1>3. currentPacket # NoPacket => currentPacket.id \in 1 .. packetId
  BY DEF TicketsOK
<1>4. /\ GoodPackets(currentPacket, packetId, queued, applied) \subseteq GoodPackets(currentPacket, packetId', queued, applied)
      /\ GoodAnswers(currentPacket, packetId, received) \subseteq GoodAnswers(currentPacket, packetId', received)
  BY <1>1, <1>2 DEF GoodPackets, GoodAnswers
<1>5. p \in GoodPackets(currentPacket, packetId', queued, applied)
  BY <1>1, <1>2, <1>3 DEF GoodPackets
<1>6. toServer \in [Sessions -> Seq(GoodPackets(currentPacket, packetId', queued, applied))]
  <2>1. toServer \in [Sessions -> Seq(GoodPackets(currentPacket, packetId, queued, applied))]
    BY DEF TicketsOK
  <2>2. QED
    BY <1>4, <2>1, SeqMonotone
<1>7. answers \in [Sessions -> Seq(GoodAnswers(currentPacket, packetId', received))]
  BY <1>4, SeqMonotone
<1>8. Sent(p)
  BY ClientSendIsSent
<1>9. toServer' \in [Sessions -> Seq(GoodPackets(currentPacket, packetId', queued, applied))]
  BY <1>1, <1>5, <1>6, <1>8, SentKeeps
<1>10. QED
  BY <1>1, <1>2, <1>3, <1>7, <1>9

LEMMA ChannelClientSendPlain == NumbersSuffice /\ NumberedInv /\ ChannelInv /\ ClientSendPlain => ChannelInv'
<1>1. SUFFICES ASSUME NumbersSuffice, NumberedInv, ChannelInv, ClientSendPlain
               PROVE  ChannelInv'
  OBVIOUS
<1>2. TypeOK /\ NumbersOK /\ TicketsOK /\ QueueShape(queue, currentPacket, queued, applied)
  BY <1>1 DEF NumberedInv, ChannelInv
<1>3. /\ plains < MaxPlain /\ plains' = plains + 1
      /\ packetId' = GenerateNextPacketId(packetId) /\ ClientSend(PlainPacket(packetId'))
      /\ UNCHANGED <<queue, currentPacket, session, toClient, queued, received, applied, resets>>
  BY <1>1 DEF ClientSendPlain
<1>4. /\ packetId \in Nat /\ queued \in Nat /\ plains \in Nat /\ resets \in Nat
      /\ Unanswered \in Nat /\ Unnumbered(queue, currentPacket) \in Nat
      /\ packetId + Unnumbered(queue, currentPacket) + Unanswered <= queued + plains + resets
      /\ queued <= MaxFrames /\ plains <= MaxPlain /\ resets <= MaxResets
      /\ MaxFrames + MaxPlain + MaxResets < IdLimit
      /\ MaxFrames \in Nat /\ MaxPlain \in Nat /\ MaxResets \in Nat /\ IdLimit \in Nat
  BY <1>1, <1>2, RoomForNumbers, LinkAssumption
<1>5. packetId + 1 < IdLimit
  <2>1. packetId + 1 <= MaxFrames + MaxPlain + MaxResets
    BY <1>3, <1>4
  <2>2. QED
    BY <1>4, <2>1
<1>6. packetId' \in 0 .. IdLimit - 1
  BY <1>2, <1>3, NextNumber DEF TypeOK
<1>7. PICK p : p = PlainPacket(packetId')
  OBVIOUS
<1>8. p \in Packet /\ p.id = packetId' /\ p.type = "PacketWithoutTicket"
  <2>1. \A id \in 0 .. IdLimit - 1 : /\ PlainPacket(id) \in Packet /\ PlainPacket(id).id = id
                                     /\ PlainPacket(id).type = "PacketWithoutTicket"
    BY PlainIsPacket, 0 \in Nat
  <2>2. QED
    BY <1>6, <1>7, <2>1
<1>9. toClient \in [Sessions -> Seq(GoodAnswers(currentPacket, packetId, received))]
  BY <1>2 DEF TicketsOK
<1>10. /\ packetId' = packetId + 1
       /\ currentPacket # NoPacket => currentPacket.id \in 1 .. packetId'
       /\ toServer' \in [Sessions -> Seq(GoodPackets(currentPacket, packetId', queued, applied))]
       /\ toClient \in [Sessions -> Seq(GoodAnswers(currentPacket, packetId', received))]
  <2>1. p.type # "PacketNeedsTicket" /\ ClientSend(p)
    BY <1>3, <1>7, <1>8
  <2>2. QED
    BY <1>2, <1>3, <1>5, <1>8, <1>9, <2>1, OtherNumber
<1>11. TicketsOK' /\ QueueShape(queue', currentPacket', queued', applied')
  BY <1>2, <1>3, <1>10 DEF TicketsOK
<1>12. NumbersOK'
  <2>1. Unanswered' = Unanswered /\ Unnumbered(queue', currentPacket') = Unnumbered(queue, currentPacket)
    BY <1>3 DEF Unanswered
  <2>2. packetId' + Unnumbered(queue', currentPacket') + Unanswered' <= queued' + plains' + resets'
    BY <1>3, <1>4, <1>10, <2>1
  <2>3. QED
    BY <1>3, <1>4, <2>2 DEF NumbersOK
<1>13. QED
  BY <1>11, <1>12 DEF ChannelInv

LEMMA ChannelCallProcessQueue == NumbersSuffice /\ NumberedInv /\ ChannelInv /\ CallProcessQueue => ChannelInv'
<1>1. SUFFICES ASSUME NumbersSuffice, NumberedInv, ChannelInv, CallProcessQueue
               PROVE  ChannelInv'
  OBVIOUS
<1>2. TypeOK /\ NumbersOK /\ TicketsOK /\ QueueShape(queue, currentPacket, queued, applied)
  BY <1>1 DEF NumberedInv, ChannelInv
<1>3. ProcessQueue(queue, currentPacket) /\ UNCHANGED <<session, toClient, queued, received, applied, bounds>>
  BY <1>1 DEF CallProcessQueue
<1>4. /\ packetId \in Nat /\ queued \in Nat /\ plains \in Nat /\ resets \in Nat
      /\ Unanswered \in Nat /\ Unnumbered(queue, currentPacket) \in Nat
      /\ packetId + Unnumbered(queue, currentPacket) + Unanswered <= queued + plains + resets
      /\ queued + plains + resets < IdLimit /\ IdLimit \in Nat
      /\ queued <= MaxFrames /\ plains <= MaxPlain /\ resets <= MaxResets
  BY <1>1, <1>2, RoomForNumbers, LinkAssumption
<1>5. PICK room \in Nat : room + Unanswered = queued + plains + resets
  <2>1. \A n, k \in Nat : k <= n => n - k \in Nat /\ (n - k) + k = n
    OBVIOUS
  <2>2. Unanswered <= queued + plains + resets /\ queued + plains + resets \in Nat
    BY <1>4
  <2>3. QED
    BY <1>4, <2>1, <2>2
<1>6. packetId + Unnumbered(queue, currentPacket) <= room /\ room < IdLimit
  BY <1>4, <1>5
<1>7. /\ currentPacket # NoPacket => currentPacket.id \in 1 .. packetId
      /\ toServer \in [Sessions -> Seq(GoodPackets(currentPacket, packetId, queued, applied))]
      /\ toClient \in [Sessions -> Seq(GoodAnswers(currentPacket, packetId, received))]
      /\ queue \in Seq(QueuedPacket) /\ currentPacket \in QueuedPacket
  BY <1>2 DEF TicketsOK, TypeOK
<1>8. /\ QueueShape(queue', currentPacket', queued, applied)
      /\ packetId' + Unnumbered(queue', currentPacket') <= room
      /\ currentPacket' # NoPacket => currentPacket'.id \in 1 .. packetId'
      /\ toServer' \in [Sessions -> Seq(GoodPackets(currentPacket', packetId', queued, applied))]
      /\ toClient \in [Sessions -> Seq(GoodAnswers(currentPacket', packetId', received))]
  BY <1>2, <1>3, <1>4, <1>6, <1>7, ProcessQueueKeeps
<1>9. TicketsOK' /\ QueueShape(queue', currentPacket', queued', applied')
  BY <1>3, <1>8 DEF TicketsOK
<1>10. NumbersOK'
  <2>1. packetId' \in Nat /\ Len(queue') \in Nat
    <3>1. TypeOK'
      BY <1>1, NumberedCallProcessQueue DEF NumberedInv
    <3>2. QED
      BY <3>1, LinkAssumption DEF TypeOK
  <2>2. Unnumbered(queue', currentPacket') \in Int
    BY <2>1 DEF Unnumbered
  <2>3. Unanswered' = Unanswered
    BY <1>3 DEF Unanswered
  <2>4. packetId' + Unnumbered(queue', currentPacket') + Unanswered <= queued + plains + resets
    BY <1>4, <1>5, <1>8, <2>1, <2>2
  <2>5. QED
    BY <1>3, <1>4, <2>3, <2>4 DEF NumbersOK
<1>11. QED
  BY <1>9, <1>10 DEF ChannelInv

LEMMA ChannelResetQueue == NumbersSuffice /\ NumberedInv /\ ChannelInv /\ ResetQueue => ChannelInv'
<1>1. SUFFICES ASSUME NumbersSuffice, NumberedInv, ChannelInv, ResetQueue
               PROVE  ChannelInv'
  OBVIOUS
<1>2. TypeOK /\ NumbersOK /\ TicketsOK /\ QueueShape(queue, currentPacket, queued, applied)
  BY <1>1 DEF NumberedInv, ChannelInv
<1>3. /\ resets < MaxResets /\ resets' = resets + 1 /\ currentPacket' = NoPacket /\ queue' = Reset(queue)
      /\ UNCHANGED <<packetId, session, wireVars, historyVars, plains>>
  BY <1>1 DEF ResetQueue
<1>4. /\ packetId \in Nat /\ queued \in Nat /\ plains \in Nat /\ resets \in Nat
      /\ Unanswered \in Nat /\ Unnumbered(queue, currentPacket) \in Nat
      /\ packetId + Unnumbered(queue, currentPacket) + Unanswered <= queued + plains + resets
      /\ queued <= MaxFrames /\ plains <= MaxPlain /\ resets <= MaxResets
      /\ MaxResets \in Nat
  BY <1>1, <1>2, RoomForNumbers, LinkAssumption
<1>5. queue \in Seq(QueuedPacket) /\ Len(queue) \in Nat
  BY <1>2 DEF TypeOK
<1>6. /\ Len(queue') = Len(queue) /\ DOMAIN queue' = DOMAIN queue
      /\ \A i \in DOMAIN queue : queue'[i].frame = queue[i].frame /\ queue'[i].id = PACKET_ID_EMPTY
  BY <1>3, <1>5, ResetFacts
<1>7. QueueShape(queue', currentPacket', queued', applied')
  BY <1>2, <1>3, <1>6 DEF QueueShape
<1>8. NumbersOK'
  <2>1. Unanswered' = Unanswered
    BY <1>3 DEF Unanswered
  <2>2. Unnumbered(queue', currentPacket') = Len(queue)
    BY <1>3, <1>6 DEF Unnumbered
  <2>3. Len(queue) <= Unnumbered(queue, currentPacket) + 1
    BY <1>5 DEF Unnumbered
  <2>4. packetId + Len(queue) + Unanswered <= queued + plains + (resets + 1)
    BY <1>4, <1>5, <2>3
  <2>5. resets + 1 <= MaxResets
    BY <1>3, <1>4
  <2>6. QED
    BY <1>3, <1>4, <2>1, <2>2, <2>4, <2>5 DEF NumbersOK
<1>9. TicketsOK'
  <2>1. /\ GoodPackets(currentPacket, packetId, queued, applied) \subseteq GoodPackets(NoPacket, packetId, queued, applied)
        /\ GoodAnswers(currentPacket, packetId, received) \subseteq GoodAnswers(NoPacket, packetId, received)
    BY DEF GoodPackets, GoodAnswers
  <2>2. /\ toServer \in [Sessions -> Seq(GoodPackets(currentPacket, packetId, queued, applied))]
        /\ toClient \in [Sessions -> Seq(GoodAnswers(currentPacket, packetId, received))]
    BY <1>2 DEF TicketsOK
  <2>3. /\ toServer \in [Sessions -> Seq(GoodPackets(NoPacket, packetId, queued, applied))]
        /\ toClient \in [Sessions -> Seq(GoodAnswers(NoPacket, packetId, received))]
    BY <2>1, <2>2, SeqMonotone
  <2>4. QED
    BY <1>3, <2>3 DEF TicketsOK
<1>10. QED
  BY <1>7, <1>8, <1>9 DEF ChannelInv

(* A step that leaves the client's queue and numbers alone.                *)
LEMMA WireStep ==
  ASSUME NumbersSuffice, NumberedInv, ChannelInv,
         UNCHANGED <<queue, currentPacket, packetId, queued, applied, resets>>,
         plains' \in Nat, plains' <= MaxPlain,
         NEW asked \in Nat, Unanswered' = asked, asked + plains <= Unanswered + plains',
         toServer' \in [Sessions -> Seq(GoodPackets(currentPacket, packetId, queued, applied))],
         toClient' \in [Sessions -> Seq(GoodAnswers(currentPacket, packetId, received'))]
  PROVE  ChannelInv'
<1>1. TypeOK /\ NumbersOK /\ TicketsOK /\ QueueShape(queue, currentPacket, queued, applied)
  BY DEF NumberedInv, ChannelInv
<1>2. TicketsOK' /\ QueueShape(queue', currentPacket', queued', applied')
  BY <1>1 DEF TicketsOK
<1>3. NumbersOK'
  <2>1. Unnumbered(queue', currentPacket') = Unnumbered(queue, currentPacket)
    OBVIOUS
  <2>2. /\ packetId \in Nat /\ queued \in Nat /\ plains \in Nat /\ resets \in Nat
        /\ Unanswered \in Nat /\ Unnumbered(queue, currentPacket) \in Nat
        /\ packetId + Unnumbered(queue, currentPacket) + Unanswered <= queued + plains + resets
        /\ queued <= MaxFrames /\ resets <= MaxResets
    BY <1>1, RoomForNumbers
  <2>3. packetId + Unnumbered(queue, currentPacket) + asked <= queued + plains' + resets
    <3>1. \A id, u, a, b, n, r, p, q \in Nat :
            id + u + a <= n + p + r /\ b + p <= a + q => id + u + b <= n + q + r
      OBVIOUS
    <3>2. PICK q \in Nat : q = plains'
      OBVIOUS
    <3>3. asked + plains <= Unanswered + q
      BY <3>2
    <3>4. packetId + Unnumbered(queue, currentPacket) + asked <= queued + q + resets
      BY <2>2, <3>1, <3>3
    <3>5. QED
      BY <3>2, <3>4
  <2>4. QED
    BY <2>1, <2>2, <2>3 DEF NumbersOK
<1>4. QED
  BY <1>2, <1>3 DEF ChannelInv

(* The frames that a ticket takes from the queue.                          *)
Taken(id) == {p.frame : p \in {q \in ToSet(queue) : q.id = id}}

(* A ticket that takes frames from the queue takes the current packet's,   *)
(* which the server has.                                                   *)
LEMMA TicketFits ==
  ASSUME TypeOK, ChannelInv, session \in Sessions, toClient[session] # <<>>,
         NEW packet, packet = Head(toClient[session]), packet.type = "Ticket",
         Taken(packet.ticket) # {}
  PROVE  /\ currentPacket # NoPacket /\ Len(queue) \in Nat \ {0} /\ Taken(packet.ticket) = {currentPacket.frame}
         /\ currentPacket.frame = queued - Len(queue) + 1 /\ currentPacket.frame \in 1 .. queued
         /\ currentPacket.frame \in received
         /\ PacketsWithout(packet.ticket) \in Seq(QueuedPacket) /\ Len(PacketsWithout(packet.ticket)) = Len(queue) - 1
         /\ \A i \in 1 .. Len(queue) - 1 : PacketsWithout(packet.ticket)[i] = queue[i + 1]
<1>1. TicketsOK /\ QueueShape(queue, currentPacket, queued, applied)
  BY DEF ChannelInv
<1>2. packet \in GoodAnswers(currentPacket, packetId, received)
  <2>1. toClient[session] \in Seq(GoodAnswers(currentPacket, packetId, received))
    BY <1>1 DEF TicketsOK
  <2>2. \A S : \A s \in Seq(S) : s # <<>> => Head(s) \in S
    OBVIOUS
  <2>3. QED
    BY <2>1, <2>2
<1>3. /\ packet.ticket \in Nat \ {0}
      /\ currentPacket # NoPacket /\ packet.ticket = currentPacket.id => currentPacket.frame \in received
  <2>1. packet.ticket \in 1 .. packetId
    BY <1>2 DEF GoodAnswers
  <2>2. packetId \in Nat
    BY LinkAssumption DEF TypeOK
  <2>3. QED
    BY <1>2, <2>1, <2>2 DEF GoodAnswers
<1>4. PICK k \in DOMAIN queue : queue[k].id = packet.ticket
  <2>1. \E q \in ToSet(queue) : q.id = packet.ticket
    BY DEF Taken
  <2>2. QED
    BY <2>1 DEF ToSet
<1>5. /\ currentPacket # NoPacket /\ currentPacket = queue[1] /\ currentPacket.id = packet.ticket /\ Len(queue) \in Nat \ {0}
      /\ Taken(packet.ticket) = {currentPacket.frame}
      /\ PacketsWithout(packet.ticket) \in Seq(QueuedPacket) /\ Len(PacketsWithout(packet.ticket)) = Len(queue) - 1
      /\ \A i \in 1 .. Len(queue) - 1 : PacketsWithout(packet.ticket)[i] = queue[i + 1]
  BY <1>1, <1>3, <1>4, RestOfQueue DEF Taken
<1>6. currentPacket.frame = queued - Len(queue) + 1 /\ currentPacket.frame \in 1 .. queued
  <2>1. 1 \in DOMAIN queue /\ queued \in Nat
    BY <1>5 DEF TypeOK
  <2>2. Len(queue) <= queued /\ queue[1].frame = queued - Len(queue) + 1
    BY <1>1, <2>1 DEF QueueShape
  <2>3. \A n, len \in Nat : len # 0 /\ len <= n => n - len + 1 \in 1 .. n
    OBVIOUS
  <2>4. QED
    BY <1>5, <2>1, <2>2, <2>3
<1>7. QED
  BY <1>3, <1>5, <1>6

LEMMA ChannelTicket ==
  ASSUME NumbersSuffice, NumberedInv, ChannelInv, ClientReceive, NEW packet, packet = Head(toClient[session]),
         packet.type = "Ticket", ApplyTicket(packet.ticket)
  PROVE  ChannelInv'
<1>1. TypeOK /\ NumbersOK /\ TicketsOK /\ QueueShape(queue, currentPacket, queued, applied)
  BY DEF NumberedInv, ChannelInv
<1>2. /\ session \in Sessions /\ toClient[session] # <<>>
      /\ toClient' = [toClient EXCEPT ![session] = Tail(toClient[session])]
      /\ UNCHANGED <<session, queued, received, plains, resets>>
  BY <1>1 DEF ClientReceive, TypeOK
<1>3. toClient' \in [Sessions -> Seq(GoodAnswers(currentPacket, packetId, received))]
  <2>1. toClient \in [Sessions -> Seq(GoodAnswers(currentPacket, packetId, received))]
    BY <1>1 DEF TicketsOK
  <2>2. \A S : \A s \in Seq(S) : s # <<>> => Tail(s) \in Seq(S)
    OBVIOUS
  <2>3. Tail(toClient[session]) \in Seq(GoodAnswers(currentPacket, packetId, received))
    BY <1>2, <2>1, <2>2
  <2>4. QED
    BY <1>2, <2>1, <2>3
<1>4. Unanswered' \in Nat /\ Unanswered' <= Unanswered
  <2>1. toClient[session] \in Seq(Packet) /\ session # 0
    BY <1>1, <1>2 DEF TypeOK
  <2>2. toClient'[session] = Tail(toClient[session]) /\ Tail(toClient[session]) \in Seq(Packet)
    <3>1. \A s \in Seq(Packet) : s # <<>> => Tail(s) \in Seq(Packet)
      OBVIOUS
    <3>2. QED
      BY <1>1, <1>2, <2>1, <3>1 DEF TypeOK
  <2>3. Cardinality(Plains(toClient'[session])) <= Cardinality(Plains(toClient[session]))
    <3>1. toClient[session][1].type = "Ticket"
      BY <1>2, <2>1
    <3>2. \A s \in Seq(Packet) : s # <<>> =>
            Cardinality(Plains(Tail(s))) + (IF s[1].type = "PacketWithoutTicket" THEN 1 ELSE 0) <= Cardinality(Plains(s))
      BY PlainsTail
    <3>3. Cardinality(Plains(Tail(toClient[session]))) + 0 <= Cardinality(Plains(toClient[session]))
      BY <1>2, <2>1, <3>1, <3>2
    <3>4. Cardinality(Plains(Tail(toClient[session]))) \in Nat
      BY <2>2, PlainsFinite
    <3>5. QED
      BY <2>2, <3>3, <3>4
  <2>4. Cardinality(Plains(toClient'[session])) \in Nat
    BY <2>2, PlainsFinite
  <2>5. QED
    BY <1>2, <2>1, <2>3, <2>4 DEF Unanswered
<1>5. /\ packetId \in Nat /\ queued \in Nat /\ plains \in Nat /\ resets \in Nat
      /\ Unanswered \in Nat /\ Unnumbered(queue, currentPacket) \in Nat
      /\ packetId + Unnumbered(queue, currentPacket) + Unanswered <= queued + plains + resets
      /\ queued + plains + resets < IdLimit /\ IdLimit \in Nat
      /\ queued <= MaxFrames /\ plains <= MaxPlain /\ resets <= MaxResets
  BY <1>1, RoomForNumbers, LinkAssumption
<1>6. CASE Taken(packet.ticket) = {}
  <2>1. UNCHANGED <<queue, currentPacket, packetId, toServer, applied>>
    BY <1>6 DEF ApplyTicket, Taken
  <2>2. toServer' \in [Sessions -> Seq(GoodPackets(currentPacket, packetId, queued, applied))]
    BY <1>1, <2>1 DEF TicketsOK
  <2>3. toClient' \in [Sessions -> Seq(GoodAnswers(currentPacket, packetId, received'))]
    BY <1>2, <1>3
  <2>4. PICK asked \in Nat : asked = Unanswered'
    BY <1>4
  <2>5. plains' \in Nat /\ plains' <= MaxPlain /\ asked + plains <= Unanswered + plains'
    <3>1. asked <= Unanswered
      BY <1>4, <2>4
    <3>2. plains' = plains
      BY <1>2
    <3>3. QED
      BY <1>5, <3>1, <3>2
  <2>6. QED
    BY <1>2, <2>1, <2>2, <2>3, <2>4, <2>5, WireStep
<1>7. CASE Taken(packet.ticket) # {}
  <2> DEFINE rest == PacketsWithout(packet.ticket)
  <2>1. ProcessQueue(rest, NoPacket) /\ applied' = applied \cup Taken(packet.ticket)
    BY <1>7 DEF ApplyTicket, Taken
  <2>2. /\ currentPacket # NoPacket /\ Len(queue) \in Nat \ {0} /\ Taken(packet.ticket) = {currentPacket.frame}
        /\ currentPacket.frame = queued - Len(queue) + 1
        /\ rest \in Seq(QueuedPacket) /\ Len(rest) = Len(queue) - 1
        /\ \A i \in 1 .. Len(queue) - 1 : rest[i] = queue[i + 1]
    BY <1>1, <1>2, <1>7, TicketFits
  <2> HIDE DEF rest
  <2>3. queued - Len(rest) = queued - Len(queue) + 1 /\ Len(rest) \in Nat /\ DOMAIN rest = 1 .. Len(queue) - 1
        /\ DOMAIN queue = 1 .. Len(queue) /\ Len(queue) <= queued
    BY <1>1, <1>5, <2>2 DEF TypeOK, QueueShape
  <2>4. applied' = 1 .. queued - Len(rest) /\ applied \subseteq applied'
    <3>1. \A m \in Nat : (1 .. m) \cup {m + 1} = 1 .. m + 1
      OBVIOUS
    <3>2. applied = 1 .. queued - Len(queue) /\ queued - Len(queue) \in Nat
      BY <1>1, <1>5, <2>2, <2>3 DEF QueueShape
    <3>3. QED
      BY <2>1, <2>2, <2>3, <3>1, <3>2
  <2>5. \A i \in DOMAIN rest : i + 1 \in DOMAIN queue /\ i + 1 # 1 /\ i \in Nat /\ rest[i] = queue[i + 1]
    BY <2>2, <2>3
  <2>6. QueueShape(rest, NoPacket, queued, applied')
    <3>1. \A i \in DOMAIN rest : rest[i].frame = queued - Len(rest) + i
      <4>1. SUFFICES ASSUME NEW i \in DOMAIN rest
                     PROVE  rest[i].frame = queued - Len(rest) + i
        OBVIOUS
      <4>2. rest[i].frame = queued - Len(queue) + (i + 1)
        BY <1>1, <2>5 DEF QueueShape
      <4>3. i \in Nat
        BY <2>5
      <4>4. QED
        BY <1>5, <2>2, <2>3, <4>2, <4>3
    <3>2. \A i \in DOMAIN rest : rest[i].id = PACKET_ID_EMPTY
      BY <1>1, <2>5 DEF QueueShape
    <3>3. Len(rest) <= queued
      BY <1>5, <2>2, <2>3
    <3>4. QED
      BY <2>4, <3>1, <3>2, <3>3 DEF QueueShape
  <2>7. PICK room \in Nat : room + Unanswered = queued + plains + resets
    <3>1. \A n, k \in Nat : k <= n => n - k \in Nat /\ (n - k) + k = n
      OBVIOUS
    <3>2. Unanswered <= queued + plains + resets /\ queued + plains + resets \in Nat
      BY <1>5
    <3>3. QED
      BY <1>5, <3>1, <3>2
  <2>8. packetId + Unnumbered(rest, NoPacket) <= room /\ room < IdLimit
    <3>1. Unnumbered(rest, NoPacket) = Unnumbered(queue, currentPacket)
      BY <2>2 DEF Unnumbered
    <3>2. QED
      BY <1>5, <2>7, <3>1
  <2>9. /\ toServer \in [Sessions -> Seq(GoodPackets(NoPacket, packetId, queued, applied'))]
        /\ toClient' \in [Sessions -> Seq(GoodAnswers(NoPacket, packetId, received))]
    <3>1. /\ GoodPackets(currentPacket, packetId, queued, applied) \subseteq GoodPackets(NoPacket, packetId, queued, applied')
          /\ GoodAnswers(currentPacket, packetId, received) \subseteq GoodAnswers(NoPacket, packetId, received)
      BY <2>4 DEF GoodPackets, GoodAnswers
    <3>2. toServer \in [Sessions -> Seq(GoodPackets(currentPacket, packetId, queued, applied))]
      BY <1>1 DEF TicketsOK
    <3>3. QED
      BY <1>3, <3>1, <3>2, SeqMonotone
  <2>10. PICK confirmed : confirmed = applied'
    OBVIOUS
  <2>11. PICK answers : answers = toClient'
    OBVIOUS
  <2>12. /\ QueueShape(queue', currentPacket', queued, confirmed)
         /\ packetId' + Unnumbered(queue', currentPacket') <= room
         /\ currentPacket' # NoPacket => currentPacket'.id \in 1 .. packetId'
         /\ toServer' \in [Sessions -> Seq(GoodPackets(currentPacket', packetId', queued, confirmed))]
         /\ answers \in [Sessions -> Seq(GoodAnswers(currentPacket', packetId', received))]
    BY <1>1, <1>5, <2>1, <2>2, <2>6, <2>8, <2>9, <2>10, <2>11, NoPacketType, ProcessQueueKeeps
  <2>13. TicketsOK' /\ QueueShape(queue', currentPacket', queued', applied')
    BY <1>2, <2>10, <2>11, <2>12 DEF TicketsOK
  <2>14. NumbersOK'
    <3>1. packetId' \in Nat /\ Len(queue') \in Nat
      <4>1. TypeOK'
        BY NumberedClientReceive DEF NumberedInv
      <4>2. QED
        BY <4>1, LinkAssumption DEF TypeOK
    <3>2. Unnumbered(queue', currentPacket') \in Int
      BY <3>1 DEF Unnumbered
    <3>3. packetId' + Unnumbered(queue', currentPacket') + Unanswered' <= queued + plains + resets
      <4>1. PICK all \in Nat : all = queued + plains + resets
        BY <1>5
      <4>2. PICK before \in Nat : before = Unanswered
        BY <1>5
      <4>3. PICK asked \in Nat : asked = Unanswered'
        BY <1>4
      <4>4. PICK used \in Int : used = packetId' + Unnumbered(queue', currentPacket')
        BY <3>1, <3>2
      <4>5. asked <= before
        BY <1>4, <4>2, <4>3
      <4>6. room + before = all
        BY <2>7, <4>1, <4>2
      <4>7. used <= room
        BY <2>12, <4>4
      <4>8. used + asked <= all
        BY <4>5, <4>6, <4>7
      <4>9. QED
        BY <4>1, <4>3, <4>4, <4>8
    <3>4. QED
      BY <1>2, <1>5, <3>3 DEF NumbersOK
  <2>15. QED
    BY <2>13, <2>14 DEF ChannelInv
<1>8. QED
  BY <1>6, <1>7

(* A packet without ticket is answered with a ticket of the client's own,  *)
(* whose number is the one its sender has paid for.                        *)
LEMMA ChannelAnswer ==
  ASSUME NumbersSuffice, NumberedInv, ChannelInv, ClientReceive, NEW packet, packet = Head(toClient[session]),
         packet.type = "PacketWithoutTicket", packetId' = GenerateNextPacketId(packetId),
         ClientSend(TicketPacket(packetId', packet.id)), UNCHANGED <<queue, currentPacket, applied>>
  PROVE  ChannelInv'
<1>1. TypeOK /\ NumbersOK /\ TicketsOK /\ QueueShape(queue, currentPacket, queued, applied)
  BY DEF NumberedInv, ChannelInv
<1>2. /\ session \in Sessions /\ session # 0 /\ toClient[session] # <<>> /\ toClient[session] \in Seq(Packet)
      /\ toClient' = [toClient EXCEPT ![session] = Tail(toClient[session])]
      /\ UNCHANGED <<session, queued, received, plains, resets>>
  <2>1. /\ session # 0 /\ toClient[session] # <<>>
        /\ toClient' = [toClient EXCEPT ![session] = Tail(toClient[session])]
        /\ UNCHANGED <<session, queued, received, plains, resets>>
    BY DEF ClientReceive
  <2>2. session \in Sessions
    BY <1>1, <2>1 DEF TypeOK
  <2>3. QED
    BY <1>1, <2>1, <2>2 DEF TypeOK
<1>3. toClient' \in [Sessions -> Seq(GoodAnswers(currentPacket, packetId, received))]
  <2>1. toClient \in [Sessions -> Seq(GoodAnswers(currentPacket, packetId, received))]
    BY <1>1 DEF TicketsOK
  <2>2. \A S : \A s \in Seq(S) : s # <<>> => Tail(s) \in Seq(S)
    OBVIOUS
  <2>3. Tail(toClient[session]) \in Seq(GoodAnswers(currentPacket, packetId, received))
    BY <1>2, <2>1, <2>2
  <2>4. QED
    BY <1>2, <2>1, <2>3
<1>4. packet \in Packet /\ packet = toClient[session][1] /\ packet.id \in Nat
  <2>1. \A s \in Seq(Packet) : s # <<>> => Head(s) \in Packet /\ Head(s) = s[1]
    OBVIOUS
  <2>2. packet \in Packet /\ packet = toClient[session][1]
    BY <1>2, <2>1
  <2>3. \A x \in Packet : x.id \in Nat
    BY LinkAssumption DEF Packet
  <2>4. QED
    BY <2>2, <2>3
<1>5. PICK asked \in Nat : asked = Unanswered' /\ asked + 1 <= Unanswered
  <2>1. toClient'[session] = Tail(toClient[session]) /\ Tail(toClient[session]) \in Seq(Packet)
    <3>1. \A s \in Seq(Packet) : s # <<>> => Tail(s) \in Seq(Packet)
      OBVIOUS
    <3>2. QED
      BY <1>1, <1>2, <3>1 DEF TypeOK
  <2>2. \A s \in Seq(Packet) : s # <<>> =>
          Cardinality(Plains(Tail(s))) + (IF s[1].type = "PacketWithoutTicket" THEN 1 ELSE 0) <= Cardinality(Plains(s))
    BY PlainsTail
  <2>3. Cardinality(Plains(Tail(toClient[session]))) + 1 <= Cardinality(Plains(toClient[session]))
    BY <1>2, <1>4, <2>2
  <2>4. Cardinality(Plains(Tail(toClient[session]))) \in Nat
    BY <2>1, PlainsFinite
  <2>5. Unanswered = Cardinality(Plains(toClient[session])) /\ Unanswered' = Cardinality(Plains(Tail(toClient[session])))
    BY <1>2, <2>1 DEF Unanswered
  <2>6. QED
    BY <2>3, <2>4, <2>5
<1>6. /\ packetId \in Nat /\ queued \in Nat /\ plains \in Nat /\ resets \in Nat
      /\ Unanswered \in Nat /\ Unnumbered(queue, currentPacket) \in Nat
      /\ packetId + Unnumbered(queue, currentPacket) + Unanswered <= queued + plains + resets
      /\ queued + plains + resets < IdLimit /\ IdLimit \in Nat
      /\ queued <= MaxFrames /\ plains <= MaxPlain /\ resets <= MaxResets
  BY <1>1, RoomForNumbers, LinkAssumption
<1>7. packetId + 1 < IdLimit
  <2>1. \A id, u, a, b, sum \in Nat : id + u + a <= sum /\ b + 1 <= a => id + 1 <= sum
    OBVIOUS
  <2>2. queued + plains + resets \in Nat
    BY <1>6
  <2>3. packetId + 1 <= queued + plains + resets
    BY <1>5, <1>6, <2>1, <2>2
  <2>4. QED
    BY <1>6, <2>3
<1>8. packetId' \in 0 .. IdLimit - 1
  BY <1>1, NextNumber DEF TypeOK
<1>9. PICK p : p = TicketPacket(packetId', packet.id)
  OBVIOUS
<1>10. p \in Packet /\ p.id = packetId' /\ p.type # "PacketNeedsTicket" /\ ClientSend(p)
  <2>1. \A id \in 0 .. IdLimit - 1 : \A n \in Nat :
          TicketPacket(id, n) \in Packet /\ TicketPacket(id, n).id = id /\ TicketPacket(id, n).type = "Ticket"
    BY PlainIsPacket
  <2>2. p \in Packet /\ p.id = packetId' /\ p.type = "Ticket"
    BY <1>4, <1>8, <1>9, <2>1
  <2>3. QED
    BY <1>9, <2>2
<1>11. PICK answers : answers = toClient'
  OBVIOUS
<1>12. /\ packetId' = packetId + 1
       /\ currentPacket # NoPacket => currentPacket.id \in 1 .. packetId'
       /\ toServer' \in [Sessions -> Seq(GoodPackets(currentPacket, packetId', queued, applied))]
       /\ answers \in [Sessions -> Seq(GoodAnswers(currentPacket, packetId', received))]
  BY <1>1, <1>3, <1>7, <1>10, <1>11, OtherNumber
<1>13. TicketsOK' /\ QueueShape(queue', currentPacket', queued', applied')
  BY <1>1, <1>2, <1>11, <1>12 DEF TicketsOK
<1>14. NumbersOK'
  <2>1. \A id, u, a, b, sum \in Nat : id + u + a <= sum /\ b + 1 <= a => (id + 1) + u + b <= sum
    OBVIOUS
  <2>2. Unnumbered(queue', currentPacket') = Unnumbered(queue, currentPacket)
    OBVIOUS
  <2>3. queued + plains + resets \in Nat
    BY <1>6
  <2>4. (packetId + 1) + Unnumbered(queue, currentPacket) + asked <= queued + plains + resets
    BY <1>5, <1>6, <2>1, <2>3
  <2>5. QED
    BY <1>2, <1>5, <1>6, <1>12, <2>2, <2>4 DEF NumbersOK
<1>15. QED
  BY <1>13, <1>14 DEF ChannelInv

LEMMA ChannelClientReceive == NumbersSuffice /\ NumberedInv /\ ChannelInv /\ ClientReceive => ChannelInv'
<1>1. SUFFICES ASSUME NumbersSuffice, NumberedInv, ChannelInv, ClientReceive
               PROVE  ChannelInv'
  OBVIOUS
<1>2. PICK packet : packet = Head(toClient[session])
  OBVIOUS
<1>3. CASE packet.type = "Ticket" /\ ApplyTicket(packet.ticket)
  BY <1>1, <1>2, <1>3, ChannelTicket
<1>4. CASE /\ packet.type = "PacketWithoutTicket"
           /\ packetId' = GenerateNextPacketId(packetId)
           /\ ClientSend(TicketPacket(packetId', packet.id))
           /\ UNCHANGED <<queue, currentPacket, applied, resent>>
  BY <1>1, <1>2, <1>4, ChannelAnswer
<1>5. QED
  BY <1>1, <1>2, <1>3, <1>4 DEF ClientReceive

(* Where no packet is put on the way, none without ticket is added.        *)
LEMMA UnansweredType ==
  ASSUME TypeOK
  PROVE  Unanswered \in Nat
<1>1. session # 0 => toClient[session] \in Seq(Packet)
  BY DEF TypeOK
<1>2. QED
  BY <1>1, PlainsFinite DEF Unanswered

LEMMA ChannelTick == NumbersSuffice /\ NumberedInv /\ ChannelInv /\ Tick => ChannelInv'
<1>1. SUFFICES ASSUME NumbersSuffice, NumberedInv, ChannelInv, Tick
               PROVE  ChannelInv'
  OBVIOUS
<1>2. UNCHANGED <<queue, currentPacket, packetId, session, wireVars, historyVars, bounds>>
  BY <1>1 DEF Tick
<1>3. QED
  BY <1>1, <1>2 DEF ChannelInv, NumbersOK, TicketsOK, Unanswered

(***************************************************************************)
(* The channel: the server's steps.                                        *)
(***************************************************************************)
LEMMA ServerSendAnswers ==
  ASSUME TypeOK, ConnectionOK, NEW c \in Sessions, NEW S, NEW p \in S, S \subseteq Packet,
         toClient \in [Sessions -> Seq(S)], ServerSend(c, p), UNCHANGED session
  PROVE  /\ toClient' \in [Sessions -> Seq(S)] /\ Unanswered \in Nat
         /\ \/ Unanswered' = Unanswered
            \/ p.type = "PacketWithoutTicket" /\ Unanswered' = Unanswered + 1
<1>1. Unanswered \in Nat
  BY UnansweredType
<1>2. CASE link[c] # "up"
  BY <1>1, <1>2 DEF ServerSend, Unanswered
<1>3. CASE link[c] = "up"
  <2>1. c = session /\ c # 0 /\ toClient' = [toClient EXCEPT ![c] = Append(toClient[c], p)]
    BY <1>3 DEF ConnectionOK, ServerSend
  <2>2. Append(toClient[c], p) \in Seq(S)
    OBVIOUS
  <2>3. toClient' \in [Sessions -> Seq(S)] /\ toClient'[c] = Append(toClient[c], p)
    BY <2>1, <2>2
  <2>4. p \in Packet /\ toClient[c] \in Seq(Packet)
    BY DEF TypeOK
  <2>5. Cardinality(Plains(Append(toClient[c], p)))
          = Cardinality(Plains(toClient[c])) + (IF p.type = "PacketWithoutTicket" THEN 1 ELSE 0)
    BY <2>4, PlainsAppend
  <2>6. Unanswered = Cardinality(Plains(toClient[c])) /\ Unanswered' = Cardinality(Plains(Append(toClient[c], p)))
    BY <2>1, <2>3 DEF Unanswered
  <2>7. CASE p.type = "PacketWithoutTicket"
    BY <1>1, <2>3, <2>5, <2>6, <2>7
  <2>8. CASE p.type # "PacketWithoutTicket"
    BY <1>1, <2>3, <2>5, <2>6, <2>8
  <2>9. QED
    BY <2>7, <2>8
<1>4. QED
  BY <1>2, <1>3

LEMMA ChannelServerSendPlain ==
  ASSUME NEW c \in Sessions PROVE NumbersSuffice /\ NumberedInv /\ ChannelInv /\ ServerSendPlain(c) => ChannelInv'
<1>1. SUFFICES ASSUME NumbersSuffice, NumberedInv, ChannelInv, ServerSendPlain(c)
               PROVE  ChannelInv'
  OBVIOUS
<1>2. TypeOK /\ ConnectionOK /\ TicketsOK
  BY <1>1 DEF NumberedInv, ChannelInv
<1>3. /\ plains < MaxPlain /\ plains' = plains + 1
      /\ serverPacketId' = [serverPacketId EXCEPT ![c] = GenerateNextPacketId(serverPacketId[c])]
      /\ ServerSend(c, PlainPacket(serverPacketId'[c]))
      /\ UNCHANGED <<clientVars, toServer, historyVars, resets>>
  BY <1>1 DEF ServerSendPlain
<1>4. serverPacketId'[c] \in 0 .. IdLimit - 1
  <2>1. serverPacketId[c] \in 0 .. IdLimit - 1
    BY <1>2 DEF TypeOK
  <2>2. serverPacketId'[c] = GenerateNextPacketId(serverPacketId[c])
    BY <1>2, <1>3 DEF TypeOK
  <2>3. QED
    BY <2>1, <2>2, NextNumber
<1>5. PICK p : p = PlainPacket(serverPacketId'[c])
  OBVIOUS
<1>6. p \in Packet /\ p.type = "PacketWithoutTicket"
  <2>1. \A id \in 0 .. IdLimit - 1 : PlainPacket(id) \in Packet /\ PlainPacket(id).type = "PacketWithoutTicket"
    BY PlainIsPacket, 0 \in Nat
  <2>2. QED
    BY <1>4, <1>5, <2>1
<1>7. PICK S : S = GoodAnswers(currentPacket, packetId, received)
  OBVIOUS
<1>8. p \in S /\ S \subseteq Packet
  BY <1>6, <1>7 DEF GoodAnswers
<1>9. toClient \in [Sessions -> Seq(S)]
  BY <1>2, <1>7 DEF TicketsOK
<1>10. /\ toClient' \in [Sessions -> Seq(S)] /\ Unanswered \in Nat
       /\ Unanswered' = Unanswered \/ Unanswered' = Unanswered + 1
  BY <1>2, <1>3, <1>5, <1>8, <1>9, ServerSendAnswers
<1>11. plains \in Nat /\ MaxPlain \in Nat
  BY <1>2, LinkAssumption DEF TypeOK
<1>12. PICK asked \in Nat : Unanswered' = asked /\ asked <= Unanswered + 1
  BY <1>10
<1>13. plains' \in Nat /\ plains' <= MaxPlain /\ asked + plains <= Unanswered + plains'
  BY <1>3, <1>10, <1>11, <1>12
<1>14. /\ toServer' \in [Sessions -> Seq(GoodPackets(currentPacket, packetId, queued, applied))]
       /\ toClient' \in [Sessions -> Seq(GoodAnswers(currentPacket, packetId, received'))]
       /\ UNCHANGED <<queue, currentPacket, packetId, queued, applied, resets>>
  BY <1>2, <1>3, <1>7, <1>10 DEF TicketsOK
<1>15. QED
  BY <1>1, <1>12, <1>13, <1>14, WireStep

LEMMA ChannelServerReceive ==
  ASSUME NEW c \in Sessions PROVE NumbersSuffice /\ NumberedInv /\ ChannelInv /\ ServerReceive(c) => ChannelInv'
<1>1. SUFFICES ASSUME NumbersSuffice, NumberedInv, ChannelInv, ServerReceive(c)
               PROVE  ChannelInv'
  OBVIOUS
<1>2. TypeOK /\ ConnectionOK /\ TicketsOK
  BY <1>1 DEF NumberedInv, ChannelInv
<1>3. PICK packet : packet = Head(toServer[c])
  OBVIOUS
<1>4. /\ toServer[c] # <<>> /\ toServer' = [toServer EXCEPT ![c] = Tail(toServer[c])]
      /\ UNCHANGED <<clientVars, queued, applied, bounds>>
  BY <1>1 DEF ServerReceive
<1>5. packet \in GoodPackets(currentPacket, packetId, queued, applied)
  <2>1. toServer[c] \in Seq(GoodPackets(currentPacket, packetId, queued, applied))
    BY <1>2 DEF TicketsOK
  <2>2. \A S : \A s \in Seq(S) : s # <<>> => Head(s) \in S
    OBVIOUS
  <2>3. QED
    BY <1>3, <1>4, <2>1, <2>2
<1>6. toServer' \in [Sessions -> Seq(GoodPackets(currentPacket, packetId, queued, applied))]
  <2>1. toServer \in [Sessions -> Seq(GoodPackets(currentPacket, packetId, queued, applied))]
    BY <1>2 DEF TicketsOK
  <2>2. \A S : \A s \in Seq(S) : s # <<>> => Tail(s) \in Seq(S)
    OBVIOUS
  <2>3. Tail(toServer[c]) \in Seq(GoodPackets(currentPacket, packetId, queued, applied))
    BY <1>4, <2>1, <2>2
  <2>4. QED
    BY <1>4, <2>1, <2>3
<1>7. PICK S : S = GoodAnswers(currentPacket, packetId, received')
  OBVIOUS
<1>8. /\ received \subseteq received'
      /\ packet.type = "PacketNeedsTicket" => packet.frame \in received'
  BY <1>1, <1>3 DEF ServerReceive
<1>9. S \subseteq Packet /\ toClient \in [Sessions -> Seq(S)]
  <2>1. GoodAnswers(currentPacket, packetId, received) \subseteq S
    BY <1>7, <1>8 DEF GoodAnswers
  <2>2. toClient \in [Sessions -> Seq(GoodAnswers(currentPacket, packetId, received))]
    BY <1>2 DEF TicketsOK
  <2>3. toClient \in [Sessions -> Seq(S)]
    BY <2>1, <2>2, SeqMonotone
  <2>4. QED
    BY <1>7, <2>3 DEF GoodAnswers
<1>10. Unanswered \in Nat
  BY <1>2, UnansweredType
<1>11. toClient' \in [Sessions -> Seq(S)] /\ Unanswered' = Unanswered
  <2>1. CASE UNCHANGED <<serverPacketId, toClient>>
    BY <1>4, <1>9, <2>1 DEF Unanswered
  <2>2. CASE /\ serverPacketId' = [serverPacketId EXCEPT ![c] = GenerateNextPacketId(serverPacketId[c])]
             /\ ServerSend(c, TicketPacket(serverPacketId'[c], packet.id))
    <3>1. serverPacketId'[c] \in 0 .. IdLimit - 1
      <4>1. serverPacketId[c] \in 0 .. IdLimit - 1
        BY <1>2 DEF TypeOK
      <4>2. serverPacketId'[c] = GenerateNextPacketId(serverPacketId[c])
        BY <1>2, <2>2 DEF TypeOK
      <4>3. QED
        BY <4>1, <4>2, NextNumber
    <3>2. packet.id \in Nat /\ packet.id \in 1 .. packetId
      BY <1>2, <1>5, LinkAssumption DEF GoodPackets, TypeOK
    <3>3. PICK p : p = TicketPacket(serverPacketId'[c], packet.id)
      OBVIOUS
    <3>4. \A id \in 0 .. IdLimit - 1 : \A n \in Nat :
            /\ TicketPacket(id, n) \in Packet /\ TicketPacket(id, n).type = "Ticket"
            /\ TicketPacket(id, n).ticket = n
      BY PlainIsPacket
    <3>5. p \in Packet /\ p.type = "Ticket" /\ p.ticket = packet.id
      BY <3>1, <3>2, <3>3, <3>4
    <3>6. p \in S
      BY <1>5, <1>7, <1>8, <3>2, <3>5 DEF GoodAnswers, GoodPackets
    <3>7. /\ toClient' \in [Sessions -> Seq(S)]
          /\ \/ Unanswered' = Unanswered
             \/ p.type = "PacketWithoutTicket" /\ Unanswered' = Unanswered + 1
      BY <1>2, <1>4, <1>9, <2>2, <3>3, <3>6, ServerSendAnswers
    <3>8. QED
      BY <3>5, <3>7
  <2>3. QED
    BY <1>1, <1>3, <2>1, <2>2 DEF ServerReceive
<1>12. PICK asked \in Nat : Unanswered' = asked /\ asked = Unanswered
  BY <1>10, <1>11
<1>13. plains' \in Nat /\ plains' <= MaxPlain /\ asked + plains <= Unanswered + plains'
  <2>1. plains' = plains /\ plains \in Nat
    BY <1>2, <1>4 DEF TypeOK
  <2>2. plains <= MaxPlain
    BY <1>1 DEF ChannelInv, NumbersOK
  <2>3. QED
    BY <1>10, <1>12, <2>1, <2>2
<1>14. /\ toClient' \in [Sessions -> Seq(GoodAnswers(currentPacket, packetId, received'))]
       /\ UNCHANGED <<queue, currentPacket, packetId, queued, applied, resets>>
  BY <1>4, <1>7, <1>11
<1>15. QED
  BY <1>1, <1>6, <1>12, <1>13, <1>14, WireStep

(***************************************************************************)
(* The channel: connections.                                               *)
(***************************************************************************)
(* A step that only takes packets from what is under way.                  *)
LEMMA ConnectionStep ==
  ASSUME NumbersSuffice, NumberedInv, ChannelInv,
         UNCHANGED <<queue, currentPacket, packetId, historyVars, bounds>>,
         NEW asked \in Nat, Unanswered' = asked, asked <= Unanswered,
         toServer' \in [Sessions -> Seq(GoodPackets(currentPacket, packetId, queued, applied))],
         toClient' \in [Sessions -> Seq(GoodAnswers(currentPacket, packetId, received))]
  PROVE  ChannelInv'
<1>1. plains \in Nat /\ plains <= MaxPlain /\ Unanswered \in Nat
  BY UnansweredType DEF NumberedInv, TypeOK, ChannelInv, NumbersOK
<1>2. plains' \in Nat /\ plains' <= MaxPlain /\ asked + plains <= Unanswered + plains'
  <2>1. plains' = plains
    OBVIOUS
  <2>2. QED
    BY <1>1, <2>1
<1>3. toClient' \in [Sessions -> Seq(GoodAnswers(currentPacket, packetId, received'))]
  OBVIOUS
<1>4. UNCHANGED <<queue, currentPacket, packetId, queued, applied, resets>>
  OBVIOUS
<1>5. QED
  BY <1>2, <1>3, <1>4, WireStep

LEMMA ChannelConnect ==
  ASSUME NEW c \in Sessions PROVE NumbersSuffice /\ NumberedInv /\ ChannelInv /\ Connect(c) => ChannelInv'
<1>1. SUFFICES ASSUME NumbersSuffice, NumberedInv, ChannelInv, Connect(c)
               PROVE  ChannelInv'
  OBVIOUS
<1>2. TypeOK /\ ConnectionOK /\ TicketsOK
  BY <1>1 DEF NumberedInv, ChannelInv
<1>3. session = 0 /\ session' = c /\ c # 0
      /\ UNCHANGED <<queue, currentPacket, packetId, toServer, toClient, historyVars, bounds>>
  BY <1>1 DEF Connect
<1>4. toClient[c] = <<>>
  BY <1>2, <1>3 DEF ConnectionOK
<1>5. Unanswered = 0
  BY <1>3 DEF Unanswered
<1>6. Unanswered' = 0
  <2>1. Plains(<<>>) = {}
    BY DEF Plains
  <2>2. Cardinality(Plains(<<>>)) = 0
    BY <2>1, FS_EmptySet
  <2>3. QED
    BY <1>3, <1>4, <2>2 DEF Unanswered
<1>7. /\ toServer' \in [Sessions -> Seq(GoodPackets(currentPacket, packetId, queued, applied))]
      /\ toClient' \in [Sessions -> Seq(GoodAnswers(currentPacket, packetId, received))]
  BY <1>2, <1>3 DEF TicketsOK
<1>8. PICK asked \in Nat : asked = 0
  OBVIOUS
<1>9. Unanswered' = asked /\ asked <= Unanswered
  BY <1>5, <1>6, <1>8
<1>10. UNCHANGED <<queue, currentPacket, packetId, historyVars, bounds>>
  BY <1>3
<1>11. QED
  BY <1>1, <1>7, <1>9, <1>10, ConnectionStep

LEMMA ChannelBreak ==
  ASSUME NEW c \in Sessions PROVE NumbersSuffice /\ NumberedInv /\ ChannelInv /\ Break(c) => ChannelInv'
<1>1. SUFFICES ASSUME NumbersSuffice, NumberedInv, ChannelInv, Break(c)
               PROVE  ChannelInv'
  OBVIOUS
<1>2. TypeOK /\ ConnectionOK /\ TicketsOK
  BY <1>1 DEF NumberedInv, ChannelInv
<1>3. link[c] = "up" /\ UNCHANGED <<clientVars, serverVars, historyVars, bounds>>
  BY <1>1 DEF Break
<1>4. PICK n \in 0 .. Len(toServer[c]), m \in 0 .. Len(toClient[c]) :
        /\ toServer' = [toServer EXCEPT ![c] = SubSeq(toServer[c], 1, n)]
        /\ toClient' = [toClient EXCEPT ![c] = SubSeq(toClient[c], 1, m)]
  BY <1>1 DEF Break
<1>5. \A S : \A s \in Seq(S) : \A k \in 0 .. Len(s) : SubSeq(s, 1, k) \in Seq(S)
  OBVIOUS
<1>6. toServer' \in [Sessions -> Seq(GoodPackets(currentPacket, packetId, queued, applied))]
  <2>1. toServer \in [Sessions -> Seq(GoodPackets(currentPacket, packetId, queued, applied))]
    BY <1>2 DEF TicketsOK
  <2>2. SubSeq(toServer[c], 1, n) \in Seq(GoodPackets(currentPacket, packetId, queued, applied))
    BY <1>5, <2>1
  <2>3. QED
    BY <1>4, <2>1, <2>2
<1>7. toClient' \in [Sessions -> Seq(GoodAnswers(currentPacket, packetId, received))]
  <2>1. toClient \in [Sessions -> Seq(GoodAnswers(currentPacket, packetId, received))]
    BY <1>2 DEF TicketsOK
  <2>2. SubSeq(toClient[c], 1, m) \in Seq(GoodAnswers(currentPacket, packetId, received))
    BY <1>5, <2>1
  <2>3. QED
    BY <1>4, <2>1, <2>2
<1>8. c = session /\ c # 0 /\ session' = session
  BY <1>2, <1>3 DEF ConnectionOK
<1>9. toClient[c] \in Seq(Packet) /\ toClient'[c] = SubSeq(toClient[c], 1, m) /\ SubSeq(toClient[c], 1, m) \in Seq(Packet)
  <2>1. toClient \in [Sessions -> Seq(Packet)]
    BY <1>2 DEF TypeOK
  <2>2. QED
    BY <1>4, <1>5, <2>1
<1>10. PICK asked \in Nat : Unanswered' = asked /\ asked <= Unanswered
  <2>1. Cardinality(Plains(SubSeq(toClient[c], 1, m))) <= Cardinality(Plains(toClient[c]))
    BY <1>9, PlainsPrefix
  <2>2. Cardinality(Plains(SubSeq(toClient[c], 1, m))) \in Nat
    BY <1>9, PlainsFinite
  <2>3. /\ Unanswered = Cardinality(Plains(toClient[c]))
        /\ Unanswered' = Cardinality(Plains(SubSeq(toClient[c], 1, m)))
    BY <1>8, <1>9 DEF Unanswered
  <2>4. QED
    BY <2>1, <2>2, <2>3
<1>11. UNCHANGED <<queue, currentPacket, packetId, historyVars, bounds>>
  BY <1>3
<1>12. QED
  BY <1>1, <1>6, <1>7, <1>10, <1>11, ConnectionStep

LEMMA ChannelClientDisconnected ==
  NumbersSuffice /\ NumberedInv /\ ChannelInv /\ ClientDisconnected => ChannelInv'
<1>1. SUFFICES ASSUME NumbersSuffice, NumberedInv, ChannelInv, ClientDisconnected
               PROVE  ChannelInv'
  OBVIOUS
<1>2. TypeOK /\ TicketsOK
  BY <1>1 DEF NumberedInv, ChannelInv
<1>3. /\ session' = 0 /\ toClient' = [toClient EXCEPT ![session] = <<>>]
      /\ UNCHANGED <<queue, currentPacket, packetId, toServer, historyVars, bounds>>
  BY <1>1 DEF ClientDisconnected
<1>4. \A S : <<>> \in Seq(S)
  OBVIOUS
<1>5. /\ toServer' \in [Sessions -> Seq(GoodPackets(currentPacket, packetId, queued, applied))]
      /\ toClient' \in [Sessions -> Seq(GoodAnswers(currentPacket, packetId, received))]
  BY <1>2, <1>3, <1>4 DEF TicketsOK
<1>6. PICK asked \in Nat : asked = 0
  OBVIOUS
<1>7. Unanswered' = asked /\ asked <= Unanswered
  <2>1. Unanswered' = 0
    BY <1>3 DEF Unanswered
  <2>2. QED
    BY <1>2, <1>6, <2>1, UnansweredType
<1>8. UNCHANGED <<queue, currentPacket, packetId, historyVars, bounds>>
  BY <1>3
<1>9. QED
  BY <1>1, <1>5, <1>7, <1>8, ConnectionStep

LEMMA ChannelServerDisconnected ==
  ASSUME NEW c \in Sessions PROVE NumbersSuffice /\ NumberedInv /\ ChannelInv /\ ServerDisconnected(c) => ChannelInv'
<1>1. SUFFICES ASSUME NumbersSuffice, NumberedInv, ChannelInv, ServerDisconnected(c)
               PROVE  ChannelInv'
  OBVIOUS
<1>2. TypeOK /\ TicketsOK
  BY <1>1 DEF NumberedInv, ChannelInv
<1>3. toServer' = [toServer EXCEPT ![c] = <<>>] /\ UNCHANGED <<clientVars, toClient, historyVars, bounds>>
  BY <1>1 DEF ServerDisconnected
<1>4. \A S : <<>> \in Seq(S)
  OBVIOUS
<1>5. /\ toServer' \in [Sessions -> Seq(GoodPackets(currentPacket, packetId, queued, applied))]
      /\ toClient' \in [Sessions -> Seq(GoodAnswers(currentPacket, packetId, received))]
  BY <1>2, <1>3, <1>4 DEF TicketsOK
<1>6. PICK asked \in Nat : asked = Unanswered
  BY <1>2, UnansweredType
<1>7. Unanswered' = asked /\ asked <= Unanswered
  BY <1>3, <1>6 DEF Unanswered
<1>8. UNCHANGED <<queue, currentPacket, packetId, historyVars, bounds>>
  BY <1>3
<1>9. QED
  BY <1>1, <1>5, <1>7, <1>8, ConnectionStep

LEMMA NextChannel == NumbersSuffice /\ NumberedInv /\ ChannelInv /\ [Next]_linkVars => ChannelInv'
<1>1. SUFFICES ASSUME NumbersSuffice, NumberedInv, ChannelInv, [Next]_linkVars
               PROVE  ChannelInv'
  OBVIOUS
<1>2. CASE SendFrame \/ ClientSendPlain \/ CallProcessQueue \/ ResetQueue \/ ClientReceive \/ Tick \/ ClientDisconnected
  BY <1>1, <1>2, ChannelSendFrame, ChannelClientSendPlain, ChannelCallProcessQueue, ChannelResetQueue,
     ChannelClientReceive, ChannelTick, ChannelClientDisconnected
<1>3. ASSUME NEW c \in Sessions,
             ServerSendPlain(c) \/ ServerReceive(c) \/ ServerDisconnected(c) \/ Connect(c) \/ Break(c)
      PROVE  ChannelInv'
  BY <1>1, <1>3, ChannelServerSendPlain, ChannelServerReceive, ChannelServerDisconnected, ChannelConnect, ChannelBreak
<1>4. CASE UNCHANGED linkVars
  BY <1>1, <1>4 DEF ChannelInv, NumbersOK, TicketsOK, Unanswered
<1>5. QED
  BY <1>1, <1>2, <1>3, <1>4 DEF Next

(***************************************************************************)
(* Every step is a step of the channel, or none.                           *)
(***************************************************************************)
LEMMA ReceiveRefines ==
  ASSUME NEW c \in Sessions, TypeOK, ChannelInv, ServerReceive(c)
  PROVE  (\E f \in 1 .. queued : Channel!Receive(f)) \/ UNCHANGED Channel!channelVars
<1>1. PICK packet : packet = Head(toServer[c])
  OBVIOUS
<1>2. /\ toServer[c] # <<>> /\ UNCHANGED <<queued, applied>>
      /\ received' = received \/ packet.type = "PacketNeedsTicket"
      /\ packet.type = "PacketNeedsTicket" => received' = received \cup {packet.frame}
  BY <1>1 DEF ServerReceive
<1>3. CASE packet.type = "PacketNeedsTicket"
  <2>1. toServer[c] \in Seq(GoodPackets(currentPacket, packetId, queued, applied))
    BY DEF ChannelInv, TicketsOK
  <2>2. \A S : \A s \in Seq(S) : s # <<>> => Head(s) \in S
    OBVIOUS
  <2>3. packet \in GoodPackets(currentPacket, packetId, queued, applied)
    BY <1>1, <1>2, <2>1, <2>2
  <2>4. packet.frame \in 1 .. queued /\ 1 .. packet.frame - 1 \subseteq applied
    BY <1>3, <2>3 DEF GoodPackets
  <2>5. Channel!Receive(packet.frame)
    BY <1>2, <1>3, <2>4 DEF Channel!Receive
  <2>6. QED
    BY <2>4, <2>5
<1>4. CASE packet.type # "PacketNeedsTicket"
  BY <1>2, <1>4 DEF Channel!channelVars
<1>5. QED
  BY <1>3, <1>4

LEMMA ApplyRefines ==
  ASSUME TypeOK, ChannelInv, ClientReceive
  PROVE  (\E f \in 1 .. queued : Channel!Apply(f)) \/ UNCHANGED Channel!channelVars
<1>1. PICK packet : packet = Head(toClient[session])
  OBVIOUS
<1>2. session # 0 /\ toClient[session] # <<>> /\ UNCHANGED <<queued, received>>
  BY DEF ClientReceive
<1>3. session \in Sessions
  BY <1>2 DEF TypeOK
<1>4. CASE UNCHANGED applied
  BY <1>2, <1>4 DEF Channel!channelVars
<1>5. CASE packet.type = "Ticket" /\ Taken(packet.ticket) # {} /\ applied' = applied \cup Taken(packet.ticket)
  <2>1. /\ Taken(packet.ticket) = {currentPacket.frame} /\ currentPacket.frame \in 1 .. queued
        /\ currentPacket.frame \in received
    BY <1>1, <1>2, <1>3, <1>5, TicketFits
  <2>2. Channel!Apply(currentPacket.frame)
    BY <1>2, <1>5, <2>1 DEF Channel!Apply
  <2>3. QED
    BY <2>1, <2>2
<1>6. UNCHANGED applied \/ /\ packet.type = "Ticket" /\ Taken(packet.ticket) # {}
                           /\ applied' = applied \cup Taken(packet.ticket)
  BY <1>1 DEF ClientReceive, ApplyTicket, Taken
<1>7. QED
  BY <1>4, <1>5, <1>6

LEMMA StepRefines ==
  ASSUME TypeOK, ChannelInv, [Next]_linkVars
  PROVE  [Channel!ChannelNext]_(Channel!channelVars)
<1>1. CASE SendFrame
  BY <1>1 DEF SendFrame, Channel!ChannelNext, Channel!Queue
<1>2. CASE ClientReceive
  BY <1>2, ApplyRefines DEF Channel!ChannelNext
<1>3. ASSUME NEW c \in Sessions, ServerReceive(c)
      PROVE  [Channel!ChannelNext]_(Channel!channelVars)
  BY <1>3, ReceiveRefines DEF Channel!ChannelNext
<1>4. CASE ClientSendPlain \/ CallProcessQueue \/ ResetQueue \/ Tick \/ ClientDisconnected \/ UNCHANGED linkVars
  BY <1>4 DEF ClientSendPlain, CallProcessQueue, ResetQueue, Tick, ClientDisconnected, Channel!channelVars
<1>5. ASSUME NEW c \in Sessions, ServerSendPlain(c) \/ ServerDisconnected(c) \/ Connect(c) \/ Break(c)
      PROVE  [Channel!ChannelNext]_(Channel!channelVars)
  BY <1>5 DEF ServerSendPlain, ServerDisconnected, Connect, Break, Channel!channelVars
<1>6. QED
  BY <1>1, <1>2, <1>3, <1>4, <1>5 DEF Next

(***************************************************************************)
(* The client numbers no more packets than there are numbers               *)
(* (NumbersSuffice: with one number less TLC finds the ticket of an old    *)
(* packet that takes another frame). Then the two objects implement        *)
(* TicketChannel, for any number of frames, resets, losses and             *)
(* connections: a frame is confirmed only after the server received it,    *)
(* and received only when every frame before it was confirmed.             *)
(***************************************************************************)
THEOREM TicketChannelRefinement ==
  ASSUME NumbersSuffice
  PROVE  Spec => ImplementsTicketChannel
<1>1. Init => NumberedInv /\ ChannelInv
  BY InitNumbered, InitChannel
<1>2. NumberedInv /\ ChannelInv /\ [Next]_linkVars => (NumberedInv /\ ChannelInv)'
  BY NextNumbered, NextChannel
<1>3. Init => Channel!ChannelInit
  BY DEF Init, Channel!ChannelInit
<1>4. NumberedInv /\ ChannelInv /\ [Next]_linkVars => [Channel!ChannelNext]_(Channel!channelVars)
  BY StepRefines DEF NumberedInv
<1>5. QED
  BY <1>1, <1>2, <1>3, <1>4, PTL DEF Spec, ImplementsTicketChannel, Channel!ChannelSpec

=============================================================================
