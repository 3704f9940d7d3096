---------------------------- MODULE SimpleExchange ----------------------------
(***************************************************************************)
(* The conversation of the demonstration client and server                 *)
(* (Demo/SimpleClient, Demo/SimpleServer, PacketFactorySimple) over the    *)
(* connections of ThreadHandler.  The client says Hello, the server        *)
(* Welcome; the client sends Alive when it has been silent for a while and *)
(* the server answers it.  Each gives a silent peer up, the server's       *)
(* thread ends with its connection and the client makes a new one.         *)
(*                                                                         *)
(* Time is counted since lastPacketSent() and lastPacketReceived(), in     *)
(* ticks of the clock.  Each thread makes a round at least once a tick     *)
(* (setTimeout), and a packet is read within MaxDelay ticks, unless its    *)
(* connection is dead: then what is sent on it is lost and nobody is told. *)
(***************************************************************************)
EXTENDS Integers, SequencesExt

CONSTANTS
  AliveInterval,  \* ticks of silence after which the client sends Alive (10000 ms)
  Silence,        \* ticks after which a peer is given up (30000 ms)
  Reconnect,      \* _reconnectTimeout of the client, in ticks
  MaxDelay,       \* bound on the way of a packet, in ticks
  MaxConnections  \* bound on the client's connections

VARIABLES
  client,  \* the client's ThreadHandler
  servers, \* the server's threads, one for each connection
  net,     \* connection -> "up", "dead" or "closed"
  wires,   \* connection -> the packets under way to each side
  rounds,  \* threads that have made a round in this tick
  dead,    \* connection -> ticks since it died
  gaveUp   \* history: the sides that gave up a connection that was up

exchangeVars == <<client, servers, net, wires, rounds, dead, gaveUp>>

Client == 0                        \* the client among the threads
Current == Len(servers)
Packet(type) == [type |-> type, age |-> 0]
NoPackets == [client |-> <<>>, server |-> <<>>]

(* Ages beyond those that are compared are all one.                        *)
Older(age) == IF age > Silence + 1 THEN age ELSE age + 1

Init ==
  /\ client = [state |-> "Disconnected", due |-> 0, sent |-> 0, received |-> 0]
  /\ servers = <<>> /\ net = <<>> /\ wires = <<>> /\ dead = <<>>
  /\ rounds = {} /\ gaveUp = {}

---------------------------------------------------------------------------
(* sendPacketHello() and its like: a side and what it sends.               *)
SendPacket(exchange, type) ==
  [side |-> [exchange.side EXCEPT !.sent = 0], out |-> Append(exchange.out, Packet(type))]

(* What a side has under way in a connection that is not dead.             *)
Sent(k, receiver, packets) ==
  IF net[k] = "up" THEN [wires EXCEPT ![k][receiver] = @ \o packets] ELSE wires

(* slotOnConnectionStateChanged() *)
Disconnected(side) == [side EXCEPT !.state = "Disconnected", !.due = Reconnect]
Connected(side) == [side EXCEPT !.state = "Connected", !.sent = 0, !.received = 0]

(* What one side closes while the other still reads.                       *)
CloseConnection(k) ==
  net' = [net EXCEPT ![k] = IF @ = "up" THEN "closed" ELSE @]

---------------------------------------------------------------------------
(* The client's thread.                                                    *)

(* onBeforeWaitEvents() opens the handler, the server's listening socket   *)
(* takes the connection, and onConnected() sends Hello.                    *)
ClientConnected ==
  /\ client.state = "Disconnected" /\ client.due = 0 /\ Current < MaxConnections
  /\ LET hello == SendPacket([side |-> Connected(client), out |-> <<>>], "Hello")
     IN /\ client' = hello.side
        /\ wires' = Append(wires, [NoPackets EXCEPT !.server = hello.out])
  /\ servers' = Append(servers, Connected([state |-> "Connected", due |-> 0, sent |-> 0, received |-> 0]))
  /\ net' = Append(net, "up") /\ dead' = Append(dead, 0)
  /\ UNCHANGED <<rounds, gaveUp>>

(* doPacketWelcome() *)
Welcomed(exchange) == SendPacket(exchange, "Alive")

ClientReceives(exchange, packet) ==
  LET heard == [exchange EXCEPT !.side.received = 0]
  IN IF packet.type = "Welcome" THEN Welcomed(heard) ELSE heard

ClientReads(n) ==
  /\ client.state = "Connected" /\ n \in 1 .. Len(wires[Current].client)
  /\ LET result == FoldLeft(ClientReceives, [side |-> client, out |-> <<>>],
                            SubSeq(wires[Current].client, 1, n))
     IN /\ client' = result.side
        /\ wires' = [Sent(Current, "server", result.out) EXCEPT ![Current].client = SubSeq(@, n + 1, Len(@))]
  /\ UNCHANGED <<servers, net, rounds, dead, gaveUp>>

SendsAlive == client.sent >= AliveInterval

(* onIdle(): Alive first, and then what was not heard.                     *)
ClientIdle ==
  /\ Client \notin rounds /\ rounds' = rounds \cup {Client}
  /\ IF client.state # "Connected" THEN UNCHANGED <<client, net, wires, gaveUp>>
     ELSE LET start == [side |-> client, out |-> <<>>]
              alive == IF SendsAlive THEN SendPacket(start, "Alive") ELSE start
          IN IF client.received > Silence
             THEN /\ client' = Disconnected(alive.side)
                  /\ CloseConnection(Current)
                  /\ wires' = [Sent(Current, "server", alive.out) EXCEPT ![Current].client = <<>>]
                  /\ gaveUp' = IF net[Current] = "up" THEN gaveUp \cup {"client"} ELSE gaveUp
             ELSE /\ client' = alive.side
                  /\ wires' = Sent(Current, "server", alive.out)
                  /\ UNCHANGED <<net, gaveUp>>
  /\ UNCHANGED <<servers, dead>>

(* The server has closed, and everything it sent is read.                  *)
ClientHangUp ==
  /\ client.state = "Connected" /\ net[Current] = "closed" /\ wires[Current].client = <<>>
  /\ client' = Disconnected(client)
  /\ UNCHANGED <<servers, net, wires, rounds, dead, gaveUp>>

---------------------------------------------------------------------------
(* A thread of the server.                                                 *)

(* Mutant of Answer: Alive is not answered.                                *)
AnswerHello(exchange, type) == IF type = "Hello" THEN SendPacket(exchange, "Welcome") ELSE exchange

(* doPacketHello(), doPacketAlive() *)
Answer(exchange, type) ==
  CASE type = "Hello" -> SendPacket(exchange, "Welcome")
    [] type = "Alive" -> SendPacket(exchange, "Alive")
    [] OTHER -> exchange

ServerReceives(exchange, packet) == Answer([exchange EXCEPT !.side.received = 0], packet.type)

ServerReads(k, n) ==
  /\ servers[k].state = "Connected" /\ n \in 1 .. Len(wires[k].server)
  /\ LET result == FoldLeft(ServerReceives, [side |-> servers[k], out |-> <<>>],
                            SubSeq(wires[k].server, 1, n))
     IN /\ servers' = [servers EXCEPT ![k] = result.side]
        /\ wires' = [Sent(k, "client", result.out) EXCEPT ![k].server = SubSeq(@, n + 1, Len(@))]
  /\ UNCHANGED <<client, net, rounds, dead, gaveUp>>

(* onIdle(): terminateThread(), which closes the handler.                  *)
ServerIdle(k) ==
  /\ servers[k].state = "Connected" /\ k \notin rounds /\ rounds' = rounds \cup {k}
  /\ IF servers[k].received >= Silence
     THEN /\ servers' = [servers EXCEPT ![k] = Disconnected(@)]
          /\ CloseConnection(k)
          /\ wires' = [wires EXCEPT ![k].server = <<>>]
          /\ gaveUp' = IF net[k] = "up" THEN gaveUp \cup {"server"} ELSE gaveUp
     ELSE UNCHANGED <<servers, net, wires, gaveUp>>
  /\ UNCHANGED <<client, dead>>

(* onDisconnected(): the thread ends.                                      *)
ServerHangUp(k) ==
  /\ servers[k].state = "Connected" /\ net[k] = "closed" /\ wires[k].server = <<>>
  /\ servers' = [servers EXCEPT ![k] = Disconnected(@)]
  /\ UNCHANGED <<client, net, wires, rounds, dead, gaveUp>>

---------------------------------------------------------------------------
(* The network and the clock.                                              *)

NetDies(k) ==
  /\ net[k] \in {"up", "closed"}
  /\ client.state = "Connected" \/ servers[k].state = "Connected"
  /\ net' = [net EXCEPT ![k] = "dead"]
  /\ wires' = [wires EXCEPT ![k] = NoPackets]
  /\ UNCHANGED <<client, servers, rounds, dead, gaveUp>>

Aged(packets) == [i \in DOMAIN packets |-> [packets[i] EXCEPT !.age = @ + 1]]
Arrived(packets) == \A i \in DOMAIN packets : packets[i].age < MaxDelay

(* The threads that still have something to do.                            *)
Running == {Client} \cup {k \in DOMAIN servers : servers[k].state = "Connected"}

(* A thread that is connected learns of a closed connection in its round.  *)
Tick ==
  /\ Running \subseteq rounds
  /\ \A k \in DOMAIN servers :
       /\ Arrived(wires[k].server) /\ Arrived(wires[k].client)
       /\ net[k] = "closed" => servers[k].state # "Connected" /\ (k = Current => client.state # "Connected")
  /\ rounds' = {}
  /\ client' = [client EXCEPT !.due = IF @ = 0 THEN 0 ELSE @ - 1, !.sent = Older(@), !.received = Older(@)]
  /\ servers' = [k \in DOMAIN servers |->
                   IF servers[k].state = "Connected"
                   THEN [servers[k] EXCEPT !.sent = 0, !.received = Older(@)] ELSE servers[k]]
  /\ wires' = [k \in DOMAIN wires |-> [client |-> Aged(wires[k].client), server |-> Aged(wires[k].server)]]
  /\ dead' = [k \in DOMAIN dead |-> IF net[k] = "dead" /\ dead[k] < Silence + 4 THEN dead[k] + 1 ELSE dead[k]]
  /\ UNCHANGED <<net, gaveUp>>

Next ==
  \/ ClientConnected \/ ClientIdle \/ ClientHangUp \/ Tick
  \/ \E n \in 1 .. 3 : ClientReads(n)
  \/ \E k \in DOMAIN servers : ServerIdle(k) \/ ServerHangUp(k) \/ NetDies(k) \/ \E n \in 1 .. 3 : ServerReads(k, n)

Spec == Init /\ [][Next]_exchangeVars

---------------------------------------------------------------------------

(* As long as a connection works neither side gives the other up: the      *)
(* three times of the two programs leave room for the ways of an Alive and *)
(* its answer.  When it dies both sides notice, each within its time of    *)
(* silence, so that no thread of the server is left behind and the client  *)
(* is free for the next connection.                                        *)
SilenceMeansDeath ==
  /\ gaveUp = {}
  /\ \A k \in DOMAIN servers :
       dead[k] > Silence + 2 => servers[k].state = "Disconnected" /\ (k = Current => client.state = "Disconnected")
=============================================================================
