------------------------------ MODULE ThreadHandler ------------------------------
(***************************************************************************)
(* Threads/ThreadHandler with its HandlerBase: the connection of a TCP     *)
(* client or server, a UDP socket or a serial port, its descriptor, its    *)
(* buffers and its reconnection (Linux).                                   *)
(*                                                                         *)
(* The thread goes round onBeforeWaitEvents(), poll(), the handler's       *)
(* process() and idle.  Its application sends packets and closes the       *)
(* connection in callbacks, which run before process() (a message read     *)
(* from the thread's pipe) or after it.  The system connects, delivers,    *)
(* closes and resets at any time.                                          *)
(*                                                                         *)
(* The two objects are the record h.  A byte is <<connection, place in its *)
(* stream>>; a packet is two bytes.  setConnectionState(), close() and     *)
(* setDescriptor() call each other; SetConnectionState, Close and          *)
(* SetDescriptor are what each does in the end.                            *)
(***************************************************************************)
EXTENDS Integers, FiniteSets, SequencesExt

CONSTANTS
  Handlers,        \* for each system and kind of handler: what opening its
                   \* device may do (outcomes) and bounds: calls of open()
                   \* (opens), packets sent (sends), bytes from the peer of a
                   \* connection (bytes)
  PortionedKinds,  \* kinds with _portionedIO: read data are not kept in the buffer
  MaximumDataSize  \* largest datagram

Kinds == {"tcpClient", "tcpServer", "udp", "serial"}

ASSUME HandlerAssumption ==
  /\ DOMAIN Handlers \subseteq {"Linux", "Windows"}
  /\ \A system \in DOMAIN Handlers :
       /\ DOMAIN Handlers[system] \subseteq Kinds
       /\ \A kind \in DOMAIN Handlers[system] :
            Handlers[system][kind] \in [outcomes : SUBSET {"opened", "failed", "failedWithoutErrno"},
                                       opens : Nat, sends : Nat, bytes : Nat]
  /\ PortionedKinds \subseteq Kinds /\ MaximumDataSize \in Nat

VARIABLES
  pc,          \* where the thread is
  h,           \* ThreadHandler and HandlerBase
  pollfd,      \* the handler's entry in the array of Polling
  revents,     \* what poll() reported for it
  sock,        \* the system's side of the descriptor
  connection,  \* history: number of sockets opened
  opens, sends \* bound counters

handlerVars == <<pc, h, pollfd, revents, sock, connection, opens, sends>>

Kind         == h.kind
Handler      == Handlers[h.system][Kind]
OpenOutcomes == Handler.outcomes
PortionedIO  == Kind \in PortionedKinds
MaxOpens     == Handler.opens
MaxSends     == Handler.sends
MaxPeerBytes == Handler.bytes

INVALID == -1              \* INVALID_DESCRIPTOR
Descriptors == {1, 2}      \* the system gives numbers again after close()
Garbage == <<0, 0>>        \* a byte that nobody wrote
IsTcp == Kind \in {"tcpClient", "tcpServer"}

Drop(s, n) == SubSeq(s, n + 1, Len(s))

(* A server's handler is built on an accepted descriptor.                  *)
InitOn(system, tcpEvents) ==
  system \in DOMAIN Handlers /\ \E kind \in DOMAIN Handlers[system] :
    LET accepted == kind = "tcpServer"
    IN
    /\ pc = "loop" /\ opens = 0 /\ sends = 0
    /\ pollfd = [fd |-> 0, out |-> FALSE] /\ revents = {}
    /\ connection = IF accepted THEN 1 ELSE 0
    /\ sock = IF accepted THEN "up" ELSE "none"
    /\ h = [kind |-> kind, system |-> system,
            events |-> IF kind \in {"tcpClient", "tcpServer"} THEN tcpEvents ELSE <<>>, \* on Windows
            selected |-> {},               \* those that report on the device
            state |-> IF accepted THEN "Connected" ELSE "Disconnected",
            fd |-> IF accepted THEN 1 ELSE INVALID,
            needsToWrite |-> FALSE, due |-> TRUE,
            in |-> <<>>, out |-> <<>>, position |-> 0,
            inbound |-> <<>>,              \* the system's receive buffer
            peerSent |-> 0, sent |-> 0, wire |-> <<>>, packets |-> <<>>, \* history, of one connection
            last |-> IF accepted THEN "Connected" ELSE "none",
            calls |-> {}]                  \* history: callbacks that followed each other

Init == InitOn("Linux", <<>>)

(***************************************************************************)
(* Connection state.                                                       *)
(***************************************************************************)
(* Mutant of ClearBuffers: what was read of a packet is kept.              *)
ClearOutput(o) == [o EXCEPT !.out = <<>>]

(* The position of the output stream stays where it was.                   *)
ClearBuffers(o) == [o EXCEPT !.in = <<>>, !.out = <<>>]

(* _connectionState is assigned and slotOnConnectionStateChanged() runs.   *)
ConnectionStateChanged(o, value) ==
  IF value = o.state
  THEN o
  ELSE [ClearBuffers(o) EXCEPT !.state = value, !.due = IF value = "Disconnected" THEN FALSE ELSE @,
                               !.calls = @ \cup {<<o.last, value>>}, !.last = value]

(* Mutant of Close: the descriptor is closed, the state stays.             *)
CloseKeepingState(o) == [o EXCEPT !.fd = INVALID, !.inbound = <<>>]

Close(o) ==
  IF Kind # "serial" /\ o.fd = INVALID
  THEN o
  ELSE ConnectionStateChanged([o EXCEPT !.fd = INVALID, !.inbound = <<>>], "Disconnected")

SetConnectionState(o, value) ==
  IF value = "Disconnected" /\ o.fd # INVALID THEN Close(o) ELSE ConnectionStateChanged(o, value)

SetDescriptor(o, d) ==
  LET n == [o EXCEPT !.fd = d]
  IN  IF d = INVALID THEN SetConnectionState(n, "Disconnected")
      ELSE IF o.state # "Connecting" THEN SetConnectionState(n, "Connected")
      ELSE n

OfNewConnection(o) == [o EXCEPT !.inbound = <<>>, !.peerSent = 0, !.sent = 0, !.wire = <<>>, !.packets = <<>>]

(* What the calls that make a descriptor come to.  createUdpSocket() closes *)
(* a socket it cannot bind.                                                *)
OpenTcpClientSocket == OpenOutcomes
CreateUdpSocket == OpenOutcomes \cap {"opened", "failed"}
OpenSerial == OpenOutcomes \cap {"opened", "failed"}

(* openTcpClientSocket() takes errorCode from errno when getaddrinfo()     *)
(* fails, and leaves it uninitialised when it connects at once: what it    *)
(* then holds may count as a failure too.                                  *)
TcpOpen(o, outcome, d) ==
  LET c == SetConnectionState(o, "Connecting")
  IN  CASE outcome = "opened" -> SetDescriptor(OfNewConnection(c), d)
        [] outcome = "failed" -> c
        [] outcome = "failedWithoutErrno" -> SetDescriptor(c, INVALID)

UdpOpen(o, outcome, d) == IF outcome = "opened" THEN SetDescriptor(OfNewConnection(o), d) ELSE o

SerialOpen(o, outcome, d) ==
  LET c == SetConnectionState(Close(o), "Connecting")
  IN  IF outcome = "opened"
      THEN SetConnectionState(SetDescriptor(OfNewConnection(c), d), "Connected")
      ELSE SetDescriptor(c, INVALID)

(* The object after open(), which a server's handler refuses.              *)
Opened(o, d) ==
  CASE Kind = "tcpClient" -> {TcpOpen(o, outcome, d) : outcome \in OpenTcpClientSocket}
    [] Kind = "udp" -> {UdpOpen(o, outcome, d) : outcome \in CreateUdpSocket}
    [] Kind = "serial" -> {SerialOpen(o, outcome, d) : outcome \in OpenSerial}
    [] Kind = "tcpServer" -> {o}

(***************************************************************************)
(* Buffers.                                                                *)
(***************************************************************************)
(* packet->write(): at the stream's position, the buffer grown to fit.     *)
WritePacket(o) ==
  LET end == o.position + 2
      size == IF end > Len(o.out) THEN end ELSE Len(o.out)
      bytes == [i \in 1 .. size |-> IF i > o.position /\ i <= end THEN <<connection, o.sent + i - o.position>>
                                    ELSE IF i <= Len(o.out) THEN o.out[i] ELSE Garbage]
  IN  [o EXCEPT !.out = bytes, !.position = end, !.sent = @ + 2]

(* Mutant of ReadyWrite: the position is not moved with the bytes.         *)
ReadyWriteKeepingPosition(o, written) ==
  [o EXCEPT !.wire = @ \o SubSeq(o.out, 1, written), !.out = Drop(@, written)]

(* slotOnReadyToWrite(), when the system takes so many bytes.              *)
ReadyWrite(o, written) ==
  IF written = 0 THEN o
  ELSE [o EXCEPT !.wire = @ \o SubSeq(o.out, 1, written), !.out = Drop(@, written),
                 !.position = IF @ < written THEN 0
                              ELSE IF @ - written > Len(o.out) - written THEN Len(o.out) - written
                              ELSE @ - written]

(* A datagram goes whole or not at all.                                    *)
UdpWritten(o, least) ==
  IF Len(o.out) > MaximumDataSize THEN {0}
  ELSE IF least = 0 THEN {0, Len(o.out)} ELSE {Len(o.out)}

(* On Windows a serial port's write() waits until all is written, or the   *)
(* port is gone.                                                           *)
SerialWritten(o) == IF sock = "up" THEN {Len(o.out)} ELSE 0 .. Len(o.out)

Written(o, least) ==
  CASE Kind = "udp" -> UdpWritten(o, least)
    [] Kind = "serial" /\ h.system = "Windows" -> SerialWritten(o)
    [] OTHER -> {n \in 0 .. Len(o.out) : o.out # <<>> => n >= least}

(* slotOnReadyToRead(): all there is, and the packets that are complete.   *)
ReadyRead(o) ==
  IF o.state = "Disconnected" THEN o
  ELSE LET bytes == IF PortionedIO THEN <<>> ELSE o.in \o o.inbound
           whole == Len(bytes) \div 2
       IN  [o EXCEPT !.packets = @ \o [k \in 1 .. whole |-> SubSeq(bytes, 2 * k - 1, 2 * k)],
                     !.in = Drop(bytes, 2 * whole),
                     !.inbound = <<>>]

(***************************************************************************)
(* The thread.                                                             *)
(***************************************************************************)
(* The system's side of a step that takes the object to n.                 *)
Becomes(n) ==
  /\ h' = n
  /\ sock' = IF n.fd = INVALID THEN "none" ELSE sock

(* Mutant of NeedsToWrite: room to write is never waited for.              *)
NeedsToWriteNever(o) == o

NeedsToWrite(o) == IF o.state # "Disconnected" THEN [o EXCEPT !.needsToWrite = o.out # <<>>] ELSE o

(* Mutant of OpenDue: only one try.                                        *)
OpenDueOnce == h.state = "Disconnected" /\ h.due /\ opens = 0

OpenDue == h.state = "Disconnected" /\ h.due /\ opens < MaxOpens

BeforeWaitNothing ==
  /\ pc = "loop" /\ pc' = "poll" /\ ~OpenDue
  /\ Becomes(NeedsToWrite(h))
  /\ UNCHANGED <<pollfd, revents, connection, opens, sends>>

BeforeWaitOpen ==
  /\ pc = "loop" /\ pc' = "poll" /\ OpenDue
  /\ \E d \in Descriptors : \E o \in Opened(h, d) :
       /\ h' = NeedsToWrite(o)
       /\ IF h'.fd = INVALID
          THEN UNCHANGED <<sock, connection>>
          ELSE /\ sock' = IF Kind = "tcpClient" THEN "connecting" ELSE "up"
               /\ connection' = connection + 1
  /\ opens' = opens + 1
  /\ UNCHANGED <<pollfd, revents, sends>>

(* assign(): a handler that is not connected leaves its entry as it was.   *)
Assign ==
  IF h.state = "Disconnected" \/ (Kind = "udp" /\ h.state # "Connected")
  THEN pollfd
  ELSE [fd |-> h.fd, out |-> h.needsToWrite \/ (IsTcp /\ h.state = "Connecting")]

(* What the system reports for the handler's own descriptor.               *)
OwnEvents(entry) ==
  (IF sock \in {"refused", "reset"} THEN {"ERR"} ELSE {})
  \cup (IF sock \in {"refused", "reset"} /\ Kind # "udp" THEN {"HUP"} ELSE {})
  \cup (IF sock = "closed" THEN {"HUP"} ELSE {})
  \cup (IF h.inbound # <<>> \/ sock = "closed" THEN {"IN"} ELSE {})
  \cup (IF entry.out /\ sock \in {"up", "closed", "refused"} THEN {"OUT"} ELSE {})

(* poll() of an entry that is not the handler's own: closed, or another's. *)
ForeignEvents == {{}, {"ERR"}, {"IN", "HUP"}}

Poll ==
  /\ pc = "poll" /\ pc' = "process"
  /\ pollfd' = Assign
  /\ IF pollfd'.fd = INVALID THEN revents' = {}
     ELSE IF pollfd'.fd = h.fd THEN revents' = OwnEvents(pollfd')
     ELSE revents' \in ForeignEvents
  /\ UNCHANGED <<h, sock, connection, opens, sends>>

IsOwnEvent ==
  /\ revents # {} /\ pollfd.fd = h.fd
  /\ Kind # "serial" => h.state # "Disconnected"

AfterError == IF "ERR" \in revents THEN Close(h) ELSE h

(* getsockopt(SO_ERROR) tells how a deferred connect ended.                *)
Connected(o) ==
  IF "OUT" \in revents /\ o.state = "Connecting" THEN SetConnectionState(o, "Connected") ELSE o

Process == pc = "process" /\ pc' = "idle" /\ revents' = {} /\ UNCHANGED <<pollfd, connection, opens, sends>>

ProcessForeign == Process /\ ~IsOwnEvent /\ UNCHANGED <<h, sock>>

(* The peer has closed; what it sent is read first.                        *)
ProcessHangUp ==
  /\ Process /\ IsOwnEvent /\ IsTcp /\ "HUP" \in revents
  /\ Becomes(Close(ReadyRead(AfterError)))

ProcessSocket ==
  /\ Process /\ IsOwnEvent /\ IsTcp /\ "HUP" \notin revents
  /\ LET o == Connected(AfterError)
     IN  \E written \in Written(o, 1) :
           LET w == IF "OUT" \in revents THEN ReadyWrite(o, written) ELSE o
           IN  Becomes(IF "IN" \in revents THEN ReadyRead(w) ELSE w)

(* A UDP socket is never connecting.                                       *)
ProcessUdp ==
  /\ Process /\ IsOwnEvent /\ Kind = "udp"
  /\ LET o == AfterError
     IN  \E written \in Written(o, 1) :
           LET w == IF "OUT" \in revents THEN ReadyWrite(o, written) ELSE o
           IN  Becomes(IF "HUP" \in revents THEN Close(ReadyRead(o))
                       ELSE IF "IN" \in revents THEN ReadyRead(w)
                       ELSE w)

ProcessSerial ==
  /\ Process /\ IsOwnEvent /\ Kind = "serial"
  /\ LET o == IF "HUP" \in revents THEN Close(AfterError) ELSE AfterError
         r == IF "IN" \in revents THEN ReadyRead(o) ELSE o
     IN  IF o.state = "Disconnected" THEN Becomes(o)
         ELSE \E written \in Written(r, 1) :
                Becomes(IF "OUT" \in revents THEN ReadyWrite(Connected(r), written) ELSE r)

Idle == pc = "idle" /\ pc' = "loop" /\ UNCHANGED <<h, pollfd, revents, sock, connection, opens, sends>>

(* terminateChildThreads() closes a connected handler; of the destructors  *)
(* only that of HandlerTcpSocket closes one that is not.                   *)
Terminate ==
  /\ pc = "idle" /\ pc' = "ended"
  /\ Becomes(IF IsTcp \/ h.state = "Connected" THEN Close(h) ELSE h)
  /\ UNCHANGED <<pollfd, revents, connection, opens, sends>>

(***************************************************************************)
(* Callbacks of the application.                                           *)
(***************************************************************************)
SendPacket ==
  /\ pc \in {"process", "idle"} /\ sends < MaxSends
  /\ h.state = "Connected"
  /\ \E written \in Written(WritePacket(h), 0) : Becomes(ReadyWrite(WritePacket(h), written))
  /\ sends' = sends + 1
  /\ UNCHANGED <<pc, pollfd, revents, connection, opens>>

CloseHandler ==
  /\ pc \in {"process", "idle"} /\ h.state # "Disconnected"
  /\ Becomes(Close(h))
  /\ UNCHANGED <<pc, pollfd, revents, connection, opens, sends>>

(***************************************************************************)
(* The system, the peer and the clock.                                     *)
(***************************************************************************)
SocketBecomes(from, to) ==
  /\ sock = from /\ sock' = to
  /\ UNCHANGED <<pc, h, pollfd, revents, connection, opens, sends>>

ConnectEnds == SocketBecomes("connecting", "up") \/ SocketBecomes("connecting", "refused")

PeerSend ==
  /\ sock = "up" /\ h.peerSent < MaxPeerBytes
  /\ h' = [h EXCEPT !.inbound = Append(@, <<connection, h.peerSent + 1>>), !.peerSent = @ + 1]
  /\ UNCHANGED <<pc, pollfd, revents, sock, connection, opens, sends>>

PeerClose == Kind # "udp" /\ SocketBecomes("up", "closed")

PeerReset == SocketBecomes("up", "reset")

TimePasses ==
  /\ ~h.due /\ h' = [h EXCEPT !.due = TRUE]
  /\ UNCHANGED <<pc, pollfd, revents, sock, connection, opens, sends>>

ThreadStep ==
  \/ BeforeWaitNothing \/ BeforeWaitOpen \/ Poll
  \/ ProcessForeign \/ ProcessHangUp \/ ProcessSocket \/ ProcessUdp \/ ProcessSerial \/ Idle

Next ==
  \/ ThreadStep \/ Terminate
  \/ SendPacket \/ CloseHandler
  \/ ConnectEnds \/ PeerSend \/ PeerClose \/ PeerReset \/ TimePasses

Spec == Init /\ [][Next]_handlerVars

(***************************************************************************)
(* Properties.                                                             *)
(***************************************************************************)

(* The callbacks that may follow each other.                               *)
CallsInOrder ==
  {<<"none", "Connecting">>, <<"none", "Connected">>,
   <<"Connecting", "Connected">>, <<"Connecting", "Disconnected">>, <<"Connected", "Disconnected">>,
   <<"Disconnected", "Connecting">>, <<"Disconnected", "Connected">>}

(* A connected handler has a descriptor, a disconnected one has none, and  *)
(* a thread that has ended leaves none: the calls of setConnectionState(), *)
(* close() and setDescriptor() to each other end in a consistent state, on *)
(* every path of open(), process() and terminateChildThreads().  An open   *)
(* device has an event where it needs one, and a closed one has none that  *)
(* it reports to.  The application is told of every change once, and in an *)
(* order it can follow (onConnecting(), onConnected(), onDisconnected()).  *)
StateMatchesDescriptor ==
  /\ h.state = "Connected" => h.fd # INVALID
  /\ h.state = "Disconnected" => h.fd = INVALID /\ h.out = <<>> /\ h.in = <<>>
  /\ (h.fd = INVALID) = (sock = "none")
  /\ pc = "ended" => h.fd = INVALID /\ h.events = <<>>
  /\ h.fd = INVALID => h.selected = {}
  /\ h.system = "Windows" /\ h.fd # INVALID /\ pc \in {"poll", "wait"} => h.events # <<>>
  /\ h.calls \subseteq CallsInOrder

(* Behind some bytes that nobody wrote, those that were sent.              *)
BytesInOrder(o, c) ==
  LET all == o.wire \o o.out
  IN  \E garbage \in 0 .. Len(all) :
        /\ \A i \in 1 .. Len(all) : all[i] = IF i <= garbage THEN Garbage ELSE <<c, i - garbage>>
        /\ o.state = "Connected" => Len(all) = garbage + o.sent

(* What goes out on a connection are the packets sent on it, whole, in     *)
(* order and none of another connection, behind at most some bytes that    *)
(* nobody wrote; partial writes and the moved stream position keep it so.  *)
WireInOrder == BytesInOrder(h, connection)

(* The k-th packet of connection c.                                        *)
BytesOfPackets(o, c) ==
  \A k \in 1 .. Len(o.packets) : o.packets[k] = <<<<c, 2 * k - 1>>, <<c, 2 * k>>>>

(* Packets given to the application are made of bytes of one connection,   *)
(* in order: nothing of an earlier connection is left in the input buffer. *)
PacketsWhole == BytesOfPackets(h, connection)

(***************************************************************************)
(* The inductive invariant.                                                *)
(***************************************************************************)
States == {"Disconnected", "Connecting", "Connected"}

Byte       == Nat \X Nat
Bytes      == Seq(Byte)
Selections == SUBSET (Nat \X SUBSET {"READ", "WRITE", "CLOSE", "CONNECT"})
Calls      == SUBSET ((States \cup {"none"}) \X States)

Objects ==
  [kind : Kinds, system : {"Linux", "Windows"}, state : States, last : States \cup {"none"},
   fd : Descriptors \cup {INVALID}, events : Seq(Nat), selected : Selections,
   needsToWrite : BOOLEAN, due : BOOLEAN, position : Nat, peerSent : Nat, sent : Nat,
   in : Bytes, out : Bytes, inbound : Bytes, wire : Bytes, packets : Seq(Bytes), calls : Calls]

TypeOK ==
  /\ pc \in {"loop", "poll", "wait", "process", "idle", "ended"}
  /\ h \in Objects /\ h.system \in DOMAIN Handlers /\ Kind \in DOMAIN Handlers[h.system]
  /\ h.system = "Linux" /\ pollfd.fd = INVALID => revents = {}
  /\ sock \in {"none", "connecting", "up", "refused", "closed", "reset"}
  /\ connection \in Nat /\ opens \in Nat /\ sends \in Nat

(* State, descriptor and callbacks of an object.                           *)
StateOK(o) ==
  /\ o.state = "Connected" => o.fd # INVALID
  /\ o.state = "Disconnected" => o.fd = INVALID /\ o.in = <<>> /\ o.out = <<>>
  /\ o.state = "Connecting" => o.kind = "tcpClient"
  /\ o.fd = INVALID => o.inbound = <<>>
  /\ o.last = o.state \/ (o.last = "none" /\ o.state = "Disconnected")
  /\ o.calls \subseteq CallsInOrder

(* The stream's position is behind what was written on a connection, and   *)
(* anywhere before.                                                        *)
OutputOK(o, c) ==
  /\ BytesInOrder(o, c)
  /\ o.state = "Connected" /\ o.sent # 0 => o.position = Len(o.out)
  /\ o.sent = 0 => o.wire = <<>> /\ o.out = <<>>

(* What was read and what has arrived follow the packets.                  *)
InputOK(o, c) ==
  /\ BytesOfPackets(o, c)
  /\ o.fd # INVALID /\ o.kind \in PortionedKinds => o.in = <<>> /\ o.packets = <<>>
  /\ o.fd # INVALID /\ o.kind \notin PortionedKinds =>
       /\ o.peerSent = 2 * Len(o.packets) + Len(o.in \o o.inbound)
       /\ \A i \in 1 .. Len(o.in \o o.inbound) : (o.in \o o.inbound)[i] = <<c, 2 * Len(o.packets) + i>>

(* Nothing has gone either way on a connection that is not made yet.       *)
ConnectingOK(o) ==
  o.state = "Connecting" =>
    /\ o.in = <<>> /\ o.out = <<>>
    /\ o.fd # INVALID => o.sent = 0

(* The events of a device, on Windows.                                     *)
EventsOK(o) ==
  /\ o.fd = INVALID => o.selected = {}
  /\ o.system = "Windows" /\ o.fd # INVALID => o.events # <<>>
  /\ o.system = "Linux" => o.events = <<>> /\ o.selected = {}
  /\ o.kind = "serial" /\ o.fd = INVALID => o.events = <<>>

BuffersOK(o, c) == StateOK(o) /\ OutputOK(o, c) /\ InputOK(o, c)

(* The device.  What is read is read by a handler that has seen that it is *)
(* connected, or sees it in the same process().                            *)
DeviceOK ==
  /\ (h.fd = INVALID) = (sock = "none")
  /\ sock \in {"connecting", "refused"} => h.inbound = <<>>
  /\ h.system = "Linux" /\ pc = "process" /\ pollfd.fd = h.fd /\ h.state = "Connecting"
       /\ "IN" \in revents /\ "HUP" \notin revents => "OUT" \in revents
  /\ pc = "ended" => h.fd = INVALID /\ h.events = <<>>

IInv == TypeOK /\ BuffersOK(h, connection) /\ ConnectingOK(h) /\ EventsOK(h) /\ DeviceOK

(* An open() of a TCP client that fails at once leaves it Connecting       *)
(* without a descriptor, and onBeforeWaitEvents() does not open it again.  *)
(* On Windows an error of a connection does not end it: a refused one      *)
(* stays Connecting, one that was reset Connected, and so does a serial    *)
(* port that is gone.                                                      *)
IgnoresError ==
  h.system = "Windows" /\ (sock \in {"refused", "reset"} \/ (Kind = "serial" /\ sock = "closed"))
Stuck == h.state = "Connecting" /\ (h.fd = INVALID \/ IgnoresError)

(* As long as it may try, a handler whose connection is lost or could not  *)
(* be opened connects again, unless it is stuck (onBeforeWaitEvents()).    *)
Reconnects ==
  (h.state # "Connected") ~> (h.state = "Connected" \/ Stuck \/ opens = MaxOpens \/ pc = "ended")

(* What was sent does not stay in the output buffer: it goes out, or the   *)
(* connection ends (setNeedsToWrite(), POLLOUT and slotOnReadyToWrite()).  *)
OutputDrains == (h.out # <<>>) ~> (h.out = <<>> \/ pc = "ended" \/ IgnoresError)
================================================================================
