---------------------------- MODULE HandlersWindows ----------------------------
(***************************************************************************)
(* The handlers of ThreadHandler on Windows, where a device reports to an  *)
(* event object.  The array of poll() is filled by events(), which ties    *)
(* the event to the device again, writes what waits to be written, and may *)
(* read and close as well; close() and process() call it too.              *)
(*                                                                         *)
(* An operation on the object is the set of objects it may leave.  A       *)
(* condition of the device that holds when WSAEventSelect() is called is   *)
(* taken to be reported again, as process() relies on.                     *)
(***************************************************************************)
EXTENDS ThreadHandler, FiniteSets

EventNumbers == 1 .. 2
OnWindows == h.system = "Windows"

All(objects, Operation(_)) == UNION {Operation(o) : o \in objects}

(***************************************************************************)
(* Events.                                                                 *)
(***************************************************************************)
(* What needs to be written is written before the waiting.                 *)
Flushed(o) ==
  IF o.state = "Connected" /\ o.needsToWrite THEN {ReadyWrite(o, n) : n \in Written(o, 0)} ELSE {o}

(* WSAEventSelect(), SetCommMask(): what is reported.                      *)
Mask(o) ==
  IF Kind = "serial" THEN {"READ"} \cup (IF o.needsToWrite THEN {"WRITE"} ELSE {})
  ELSE (IF IsTcp THEN {"CLOSE"} ELSE {})
       \cup (IF o.state = "Connected" THEN {"READ"} \cup (IF o.needsToWrite THEN {"WRITE"} ELSE {})
             ELSE IF Kind = "tcpClient" THEN {"CONNECT"} ELSE {})

Select(o) == [o EXCEPT !.selected = {<<o.events[1], Mask(o)>>}]

(* read() of a serial port asks how many bytes there are and takes no      *)
(* more; of a port that is gone it may get none.                           *)
SerialReadyRead(o) == {ReadyRead(o)} \cup {p \in {o} : sock # "up"}

(* processEvent() with the mask that WaitCommEvent() has filled.           *)
ProcessEvent(o, mask) ==
  All(IF "READ" \in mask THEN SerialReadyRead(o) ELSE {o},
      LAMBDA r : IF "WRITE" \in mask THEN {ReadyWrite(r, n) : n \in Written(r, 1)} ELSE {r})

(* SetCommMask() fails, when the port is gone; WaitCommEvent() waits, or   *)
(* has something already.                                                  *)
SerialWaits(o) ==
  {p \in {o} : sock # "up"} \cup {Select(f) : f \in Flushed(o)}
    \cup All(Flushed(o), LAMBDA f : UNION {ProcessEvent(Select(f), mask) : mask \in SUBSET Mask(f)})

Unregistered(o) == [o EXCEPT !.events = <<>>, !.selected = {}]

(* WaitCommEvent() fails: close() calls events() again, and so on until it *)
(* does not fail.                                                          *)
SerialEvents(o) ==
  SerialWaits(o)
    \cup {p \in All(Flushed(o), LAMBDA f : {Close(Unregistered(w)) : w \in SerialWaits(f)}) : sock # "up"}

EventsOf(o) ==
  IF o.fd = INVALID \/ o.events = <<>> THEN {o}
  ELSE IF Kind = "serial" THEN SerialEvents(o)
  ELSE {Select(f) : f \in Flushed(o)}

UnregisterEvent(o) == {Unregistered(e) : e \in EventsOf(o)}

(* WSACreateEvent(), CreateEvent(): the number is not that of the old one. *)
NewEvent(o) == CHOOSE e \in EventNumbers : <<e>> # o.events

RegisterEvent(o) == {[u EXCEPT !.events = <<NewEvent(o)>>] : u \in UnregisterEvent(o)}

CloseDevice(o) == IF o.fd = INVALID THEN {Close(o)} ELSE {Close(u) : u \in UnregisterEvent(o)}

SetState(o, value) ==
  IF value = "Disconnected" /\ o.fd # INVALID THEN CloseDevice(o) ELSE {ConnectionStateChanged(o, value)}

(***************************************************************************)
(* Opening.                                                                *)
(***************************************************************************)
OpenTcp(o, outcome, d) ==
  LET c == ConnectionStateChanged(o, "Connecting")
  IN  CASE outcome = "opened" -> RegisterEvent(SetDescriptor(OfNewConnection(c), d))
        [] outcome = "failed" -> SetState(c, "Disconnected")
        [] outcome = "failedWithoutErrno" -> RegisterEvent(SetDescriptor(c, INVALID))

OpenUdp(o, outcome, d) == IF outcome = "opened" THEN RegisterEvent(SetDescriptor(OfNewConnection(o), d)) ELSE {o}

OpenSerialPort(o, outcome, d) ==
  All(CloseDevice(o), LAMBDA closed :
        LET c == ConnectionStateChanged(closed, "Connecting")
        IN  IF outcome = "opened"
            THEN All(SetState(SetDescriptor(OfNewConnection(c), d), "Connected"), RegisterEvent)
            ELSE {SetDescriptor(c, INVALID)})

OpenDevice(o, d) ==
  CASE Kind = "tcpClient" -> UNION {OpenTcp(o, outcome, d) : outcome \in OpenTcpClientSocket}
    [] Kind = "udp" -> UNION {OpenUdp(o, outcome, d) : outcome \in CreateUdpSocket}
    [] Kind = "serial" -> UNION {OpenSerialPort(o, outcome, d) : outcome \in OpenSerial}
    [] Kind = "tcpServer" -> {o}

(* The constructor of a TCP handler makes an event.                        *)
WindowsInit == InitOn("Windows", <<1>>)

(***************************************************************************)
(* The thread.                                                             *)
(***************************************************************************)
WindowsBeforeWaitOpen ==
  /\ pc = "loop" /\ pc' = "poll" /\ OpenDue
  /\ \E d \in Descriptors : \E o \in OpenDevice(h, d) :
       /\ h' = NeedsToWrite(o)
       /\ IF h'.fd = INVALID
          THEN UNCHANGED <<sock, connection>>
          ELSE /\ sock' = IF Kind = "tcpClient" THEN "connecting" ELSE "up"
               /\ connection' = connection + 1
  /\ opens' = opens + 1
  /\ UNCHANGED <<pollfd, revents, sends>>

FillPollArray ==
  /\ pc = "poll" /\ pc' = "wait"
  /\ \E o \in EventsOf(h) : Becomes(o)
  /\ UNCHANGED <<pollfd, revents, connection, opens, sends>>

(* What the system has to report of the device.  FD_CLOSE comes behind the *)
(* last data, FD_WRITE when a write did not take all and there is room.    *)
Conditions(o) ==
  (IF o.state = "Connecting" /\ sock # "connecting" THEN {"CONNECT"} ELSE {})
  \cup (IF o.inbound # <<>> THEN {"READ"} ELSE {})
  \cup (IF o.out # <<>> /\ sock \in {"up", "closed"} THEN {"WRITE"} ELSE {})
  \cup (IF sock = "reset" \/ (sock = "closed" /\ o.inbound = <<>>) THEN {"CLOSE"} ELSE {})

Reported(o) == UNION {Conditions(o) \cap selected[2] : selected \in {s \in o.selected : <<s[1]>> = o.events}}

(* WaitForMultipleObjects() and the reset of the event.                    *)
WaitEvent ==
  /\ pc = "wait" /\ pc' = "process"
  /\ revents' = IF Reported(h) = {} THEN {} ELSE {h.events[1]}
  /\ UNCHANGED <<h, pollfd, sock, connection, opens, sends>>

(* WSAEnumNetworkEvents(); an error of a connection is only reported to    *)
(* the application.                                                        *)
ProcessNetworkEvents(o, net) ==
  LET c == IF "CONNECT" \in net /\ sock # "refused" THEN ConnectionStateChanged(o, "Connected") ELSE o
      r == IF "READ" \in net THEN ReadyRead(c) ELSE c
      w == IF "WRITE" \in net THEN {ReadyWrite(r, n) : n \in Written(r, 1)} ELSE {r}
  IN  IF "CLOSE" \in net /\ sock # "reset" THEN All(w, LAMBDA o2 : SetState(o2, "Disconnected")) ELSE w

(* A socket's process() selects once more before it asks.                  *)
Processed(event) ==
  IF Kind = "serial" THEN ProcessEvent(h, Reported(h))
  ELSE All(EventsOf(h), LAMBDA o :
             IF o.events # <<event>> THEN {o} ELSE ProcessNetworkEvents(o, Reported(o)))

WindowsProcess ==
  /\ Process
  /\ IF \E event \in revents : <<event>> = h.events
     THEN \E o \in Processed(h.events[1]) : Becomes(o)
     ELSE UNCHANGED <<h, sock>>

(* The destructor of PollerBase closes the events that are left.           *)
WindowsTerminate ==
  /\ pc = "idle" /\ pc' = "ended"
  /\ \E o \in IF IsTcp \/ h.state = "Connected" THEN CloseDevice(h) ELSE {h} : Becomes(Unregistered(o))
  /\ UNCHANGED <<pollfd, revents, connection, opens, sends>>

WindowsCloseHandler ==
  /\ pc \in {"process", "idle"} /\ h.state # "Disconnected"
  /\ \E o \in CloseDevice(h) : Becomes(o)
  /\ UNCHANGED <<pc, pollfd, revents, connection, opens, sends>>

WindowsStep ==
  \/ BeforeWaitNothing \/ WindowsBeforeWaitOpen \/ FillPollArray \/ WaitEvent \/ WindowsProcess \/ Idle

WindowsNext ==
  \/ WindowsStep \/ WindowsTerminate
  \/ SendPacket \/ WindowsCloseHandler
  \/ ConnectEnds \/ PeerSend \/ PeerClose \/ PeerReset \/ TimePasses

(***************************************************************************)
(* The handlers of either system.                                          *)
(***************************************************************************)
HandlersInit == Init \/ WindowsInit
HandlersNext == (~OnWindows /\ Next) \/ (OnWindows /\ WindowsNext)

HandlersSpec == HandlersInit /\ [][HandlersNext]_handlerVars
================================================================================
