-------------------------- MODULE ThreadHandlerProofs --------------------------
(***************************************************************************)
(* Theorems about ThreadHandler and HandlersWindows, for every kind of     *)
(* handler, any number of calls, packets and bytes, and any outcome of     *)
(* opening the device.                                                     *)
(***************************************************************************)
EXTENDS HandlersWindows, TLAPS

(* The empty sequence is one of bytes, and one of packets.                 *)
LEMMA NoBytes == <<>> \in Bytes /\ <<>> \in Seq(Bytes)
BY DEF Bytes

(* An object stays one when a field is given a value of its set.           *)
LEMMA BuffersOfObject ==
  ASSUME NEW o \in Objects
  PROVE  /\ \A v \in Bytes : [o EXCEPT !.in = v] \in Objects
         /\ \A v \in Bytes : [o EXCEPT !.out = v] \in Objects
         /\ \A v \in Bytes : [o EXCEPT !.inbound = v] \in Objects
         /\ \A v \in Bytes : [o EXCEPT !.wire = v] \in Objects
         /\ \A v \in Seq(Bytes) : [o EXCEPT !.packets = v] \in Objects
BY DEF Objects

(* The same of the fields that are not buffers.                            *)
LEMMA FieldsOfObject ==
  ASSUME NEW o \in Objects
  PROVE  /\ \A v \in States : [o EXCEPT !.state = v] \in Objects /\ [o EXCEPT !.last = v] \in Objects
         /\ \A v \in Calls : [o EXCEPT !.calls = v] \in Objects
         /\ \A v \in Nat : /\ [o EXCEPT !.position = v] \in Objects
                           /\ [o EXCEPT !.peerSent = v] \in Objects /\ [o EXCEPT !.sent = v] \in Objects
         /\ \A v \in Descriptors \cup {INVALID} : [o EXCEPT !.fd = v] \in Objects
         /\ \A v \in BOOLEAN : [o EXCEPT !.due = v] \in Objects /\ [o EXCEPT !.needsToWrite = v] \in Objects
         /\ \A v \in Seq(Nat) : [o EXCEPT !.events = v] \in Objects
         /\ \A v \in Selections : [o EXCEPT !.selected = v] \in Objects
BY DEF Objects

(* What an operation on the state leaves alone.                            *)
SameDevice(n, o) ==
  /\ n.kind = o.kind /\ n.system = o.system /\ n.events = o.events /\ n.selected = o.selected
  /\ n.wire = o.wire /\ n.position = o.position /\ n.packets = o.packets
  /\ n.peerSent = o.peerSent /\ n.sent = o.sent

(* What ConnectionStateChanged() does.                                     *)
LEMMA StateChanged ==
  ASSUME NEW o \in Objects, NEW value \in States
  PROVE  LET n == ConnectionStateChanged(o, value)
         IN  /\ n \in Objects /\ n.state = value
             /\ SameDevice(n, o) /\ n.fd = o.fd /\ n.inbound = o.inbound
             /\ value = o.state => n.in = o.in /\ n.out = o.out /\ n.last = o.last /\ n.calls = o.calls
             /\ value # o.state => /\ n.in = <<>> /\ n.out = <<>> /\ n.last = value
                                   /\ n.calls = o.calls \cup {<<o.last, value>>}
<1>1. CASE value = o.state
  BY <1>1 DEF ConnectionStateChanged, SameDevice
<1>2. CASE value # o.state
  <2>1. o.last \in States \cup {"none"} /\ o.calls \in Calls /\ o.due \in BOOLEAN
    BY DEF Objects
  <2>2. PICK calls \in Calls : calls = o.calls \cup {<<o.last, value>>}
    <3>1. \A c \in Calls : \A a \in States \cup {"none"}, b \in States : c \cup {<<a, b>>} \in Calls
      BY DEF Calls
    <3>2. QED
      BY <2>1, <3>1
  <2>3. PICK due \in BOOLEAN : due = IF value = "Disconnected" THEN FALSE ELSE o.due
    BY <2>1
  <2>4. ConnectionStateChanged(o, value) =
          [o EXCEPT !.in = <<>>, !.out = <<>>, !.state = value, !.due = due, !.calls = calls, !.last = value]
    <3>1. ClearBuffers(o).calls = o.calls /\ ClearBuffers(o).due = o.due /\ ClearBuffers(o).last = o.last
      BY DEF ClearBuffers, Objects
    <3>2. QED
      BY <1>2, <2>2, <2>3, <3>1 DEF ConnectionStateChanged, ClearBuffers
  <2>5. ConnectionStateChanged(o, value) \in Objects
    <3>1. [o EXCEPT !.in = <<>>, !.out = <<>>, !.state = value, !.due = due, !.calls = calls, !.last = value]
            \in Objects
      BY BuffersOfObject, FieldsOfObject, NoBytes
    <3>2. QED
      BY <2>4, <3>1
  <2>6. QED
    BY <1>2, <2>2, <2>4, <2>5 DEF SameDevice, Objects
<1>3. QED
  BY <1>1, <1>2

(* close() forgets the descriptor and what the system had received.        *)
LEMMA DeviceClosed ==
  ASSUME NEW o \in Objects
  PROVE  LET n == [o EXCEPT !.fd = INVALID, !.inbound = <<>>]
         IN  /\ n \in Objects /\ n.fd = INVALID /\ n.inbound = <<>>
             /\ SameDevice(n, o) /\ n.state = o.state /\ n.in = o.in /\ n.out = o.out
             /\ n.last = o.last /\ n.calls = o.calls
<1>1. [o EXCEPT !.fd = INVALID, !.inbound = <<>>] \in Objects
  BY BuffersOfObject, FieldsOfObject, NoBytes
<1>2. QED
  BY <1>1 DEF Objects, SameDevice

(* A new device has sent and received nothing.                             *)
LEMMA NewConnection ==
  ASSUME NEW o \in Objects, NEW d \in Descriptors
  PROVE  LET n == [OfNewConnection(o) EXCEPT !.fd = d]
         IN  /\ n \in Objects /\ n.fd = d /\ d # INVALID /\ n.inbound = <<>>
             /\ n.kind = o.kind /\ n.system = o.system /\ n.events = o.events /\ n.selected = o.selected
             /\ n.peerSent = 0 /\ n.sent = 0 /\ n.wire = <<>> /\ n.packets = <<>>
             /\ n.state = o.state /\ n.in = o.in /\ n.out = o.out
             /\ n.last = o.last /\ n.calls = o.calls
<1>1. [OfNewConnection(o) EXCEPT !.fd = d] \in Objects
  BY BuffersOfObject, FieldsOfObject, NoBytes DEF OfNewConnection
<1>2. d # INVALID
  BY DEF Descriptors, INVALID
<1>3. QED
  BY <1>1, <1>2 DEF Objects, OfNewConnection

-----------------------------------------------------------------------------
(* What the buffers depend on, one direction at a time.                    *)
LEMMA OutputSame ==
  ASSUME NEW o, NEW n, NEW c, OutputOK(o, c), n.wire = o.wire, n.out = o.out,
         n.state = o.state, n.sent = o.sent, n.position = o.position
  PROVE  OutputOK(n, c)
BY DEF OutputOK, BytesInOrder

(* Nothing was sent on a connection that has just been made.               *)
LEMMA OutputNone ==
  ASSUME NEW n, NEW c, n.wire = <<>>, n.out = <<>>, n.sent = 0
  PROVE  OutputOK(n, c)
<1>1. n.wire \o n.out = <<>> /\ Len(n.wire \o n.out) = 0
  OBVIOUS
<1>2. BytesInOrder(n, c)
  BY <1>1 DEF BytesInOrder
<1>3. QED
  BY <1>2 DEF OutputOK

(* What has gone out of a connection that is closed stays in order.        *)
LEMMA OutputCut ==
  ASSUME NEW o \in Objects, NEW n, NEW c, OutputOK(o, c),
         n.wire = o.wire, n.out = <<>>, n.sent = o.sent, n.state # "Connected"
  PROVE  OutputOK(n, c)
<1>1. o.wire \in Bytes /\ o.out \in Bytes
  BY DEF Objects
<1>2. \A w \in Bytes : w \o <<>> = w
  BY DEF Bytes
<1>3. \A w, b \in Bytes : \A i \in 1 .. Len(w) : i \in 1 .. Len(w \o b) /\ (w \o b)[i] = w[i]
  BY DEF Bytes
<1>4. PICK garbage \in 0 .. Len(o.wire \o o.out) :
        \A i \in 1 .. Len(o.wire \o o.out) :
          (o.wire \o o.out)[i] = IF i <= garbage THEN Garbage ELSE <<c, i - garbage>>
  BY DEF OutputOK, BytesInOrder
<1>5. PICK size \in Nat : size = Len(o.wire)
  BY <1>1 DEF Bytes
<1>6. PICK g \in 0 .. size : \A i \in 1 .. size : (i <= g <=> i <= garbage) /\ (i > g => g = garbage)
  <2>1. garbage \in Nat
    BY <1>1 DEF Bytes
  <2>2. CASE garbage <= size
    <3>1. garbage \in 0 .. size
      BY <2>1, <2>2
    <3>2. QED
      BY <3>1
  <2>3. CASE ~(garbage <= size)
    <3>1. size \in 0 .. size /\ \A i \in 1 .. size : i <= size /\ i <= garbage /\ ~(i > size)
      BY <2>1, <2>3
    <3>2. QED
      BY <3>1
  <2>4. QED
    BY <2>2, <2>3
<1>7. \A i \in 1 .. Len(o.wire) : o.wire[i] = IF i <= g THEN Garbage ELSE <<c, i - g>>
  <2>1. SUFFICES ASSUME NEW i \in 1 .. Len(o.wire)
                 PROVE  o.wire[i] = IF i <= g THEN Garbage ELSE <<c, i - g>>
    OBVIOUS
  <2>2. o.wire[i] = IF i <= garbage THEN Garbage ELSE <<c, i - garbage>>
    BY <1>1, <1>3, <1>4
  <2>3. i \in 1 .. size /\ i \in Nat /\ g \in Nat
    BY <1>5
  <2>4. (i <= g <=> i <= garbage) /\ (i > g => g = garbage)
    BY <1>6, <2>3
  <2>5. CASE i <= g
    BY <2>2, <2>4, <2>5
  <2>6. CASE ~(i <= g)
    BY <2>2, <2>3, <2>4, <2>6
  <2>7. QED
    BY <2>5, <2>6
<1>8. BytesInOrder(n, c)
  BY <1>1, <1>2, <1>5, <1>7 DEF BytesInOrder
<1>9. QED
  BY <1>8 DEF OutputOK

(* What was read stays in order while nothing of it changes.               *)
LEMMA InputSame ==
  ASSUME NEW o, NEW n, NEW c, InputOK(o, c), n.kind = o.kind, n.fd = o.fd, n.packets = o.packets,
         n.in = o.in, n.inbound = o.inbound, n.peerSent = o.peerSent
  PROVE  InputOK(n, c)
BY DEF InputOK, BytesOfPackets

(* Nothing was read on a connection that has just been made.               *)
LEMMA InputNone ==
  ASSUME NEW n, NEW c, n.packets = <<>>, n.in = <<>>, n.inbound = <<>>, n.peerSent = 0
  PROVE  InputOK(n, c)
<1>1. n.in \o n.inbound = <<>>
  OBVIOUS
<1>2. QED
  BY <1>1 DEF InputOK, BytesOfPackets

(* When the device is closed only the packets are left.                    *)
LEMMA InputCut ==
  ASSUME NEW o, NEW n, NEW c, InputOK(o, c), n.packets = o.packets, n.fd = INVALID
  PROVE  InputOK(n, c)
BY DEF InputOK, BytesOfPackets

-----------------------------------------------------------------------------
(* An object of the handler that is in order, on connection c.             *)
GoodObject(o, c) ==
  o \in Objects /\ o.kind = Kind /\ o.system = h.system /\ BuffersOK(o, c) /\ ConnectingOK(o)

SameEvents(n, o) == n.events = o.events /\ n.selected = o.selected

(* setConnectionState(), on the way to a state that may follow.            *)
LEMMA StateFollows ==
  ASSUME NEW o \in Objects, NEW value \in States, value # o.state,
         o.last = o.state \/ (o.last = "none" /\ o.state = "Disconnected"),
         o.calls \subseteq CallsInOrder,
         <<o.state, value>> \in {<<"Disconnected", "Connecting">>, <<"Disconnected", "Connected">>,
                                 <<"Connecting", "Connected">>, <<"Connecting", "Disconnected">>,
                                 <<"Connected", "Disconnected">>}
  PROVE  LET n == ConnectionStateChanged(o, value)
         IN  n.last = n.state /\ n.calls \subseteq CallsInOrder
<1>1. <<o.last, value>> \in CallsInOrder
  BY DEF CallsInOrder
<1>2. QED
  BY <1>1, StateChanged

(* Close() of an object that has a connection, or none.                    *)
LEMMA CloseKeeps ==
  ASSUME NEW c, NEW o \in Objects, o.kind = Kind, o.system = h.system, BuffersOK(o, c)
  PROVE  LET n == Close(o)
         IN  /\ n \in Objects /\ n.kind = Kind /\ n.system = h.system /\ BuffersOK(n, c)
             /\ n.fd = INVALID /\ n.inbound = <<>> /\ SameEvents(n, o)
             /\ n = o \/ n.state = "Disconnected"
<1> DEFINE closed == [o EXCEPT !.fd = INVALID, !.inbound = <<>>]
           n == ConnectionStateChanged(closed, "Disconnected")
<1>1. CASE Kind # "serial" /\ o.fd = INVALID
  BY <1>1 DEF Close, BuffersOK, StateOK, SameEvents
<1>2. CASE ~(Kind # "serial" /\ o.fd = INVALID)
  <2>1. /\ closed \in Objects /\ closed.fd = INVALID /\ closed.inbound = <<>> /\ SameDevice(closed, o)
        /\ closed.state = o.state /\ closed.in = o.in /\ closed.out = o.out
        /\ closed.last = o.last /\ closed.calls = o.calls
    BY DeviceClosed
  <2>2. "Disconnected" \in States
    BY DEF States
  <2> HIDE DEF closed
  <2>3. /\ n \in Objects /\ n.state = "Disconnected" /\ SameDevice(n, closed)
        /\ n.fd = INVALID /\ n.inbound = <<>>
    BY <2>1, <2>2, StateChanged
  <2>4. n.in = <<>> /\ n.out = <<>> /\ n.last \in {"Disconnected", "none"} /\ n.calls \subseteq CallsInOrder
    <3>1. StateOK(o) /\ o.state \in States
      BY DEF BuffersOK, Objects
    <3>2. CASE o.state = "Disconnected"
      BY <2>1, <2>2, <3>1, <3>2, StateChanged DEF StateOK
    <3>3. CASE o.state # "Disconnected"
      <4>1. n.in = <<>> /\ n.out = <<>>
        BY <2>1, <2>2, <3>3, StateChanged
      <4>2. n.last = n.state /\ n.calls \subseteq CallsInOrder
        BY <2>1, <2>2, <3>1, <3>3, StateFollows DEF StateOK, States
      <4>3. QED
        BY <2>3, <4>1, <4>2
    <3>4. QED
      BY <3>2, <3>3
  <2>5. n.kind = o.kind /\ n.system = o.system /\ SameEvents(n, o) /\ n.wire = o.wire /\ n.sent = o.sent /\ n.packets = o.packets
    BY <2>1, <2>3 DEF SameDevice, SameEvents
  <2> HIDE DEF n
  <2>6. StateOK(n)
    BY <2>3, <2>4 DEF StateOK
  <2>7. OutputOK(n, c) /\ InputOK(n, c)
    BY <2>3, <2>4, <2>5, OutputCut, InputCut DEF BuffersOK
  <2>8. n = Close(o)
    BY <1>2 DEF Close, n, closed
  <2>9. QED
    BY <2>3, <2>5, <2>6, <2>7, <2>8 DEF BuffersOK
<1>3. QED
  BY <1>1, <1>2

(* The state becomes Connected, of an object that is to have a new one.    *)
LEMMA ConnectKeeps ==
  ASSUME NEW c, NEW o \in Objects, o.kind = Kind, o.system = h.system, o.fd # INVALID,
         o.state \in {"Disconnected", "Connecting"}, o.sent = 0, o.wire = <<>>,
         o.last = o.state \/ (o.last = "none" /\ o.state = "Disconnected"),
         o.calls \subseteq CallsInOrder, o.in = <<>>, InputOK(o, c)
  PROVE  LET n == ConnectionStateChanged(o, "Connected")
         IN  GoodObject(n, c) /\ n.state = "Connected" /\ n.fd = o.fd /\ n.inbound = o.inbound /\ SameEvents(n, o)
<1> DEFINE n == ConnectionStateChanged(o, "Connected")
<1>1. "Connected" \in States /\ o.state # "Connected"
  BY DEF States
<1>2. /\ n \in Objects /\ n.state = "Connected" /\ SameDevice(n, o) /\ n.fd = o.fd /\ n.inbound = o.inbound
      /\ n.in = <<>> /\ n.out = <<>>
  BY <1>1, StateChanged
<1>3. n.last = n.state /\ n.calls \subseteq CallsInOrder
  BY <1>1, StateFollows
<1> HIDE DEF n
<1>4. /\ n.kind = o.kind /\ n.system = o.system /\ SameEvents(n, o) /\ n.wire = <<>> /\ n.sent = 0
      /\ n.packets = o.packets /\ n.peerSent = o.peerSent
  BY <1>2 DEF SameDevice, SameEvents
<1>5. OutputOK(n, c) /\ InputOK(n, c)
  BY <1>2, <1>4, OutputNone, InputSame
<1>6. StateOK(n) /\ ConnectingOK(n)
  BY <1>2, <1>3 DEF StateOK, ConnectingOK
<1>7. QED
  BY <1>2, <1>4, <1>5, <1>6 DEF GoodObject, BuffersOK, n

-----------------------------------------------------------------------------
(* Opening a device: the objects that are left are in order, on the new    *)
(* connection when they have a descriptor and on the old one when they     *)
(* have none.                                                              *)
Reopened(n, o) ==
  /\ n.fd # INVALID => GoodObject(n, connection + 1) /\ n.inbound = <<>>
  /\ n.fd = INVALID => GoodObject(n, connection)
  /\ SameEvents(n, o)

(* onConnecting(), and no device yet.                                      *)
LEMMA ConnectingStarts ==
  ASSUME NEW o, GoodObject(o, connection), o.state = "Disconnected"
  PROVE  LET n == ConnectionStateChanged(o, "Connecting")
         IN  /\ n \in Objects /\ n.kind = Kind /\ n.system = h.system /\ SameEvents(n, o)
             /\ n.fd = INVALID /\ n.state = "Connecting" /\ n.inbound = <<>> /\ n.in = <<>> /\ n.out = <<>>
             /\ n.last = "Connecting" /\ n.calls \subseteq CallsInOrder
             /\ OutputOK(n, connection) /\ InputOK(n, connection)
             /\ Kind = "tcpClient" => GoodObject(n, connection)
<1> DEFINE n == ConnectionStateChanged(o, "Connecting")
<1>1. "Connecting" \in States /\ o \in Objects /\ StateOK(o) /\ OutputOK(o, connection) /\ InputOK(o, connection)
  BY DEF States, GoodObject, BuffersOK
<1>2. /\ n \in Objects /\ n.state = "Connecting" /\ SameDevice(n, o) /\ n.fd = o.fd /\ n.inbound = o.inbound
      /\ n.in = <<>> /\ n.out = <<>>
  BY <1>1, StateChanged
<1>3. n.last = n.state /\ n.calls \subseteq CallsInOrder
  BY <1>1, StateFollows DEF StateOK
<1>4. o.fd = INVALID /\ o.inbound = <<>>
  BY <1>1 DEF StateOK
<1> HIDE DEF n
<1>5. /\ n.kind = Kind /\ n.system = h.system /\ SameEvents(n, o) /\ n.wire = o.wire /\ n.sent = o.sent
      /\ n.packets = o.packets
  BY <1>2 DEF SameDevice, SameEvents, GoodObject
<1>6. OutputOK(n, connection) /\ InputOK(n, connection)
  BY <1>1, <1>2, <1>4, <1>5, OutputCut, InputCut
<1>7. Kind = "tcpClient" => StateOK(n) /\ ConnectingOK(n)
  BY <1>2, <1>3, <1>4, <1>5 DEF StateOK, ConnectingOK
<1>8. QED
  BY <1>2, <1>3, <1>4, <1>5, <1>6, <1>7 DEF GoodObject, BuffersOK, n

(* The device could not be opened: setDescriptor() of an invalid one.      *)
LEMMA ConnectingFails ==
  ASSUME NEW o \in Objects, o.kind = Kind, o.system = h.system, o.fd = INVALID, o.state = "Connecting",
         o.inbound = <<>>, o.last = "Connecting", o.calls \subseteq CallsInOrder,
         OutputOK(o, connection), InputOK(o, connection)
  PROVE  LET n == ConnectionStateChanged(o, "Disconnected")
         IN  GoodObject(n, connection) /\ n.fd = INVALID /\ SameEvents(n, o) /\ n.state = "Disconnected"
<1> DEFINE n == ConnectionStateChanged(o, "Disconnected")
<1>1. "Disconnected" \in States
  BY DEF States
<1>2. /\ n \in Objects /\ n.state = "Disconnected" /\ SameDevice(n, o) /\ n.fd = o.fd /\ n.inbound = o.inbound
      /\ n.in = <<>> /\ n.out = <<>>
  BY <1>1, StateChanged
<1>3. n.last = n.state /\ n.calls \subseteq CallsInOrder
  BY <1>1, StateFollows
<1> HIDE DEF n
<1>4. n.kind = o.kind /\ n.system = o.system /\ SameEvents(n, o) /\ n.wire = o.wire /\ n.sent = o.sent /\ n.packets = o.packets
  BY <1>2 DEF SameDevice, SameEvents
<1>5. OutputOK(n, connection) /\ InputOK(n, connection)
  BY <1>2, <1>4, OutputCut, InputCut
<1>6. StateOK(n) /\ ConnectingOK(n)
  BY <1>2, <1>3 DEF StateOK, ConnectingOK
<1>7. QED
  BY <1>2, <1>4, <1>5, <1>6 DEF GoodObject, BuffersOK, n

(* SetDescriptor() of no descriptor and of the one there is.               *)
LEMMA SetNoDescriptor ==
  ASSUME NEW o \in Objects, o.fd = INVALID
  PROVE  SetDescriptor(o, INVALID) = ConnectionStateChanged(o, "Disconnected")
<1>1. [o EXCEPT !.fd = INVALID] = o
  BY DEF Objects
<1>2. QED
  BY <1>1 DEF SetDescriptor, SetConnectionState

(* A descriptor for a connection that is being made.                       *)
LEMMA ConnectingHasDescriptor ==
  ASSUME NEW o \in Objects, o.kind = Kind, o.system = h.system, o.state = "Connecting", o.fd = INVALID,
         o.in = <<>>, o.out = <<>>, o.last = "Connecting", o.calls \subseteq CallsInOrder,
         NEW d \in Descriptors
  PROVE  LET n == SetDescriptor(OfNewConnection(o), d)
         IN  /\ n \in Objects /\ n.kind = Kind /\ n.system = h.system /\ n.fd # INVALID /\ SameEvents(n, o)
             /\ n.state = "Connecting" /\ n.sent = 0 /\ n.wire = <<>> /\ n.in = <<>> /\ n.inbound = <<>>
             /\ n.last = "Connecting" /\ n.calls \subseteq CallsInOrder /\ InputOK(n, connection + 1)
             /\ Kind = "tcpClient" => GoodObject(n, connection + 1)
<1> DEFINE n == [OfNewConnection(o) EXCEPT !.fd = d]
<1>1. /\ n \in Objects /\ n.fd = d /\ d # INVALID /\ n.inbound = <<>>
      /\ n.kind = o.kind /\ n.system = o.system /\ SameEvents(n, o)
      /\ n.peerSent = 0 /\ n.sent = 0 /\ n.wire = <<>> /\ n.packets = <<>>
      /\ n.state = o.state /\ n.in = o.in /\ n.out = o.out
      /\ n.last = o.last /\ n.calls = o.calls
  BY NewConnection DEF SameEvents
<1>2. SetDescriptor(OfNewConnection(o), d) = n
  BY <1>1 DEF SetDescriptor
<1> HIDE DEF n
<1>3. OutputOK(n, connection + 1) /\ InputOK(n, connection + 1)
  BY <1>1, OutputNone, InputNone
<1>4. Kind = "tcpClient" => StateOK(n) /\ ConnectingOK(n)
  BY <1>1 DEF StateOK, ConnectingOK
<1>5. QED
  BY <1>1, <1>2, <1>3, <1>4 DEF GoodObject, BuffersOK

(* openTcpClientSocket() and what open() makes of its outcome.             *)
LEMMA TcpOpenKeeps ==
  ASSUME NEW o, GoodObject(o, connection), o.state = "Disconnected", Kind = "tcpClient",
         NEW outcome \in {"opened", "failed", "failedWithoutErrno"}, NEW d \in Descriptors
  PROVE  Reopened(TcpOpen(o, outcome, d), o)
<1> DEFINE c == ConnectionStateChanged(o, "Connecting")
<1>1. SetConnectionState(o, "Connecting") = c
  BY DEF SetConnectionState
<1>2. /\ c \in Objects /\ SameEvents(c, o) /\ c.kind = Kind /\ c.system = h.system
      /\ c.fd = INVALID /\ c.state = "Connecting" /\ c.inbound = <<>> /\ c.in = <<>> /\ c.out = <<>>
      /\ c.last = "Connecting" /\ c.calls \subseteq CallsInOrder
      /\ OutputOK(c, connection) /\ InputOK(c, connection) /\ GoodObject(c, connection)
  BY ConnectingStarts
<1> HIDE DEF c
<1>3. CASE outcome = "opened"
  <2>1. TcpOpen(o, outcome, d) = SetDescriptor(OfNewConnection(c), d)
    BY <1>1, <1>3 DEF TcpOpen
  <2>2. QED
    BY <1>2, <2>1, ConnectingHasDescriptor DEF Reopened, SameEvents
<1>4. CASE outcome = "failed"
  BY <1>1, <1>2, <1>4 DEF TcpOpen, Reopened
<1>5. CASE outcome = "failedWithoutErrno"
  <2>1. TcpOpen(o, outcome, d) = ConnectionStateChanged(c, "Disconnected")
    BY <1>1, <1>2, <1>5, SetNoDescriptor DEF TcpOpen
  <2>2. QED
    BY <1>2, <2>1, ConnectingFails DEF Reopened, SameEvents
<1>6. QED
  BY <1>3, <1>4, <1>5

(* A UDP socket is connected at once.                                      *)
LEMMA UdpHasDescriptor ==
  ASSUME NEW o, GoodObject(o, connection), o.state = "Disconnected", NEW d \in Descriptors
  PROVE  LET n == SetDescriptor(OfNewConnection(o), d)
         IN  GoodObject(n, connection + 1) /\ n.fd # INVALID /\ n.inbound = <<>> /\ SameEvents(n, o)
<1> DEFINE m == [OfNewConnection(o) EXCEPT !.fd = d]
<1>1. o \in Objects /\ StateOK(o) /\ o.kind = Kind /\ o.system = h.system
  BY DEF GoodObject, BuffersOK
<1>2. /\ m \in Objects /\ m.fd = d /\ d # INVALID /\ m.inbound = <<>>
      /\ m.kind = o.kind /\ m.system = o.system /\ SameEvents(m, o)
      /\ m.peerSent = 0 /\ m.sent = 0 /\ m.wire = <<>> /\ m.packets = <<>>
      /\ m.state = o.state /\ m.in = o.in /\ m.out = o.out
      /\ m.last = o.last /\ m.calls = o.calls
  BY <1>1, NewConnection DEF SameEvents
<1>3. SetDescriptor(OfNewConnection(o), d) = ConnectionStateChanged(m, "Connected")
  BY <1>2 DEF SetDescriptor, SetConnectionState
<1> HIDE DEF m
<1>4. InputOK(m, connection + 1) /\ m.in = <<>>
  BY <1>1, <1>2, InputNone DEF StateOK
<1>5. /\ m.state \in {"Disconnected", "Connecting"} /\ m.calls \subseteq CallsInOrder
      /\ m.last = m.state \/ (m.last = "none" /\ m.state = "Disconnected")
  BY <1>1, <1>2 DEF StateOK
<1>6. QED
  BY <1>1, <1>2, <1>3, <1>4, <1>5, ConnectKeeps DEF SameEvents

(* open() of a UDP socket.                                                 *)
LEMMA UdpOpenKeeps ==
  ASSUME NEW o, GoodObject(o, connection), o.state = "Disconnected",
         NEW outcome, NEW d \in Descriptors
  PROVE  Reopened(UdpOpen(o, outcome, d), o)
<1>1. o.fd = INVALID
  BY DEF GoodObject, BuffersOK, StateOK
<1>2. CASE outcome = "opened"
  BY <1>2, UdpHasDescriptor DEF UdpOpen, Reopened
<1>3. CASE outcome # "opened"
  BY <1>1, <1>3 DEF UdpOpen, Reopened, SameEvents
<1>4. QED
  BY <1>2, <1>3

(* A serial port is closed, and connected when it could be opened.         *)
LEMMA SerialConnects ==
  ASSUME NEW o, GoodObject(o, connection), o.state = "Disconnected", NEW d \in Descriptors
  PROVE  LET c == ConnectionStateChanged(o, "Connecting")
             m == SetDescriptor(OfNewConnection(c), d)
             n == ConnectionStateChanged(m, "Connected")
             f == ConnectionStateChanged(c, "Disconnected")
         IN  /\ m.fd # INVALID
             /\ GoodObject(n, connection + 1) /\ n.fd # INVALID /\ n.inbound = <<>> /\ SameEvents(n, o)
             /\ c \in Objects /\ c.fd = INVALID
             /\ GoodObject(f, connection) /\ f.fd = INVALID /\ SameEvents(f, o)
<1> DEFINE c == ConnectionStateChanged(o, "Connecting")
           m == SetDescriptor(OfNewConnection(c), d)
           n == ConnectionStateChanged(m, "Connected")
           f == ConnectionStateChanged(c, "Disconnected")
<1>1. /\ c \in Objects /\ SameEvents(c, o) /\ c.kind = Kind /\ c.system = h.system
      /\ c.fd = INVALID /\ c.state = "Connecting" /\ c.inbound = <<>> /\ c.in = <<>> /\ c.out = <<>>
      /\ c.last = "Connecting" /\ c.calls \subseteq CallsInOrder
      /\ OutputOK(c, connection) /\ InputOK(c, connection)
  BY ConnectingStarts
<1> HIDE DEF c
<1>2. /\ m \in Objects /\ m.kind = Kind /\ m.system = h.system /\ m.fd # INVALID /\ SameEvents(m, c)
      /\ m.state = "Connecting" /\ m.sent = 0 /\ m.wire = <<>> /\ m.in = <<>> /\ m.inbound = <<>>
      /\ m.last = "Connecting" /\ m.calls \subseteq CallsInOrder /\ InputOK(m, connection + 1)
  BY <1>1, ConnectingHasDescriptor
<1> HIDE DEF m
<1>3. GoodObject(n, connection + 1) /\ n.fd = m.fd /\ n.inbound = m.inbound /\ SameEvents(n, m)
  BY <1>2, ConnectKeeps
<1>4. GoodObject(f, connection) /\ f.fd = INVALID /\ SameEvents(f, c)
  BY <1>1, ConnectingFails
<1>5. QED
  BY <1>1, <1>2, <1>3, <1>4 DEF SameEvents, c, m

(* close() of a handler that is closed.                                    *)
LEMMA ClosedAgain ==
  ASSUME NEW o, GoodObject(o, connection), o.state = "Disconnected"
  PROVE  GoodObject(Close(o), connection) /\ Close(o).state = "Disconnected" /\ SameEvents(Close(o), o)
<1>1. o \in Objects /\ o.kind = Kind /\ o.system = h.system /\ BuffersOK(o, connection)
  BY DEF GoodObject
<1>2. /\ Close(o) \in Objects /\ Close(o).kind = Kind /\ Close(o).system = h.system /\ BuffersOK(Close(o), connection)
      /\ SameEvents(Close(o), o) /\ Close(o).state = "Disconnected"
  BY <1>1, CloseKeeps
<1>3. QED
  BY <1>2 DEF GoodObject, ConnectingOK

(* open() of a serial port.                                                *)
LEMMA SerialOpenKeeps ==
  ASSUME NEW o, GoodObject(o, connection), o.state = "Disconnected",
         NEW outcome, NEW d \in Descriptors
  PROVE  Reopened(SerialOpen(o, outcome, d), o)
<1> DEFINE closed == Close(o)
           c == ConnectionStateChanged(closed, "Connecting")
           m == SetDescriptor(OfNewConnection(c), d)
<1>1. GoodObject(closed, connection) /\ closed.state = "Disconnected" /\ SameEvents(closed, o)
  BY ClosedAgain
<1>2. SetConnectionState(closed, "Connecting") = c
  BY DEF SetConnectionState
<1> HIDE DEF closed
<1>3. /\ m.fd # INVALID
      /\ GoodObject(ConnectionStateChanged(m, "Connected"), connection + 1)
      /\ ConnectionStateChanged(m, "Connected").fd # INVALID
      /\ ConnectionStateChanged(m, "Connected").inbound = <<>>
      /\ SameEvents(ConnectionStateChanged(m, "Connected"), closed)
      /\ c \in Objects /\ c.fd = INVALID
      /\ GoodObject(ConnectionStateChanged(c, "Disconnected"), connection)
      /\ ConnectionStateChanged(c, "Disconnected").fd = INVALID
      /\ SameEvents(ConnectionStateChanged(c, "Disconnected"), closed)
  BY <1>1, SerialConnects
<1> HIDE DEF c, m
<1>4. CASE outcome = "opened"
  <2>1. SerialOpen(o, outcome, d) = ConnectionStateChanged(m, "Connected")
    BY <1>2, <1>4 DEF SerialOpen, SetConnectionState, closed, m
  <2>2. QED
    BY <1>1, <1>3, <2>1 DEF Reopened, SameEvents
<1>5. CASE outcome # "opened"
  <2>1. SerialOpen(o, outcome, d) = ConnectionStateChanged(c, "Disconnected")
    BY <1>2, <1>3, <1>5, SetNoDescriptor DEF SerialOpen, closed
  <2>2. QED
    BY <1>1, <1>3, <2>1 DEF Reopened, SameEvents
<1>6. QED
  BY <1>4, <1>5

-----------------------------------------------------------------------------
(* The fields that matter: GoodObject does not read the others.            *)
LEMMA SameObject ==
  ASSUME NEW c, NEW o, GoodObject(o, c), NEW n \in Objects,
         n.kind = o.kind, n.system = o.system, n.state = o.state, n.last = o.last, n.calls = o.calls,
         n.fd = o.fd, n.in = o.in, n.out = o.out, n.inbound = o.inbound, n.wire = o.wire,
         n.packets = o.packets, n.position = o.position, n.peerSent = o.peerSent, n.sent = o.sent
  PROVE  GoodObject(n, c)
<1>1. OutputOK(n, c) /\ InputOK(n, c)
  BY OutputSame, InputSame DEF GoodObject, BuffersOK
<1>2. StateOK(n) /\ ConnectingOK(n)
  BY DEF GoodObject, BuffersOK, StateOK, ConnectingOK
<1>3. QED
  BY <1>1, <1>2 DEF GoodObject, BuffersOK

(* setNeedsToWrite() changes nothing else.                                 *)
LEMMA NeedsToWriteKeeps ==
  ASSUME NEW c, NEW o, GoodObject(o, c)
  PROVE  LET n == NeedsToWrite(o)
         IN  GoodObject(n, c) /\ n.fd = o.fd /\ n.inbound = o.inbound /\ n.state = o.state /\ SameEvents(n, o)
<1>1. CASE o.state = "Disconnected"
  BY <1>1 DEF NeedsToWrite, SameEvents
<1>2. CASE o.state # "Disconnected"
  <2> DEFINE n == [o EXCEPT !.needsToWrite = o.out # <<>>]
  <2>1. o \in Objects
    BY DEF GoodObject
  <2>2. n \in Objects
    <3>1. PICK needs \in BOOLEAN : needs = (o.out # <<>>)
      OBVIOUS
    <3>2. QED
      BY <2>1, <3>1, FieldsOfObject
  <2>3. /\ n.kind = o.kind /\ n.system = o.system /\ n.state = o.state /\ n.last = o.last /\ n.calls = o.calls
        /\ n.fd = o.fd /\ n.in = o.in /\ n.out = o.out /\ n.inbound = o.inbound /\ n.wire = o.wire
        /\ n.packets = o.packets /\ n.position = o.position /\ n.peerSent = o.peerSent /\ n.sent = o.sent
        /\ SameEvents(n, o)
    BY <2>1 DEF Objects, SameEvents
  <2>4. NeedsToWrite(o) = n
    BY <1>2 DEF NeedsToWrite
  <2> HIDE DEF n
  <2>5. QED
    BY <2>2, <2>3, <2>4, SameObject
<1>3. QED
  BY <1>1, <1>2

(* What the first bytes of the buffer are, and the rest.                   *)
LEMMA PrefixGoesOut ==
  ASSUME NEW w \in Bytes, NEW b \in Bytes, NEW k \in 0 .. Len(b)
  PROVE  /\ w \o SubSeq(b, 1, k) \in Bytes /\ Drop(b, k) \in Bytes /\ Len(Drop(b, k)) = Len(b) - k
         /\ (w \o SubSeq(b, 1, k)) \o Drop(b, k) = w \o b
<1>1. SubSeq(b, 1, k) \in Bytes /\ Len(SubSeq(b, 1, k)) = k /\ \A i \in 1 .. k : SubSeq(b, 1, k)[i] = b[i]
  BY DEF Bytes
<1>2. /\ Drop(b, k) \in Bytes /\ Len(Drop(b, k)) = Len(b) - k
      /\ \A i \in 1 .. Len(b) - k : Drop(b, k)[i] = b[i + k]
  BY DEF Bytes, Drop
<1>3. \A s, t \in Bytes : s \o t \in Bytes /\ Len(s \o t) = Len(s) + Len(t)
  BY DEF Bytes
<1>4. SubSeq(b, 1, k) \o Drop(b, k) = b
  <2> DEFINE first == SubSeq(b, 1, k)
             rest == Drop(b, k)
  <2> HIDE DEF first, rest
  <2>1. first \o rest \in Bytes /\ Len(first \o rest) = Len(b)
    BY <1>1, <1>2, <1>3 DEF first, rest, Bytes
  <2>2. ASSUME NEW i \in 1 .. Len(b)
        PROVE  (first \o rest)[i] = b[i]
    <3>1. CASE i <= k
      BY <1>1, <1>2, <3>1 DEF first, rest, Bytes
    <3>2. CASE ~(i <= k)
      <4>1. i - k \in 1 .. Len(b) - k /\ i - k + k = i
        BY <3>2 DEF Bytes
      <4>2. (first \o rest)[i] = rest[i - k]
        BY <1>1, <1>2, <3>2 DEF first, rest, Bytes
      <4>3. QED
        BY <1>2, <4>1, <4>2 DEF rest
    <3>3. QED
      BY <3>1, <3>2
  <2>3. \A s, t \in Bytes : Len(s) = Len(t) /\ (\A i \in 1 .. Len(t) : s[i] = t[i]) => s = t
    BY DEF Bytes
  <2>4. first \o rest = b
    BY <2>1, <2>2, <2>3
  <2>5. QED
    BY <2>4 DEF first, rest
<1>5. \A s, t, u \in Bytes : (s \o t) \o u = s \o (t \o u)
  BY DEF Bytes
<1>6. (w \o SubSeq(b, 1, k)) \o Drop(b, k) = w \o b
  <2>1. (w \o SubSeq(b, 1, k)) \o Drop(b, k) = w \o (SubSeq(b, 1, k) \o Drop(b, k))
    BY <1>1, <1>2, <1>5
  <2>2. QED
    BY <1>4, <2>1
<1>7. QED
  BY <1>1, <1>2, <1>3, <1>6

(* The bytes that the system takes leave the buffer at its front, and the  *)
(* stream's position moves with them.                                      *)
LEMMA ReadyWriteKeeps ==
  ASSUME NEW c, NEW o, GoodObject(o, c), NEW k \in 0 .. Len(o.out)
  PROVE  LET n == ReadyWrite(o, k)
         IN  /\ GoodObject(n, c) /\ n.fd = o.fd /\ n.inbound = o.inbound /\ n.state = o.state /\ SameEvents(n, o)
             /\ n.in = o.in /\ n.events = o.events
<1>1. CASE k = 0
  BY <1>1 DEF ReadyWrite, SameEvents
<1>2. CASE k # 0
  <2>1. /\ o \in Objects /\ o.wire \in Bytes /\ o.out \in Bytes /\ o.position \in Nat
        /\ Len(o.out) \in Nat /\ k \in Nat /\ k <= Len(o.out)
    BY DEF GoodObject, Objects, Bytes
  <2>2. PICK position \in Nat :
          position = IF o.position < k THEN 0
                     ELSE IF o.position - k > Len(o.out) - k THEN Len(o.out) - k ELSE o.position - k
    BY <2>1
  <2>3. PICK wire \in Bytes : wire = o.wire \o SubSeq(o.out, 1, k)
    BY <2>1, PrefixGoesOut
  <2>4. PICK out \in Bytes : out = Drop(o.out, k) /\ Len(out) = Len(o.out) - k
    BY <2>1, PrefixGoesOut
  <2> DEFINE n == [o EXCEPT !.wire = wire, !.out = out, !.position = position]
  <2>5. ReadyWrite(o, k) = n
    <3>1. /\ [o EXCEPT !.wire = wire].out = o.out
          /\ [[o EXCEPT !.wire = wire] EXCEPT !.out = out].position = o.position
      BY <2>1 DEF Objects
    <3>2. QED
      BY <1>2, <2>2, <2>3, <2>4, <3>1 DEF ReadyWrite
  <2>6. n \in Objects
    BY <2>1, BuffersOfObject, FieldsOfObject
  <2>7. /\ n.kind = o.kind /\ n.system = o.system /\ n.state = o.state /\ n.last = o.last /\ n.calls = o.calls
        /\ n.fd = o.fd /\ n.in = o.in /\ n.out = out /\ n.inbound = o.inbound /\ n.wire = wire
        /\ n.packets = o.packets /\ n.position = position /\ n.peerSent = o.peerSent /\ n.sent = o.sent
        /\ SameEvents(n, o)
    BY <2>1 DEF Objects, SameEvents
  <2> HIDE DEF n
  <2>8. o.state = "Connected" /\ o.sent # 0
    <3>1. o.out # <<>>
      BY <1>2, <2>1 DEF Bytes
    <3>2. QED
      BY <2>1, <3>1 DEF GoodObject, BuffersOK, StateOK, ConnectingOK, OutputOK, Objects, States
  <2>9. OutputOK(n, c)
    <3>1. wire \o out = o.wire \o o.out
      BY <2>1, <2>3, <2>4, PrefixGoesOut
    <3>2. BytesInOrder(n, c)
      BY <2>7, <3>1 DEF BytesInOrder, GoodObject, BuffersOK, OutputOK
    <3>3. position = Len(out)
      <4>1. o.position = Len(o.out)
        BY <2>8 DEF GoodObject, BuffersOK, OutputOK
      <4>2. QED
        BY <2>1, <2>2, <2>4, <4>1
    <3>4. QED
      BY <2>7, <2>8, <3>2, <3>3 DEF OutputOK
  <2>10. InputOK(n, c)
    BY <2>7, InputSame DEF GoodObject, BuffersOK
  <2>11. StateOK(n) /\ ConnectingOK(n)
    BY <2>7, <2>8 DEF GoodObject, BuffersOK, StateOK, ConnectingOK
  <2>12. QED
    BY <2>5, <2>6, <2>7, <2>9, <2>10, <2>11 DEF GoodObject, BuffersOK, SameEvents
<1>3. QED
  BY <1>1, <1>2

-----------------------------------------------------------------------------
(* A byte of the buffer after a packet of two bytes was written.           *)
LEMMA ByteWritten ==
  ASSUME NEW c \in Nat, NEW sent \in Nat, NEW position \in Nat, NEW b \in Bytes, NEW i \in Nat, i # 0
  PROVE  (IF i > position /\ i <= position + 2 THEN <<c, sent + i - position>>
          ELSE IF i <= Len(b) THEN b[i] ELSE Garbage) \in Byte
<1>1. PICK length \in Nat : length = Len(b) /\ \A k \in 1 .. length : b[k] \in Byte
  BY DEF Bytes
<1>2. CASE i > position /\ i <= position + 2
  <2>1. sent + i - position \in Nat
    BY <1>2
  <2>2. QED
    BY <1>2, <2>1 DEF Byte
<1>3. CASE ~(i > position /\ i <= position + 2) /\ i <= length
  <2>1. i \in 1 .. length
    BY <1>3
  <2>2. QED
    BY <1>1, <1>3, <2>1
<1>4. CASE ~(i > position /\ i <= position + 2) /\ ~(i <= length)
  BY <1>1, <1>4 DEF Byte, Garbage
<1>5. QED
  BY <1>2, <1>3, <1>4

(* Bytes in order stay so when the next two are put behind them.           *)
InOrder(all, garbage, c, sent) ==
  /\ Len(all) = garbage + sent
  /\ \A i \in 1 .. Len(all) : all[i] = IF i <= garbage THEN Garbage ELSE <<c, i - garbage>>

NextTwo(new, b, c, sent) ==
  /\ Len(new) = Len(b) + 2
  /\ \A i \in 1 .. Len(b) : new[i] = b[i]
  /\ \A i \in 1 .. 2 : new[Len(b) + i] = <<c, sent + i>>

(* Two more bytes behind those that are in order.                          *)
LEMMA InOrderBehind ==
  ASSUME NEW w \in Bytes, NEW b \in Bytes, NEW new \in Bytes, NEW c, NEW sent \in Nat, NEW garbage \in Nat,
         InOrder(w \o b, garbage, c, sent), NextTwo(new, b, c, sent)
  PROVE  InOrder(w \o new, garbage, c, sent + 2)
<1>1. PICK lw \in Nat, lb \in Nat : lw = Len(w) /\ lb = Len(b)
  BY DEF Bytes
<1>2. \A s, t \in Bytes : /\ Len(s \o t) = Len(s) + Len(t)
                          /\ \A i \in 1 .. Len(s) + Len(t) : (s \o t)[i] = IF i <= Len(s) THEN s[i] ELSE t[i - Len(s)]
  BY DEF Bytes
<1>3. /\ Len(w \o b) = lw + lb /\ Len(w \o new) = lw + lb + 2 /\ lw + lb = garbage + sent
      /\ \A i \in 1 .. lw + lb : (w \o b)[i] = IF i <= lw THEN w[i] ELSE b[i - lw]
      /\ \A i \in 1 .. lw + lb + 2 : (w \o new)[i] = IF i <= lw THEN w[i] ELSE new[i - lw]
  <2>1. Len(new) = lb + 2 /\ lw + (lb + 2) = lw + lb + 2
    BY <1>1 DEF NextTwo
  <2>2. Len(w \o b) = garbage + sent
    BY DEF InOrder
  <2>3. Len(w \o b) = lw + lb /\ Len(w \o new) = lw + (lb + 2)
    BY <1>1, <1>2, <2>1
  <2>4. \A i \in 1 .. lw + lb : (w \o b)[i] = IF i <= lw THEN w[i] ELSE b[i - lw]
    BY <1>1, <1>2
  <2>5. \A i \in 1 .. lw + (lb + 2) : (w \o new)[i] = IF i <= lw THEN w[i] ELSE new[i - lw]
    BY <1>1, <1>2, <2>1
  <2>6. QED
    BY <2>1, <2>2, <2>3, <2>4, <2>5
<1>4. ASSUME NEW i \in 1 .. lw + lb + 2
      PROVE  (w \o new)[i] = IF i <= garbage THEN Garbage ELSE <<c, i - garbage>>
  <2>1. CASE i <= lw
    <3>1. i \in 1 .. lw + lb /\ (w \o new)[i] = w[i] /\ (w \o b)[i] = w[i]
      BY <1>3, <2>1
    <3>2. QED
      BY <1>3, <3>1 DEF InOrder
  <2>2. CASE ~(i <= lw) /\ i <= lw + lb
    <3>1. i \in 1 .. lw + lb /\ i - lw \in 1 .. lb
      BY <2>2
    <3>2. (w \o new)[i] = new[i - lw] /\ (w \o b)[i] = b[i - lw]
      BY <1>3, <2>2, <3>1
    <3>3. new[i - lw] = b[i - lw]
      BY <1>1, <3>1 DEF NextTwo
    <3>4. QED
      BY <1>3, <3>1, <3>2, <3>3 DEF InOrder
  <2>3. CASE ~(i <= lw + lb)
    <3>1. PICK k \in 1 .. 2 : i - lw = lb + k /\ ~(i <= lw) /\ sent + k = i - garbage /\ ~(i <= garbage)
      <4>1. i - lw - lb \in 1 .. 2 /\ i - lw = lb + (i - lw - lb) /\ ~(i <= lw)
        BY <2>3
      <4>2. sent + (i - lw - lb) = i - garbage /\ ~(i <= garbage)
        BY <1>3, <2>3
      <4>3. QED
        BY <4>1, <4>2
    <3>2. (w \o new)[i] = new[i - lw]
      BY <1>3, <3>1
    <3>3. new[i - lw] = <<c, sent + k>>
      BY <1>1, <3>1 DEF NextTwo
    <3>4. QED
      BY <3>1, <3>2, <3>3
  <2>4. QED
    BY <2>1, <2>2, <2>3
<1>5. lw + lb + 2 = garbage + (sent + 2)
  BY <1>3
<1>6. QED
  BY <1>3, <1>4, <1>5 DEF InOrder

(* A packet is written behind what waits, or behind bytes that nobody      *)
(* wrote when it is the first of its connection.                           *)
LEMMA PacketIsWritten ==
  ASSUME connection \in Nat, NEW o, GoodObject(o, connection), o.state = "Connected"
  PROVE  LET n == WritePacket(o)
         IN  GoodObject(n, connection) /\ n.fd = o.fd /\ n.inbound = o.inbound /\ n.state = o.state /\ SameEvents(n, o)
<1> DEFINE end == o.position + 2
           size == IF end > Len(o.out) THEN end ELSE Len(o.out)
           bytes == [i \in 1 .. size |-> IF i > o.position /\ i <= end THEN <<connection, o.sent + i - o.position>>
                                         ELSE IF i <= Len(o.out) THEN o.out[i] ELSE Garbage]
           n == [o EXCEPT !.out = bytes, !.position = end, !.sent = o.sent + 2]
<1>1. o \in Objects /\ o.wire \in Bytes /\ o.out \in Bytes /\ o.position \in Nat /\ o.sent \in Nat
  BY DEF GoodObject, Objects
<1>2. end \in Nat /\ o.sent + 2 \in Nat /\ o.sent + 2 # 0 /\ size \in Nat
  BY <1>1 DEF Bytes
<1>3. bytes \in Bytes /\ Len(bytes) = size
  <2>1. ASSUME NEW i \in 1 .. size
        PROVE  bytes[i] \in Byte
    <3>1. i \in Nat /\ i # 0
      BY <1>2
    <3>2. QED
      BY <1>1, <3>1, ByteWritten
  <2>2. bytes \in [1 .. size -> Byte]
    BY <2>1
  <2>3. \A k \in Nat : \A f \in [1 .. k -> Byte] : f \in Seq(Byte) /\ Len(f) = k
    OBVIOUS
  <2> HIDE DEF bytes, size
  <2>4. QED
    BY <1>2, <2>2, <2>3 DEF Bytes
<1>4. \A i \in 1 .. size :
        bytes[i] = IF i > o.position /\ i <= o.position + 2 THEN <<connection, o.sent + i - o.position>>
                   ELSE IF i <= Len(o.out) THEN o.out[i] ELSE Garbage
  OBVIOUS
<1>5. WritePacket(o) = n
  <2>1. [[o EXCEPT !.out = bytes] EXCEPT !.position = end].sent = o.sent
    BY <1>1 DEF Objects
  <2>2. QED
    BY <2>1 DEF WritePacket
<1>6. (o.position >= Len(o.out) => size = o.position + 2) /\ end = o.position + 2
  BY <1>1 DEF Bytes
<1> HIDE DEF bytes, end, size
<1>7. n \in Objects
  BY <1>1, <1>2, <1>3, BuffersOfObject, FieldsOfObject
<1>8. /\ n.kind = o.kind /\ n.system = o.system /\ n.state = o.state /\ n.last = o.last /\ n.calls = o.calls
      /\ n.fd = o.fd /\ n.in = o.in /\ n.out = bytes /\ n.inbound = o.inbound /\ n.wire = o.wire
      /\ n.packets = o.packets /\ n.position = end /\ n.peerSent = o.peerSent /\ n.sent = o.sent + 2
      /\ SameEvents(n, o)
  BY <1>1 DEF Objects, SameEvents
<1> HIDE DEF n
<1>9. OutputOK(n, connection)
  <2>1. CASE o.sent = 0
    <3>1. o.wire = <<>> /\ Len(o.out) = 0 /\ size = o.position + 2
      <4>1. o.wire = <<>> /\ o.out = <<>>
        BY <2>1 DEF GoodObject, BuffersOK, OutputOK
      <4>2. QED
        BY <1>1, <1>6, <4>1
    <3>2. o.wire \o bytes = bytes
      BY <1>3, <3>1 DEF Bytes
    <3>3. ASSUME NEW i \in 1 .. size
          PROVE  bytes[i] = IF i <= o.position THEN Garbage ELSE <<connection, i - o.position>>
      <4>1. i \in Nat /\ i <= o.position + 2 /\ ~(i <= Len(o.out)) /\ o.sent + i - o.position = i - o.position
        BY <1>1, <2>1, <3>1
      <4>2. QED
        BY <1>1, <1>4, <4>1
    <3>4. o.position \in 0 .. size /\ size = o.position + (o.sent + 2)
      BY <1>1, <2>1, <3>1
    <3>5. BytesInOrder(n, connection)
      BY <1>3, <1>8, <3>2, <3>3, <3>4 DEF BytesInOrder
    <3>6. QED
      BY <1>2, <1>3, <1>6, <1>8, <3>1, <3>5 DEF OutputOK
  <2>2. CASE o.sent # 0
    <3>1. o.position = Len(o.out) /\ BytesInOrder(o, connection)
      BY <2>2 DEF GoodObject, BuffersOK, OutputOK
    <3>2. size = Len(o.out) + 2 /\ size = end
      BY <1>1, <1>6, <3>1
    <3>3. PICK garbage \in 0 .. Len(o.wire \o o.out) :
            InOrder(o.wire \o o.out, garbage, connection, o.sent)
      BY <3>1 DEF BytesInOrder, InOrder
    <3>4. \A i \in 1 .. Len(o.out) : bytes[i] = o.out[i]
      <4>1. PICK length \in Nat : length = Len(o.out)
        BY <1>1 DEF Bytes
      <4>2. \A i \in 1 .. length : i \in 1 .. length + 2 /\ ~(i > length) /\ i <= length
        OBVIOUS
      <4>3. QED
        BY <1>4, <3>1, <3>2, <4>1, <4>2
    <3>5. \A i \in 1 .. 2 : bytes[Len(o.out) + i] = <<connection, o.sent + i>>
      <4>1. PICK length \in Nat : length = Len(o.out)
        BY <1>1 DEF Bytes
      <4>2. \A i \in 1 .. 2 : /\ length + i \in 1 .. length + 2 /\ length + i > length /\ length + i <= length + 2
                              /\ o.sent + (length + i) - length = o.sent + i
        BY <1>1
      <4>3. ASSUME NEW i \in 1 .. 2
            PROVE  bytes[length + i] = <<connection, o.sent + i>>
        <5>1. length + i \in 1 .. size /\ length = o.position
          BY <3>1, <3>2, <4>1, <4>2
        <5>2. length + i > o.position /\ length + i <= o.position + 2 /\ o.sent + (length + i) - o.position = o.sent + i
          BY <4>2, <5>1
        <5>3. QED
          BY <1>4, <5>1, <5>2
      <4>4. QED
        BY <4>1, <4>3
    <3>6. garbage \in Nat
      BY <1>1, <3>3 DEF Bytes
    <3>7. InOrder(o.wire \o bytes, garbage, connection, o.sent + 2)
      <4>1. NextTwo(bytes, o.out, connection, o.sent)
        BY <1>3, <3>2, <3>4, <3>5 DEF NextTwo
      <4>2. QED
        BY <1>1, <1>3, <3>3, <3>6, <4>1, InOrderBehind
    <3>8. garbage \in 0 .. Len(o.wire \o bytes)
      BY <1>1, <3>6, <3>7 DEF InOrder
    <3>9. BytesInOrder(n, connection)
      BY <1>8, <3>7, <3>8 DEF BytesInOrder, InOrder
    <3>10. QED
      BY <1>2, <1>3, <1>8, <3>2, <3>9 DEF OutputOK
  <2>3. QED
    BY <2>1, <2>2
<1>10. InputOK(n, connection)
  BY <1>8, InputSame DEF GoodObject, BuffersOK
<1>11. StateOK(n) /\ ConnectingOK(n)
  BY <1>8 DEF GoodObject, BuffersOK, StateOK, ConnectingOK
<1>12. QED
  BY <1>5, <1>7, <1>8, <1>9, <1>10, <1>11 DEF GoodObject, BuffersOK

-----------------------------------------------------------------------------
(* The complete packets of the bytes that were read, two bytes each.       *)
PacketsOf(bytes, whole) == [k \in 1 .. whole |-> SubSeq(bytes, 2 * k - 1, 2 * k)]

(* A packet is two bytes of the buffer.                                    *)
LEMMA TwoBytes ==
  ASSUME NEW S, NEW b \in Seq(S), NEW i \in Nat, i + 1 \in 1 .. Len(b), i + 2 \in 1 .. Len(b)
  PROVE  SubSeq(b, i + 1, i + 2) = <<b[i + 1], b[i + 2]>> /\ SubSeq(b, i + 1, i + 2) \in Seq(S)
<1>1. SubSeq(b, i + 1, i + 2) \in Seq(S) /\ Len(SubSeq(b, i + 1, i + 2)) = 2
  OBVIOUS
<1>2. SubSeq(b, i + 1, i + 2)[1] = b[i + 1] /\ SubSeq(b, i + 1, i + 2)[2] = b[i + 2]
  <2>1. \A s \in Seq(S) : \A j, k \in 1 .. Len(s) : \A n \in 1 .. k - j + 1 : SubSeq(s, j, k)[n] = s[j + n - 1]
    OBVIOUS
  <2>2. /\ 1 \in 1 .. (i + 2) - (i + 1) + 1 /\ 2 \in 1 .. (i + 2) - (i + 1) + 1
        /\ (i + 1) + 1 - 1 = i + 1 /\ (i + 1) + 2 - 1 = i + 2
    OBVIOUS
  <2>3. QED
    BY <2>1, <2>2
<1>3. \A s \in Seq(S) : Len(s) = 2 => s = <<s[1], s[2]>>
  OBVIOUS
<1>4. QED
  BY <1>1, <1>2, <1>3

(* A function of the first numbers is a sequence.                          *)
LEMMA FunctionIsSequence ==
  ASSUME NEW S, NEW n \in Nat, NEW f \in [1 .. n -> S]
  PROVE  f \in Seq(S) /\ Len(f) = n
OBVIOUS

(* As many packets are whole as the buffer holds twos.                     *)
LEMMA Halves ==
  ASSUME NEW n \in Nat
  PROVE  n \div 2 \in Nat /\ 2 * (n \div 2) <= n /\ n < 2 * (n \div 2) + 2
OBVIOUS

(* Packets in order stay so when those of the next bytes are put behind    *)
(* them, and what is left follows them.                                    *)
LEMMA NextPackets ==
  ASSUME NEW packets \in Seq(Bytes), NEW bytes \in Bytes, NEW c \in Nat,
         \A k \in 1 .. Len(packets) : packets[k] = <<<<c, 2 * k - 1>>, <<c, 2 * k>>>>,
         \A i \in 1 .. Len(bytes) : bytes[i] = <<c, 2 * Len(packets) + i>>,
         NEW whole \in Nat, whole = Len(bytes) \div 2
  PROVE  LET all == packets \o PacketsOf(bytes, whole)
             rest == Drop(bytes, 2 * whole)
         IN  /\ all \in Seq(Bytes) /\ rest \in Bytes
             /\ \A k \in 1 .. Len(all) : all[k] = <<<<c, 2 * k - 1>>, <<c, 2 * k>>>>
             /\ 2 * Len(packets) + Len(bytes) = 2 * Len(all) + Len(rest)
             /\ \A i \in 1 .. Len(rest) : rest[i] = <<c, 2 * Len(all) + i>>
<1> DEFINE new == PacketsOf(bytes, whole)
           rest == Drop(bytes, 2 * whole)
<1>1. PICK size \in Nat, m \in Nat : size = Len(bytes) /\ m = Len(packets)
  BY DEF Bytes
<1>2. 2 * whole <= size
  BY <1>1, Halves
<1>3. ASSUME NEW k \in 1 .. whole
      PROVE  new[k] \in Bytes /\ new[k] = <<<<c, 2 * (m + k) - 1>>, <<c, 2 * (m + k)>>>>
  <2>1. PICK i \in Nat : i = 2 * k - 2 /\ i + 1 = 2 * k - 1 /\ i + 2 = 2 * k /\ i + 1 \in 1 .. size /\ i + 2 \in 1 .. size
    <3>1. k \in Nat /\ 2 * k - 2 \in Nat /\ 2 * k <= size
      BY <1>2
    <3>2. QED
      BY <3>1
  <2>2. SubSeq(bytes, i + 1, i + 2) = <<bytes[i + 1], bytes[i + 2]>> /\ SubSeq(bytes, i + 1, i + 2) \in Bytes
    BY <1>1, <2>1, TwoBytes DEF Bytes
  <2>3. bytes[i + 1] = <<c, 2 * m + (i + 1)>> /\ bytes[i + 2] = <<c, 2 * m + (i + 2)>>
    BY <1>1, <2>1
  <2>4. 2 * m + (i + 1) = 2 * (m + k) - 1 /\ 2 * m + (i + 2) = 2 * (m + k)
    BY <2>1
  <2>5. new[k] = SubSeq(bytes, i + 1, i + 2)
    BY <2>1 DEF PacketsOf
  <2>6. QED
    BY <2>2, <2>3, <2>4, <2>5
<1>4. new \in Seq(Bytes) /\ Len(new) = whole
  <2>1. new = [k \in 1 .. whole |-> new[k]]
    BY DEF PacketsOf
  <2> HIDE DEF new
  <2>2. new \in [1 .. whole -> Bytes]
    BY <1>3, <2>1
  <2>3. QED
    BY <2>2, FunctionIsSequence
<1> HIDE DEF new
<1>5. /\ packets \o new \in Seq(Bytes) /\ Len(packets \o new) = m + whole
      /\ \A k \in 1 .. m + whole : (packets \o new)[k] = IF k <= m THEN packets[k] ELSE new[k - m]
  <2>1. \A s, t \in Seq(Bytes) :
          /\ s \o t \in Seq(Bytes) /\ Len(s \o t) = Len(s) + Len(t)
          /\ \A k \in 1 .. Len(s) + Len(t) : (s \o t)[k] = IF k <= Len(s) THEN s[k] ELSE t[k - Len(s)]
    OBVIOUS
  <2>2. packets \o new \in Seq(Bytes) /\ Len(packets \o new) = m + whole
    BY <1>1, <1>4, <2>1
  <2>3. \A k \in 1 .. Len(packets) + Len(new) :
          (packets \o new)[k] = IF k <= Len(packets) THEN packets[k] ELSE new[k - Len(packets)]
    BY <1>4, <2>1
  <2>4. QED
    BY <1>1, <1>4, <2>2, <2>3
<1>6. ASSUME NEW k \in 1 .. m + whole
      PROVE  (packets \o new)[k] = <<<<c, 2 * k - 1>>, <<c, 2 * k>>>>
  <2>1. CASE k <= m
    BY <1>1, <1>5, <2>1
  <2>2. CASE ~(k <= m)
    <3>1. k - m \in 1 .. whole /\ m + (k - m) = k
      BY <2>2
    <3>2. new[k - m] = <<<<c, 2 * (m + (k - m)) - 1>>, <<c, 2 * (m + (k - m))>>>>
      BY <1>3, <3>1
    <3>3. QED
      BY <1>5, <2>2, <3>1, <3>2
  <2>3. QED
    BY <2>1, <2>2
<1>7. /\ rest \in Bytes /\ Len(rest) = size - 2 * whole
      /\ \A i \in 1 .. size - 2 * whole : rest[i] = bytes[2 * whole + i]
  <2>1. \A S : \A s \in Seq(S) : \A k \in 0 .. Len(s) :
          /\ SubSeq(s, k + 1, Len(s)) \in Seq(S) /\ Len(SubSeq(s, k + 1, Len(s))) = Len(s) - k
          /\ \A i \in 1 .. Len(s) - k : SubSeq(s, k + 1, Len(s))[i] = s[k + i]
    OBVIOUS
  <2>2. 2 * whole \in 0 .. size
    BY <1>2
  <2>3. QED
    BY <1>1, <2>1, <2>2 DEF Drop, Bytes
<1> HIDE DEF rest
<1>8. 2 * m + size = 2 * (m + whole) + Len(rest)
  BY <1>2, <1>7
<1>9. ASSUME NEW i \in 1 .. Len(rest)
      PROVE  rest[i] = <<c, 2 * (m + whole) + i>>
  <2>1. i \in 1 .. size - 2 * whole /\ 2 * whole + i \in 1 .. size /\ 2 * m + (2 * whole + i) = 2 * (m + whole) + i
    BY <1>2, <1>7
  <2>2. QED
    BY <1>1, <1>7, <2>1
<1>10. QED
  BY <1>1, <1>5, <1>6, <1>7, <1>8, <1>9 DEF new, rest

(* All there is is read, and the complete packets are taken from it.       *)
LEMMA ReadyReadKeeps ==
  ASSUME NEW c \in Nat, NEW o, GoodObject(o, c), o.state = "Disconnected" \/ o.fd # INVALID
  PROVE  LET n == ReadyRead(o)
         IN  /\ n \in Objects /\ n.kind = Kind /\ n.system = h.system /\ BuffersOK(n, c)
             /\ n.fd = o.fd /\ n.state = o.state /\ n.inbound \in {o.inbound, <<>>} /\ SameEvents(n, o)
             /\ o.state # "Connecting" => GoodObject(n, c)
<1>1. /\ o \in Objects /\ o.kind = Kind /\ o.system = h.system /\ StateOK(o) /\ OutputOK(o, c) /\ InputOK(o, c)
      /\ o.in \in Bytes /\ o.inbound \in Bytes /\ o.packets \in Seq(Bytes)
  BY DEF GoodObject, BuffersOK, Objects
<1>2. CASE o.state = "Disconnected"
  <2>1. ReadyRead(o) = o
    BY <1>2 DEF ReadyRead
  <2>2. QED
    BY <2>1 DEF GoodObject, SameEvents
<1>3. CASE o.state # "Disconnected"
  <2>1. o.fd # INVALID
    BY <1>3
  <2>2. PICK bytes \in Bytes : bytes = IF PortionedIO THEN <<>> ELSE o.in \o o.inbound
    <3>1. \A s, t \in Bytes : s \o t \in Bytes
      BY DEF Bytes
    <3>2. QED
      BY <1>1, <3>1, NoBytes
  <2>3. PICK whole \in Nat : whole = Len(bytes) \div 2
    BY Halves DEF Bytes
  <2> DEFINE all == o.packets \o PacketsOf(bytes, whole)
             rest == Drop(bytes, 2 * whole)
             n == [o EXCEPT !.packets = all, !.in = rest, !.inbound = <<>>]
  <2>4. BytesOfPackets(o, c) /\ \A i \in 1 .. Len(bytes) : bytes[i] = <<c, 2 * Len(o.packets) + i>>
    <3>1. BytesOfPackets(o, c)
      BY <1>1 DEF InputOK
    <3>2. CASE PortionedIO
      <4>1. Len(bytes) = 0
        BY <2>2, <3>2
      <4>2. QED
        BY <3>1, <4>1
    <3>3. CASE ~PortionedIO
      <4>1. bytes = o.in \o o.inbound /\ o.kind \notin PortionedKinds
        BY <1>1, <2>2, <3>3 DEF PortionedIO
      <4>2. \A i \in 1 .. Len(o.in \o o.inbound) : (o.in \o o.inbound)[i] = <<c, 2 * Len(o.packets) + i>>
        BY <1>1, <2>1, <4>1 DEF InputOK
      <4>3. QED
        BY <3>1, <4>1, <4>2
    <3>4. QED
      BY <3>2, <3>3
  <2>5. /\ all \in Seq(Bytes) /\ rest \in Bytes
        /\ \A k \in 1 .. Len(all) : all[k] = <<<<c, 2 * k - 1>>, <<c, 2 * k>>>>
        /\ 2 * Len(o.packets) + Len(bytes) = 2 * Len(all) + Len(rest)
        /\ \A i \in 1 .. Len(rest) : rest[i] = <<c, 2 * Len(all) + i>>
    <3>1. \A k \in 1 .. Len(o.packets) : o.packets[k] = <<<<c, 2 * k - 1>>, <<c, 2 * k>>>>
      BY <2>4 DEF BytesOfPackets
    <3>2. o.packets \in Seq(Bytes)
      BY <1>1 DEF Objects
    <3>3. QED
      BY <2>3, <2>4, <3>1, <3>2, NextPackets
  <2>6. ReadyRead(o) = n
    <3>1. [o EXCEPT !.packets = all].in = o.in
      BY <1>1 DEF Objects
    <3>2. QED
      BY <1>3, <2>2, <2>3 DEF ReadyRead, PacketsOf
  <2> HIDE DEF all, rest
  <2>7. n \in Objects
    BY <1>1, <2>5, NoBytes, BuffersOfObject
  <2>8. /\ n.kind = o.kind /\ n.system = o.system /\ n.state = o.state /\ n.last = o.last /\ n.calls = o.calls
        /\ n.fd = o.fd /\ n.in = rest /\ n.out = o.out /\ n.inbound = <<>> /\ n.wire = o.wire
        /\ n.packets = all /\ n.position = o.position /\ n.peerSent = o.peerSent /\ n.sent = o.sent
        /\ SameEvents(n, o)
    BY <1>1 DEF Objects, SameEvents
  <2> HIDE DEF n
  <2>9. InputOK(n, c)
    <3>1. BytesOfPackets(n, c)
      BY <2>5, <2>8 DEF BytesOfPackets
    <3>2. n.in \o n.inbound = rest
      BY <2>5, <2>8 DEF Bytes
    <3>3. CASE PortionedIO
      <4>1. bytes = <<>> /\ o.packets = <<>>
        BY <1>1, <2>1, <2>2, <3>3 DEF InputOK, PortionedIO
      <4>2. 2 * Len(all) + Len(rest) = 0
        BY <2>5, <4>1
      <4>3. all = <<>> /\ rest = <<>>
        <5>1. \A s \in Seq(Bytes) : Len(s) \in Nat /\ (Len(s) = 0 => s = <<>>)
          OBVIOUS
        <5>2. \A s \in Bytes : Len(s) \in Nat /\ (Len(s) = 0 => s = <<>>)
          BY DEF Bytes
        <5>3. \A x, y \in Nat : 2 * x + y = 0 => x = 0 /\ y = 0
          OBVIOUS
        <5>4. QED
          BY <2>5, <4>2, <5>1, <5>2, <5>3
      <4>4. QED
        BY <1>1, <2>8, <3>1, <3>3, <4>3 DEF InputOK, PortionedIO
    <3>4. CASE ~PortionedIO
      <4>1. n.peerSent = 2 * Len(all) + Len(rest)
        BY <1>1, <2>1, <2>2, <2>5, <2>8, <3>4 DEF InputOK, PortionedIO
      <4>2. QED
        BY <1>1, <2>5, <2>8, <3>1, <3>2, <3>4, <4>1 DEF InputOK, PortionedIO
    <3>5. QED
      BY <3>3, <3>4
  <2>10. OutputOK(n, c)
    BY <1>1, <2>8, OutputSame
  <2>11. StateOK(n) /\ (o.state # "Connecting" => ConnectingOK(n))
    BY <1>1, <1>3, <2>1, <2>8 DEF StateOK, ConnectingOK
  <2>12. QED
    BY <1>1, <2>6, <2>7, <2>8, <2>9, <2>10, <2>11 DEF GoodObject, BuffersOK
<1>4. QED
  BY <1>2, <1>3

-----------------------------------------------------------------------------
(* What an operation may do to the thread's object between two calls of    *)
(* open(): it stays on its connection, or is closed.                       *)
Follows(n) ==
  /\ GoodObject(n, connection)
  /\ n.fd \in {h.fd, INVALID} /\ n.inbound \in {h.inbound, <<>>}
  /\ n.state = "Connecting" => h.state = "Connecting"

(* The handler before a step.                                              *)
LEMMA Start ==
  ASSUME IInv
  PROVE  /\ Follows(h) /\ EventsOK(h) /\ h \in Objects /\ connection \in Nat
         /\ h.state = "Disconnected" => h.fd = INVALID
         /\ h.state = "Connected" => h.fd # INVALID
<1>1. h \in Objects /\ connection \in Nat
  BY DEF IInv, TypeOK
<1>2. GoodObject(h, connection) /\ EventsOK(h)
  BY <1>1 DEF IInv, GoodObject, Kind
<1>3. StateOK(h)
  BY <1>2 DEF GoodObject, BuffersOK
<1>4. QED
  BY <1>1, <1>2, <1>3 DEF Follows, StateOK

(* A step keeps the invariant, on the system the handler is on.            *)
Keeps == IInv' /\ h'.system = h.system

(* The invariant after a step that leaves n.                               *)
LEMMA StepKeeps ==
  ASSUME IInv, NEW n, Follows(n), EventsOK(n), Becomes(n), UNCHANGED connection,
         pc' \in {"loop", "poll", "wait", "process", "idle", "ended"}, opens' \in Nat, sends' \in Nat,
         h.system = "Linux" /\ pollfd'.fd = INVALID => revents' = {},
         pc' = "process" => pc = "process" /\ UNCHANGED <<revents, pollfd>>,
         pc' = "ended" => n.fd = INVALID /\ n.events = <<>>
  PROVE  Keeps
<1>1. h' = n /\ sock' = (IF n.fd = INVALID THEN "none" ELSE sock)
  BY DEF Becomes
<1>2. n \in Objects /\ n.kind = h.kind /\ n.system = h.system /\ BuffersOK(n, connection) /\ ConnectingOK(n)
  BY DEF Follows, GoodObject, Kind
<1>3. TypeOK'
  BY <1>1, <1>2 DEF IInv, TypeOK, Kind
<1>4. DeviceOK'
  <2>1. (h'.fd = INVALID) = (sock' = "none")
    BY <1>1 DEF IInv, DeviceOK, Follows
  <2>2. sock' \in {"connecting", "refused"} => h'.inbound = <<>>
    BY <1>1 DEF IInv, DeviceOK, Follows
  <2>3. ASSUME h'.system = "Linux", pc' = "process", pollfd'.fd = h'.fd, h'.state = "Connecting",
               "IN" \in revents', "HUP" \notin revents'
        PROVE  "OUT" \in revents'
    <3>1. h.system = "Linux" /\ pc = "process" /\ h.state = "Connecting" /\ "IN" \in revents /\ "HUP" \notin revents
      BY <1>1, <1>2, <2>3 DEF Follows
    <3>2. pollfd'.fd # INVALID
      BY <2>3, <3>1
    <3>3. pollfd.fd = h.fd
      BY <1>1, <2>3, <3>1, <3>2 DEF Follows
    <3>4. QED
      BY <2>3, <3>1, <3>3 DEF IInv, DeviceOK
  <2>4. pc' = "ended" => h'.fd = INVALID /\ h'.events = <<>>
    BY <1>1
  <2>5. QED
    BY <2>1, <2>2, <2>3, <2>4 DEF DeviceOK
<1>5. QED
  BY <1>1, <1>2, <1>3, <1>4 DEF IInv, Keeps

(* On Linux a device has no events.                                        *)
LEMMA LinuxEvents ==
  ASSUME IInv, h.system = "Linux", NEW n, Follows(n), SameEvents(n, h)
  PROVE  EventsOK(n)
BY DEF IInv, EventsOK, Follows, GoodObject, SameEvents

(* A call writes at most what the buffer holds.                            *)
LEMMA WrittenBounds ==
  ASSUME NEW o \in Objects, NEW least, NEW k \in Written(o, least)
  PROVE  k \in 0 .. Len(o.out)
<1>1. Len(o.out) \in Nat
  BY DEF Objects, Bytes
<1>2. UdpWritten(o, least) \subseteq 0 .. Len(o.out) /\ SerialWritten(o) \subseteq 0 .. Len(o.out)
  BY <1>1 DEF UdpWritten, SerialWritten
<1>3. CASE Kind = "udp"
  BY <1>2, <1>3 DEF Written
<1>4. CASE Kind # "udp" /\ Kind = "serial" /\ h.system = "Windows"
  BY <1>2, <1>4 DEF Written
<1>5. CASE Kind # "udp" /\ ~(Kind = "serial" /\ h.system = "Windows")
  BY <1>5 DEF Written
<1>6. QED
  BY <1>3, <1>4, <1>5

(* The operations of process(), one after the other.                       *)
LEMMA CloseFollows ==
  ASSUME IInv, NEW o, Follows(o)
  PROVE  /\ Follows(Close(o)) /\ SameEvents(Close(o), o) /\ Close(o).fd = INVALID
         /\ o.fd # INVALID => Close(o).state = "Disconnected"
<1>1. o \in Objects /\ o.kind = Kind /\ o.system = h.system /\ BuffersOK(o, connection) /\ ConnectingOK(o)
  BY DEF Follows, GoodObject
<1>2. /\ Close(o) \in Objects /\ Close(o).kind = Kind /\ Close(o).system = h.system /\ BuffersOK(Close(o), connection)
      /\ Close(o).fd = INVALID /\ Close(o).inbound = <<>> /\ SameEvents(Close(o), o)
      /\ Close(o) = o \/ Close(o).state = "Disconnected"
  BY <1>1, CloseKeeps
<1>3. ConnectingOK(Close(o)) /\ (Close(o).state = "Connecting" => h.state = "Connecting")
  BY <1>1, <1>2 DEF ConnectingOK, Follows
<1>4. o.fd # INVALID => Close(o).state = "Disconnected"
  BY <1>2
<1>5. QED
  BY <1>2, <1>3, <1>4 DEF Follows, GoodObject

(* slotOnReadyToWrite() within a step.                                     *)
LEMMA ReadyWriteFollows ==
  ASSUME NEW o, Follows(o), NEW least, NEW k \in Written(o, least)
  PROVE  LET n == ReadyWrite(o, k)
         IN  Follows(n) /\ SameEvents(n, o) /\ n.state = o.state /\ n.fd = o.fd
<1>1. GoodObject(o, connection) /\ k \in 0 .. Len(o.out)
  BY WrittenBounds DEF Follows, GoodObject
<1>2. /\ GoodObject(ReadyWrite(o, k), connection) /\ ReadyWrite(o, k).fd = o.fd
      /\ ReadyWrite(o, k).inbound = o.inbound /\ ReadyWrite(o, k).state = o.state /\ SameEvents(ReadyWrite(o, k), o)
  BY <1>1, ReadyWriteKeeps
<1>3. QED
  BY <1>2 DEF Follows

(* slotOnReadyToRead() within a step.                                      *)
LEMMA ReadyReadFollows ==
  ASSUME IInv, NEW o, Follows(o), o.state # "Connecting"
  PROVE  LET n == ReadyRead(o)
         IN  Follows(n) /\ SameEvents(n, o) /\ n.state = o.state /\ n.fd = o.fd
<1>1. GoodObject(o, connection) /\ connection \in Nat
  BY Start DEF Follows
<1>2. o.state = "Disconnected" \/ o.fd # INVALID
  BY <1>1 DEF GoodObject, BuffersOK, StateOK, Objects, States
<1>3. /\ GoodObject(ReadyRead(o), connection) /\ ReadyRead(o).fd = o.fd
      /\ ReadyRead(o).inbound \in {o.inbound, <<>>} /\ ReadyRead(o).state = o.state /\ SameEvents(ReadyRead(o), o)
  BY <1>1, <1>2, ReadyReadKeeps
<1>4. QED
  BY <1>3 DEF Follows

(* Reading before closing may be on a connection not yet made.             *)
LEMMA ReadAndCloseFollows ==
  ASSUME IInv, NEW o, Follows(o), o.state = "Disconnected" \/ o.fd # INVALID
  PROVE  LET n == Close(ReadyRead(o))
         IN  Follows(n) /\ SameEvents(n, o)
<1> DEFINE r == ReadyRead(o)
           n == Close(r)
<1>1. GoodObject(o, connection) /\ connection \in Nat
  BY Start DEF Follows
<1>2. /\ r \in Objects /\ r.kind = Kind /\ r.system = h.system /\ BuffersOK(r, connection)
      /\ r.fd = o.fd /\ r.state = o.state /\ SameEvents(r, o)
  BY <1>1, ReadyReadKeeps
<1> HIDE DEF r
<1>3. /\ n \in Objects /\ n.kind = Kind /\ n.system = h.system /\ BuffersOK(n, connection)
      /\ n.fd = INVALID /\ n.inbound = <<>> /\ SameEvents(n, r) /\ (n = r \/ n.state = "Disconnected")
  BY <1>2, CloseKeeps
<1> HIDE DEF n
<1>4. n.state = "Disconnected"
  BY <1>2, <1>3
<1>5. ConnectingOK(n)
  BY <1>4 DEF ConnectingOK
<1>6. QED
  BY <1>2, <1>3, <1>4, <1>5 DEF Follows, GoodObject, SameEvents, n, r

(* onConnected() within a step.                                            *)
LEMMA ConnectFollows ==
  ASSUME NEW o, Follows(o), o.state = "Connecting", o.fd # INVALID
  PROVE  LET n == ConnectionStateChanged(o, "Connected")
         IN  Follows(n) /\ SameEvents(n, o) /\ n.state = "Connected" /\ n.fd = o.fd
<1>1. /\ o \in Objects /\ o.kind = Kind /\ o.system = h.system /\ StateOK(o)
      /\ OutputOK(o, connection) /\ InputOK(o, connection) /\ ConnectingOK(o)
  BY DEF Follows, GoodObject, BuffersOK
<1>2. o.sent = 0 /\ o.wire = <<>> /\ o.in = <<>>
  BY <1>1 DEF ConnectingOK, OutputOK
<1>3. o.state \in {"Disconnected", "Connecting"} /\ (o.last = o.state \/ (o.last = "none" /\ o.state = "Disconnected"))
      /\ o.calls \subseteq CallsInOrder
  BY <1>1 DEF StateOK
<1> DEFINE n == ConnectionStateChanged(o, "Connected")
<1>4. GoodObject(n, connection) /\ n.state = "Connected" /\ n.fd = o.fd /\ n.inbound = o.inbound /\ SameEvents(n, o)
  BY <1>1, <1>2, <1>3, ConnectKeeps
<1> HIDE DEF n
<1>5. QED
  BY <1>4 DEF Follows, n

-----------------------------------------------------------------------------
(* The thread's steps on both systems.                                     *)
LEMMA BeforeWaitNothingKeeps ==
  ASSUME IInv, BeforeWaitNothing
  PROVE  Keeps
<1> DEFINE n == NeedsToWrite(h)
<1>1. Follows(h) /\ EventsOK(h) /\ GoodObject(h, connection)
  BY Start DEF Follows
<1>2. GoodObject(n, connection) /\ n.fd = h.fd /\ n.inbound = h.inbound /\ n.state = h.state /\ SameEvents(n, h)
  BY <1>1, NeedsToWriteKeeps
<1> HIDE DEF n
<1>3. Follows(n)
  BY <1>2 DEF Follows
<1>4. EventsOK(n)
  BY <1>1, <1>2 DEF EventsOK, SameEvents, GoodObject
<1>5. Becomes(n) /\ UNCHANGED <<pollfd, revents, connection, opens, sends>> /\ pc' = "poll"
  BY DEF BeforeWaitNothing, n
<1>6. opens \in Nat /\ sends \in Nat /\ (h.system = "Linux" /\ pollfd.fd = INVALID => revents = {})
  BY DEF IInv, TypeOK
<1>7. QED
  BY <1>3, <1>4, <1>5, <1>6, StepKeeps

(* The invariant after open(), of a handler that is on Linux or Windows.   *)
LEMMA OpenKeeps ==
  ASSUME IInv, OpenDue, NEW o,
         o.fd # INVALID => GoodObject(o, connection + 1) /\ o.inbound = <<>>,
         o.fd = INVALID => GoodObject(o, connection),
         EventsOK(o), pc' = "poll", h' = NeedsToWrite(o),
         IF h'.fd = INVALID
         THEN UNCHANGED <<sock, connection>>
         ELSE /\ sock' = IF Kind = "tcpClient" THEN "connecting" ELSE "up"
              /\ connection' = connection + 1,
         opens' = opens + 1, UNCHANGED <<pollfd, revents, sends>>
  PROVE  Keeps
<1>1. h.state = "Disconnected" /\ h.fd = INVALID /\ sock = "none" /\ connection \in Nat
  BY Start DEF OpenDue, IInv, DeviceOK
<1>2. ASSUME NEW c, GoodObject(o, c)
      PROVE  GoodObject(h', c) /\ h'.fd = o.fd /\ h'.inbound = o.inbound /\ EventsOK(h')
  <2>1. /\ GoodObject(h', c) /\ h'.fd = o.fd /\ h'.inbound = o.inbound /\ h'.state = o.state
        /\ SameEvents(h', o)
    BY <1>2, NeedsToWriteKeeps
  <2>2. QED
    BY <1>2, <2>1 DEF EventsOK, SameEvents, GoodObject
<1>3. h'.fd = o.fd /\ GoodObject(h', connection') /\ EventsOK(h')
  <2>1. CASE o.fd = INVALID
    <3>1. GoodObject(h', connection) /\ h'.fd = o.fd /\ EventsOK(h')
      BY <1>2, <2>1
    <3>2. QED
      BY <2>1, <3>1
  <2>2. CASE o.fd # INVALID
    <3>1. GoodObject(h', connection + 1) /\ h'.fd = o.fd /\ EventsOK(h')
      BY <1>2, <2>2
    <3>2. QED
      BY <2>2, <3>1
  <2>3. QED
    BY <2>1, <2>2
<1>4. h' \in Objects /\ h'.kind = h.kind /\ h'.system = h.system /\ BuffersOK(h', connection') /\ ConnectingOK(h')
  BY <1>3 DEF GoodObject, Kind
<1>5. TypeOK'
  <2>1. connection' \in Nat /\ opens' \in Nat
    BY <1>1 DEF IInv, TypeOK
  <2>2. sock' \in {"none", "connecting", "up"}
    BY <1>1
  <2>3. QED
    BY <1>4, <2>1, <2>2 DEF IInv, TypeOK, Kind
<1>6. DeviceOK'
  <2>1. (h'.fd = INVALID) = (sock' = "none")
    BY <1>1
  <2>2. sock' \in {"connecting", "refused"} => h'.inbound = <<>>
    BY <1>1, <1>2, <1>3
  <2>3. QED
    BY <2>1, <2>2 DEF DeviceOK
<1>7. QED
  BY <1>3, <1>4, <1>5, <1>6 DEF IInv, Keeps

(* The thread goes round.                                                  *)
LEMMA IdleKeeps ==
  ASSUME IInv, Idle
  PROVE  Keeps
<1>1. TypeOK'
  BY DEF IInv, TypeOK, Idle, Kind
<1>2. DeviceOK'
  BY DEF IInv, DeviceOK, Idle
<1>3. QED
  BY <1>1, <1>2 DEF IInv, Idle, Keeps

(* The application sends a packet, of which some goes out at once.         *)
LEMMA SendPacketKeeps ==
  ASSUME IInv, SendPacket
  PROVE  Keeps
<1> DEFINE p == WritePacket(h)
<1>1. Follows(h) /\ EventsOK(h) /\ GoodObject(h, connection) /\ h.state = "Connected" /\ connection \in Nat
  BY Start DEF Follows, SendPacket
<1>2. GoodObject(p, connection) /\ p.fd = h.fd /\ p.inbound = h.inbound /\ p.state = h.state /\ SameEvents(p, h)
  BY <1>1, PacketIsWritten
<1>3. PICK k \in Written(p, 0) : Becomes(ReadyWrite(p, k))
  BY DEF SendPacket
<1> HIDE DEF p
<1>4. Follows(p)
  BY <1>2 DEF Follows
<1> DEFINE n == ReadyWrite(p, k)
<1>5. Follows(n) /\ SameEvents(n, p) /\ n.state = p.state /\ n.fd = p.fd
  BY <1>3, <1>4, ReadyWriteFollows
<1>6. Becomes(n)
  BY <1>3
<1> HIDE DEF n
<1>7. EventsOK(n)
  BY <1>1, <1>2, <1>5 DEF EventsOK, SameEvents, GoodObject, Follows
<1>8. /\ UNCHANGED <<pc, pollfd, revents, connection, opens>> /\ pc \in {"process", "idle"} /\ sends' = sends + 1
  BY DEF SendPacket
<1>9. opens \in Nat /\ sends + 1 \in Nat /\ (h.system = "Linux" /\ pollfd.fd = INVALID => revents = {})
  BY DEF IInv, TypeOK
<1>10. QED
  BY <1>5, <1>6, <1>7, <1>8, <1>9, StepKeeps

(* The system, the peer and the clock.                                     *)
LEMMA SystemKeeps ==
  ASSUME IInv, ConnectEnds \/ PeerClose \/ PeerReset
  PROVE  Keeps
<1>1. /\ sock \in {"connecting", "up"} /\ sock' \in {"up", "refused", "closed", "reset"}
      /\ sock' = "refused" => sock = "connecting"
      /\ UNCHANGED <<pc, h, pollfd, revents, connection, opens, sends>>
  BY DEF ConnectEnds, PeerClose, PeerReset, SocketBecomes
<1>2. TypeOK'
  BY <1>1 DEF IInv, TypeOK, Kind
<1>3. DeviceOK'
  BY <1>1 DEF IInv, DeviceOK
<1>4. QED
  BY <1>1, <1>2, <1>3 DEF IInv, Keeps

(* The time to connect again comes.                                        *)
LEMMA TimePassesKeeps ==
  ASSUME IInv, TimePasses
  PROVE  Keeps
<1>1. h \in Objects /\ h' = [h EXCEPT !.due = TRUE]
      /\ UNCHANGED <<pc, pollfd, revents, sock, connection, opens, sends>>
  BY Start DEF TimePasses
<1>2. h' \in Objects
  BY <1>1, FieldsOfObject
<1>3. /\ h'.kind = h.kind /\ h'.system = h.system /\ h'.state = h.state /\ h'.last = h.last /\ h'.calls = h.calls
      /\ h'.fd = h.fd /\ h'.in = h.in /\ h'.out = h.out /\ h'.inbound = h.inbound /\ h'.wire = h.wire
      /\ h'.packets = h.packets /\ h'.position = h.position /\ h'.peerSent = h.peerSent /\ h'.sent = h.sent
      /\ SameEvents(h', h)
  BY <1>1 DEF Objects, SameEvents
<1>4. GoodObject(h', connection)
  <2>1. GoodObject(h, connection)
    BY Start DEF Follows
  <2>2. QED
    BY <1>2, <1>3, <2>1, SameObject
<1>5. TypeOK'
  BY <1>1, <1>2, <1>3 DEF IInv, TypeOK, Kind
<1>6. DeviceOK'
  BY <1>1, <1>3 DEF IInv, DeviceOK, SameEvents
<1>7. EventsOK(h')
  BY <1>3 DEF IInv, EventsOK, SameEvents
<1>8. QED
  BY <1>1, <1>4, <1>5, <1>6, <1>7 DEF IInv, GoodObject, Keeps

(* The next byte follows what has arrived.                                 *)
LEMMA PeerSendKeeps ==
  ASSUME IInv, PeerSend
  PROVE  Keeps
<1>1. /\ h \in Objects /\ connection \in Nat /\ h.peerSent \in Nat /\ h.inbound \in Bytes /\ h.in \in Bytes
      /\ sock = "up" /\ h.fd # INVALID
      /\ UNCHANGED <<pc, pollfd, revents, sock, connection, opens, sends>>
  BY Start DEF PeerSend, Objects, IInv, DeviceOK
<1>2. PICK sent \in Nat : sent = h.peerSent + 1
  BY <1>1
<1>3. PICK byte \in Byte : byte = <<connection, sent>>
  BY <1>1, <1>2 DEF Byte
<1>4. PICK inbound \in Bytes : inbound = Append(h.inbound, byte)
  <2>1. \A s \in Bytes : \A b \in Byte : Append(s, b) \in Bytes
    BY DEF Bytes
  <2>2. QED
    BY <1>1, <2>1
<1>5. h' = [h EXCEPT !.inbound = inbound, !.peerSent = sent]
  BY <1>1, <1>2, <1>3, <1>4 DEF PeerSend, Objects
<1>6. h' \in Objects
  BY <1>1, <1>2, <1>4, <1>5, BuffersOfObject, FieldsOfObject
<1>7. /\ h'.kind = h.kind /\ h'.system = h.system /\ h'.state = h.state /\ h'.last = h.last /\ h'.calls = h.calls
      /\ h'.fd = h.fd /\ h'.in = h.in /\ h'.out = h.out /\ h'.inbound = inbound /\ h'.wire = h.wire
      /\ h'.packets = h.packets /\ h'.position = h.position /\ h'.peerSent = sent /\ h'.sent = h.sent
      /\ SameEvents(h', h)
  BY <1>1, <1>5 DEF Objects, SameEvents
<1>8. StateOK(h) /\ OutputOK(h, connection) /\ InputOK(h, connection) /\ ConnectingOK(h)
  BY DEF IInv, BuffersOK
<1>9. InputOK(h', connection)
  <2>1. \A s, t \in Bytes : \A b \in Byte : s \o Append(t, b) = Append(s \o t, b) /\ s \o t \in Bytes
    BY DEF Bytes
  <2>2. \A s \in Bytes : \A b \in Byte : /\ Len(s) \in Nat /\ Len(Append(s, b)) = Len(s) + 1
                                         /\ \A i \in 1 .. Len(s) : Append(s, b)[i] = s[i]
                                         /\ Append(s, b)[Len(s) + 1] = b
    BY DEF Bytes
  <2>3. PICK all \in Bytes : all = h.in \o h.inbound
    BY <1>1, <2>1
  <2>4. h'.in \o h'.inbound = Append(all, byte)
    <3>1. h.in \o Append(h.inbound, byte) = Append(h.in \o h.inbound, byte)
      BY <1>1, <2>1
    <3>2. QED
      BY <1>4, <1>7, <2>3, <3>1
  <2>5. PICK size \in Nat : size = Len(all) /\ Len(Append(all, byte)) = size + 1
    BY <2>2
  <2>6. CASE h.kind \notin PortionedKinds
    <3>1. PICK m \in Nat : m = 2 * Len(h.packets)
      <4>1. h.packets \in Seq(Bytes)
        BY <1>1 DEF Objects
      <4>2. QED
        BY <4>1
    <3>2. h.peerSent = m + size /\ \A i \in 1 .. size : all[i] = <<connection, m + i>>
      BY <1>1, <1>8, <2>3, <2>5, <2>6, <3>1 DEF InputOK
    <3>3. sent = m + (size + 1)
      BY <1>2, <3>2
    <3>4. \A i \in 1 .. size + 1 : Append(all, byte)[i] = <<connection, m + i>>
      <4>1. ASSUME NEW i \in 1 .. size + 1
            PROVE  Append(all, byte)[i] = <<connection, m + i>>
        <5>1. CASE i = size + 1
          BY <1>3, <2>2, <2>5, <3>3, <5>1
        <5>2. CASE i # size + 1
          <6>1. i \in 1 .. size
            BY <5>2
          <6>2. QED
            BY <2>2, <2>5, <3>2, <6>1
        <5>3. QED
          BY <5>1, <5>2
      <4>2. QED
        BY <4>1
    <3>5. QED
      BY <1>7, <1>8, <2>4, <2>5, <2>6, <3>1, <3>3, <3>4 DEF InputOK, BytesOfPackets
  <2>7. CASE h.kind \in PortionedKinds
    BY <1>1, <1>7, <1>8, <2>7 DEF InputOK, BytesOfPackets
  <2>8. QED
    BY <2>6, <2>7
<1>10. OutputOK(h', connection)
  BY <1>7, <1>8, OutputSame
<1>11. StateOK(h') /\ ConnectingOK(h')
  BY <1>1, <1>7, <1>8 DEF StateOK, ConnectingOK
<1>12. TypeOK'
  BY <1>1, <1>6, <1>7 DEF IInv, TypeOK, Kind
<1>13. DeviceOK'
  BY <1>1, <1>7 DEF IInv, DeviceOK, SameEvents
<1>14. EventsOK(h')
  BY <1>7 DEF IInv, EventsOK, SameEvents
<1>15. IInv'
  <2>1. BuffersOK(h', connection')
    BY <1>1, <1>9, <1>10, <1>11 DEF BuffersOK
  <2>2. QED
    BY <2>1, <1>11, <1>12, <1>13, <1>14 DEF IInv
<1>16. QED
  BY <1>7, <1>15 DEF Keeps

-----------------------------------------------------------------------------
(* The steps on Linux.                                                     *)
LEMMA LinuxStep ==
  ASSUME IInv, h.system = "Linux", NEW n, Follows(n), SameEvents(n, h), Becomes(n),
         UNCHANGED <<pollfd, connection, opens, sends>>,
         \/ UNCHANGED <<pc, revents>>
         \/ pc' = "idle" /\ revents' = {}
         \/ pc' = "ended" /\ UNCHANGED revents /\ n.fd = INVALID
  PROVE  Keeps
<1>1. EventsOK(n) /\ n.events = <<>>
  <2>1. EventsOK(n)
    BY LinuxEvents
  <2>2. h.events = <<>>
    BY DEF IInv, EventsOK
  <2>3. QED
    BY <2>1, <2>2 DEF SameEvents
<1>2. /\ opens' \in Nat /\ sends' \in Nat /\ (pollfd'.fd = INVALID => revents' = {})
      /\ pc' \in {"loop", "poll", "wait", "process", "idle", "ended"}
  BY DEF IInv, TypeOK
<1>3. pc' = "process" => pc = "process" /\ UNCHANGED <<revents, pollfd>>
  OBVIOUS
<1>4. pc' = "ended" => n.fd = INVALID
  BY DEF IInv, DeviceOK, Follows
<1>5. QED
  BY <1>1, <1>2, <1>3, <1>4, StepKeeps

(* What opening a device may come to.                                      *)
LEMMA OpenOutcomesOfHandler ==
  ASSUME TypeOK
  PROVE  OpenOutcomes \subseteq {"opened", "failed", "failedWithoutErrno"}
BY HandlerAssumption DEF TypeOK, OpenOutcomes, Handler, Kind

(* onBeforeWaitEvents() opens the device.                                  *)
LEMMA BeforeWaitOpenKeeps ==
  ASSUME IInv, h.system = "Linux", BeforeWaitOpen
  PROVE  Keeps
<1>1. GoodObject(h, connection) /\ h.state = "Disconnected" /\ h.fd = INVALID /\ OpenDue
  BY Start DEF Follows, BeforeWaitOpen, OpenDue
<1>a. PICK d \in Descriptors : \E o \in Opened(h, d) :
        /\ h' = NeedsToWrite(o)
        /\ IF h'.fd = INVALID
           THEN UNCHANGED <<sock, connection>>
           ELSE /\ sock' = IF Kind = "tcpClient" THEN "connecting" ELSE "up"
                /\ connection' = connection + 1
  BY DEF BeforeWaitOpen
<1>2. PICK o \in Opened(h, d) :
        /\ h' = NeedsToWrite(o)
        /\ IF h'.fd = INVALID
           THEN UNCHANGED <<sock, connection>>
           ELSE /\ sock' = IF Kind = "tcpClient" THEN "connecting" ELSE "up"
                /\ connection' = connection + 1
  BY <1>a
<1>3. Reopened(o, h)
  <2>1. CASE Kind = "tcpClient"
    <3>1. PICK outcome \in OpenTcpClientSocket : o = TcpOpen(h, outcome, d)
      BY <1>2, <2>1 DEF Opened
    <3>2. outcome \in {"opened", "failed", "failedWithoutErrno"}
      BY OpenOutcomesOfHandler DEF OpenTcpClientSocket, IInv
    <3>3. QED
      BY <1>1, <2>1, <3>1, <3>2, TcpOpenKeeps
  <2>2. CASE Kind = "udp"
    <3>1. PICK outcome \in CreateUdpSocket : o = UdpOpen(h, outcome, d)
      BY <1>2, <2>2 DEF Opened
    <3>2. QED
      BY <1>1, <3>1, UdpOpenKeeps
  <2>3. CASE Kind = "serial"
    <3>1. PICK outcome \in OpenSerial : o = SerialOpen(h, outcome, d)
      BY <1>2, <2>3 DEF Opened
    <3>2. QED
      BY <1>1, <3>1, SerialOpenKeeps
  <2>4. CASE Kind = "tcpServer"
    <3>1. o = h
      BY <1>2, <2>4 DEF Opened
    <3>2. QED
      BY <1>1, <3>1 DEF Reopened, SameEvents
  <2>5. Kind \in {"tcpClient", "udp", "serial", "tcpServer"}
    BY Start DEF Objects, Kinds, Kind
  <2>6. QED
    BY <2>1, <2>2, <2>3, <2>4, <2>5
<1>4. EventsOK(o)
  <2>1. h.events = <<>> /\ h.selected = {}
    BY DEF IInv, EventsOK
  <2>2. o.system = h.system
    BY <1>3 DEF Reopened, GoodObject
  <2>3. QED
    BY <1>3, <2>1, <2>2 DEF EventsOK, Reopened, SameEvents
<1>5. /\ pc' = "poll" /\ opens' = opens + 1 /\ UNCHANGED <<pollfd, revents, sends>>
  BY DEF BeforeWaitOpen
<1>6. /\ o.fd # INVALID => GoodObject(o, connection + 1) /\ o.inbound = <<>>
      /\ o.fd = INVALID => GoodObject(o, connection)
  BY <1>3 DEF Reopened
<1>7. QED
  BY <1>1, <1>2, <1>4, <1>5, <1>6, OpenKeeps

(* A connecting handler waits for POLLOUT.                                 *)
LEMMA PollKeeps ==
  ASSUME IInv, h.system = "Linux", Poll
  PROVE  Keeps
<1>1. pc' = "process" /\ pollfd' = Assign /\ UNCHANGED <<h, sock, connection, opens, sends>>
  BY DEF Poll
<1>2. pollfd'.fd = INVALID => revents' = {}
  BY DEF Poll
<1>3. ASSUME pollfd'.fd = h.fd, h.state = "Connecting", "IN" \in revents', "HUP" \notin revents'
      PROVE  "OUT" \in revents'
  <2>1. pollfd'.fd # INVALID /\ revents' = OwnEvents(pollfd')
    BY <1>3, <1>2 DEF Poll
  <2>2. Kind = "tcpClient"
    BY <1>3 DEF IInv, BuffersOK, StateOK, Kind
  <2>3. pollfd'.out
    <3>1. PICK out \in BOOLEAN : out = (h.needsToWrite \/ (IsTcp /\ h.state = "Connecting"))
      BY Start DEF Objects
    <3>2. out
      BY <1>3, <2>2, <3>1 DEF IsTcp
    <3>3. Assign = [fd |-> h.fd, out |-> out]
      BY <1>3, <2>2, <3>1 DEF Assign
    <3>4. QED
      BY <1>1, <3>2, <3>3
  <2>4. sock \in {"up", "closed", "refused"}
    <3>1. h.inbound # <<>> \/ sock = "closed"
      BY <1>3, <2>1 DEF OwnEvents
    <3>2. sock # "reset"
      BY <1>3, <2>1, <2>2 DEF OwnEvents
    <3>3. QED
      BY <1>1, <1>3, <2>1, <3>1, <3>2 DEF IInv, TypeOK, DeviceOK
  <2>5. QED
    BY <2>1, <2>3, <2>4 DEF OwnEvents
<1>4. TypeOK'
  BY <1>1, <1>2 DEF IInv, TypeOK, Kind
<1>5. DeviceOK'
  BY <1>1, <1>3 DEF IInv, DeviceOK
<1>6. QED
  BY <1>1, <1>4, <1>5 DEF IInv, Keeps

(* An event of the handler's own finds it with a descriptor.               *)
LEMMA AfterErrorFollows ==
  ASSUME IInv, h.system = "Linux", IsOwnEvent
  PROVE  /\ Follows(AfterError) /\ SameEvents(AfterError, h) /\ h.fd # INVALID
         /\ AfterError.state = "Disconnected" \/ AfterError = h
         /\ AfterError.state = "Disconnected" \/ AfterError.fd # INVALID
<1>1. Follows(h) /\ h.fd # INVALID
  BY Start DEF IsOwnEvent, IInv, TypeOK
<1>2. CASE "ERR" \in revents
  BY <1>1, <1>2, CloseFollows DEF AfterError
<1>3. CASE "ERR" \notin revents
  BY <1>1, <1>3 DEF AfterError, SameEvents
<1>4. QED
  BY <1>2, <1>3

(* ReadyRead() and ReadyWrite() under a condition.                         *)
LEMMA ConnectedFollows ==
  ASSUME IInv, NEW o, Follows(o), o.state = "Connecting" => o.fd # INVALID
  PROVE  /\ Follows(Connected(o)) /\ SameEvents(Connected(o), o)
         /\ Connected(o).state = "Connecting" => o.state = "Connecting" /\ "OUT" \notin revents
<1>1. CASE "OUT" \in revents /\ o.state = "Connecting"
  BY <1>1, ConnectFollows DEF Connected, SetConnectionState
<1>2. CASE ~("OUT" \in revents /\ o.state = "Connecting")
  BY <1>2 DEF Connected, SameEvents
<1>3. QED
  BY <1>1, <1>2

(* process() of an entry that is not the handler's.                        *)
LEMMA ProcessForeignKeeps ==
  ASSUME IInv, ProcessForeign
  PROVE  Keeps
<1>1. pc' = "idle" /\ revents' = {} /\ UNCHANGED <<h, sock, pollfd, connection, opens, sends>>
  BY DEF ProcessForeign, Process
<1>2. TypeOK'
  BY <1>1 DEF IInv, TypeOK, Kind
<1>3. DeviceOK'
  BY <1>1 DEF IInv, DeviceOK
<1>4. QED
  BY <1>1, <1>2, <1>3 DEF IInv, Keeps

(* process() of a connection that the peer has closed.                     *)
LEMMA ProcessHangUpKeeps ==
  ASSUME IInv, h.system = "Linux", ProcessHangUp
  PROVE  Keeps
<1> DEFINE n == Close(ReadyRead(AfterError))
<1>1. /\ Follows(AfterError) /\ SameEvents(AfterError, h)
      /\ AfterError.state = "Disconnected" \/ AfterError.fd # INVALID
  BY AfterErrorFollows DEF ProcessHangUp
<1>2. Follows(n) /\ SameEvents(n, h)
  BY <1>1, ReadAndCloseFollows DEF SameEvents
<1>3. Becomes(n) /\ pc' = "idle" /\ revents' = {} /\ UNCHANGED <<pollfd, connection, opens, sends>>
  BY DEF ProcessHangUp, Process
<1> HIDE DEF n
<1>4. QED
  BY <1>2, <1>3, LinuxStep

(* process() of a TCP socket: it connects, writes, then reads.             *)
LEMMA ProcessSocketKeeps ==
  ASSUME IInv, h.system = "Linux", ProcessSocket
  PROVE  Keeps
<1> DEFINE o == Connected(AfterError)
<1>1. /\ Follows(AfterError) /\ SameEvents(AfterError, h) /\ h.fd # INVALID
      /\ AfterError.state = "Disconnected" \/ AfterError = h
      /\ AfterError.state = "Disconnected" \/ AfterError.fd # INVALID
  BY AfterErrorFollows DEF ProcessSocket
<1>2. /\ Follows(o) /\ SameEvents(o, h)
      /\ o.state = "Connecting" => AfterError.state = "Connecting" /\ "OUT" \notin revents
  BY <1>1, ConnectedFollows DEF SameEvents
<1>3. PICK written \in Written(o, 1) :
        LET w == IF "OUT" \in revents THEN ReadyWrite(o, written) ELSE o
        IN  Becomes(IF "IN" \in revents THEN ReadyRead(w) ELSE w)
  BY DEF ProcessSocket
<1>4. "IN" \in revents => o.state # "Connecting"
  <2>1. SUFFICES ASSUME "IN" \in revents, o.state = "Connecting"
                 PROVE  FALSE
    OBVIOUS
  <2>2. h.state = "Connecting" /\ "OUT" \notin revents
    BY <1>1, <1>2, <2>1
  <2>3. pc = "process" /\ pollfd.fd = h.fd /\ "HUP" \notin revents
    BY DEF ProcessSocket, Process, IsOwnEvent
  <2>4. QED
    BY <2>1, <2>2, <2>3 DEF IInv, DeviceOK
<1> HIDE DEF o
<1> DEFINE w == IF "OUT" \in revents THEN ReadyWrite(o, written) ELSE o
           n == IF "IN" \in revents THEN ReadyRead(w) ELSE w
<1>5. Follows(w) /\ SameEvents(w, h) /\ w.state = o.state
  BY <1>2, <1>3, ReadyWriteFollows DEF SameEvents
<1>6. Becomes(n)
  BY <1>3
<1> HIDE DEF w
<1>7. Follows(n) /\ SameEvents(n, h)
  <2>1. CASE "IN" \in revents
    BY <1>4, <1>5, <2>1, ReadyReadFollows DEF SameEvents
  <2>2. CASE "IN" \notin revents
    BY <1>5, <2>2
  <2>3. QED
    BY <2>1, <2>2
<1>8. pc' = "idle" /\ revents' = {} /\ UNCHANGED <<pollfd, connection, opens, sends>>
  BY DEF ProcessSocket, Process
<1> HIDE DEF n
<1>9. QED
  BY <1>6, <1>7, <1>8, LinuxStep

(* Only a TCP client is ever connecting.                                   *)
LEMMA NotConnecting ==
  ASSUME NEW o, Follows(o), Kind # "tcpClient"
  PROVE  o.state # "Connecting"
BY DEF Follows, GoodObject, BuffersOK, StateOK

(* process() of a UDP socket.                                              *)
LEMMA ProcessUdpKeeps ==
  ASSUME IInv, h.system = "Linux", ProcessUdp
  PROVE  Keeps
<1> DEFINE o == AfterError
<1>1. /\ Follows(o) /\ SameEvents(o, h) /\ Kind = "udp"
      /\ o.state = "Disconnected" \/ o.fd # INVALID
  BY AfterErrorFollows DEF ProcessUdp
<1>2. PICK written \in Written(o, 1) :
        LET w == IF "OUT" \in revents THEN ReadyWrite(o, written) ELSE o
        IN  Becomes(IF "HUP" \in revents THEN Close(ReadyRead(o))
                    ELSE IF "IN" \in revents THEN ReadyRead(w)
                    ELSE w)
  BY DEF ProcessUdp
<1> HIDE DEF o
<1> DEFINE w == IF "OUT" \in revents THEN ReadyWrite(o, written) ELSE o
           n == IF "HUP" \in revents THEN Close(ReadyRead(o))
                ELSE IF "IN" \in revents THEN ReadyRead(w)
                ELSE w
<1>3. Follows(w) /\ SameEvents(w, h)
  BY <1>1, <1>2, ReadyWriteFollows DEF SameEvents
<1>4. Becomes(n)
  BY <1>2
<1> HIDE DEF w
<1>5. Follows(n) /\ SameEvents(n, h)
  <2>1. CASE "HUP" \in revents
    BY <1>1, <2>1, ReadAndCloseFollows DEF SameEvents
  <2>2. CASE "HUP" \notin revents /\ "IN" \in revents
    <3>1. w.state # "Connecting"
      BY <1>1, <1>3, NotConnecting
    <3>2. QED
      BY <1>3, <2>2, <3>1, ReadyReadFollows DEF SameEvents
  <2>3. CASE "HUP" \notin revents /\ "IN" \notin revents
    BY <1>3, <2>3
  <2>4. QED
    BY <2>1, <2>2, <2>3
<1>6. pc' = "idle" /\ revents' = {} /\ UNCHANGED <<pollfd, connection, opens, sends>>
  BY DEF ProcessUdp, Process
<1> HIDE DEF n
<1>7. QED
  BY <1>4, <1>5, <1>6, LinuxStep

(* process() of a serial port, which reads before it writes.               *)
LEMMA ProcessSerialKeeps ==
  ASSUME IInv, h.system = "Linux", ProcessSerial
  PROVE  Keeps
<1> DEFINE o == IF "HUP" \in revents THEN Close(AfterError) ELSE AfterError
           r == IF "IN" \in revents THEN ReadyRead(o) ELSE o
<1>1. Follows(AfterError) /\ SameEvents(AfterError, h) /\ Kind = "serial"
  BY AfterErrorFollows DEF ProcessSerial
<1>2. Follows(o) /\ SameEvents(o, h)
  BY <1>1, CloseFollows DEF SameEvents
<1>3. pc' = "idle" /\ revents' = {} /\ UNCHANGED <<pollfd, connection, opens, sends>>
  BY DEF ProcessSerial, Process
<1>4. \/ Becomes(o)
      \/ \E written \in Written(r, 1) : Becomes(IF "OUT" \in revents THEN ReadyWrite(Connected(r), written) ELSE r)
  BY DEF ProcessSerial
<1> HIDE DEF o
<1>5. Follows(r) /\ SameEvents(r, h)
  <2>1. o.state # "Connecting"
    BY <1>1, <1>2, NotConnecting
  <2>2. QED
    BY <1>2, <2>1, ReadyReadFollows DEF SameEvents
<1> HIDE DEF r
<1>6. Connected(r) = r
  BY <1>1, <1>5, NotConnecting DEF Connected
<1>7. CASE Becomes(o)
  BY <1>2, <1>3, <1>7, LinuxStep
<1>8. ASSUME NEW written \in Written(r, 1), Becomes(IF "OUT" \in revents THEN ReadyWrite(Connected(r), written) ELSE r)
      PROVE  Keeps
  <2> DEFINE n == IF "OUT" \in revents THEN ReadyWrite(r, written) ELSE r
  <2>1. Becomes(n)
    BY <1>6, <1>8
  <2>2. Follows(n) /\ SameEvents(n, h)
    BY <1>5, ReadyWriteFollows DEF SameEvents
  <2> HIDE DEF n
  <2>3. QED
    BY <1>3, <2>1, <2>2, LinuxStep
<1>9. QED
  BY <1>4, <1>7, <1>8 DEF Keeps

(* The application closes the connection.                                  *)
LEMMA CloseHandlerKeeps ==
  ASSUME IInv, h.system = "Linux", CloseHandler
  PROVE  Keeps
<1>1. Follows(Close(h)) /\ SameEvents(Close(h), h)
  BY Start, CloseFollows
<1>2. Becomes(Close(h)) /\ UNCHANGED <<pc, pollfd, revents, connection, opens, sends>>
  BY DEF CloseHandler
<1>3. QED
  BY <1>1, <1>2, LinuxStep

(* A handler that is not closed has no descriptor.                         *)
LEMMA TerminateKeeps ==
  ASSUME IInv, h.system = "Linux", Terminate
  PROVE  Keeps
<1> DEFINE n == IF IsTcp \/ h.state = "Connected" THEN Close(h) ELSE h
<1>1. Follows(h) /\ h \in Objects /\ (h.state = "Disconnected" => h.fd = INVALID)
  BY Start
<1>2. Follows(Close(h)) /\ SameEvents(Close(h), h) /\ Close(h).fd = INVALID
  BY <1>1, CloseFollows
<1>3. Follows(n) /\ SameEvents(n, h) /\ n.fd = INVALID
  <2>1. CASE IsTcp \/ h.state = "Connected"
    BY <1>2, <2>1
  <2>2. CASE ~(IsTcp \/ h.state = "Connected")
    <3>1. Kind # "tcpClient"
      BY <2>2 DEF IsTcp
    <3>2. h.state = "Disconnected"
      BY <1>1, <2>2, <3>1, NotConnecting DEF Objects, States
    <3>3. QED
      BY <1>1, <2>2, <3>2 DEF SameEvents
  <2>3. QED
    BY <2>1, <2>2
<1>4. Becomes(n) /\ pc' = "ended" /\ UNCHANGED <<pollfd, revents, connection, opens, sends>>
  BY DEF Terminate
<1> HIDE DEF n
<1>5. QED
  BY <1>3, <1>4, LinuxStep


-----------------------------------------------------------------------------
(* A new handler, on either system.                                        *)
LEMMA InitGood ==
  ASSUME NEW system \in {"Linux", "Windows"}, NEW events \in Seq(Nat), InitOn(system, events),
         system = "Linux" => events = <<>>, system = "Windows" => events # <<>>
  PROVE  IInv /\ h.system = system
<1>0. system \in DOMAIN Handlers
  BY DEF InitOn
<1>1. PICK kind \in DOMAIN Handlers[system] :
        LET accepted == kind = "tcpServer"
        IN
        /\ pc = "loop" /\ opens = 0 /\ sends = 0
        /\ pollfd = [fd |-> 0, out |-> FALSE] /\ revents = {}
        /\ connection = IF accepted THEN 1 ELSE 0
        /\ sock = IF accepted THEN "up" ELSE "none"
        /\ h = [kind |-> kind, system |-> system,
                events |-> IF kind \in {"tcpClient", "tcpServer"} THEN events ELSE <<>>,
                selected |-> {},
                state |-> IF accepted THEN "Connected" ELSE "Disconnected",
                fd |-> IF accepted THEN 1 ELSE INVALID,
                needsToWrite |-> FALSE, due |-> TRUE,
                in |-> <<>>, out |-> <<>>, position |-> 0,
                inbound |-> <<>>,
                peerSent |-> 0, sent |-> 0, wire |-> <<>>, packets |-> <<>>,
                last |-> IF accepted THEN "Connected" ELSE "none",
                calls |-> {}]
  BY DEF InitOn
<1>2. kind \in Kinds
  BY HandlerAssumption, <1>0
<1>3. h \in Objects
  <2>1. <<>> \in Bytes /\ <<>> \in Seq(Bytes) /\ <<>> \in Seq(Nat)
    BY NoBytes
  <2>2. {} \in Selections /\ {} \in Calls
    BY DEF Selections, Calls
  <2>3. (IF kind = "tcpServer" THEN 1 ELSE INVALID) \in Descriptors \cup {INVALID}
    BY DEF Descriptors
  <2>4. /\ (IF kind = "tcpServer" THEN "Connected" ELSE "Disconnected") \in States
        /\ (IF kind = "tcpServer" THEN "Connected" ELSE "none") \in States \cup {"none"}
    BY DEF States
  <2>5. (IF kind \in {"tcpClient", "tcpServer"} THEN events ELSE <<>>) \in Seq(Nat)
    BY <2>1
  <2>6. QED
    BY <1>1, <1>2, <2>1, <2>2, <2>3, <2>4, <2>5 DEF Objects
<1>4. TypeOK
  <2>1. pollfd.fd # INVALID
    BY <1>1 DEF INVALID
  <2>2. QED
    BY <1>0, <1>1, <1>3, <2>1 DEF TypeOK, Kind
<1>5. StateOK(h)
  BY <1>1 DEF StateOK, INVALID
<1>6. OutputOK(h, connection) /\ InputOK(h, connection)
  <2>1. h.wire = <<>> /\ h.out = <<>> /\ h.sent = 0
    BY <1>1
  <2>2. h.packets = <<>> /\ h.in = <<>> /\ h.inbound = <<>> /\ h.peerSent = 0
    BY <1>1
  <2>3. QED
    BY <2>1, <2>2, OutputNone, InputNone
<1>7. ConnectingOK(h)
  BY <1>1 DEF ConnectingOK
<1>8. EventsOK(h)
  BY <1>1, <1>2 DEF EventsOK, INVALID, Kinds
<1>9. DeviceOK
  BY <1>1 DEF DeviceOK, INVALID
<1>10. QED
  BY <1>1, <1>4, <1>5, <1>6, <1>7, <1>8, <1>9 DEF IInv, BuffersOK

(* Nothing happens.                                                        *)
LEMMA StutterKeeps ==
  ASSUME IInv, UNCHANGED handlerVars
  PROVE  Keeps
<1>1. h' = h /\ connection' = connection
  BY DEF handlerVars
<1>2. TypeOK'
  BY DEF handlerVars, IInv, TypeOK, Kind
<1>3. DeviceOK'
  BY DEF handlerVars, IInv, DeviceOK
<1>4. BuffersOK(h', connection') /\ ConnectingOK(h') /\ EventsOK(h')
  BY <1>1 DEF IInv
<1>5. QED
  BY <1>1, <1>2, <1>3, <1>4 DEF Keeps, IInv

(* Every step of the handler on Linux.                                     *)
LEMMA NextKeeps ==
  ASSUME IInv, h.system = "Linux", [Next]_handlerVars
  PROVE  Keeps
<1>1. CASE BeforeWaitNothing
  BY <1>1, BeforeWaitNothingKeeps
<1>2. CASE BeforeWaitOpen
  BY <1>2, BeforeWaitOpenKeeps
<1>3. CASE Poll
  BY <1>3, PollKeeps
<1>4. CASE ProcessForeign
  BY <1>4, ProcessForeignKeeps
<1>5. CASE ProcessHangUp
  BY <1>5, ProcessHangUpKeeps
<1>6. CASE ProcessSocket
  BY <1>6, ProcessSocketKeeps
<1>7. CASE ProcessUdp
  BY <1>7, ProcessUdpKeeps
<1>8. CASE ProcessSerial
  BY <1>8, ProcessSerialKeeps
<1>9. CASE Idle
  BY <1>9, IdleKeeps
<1>10. CASE Terminate
  BY <1>10, TerminateKeeps
<1>11. CASE SendPacket
  BY <1>11, SendPacketKeeps
<1>12. CASE CloseHandler
  BY <1>12, CloseHandlerKeeps
<1>13. CASE ConnectEnds \/ PeerClose \/ PeerReset
  BY <1>13, SystemKeeps
<1>14. CASE PeerSend
  BY <1>14, PeerSendKeeps
<1>15. CASE TimePasses
  BY <1>15, TimePassesKeeps
<1>16. CASE UNCHANGED handlerVars
  BY <1>16, StutterKeeps
<1>17. QED
  BY <1>1, <1>2, <1>3, <1>4, <1>5, <1>6, <1>7, <1>8, <1>9, <1>10, <1>11, <1>12, <1>13, <1>14, <1>15, <1>16
     DEF Next, ThreadStep

-----------------------------------------------------------------------------
(* What an operation on Windows leaves of an object: nothing that the      *)
(* object did not have, but for what it reads and writes.                  *)
After(n, o, c) ==
  /\ GoodObject(n, c)
  /\ n.fd \in {o.fd, INVALID} /\ n.inbound \in {o.inbound, <<>>}
  /\ n.state = "Connecting" => o.state = "Connecting"

(* It is still open, and reports to the same event.                        *)
AsBefore(n, o) == n.fd = o.fd /\ n.state = o.state /\ n.events = o.events

(* It is closed, and reports to none.                                      *)
IsClosed(n) == n.fd = INVALID /\ n.events = <<>> /\ n.selected = {}

(* slotOnReadyToWrite().                                                   *)
LEMMA AfterWrite ==
  ASSUME NEW c, NEW o, GoodObject(o, c), NEW least, NEW k \in Written(o, least)
  PROVE  LET n == ReadyWrite(o, k)
         IN  After(n, o, c) /\ AsBefore(n, o) /\ n.selected = o.selected
<1>1. k \in 0 .. Len(o.out)
  BY WrittenBounds DEF GoodObject
<1> DEFINE n == ReadyWrite(o, k)
<1>2. /\ GoodObject(n, c) /\ n.fd = o.fd /\ n.inbound = o.inbound /\ n.state = o.state /\ SameEvents(n, o)
  BY <1>1, ReadyWriteKeeps
<1> HIDE DEF n
<1>3. QED
  BY <1>2 DEF n, After, AsBefore, SameEvents

(* What needs to be written is written before the thread waits.            *)
LEMMA AfterFlush ==
  ASSUME NEW c, NEW o, GoodObject(o, c), NEW f \in Flushed(o)
  PROVE  After(f, o, c) /\ AsBefore(f, o) /\ f.selected = o.selected
<1>1. CASE f = o
  BY <1>1 DEF After, AsBefore
<1>2. CASE f # o
  <2>1. PICK k \in Written(o, 0) : f = ReadyWrite(o, k)
    BY <1>2 DEF Flushed
  <2>2. QED
    BY <2>1, AfterWrite
<1>3. QED
  BY <1>1, <1>2

(* A device is asked for conditions that there are.                        *)
LEMMA MaskOfConditions ==
  ASSUME NEW o
  PROVE  Mask(o) \in SUBSET {"READ", "WRITE", "CLOSE", "CONNECT"}
BY DEF Mask

(* WSAEventSelect(), SetCommMask().                                        *)
LEMMA AfterSelect ==
  ASSUME NEW c, NEW o, GoodObject(o, c), o.events # <<>>
  PROVE  LET n == Select(o)
         IN  After(n, o, c) /\ AsBefore(n, o) /\ n.selected = {<<o.events[1], Mask(o)>>}
<1> DEFINE s == {<<o.events[1], Mask(o)>>}
<1> DEFINE n == [o EXCEPT !.selected = s]
<1>1. o \in Objects
  BY DEF GoodObject
<1>2. o.events[1] \in Nat
  <2>1. \A e \in Seq(Nat) : e # <<>> => e[1] \in Nat
    OBVIOUS
  <2>2. QED
    BY <1>1, <2>1 DEF Objects
<1>3. s \in Selections
  BY <1>2, MaskOfConditions DEF Selections
<1> HIDE DEF s
<1>4. /\ n.kind = o.kind /\ n.system = o.system /\ n.state = o.state /\ n.last = o.last /\ n.calls = o.calls
      /\ n.fd = o.fd /\ n.in = o.in /\ n.out = o.out /\ n.inbound = o.inbound /\ n.wire = o.wire
      /\ n.packets = o.packets /\ n.position = o.position /\ n.peerSent = o.peerSent /\ n.sent = o.sent
      /\ n.events = o.events /\ n.selected = s
  BY <1>1 DEF Objects
<1>5. n \in Objects
  BY <1>1, <1>3, FieldsOfObject
<1>6. Select(o) = n
  BY DEF Select, s
<1> HIDE DEF n
<1>7. GoodObject(n, c)
  BY <1>4, <1>5, SameObject
<1>8. QED
  BY <1>4, <1>6, <1>7 DEF After, AsBefore, s

(* The event is destroyed, and the device reports to none.                 *)
LEMMA AfterUnregister ==
  ASSUME NEW c, NEW o, GoodObject(o, c)
  PROVE  LET n == Unregistered(o)
         IN  /\ After(n, o, c) /\ n.fd = o.fd /\ n.state = o.state
             /\ n.events = <<>> /\ n.selected = {}
<1> DEFINE m == [o EXCEPT !.events = <<>>]
<1> DEFINE n == [m EXCEPT !.selected = {}]
<1>1. o \in Objects /\ <<>> \in Seq(Nat) /\ {} \in Selections
  BY NoBytes DEF GoodObject, Selections
<1>2. m \in Objects
  BY <1>1, FieldsOfObject
<1>3. n \in Objects
  BY <1>1, <1>2, FieldsOfObject
<1>4. /\ n.kind = o.kind /\ n.system = o.system /\ n.state = o.state /\ n.last = o.last /\ n.calls = o.calls
      /\ n.fd = o.fd /\ n.in = o.in /\ n.out = o.out /\ n.inbound = o.inbound /\ n.wire = o.wire
      /\ n.packets = o.packets /\ n.position = o.position /\ n.peerSent = o.peerSent /\ n.sent = o.sent
      /\ n.events = <<>> /\ n.selected = {}
  BY <1>1 DEF Objects
<1>5. Unregistered(o) = n
  BY <1>1 DEF Unregistered, Objects
<1> HIDE DEF n
<1>6. GoodObject(n, c)
  BY <1>3, <1>4, SameObject
<1>7. QED
  BY <1>4, <1>5, <1>6 DEF After

(* close() of the descriptor.                                              *)
LEMMA AfterClose ==
  ASSUME NEW c, NEW o, GoodObject(o, c)
  PROVE  LET n == Close(o)
         IN  After(n, o, c) /\ n.fd = INVALID /\ SameEvents(n, o) /\ (n = o \/ n.state = "Disconnected")
<1> DEFINE n == Close(o)
<1>1. /\ n \in Objects /\ n.kind = Kind /\ n.system = h.system /\ BuffersOK(n, c)
      /\ n.fd = INVALID /\ n.inbound = <<>> /\ SameEvents(n, o)
      /\ n = o \/ n.state = "Disconnected"
  BY CloseKeeps DEF GoodObject
<1> HIDE DEF n
<1>2. ConnectingOK(n)
  BY <1>1 DEF GoodObject, ConnectingOK
<1>3. GoodObject(n, c)
  BY <1>1, <1>2 DEF GoodObject
<1>4. n.state = "Connecting" => o.state = "Connecting"
  BY <1>1
<1>5. QED
  BY <1>1, <1>3, <1>4 DEF After, n

(* close() of a device whose event was destroyed.                          *)
LEMMA AfterUnregisteredClose ==
  ASSUME NEW c, NEW o, GoodObject(o, c)
  PROVE  After(Close(Unregistered(o)), o, c) /\ IsClosed(Close(Unregistered(o)))
<1> DEFINE u == Unregistered(o)
<1>1. After(u, o, c) /\ GoodObject(u, c) /\ u.events = <<>> /\ u.selected = {}
  BY AfterUnregister DEF After
<1> HIDE DEF u
<1> DEFINE n == Close(u)
<1>2. After(n, u, c) /\ n.fd = INVALID /\ SameEvents(n, u)
  BY <1>1, AfterClose
<1> HIDE DEF n
<1>3. After(n, o, c) /\ IsClosed(n)
  BY <1>1, <1>2 DEF After, SameEvents, IsClosed
<1>4. QED
  BY <1>3 DEF n, u

(* One operation after another.                                            *)
LEMMA AfterTransitive ==
  ASSUME NEW c, NEW n, NEW m, NEW o, After(m, o, c), After(n, m, c)
  PROVE  After(n, o, c)
BY DEF After

(* slotOnReadyToRead() of a handler that is not Connecting.                *)
LEMMA AfterRead ==
  ASSUME NEW c \in Nat, NEW o, GoodObject(o, c), o.state # "Connecting"
  PROVE  LET n == ReadyRead(o)
         IN  After(n, o, c) /\ AsBefore(n, o) /\ n.selected = o.selected
<1>1. o.state = "Disconnected" \/ o.fd # INVALID
  BY DEF GoodObject, BuffersOK, StateOK, Objects, States
<1> DEFINE n == ReadyRead(o)
<1>2. /\ GoodObject(n, c)
      /\ n.fd = o.fd /\ n.state = o.state /\ n.inbound \in {o.inbound, <<>>} /\ SameEvents(n, o)
  BY <1>1, ReadyReadKeeps
<1> HIDE DEF n
<1>3. QED
  BY <1>2 DEF n, After, AsBefore, SameEvents

(* A serial port is never Connecting.                                      *)
LEMMA SerialConnected ==
  ASSUME NEW c, NEW o, GoodObject(o, c), Kind # "tcpClient"
  PROVE  o.state # "Connecting"
BY DEF GoodObject, BuffersOK, StateOK

(* processEvent() of a serial port.                                        *)
LEMMA AfterProcessEvent ==
  ASSUME NEW c \in Nat, NEW o, GoodObject(o, c), Kind = "serial", NEW mask, NEW n \in ProcessEvent(o, mask)
  PROVE  After(n, o, c) /\ AsBefore(n, o) /\ n.selected = o.selected
<1>1. PICK r \in IF "READ" \in mask THEN SerialReadyRead(o) ELSE {o} :
        n \in IF "WRITE" \in mask THEN {ReadyWrite(r, k) : k \in Written(r, 1)} ELSE {r}
  BY DEF ProcessEvent, All
<1>2. After(r, o, c) /\ AsBefore(r, o) /\ r.selected = o.selected
  <2>1. r = o \/ r = ReadyRead(o)
    BY <1>1 DEF SerialReadyRead
  <2>2. o.state # "Connecting"
    BY SerialConnected
  <2>3. CASE r = o
    BY <2>3 DEF After, AsBefore
  <2>4. CASE r = ReadyRead(o)
    BY <2>2, <2>4, AfterRead
  <2>5. QED
    BY <2>1, <2>3, <2>4
<1>3. CASE n = r
  BY <1>2, <1>3
<1>4. CASE n # r
  <2>1. PICK k \in Written(r, 1) : n = ReadyWrite(r, k)
    BY <1>1, <1>4
  <2>2. GoodObject(r, c)
    BY <1>2 DEF After
  <2>3. After(n, r, c) /\ AsBefore(n, r) /\ n.selected = r.selected
    BY <2>1, <2>2, AfterWrite
  <2>4. QED
    BY <1>2, <2>3, AfterTransitive DEF AsBefore
<1>5. QED
  BY <1>3, <1>4

(* A serial port waits for an event, or has it already.                    *)
LEMMA AfterSerialWaits ==
  ASSUME NEW c \in Nat, NEW o, GoodObject(o, c), Kind = "serial", o.events # <<>>, NEW n \in SerialWaits(o)
  PROVE  After(n, o, c) /\ AsBefore(n, o)
<1>1. CASE n = o
  BY <1>1 DEF After, AsBefore
<1>2. CASE n # o
  <2>1. PICK f \in Flushed(o) : n = Select(f) \/ \E mask \in SUBSET Mask(f) : n \in ProcessEvent(Select(f), mask)
    BY <1>2 DEF SerialWaits, All
  <2>2. After(f, o, c) /\ AsBefore(f, o) /\ GoodObject(f, c) /\ f.events # <<>>
    BY AfterFlush DEF After, AsBefore
  <2>3. PICK s : s = Select(f)
    OBVIOUS
  <2>4. After(s, f, c) /\ AsBefore(s, f) /\ GoodObject(s, c)
    BY <2>2, <2>3, AfterSelect DEF After
  <2>5. CASE n = s
    BY <2>2, <2>4, <2>5, AfterTransitive DEF AsBefore
  <2>6. CASE n # s
    <3>1. PICK mask : n \in ProcessEvent(s, mask)
      BY <2>1, <2>3, <2>6
    <3>2. After(n, s, c) /\ AsBefore(n, s)
      BY <2>4, <3>1, AfterProcessEvent
    <3>3. After(n, f, c)
      BY <2>4, <3>2, AfterTransitive
    <3>4. QED
      BY <2>2, <2>4, <3>2, <3>3, AfterTransitive DEF AsBefore
  <2>7. QED
    BY <2>5, <2>6
<1>3. QED
  BY <1>1, <1>2

(* events() of a serial port, which closes it when it cannot wait.         *)
LEMMA AfterSerialEvents ==
  ASSUME NEW c \in Nat, NEW o, GoodObject(o, c), Kind = "serial", o.events # <<>>, NEW n \in SerialEvents(o)
  PROVE  After(n, o, c) /\ (AsBefore(n, o) \/ IsClosed(n))
<1>1. CASE n \in SerialWaits(o)
  BY <1>1, AfterSerialWaits
<1>2. CASE n \notin SerialWaits(o)
  <2>1. PICK f \in Flushed(o) : \E w \in SerialWaits(f) : n = Close(Unregistered(w))
    BY <1>2 DEF SerialEvents, All
  <2>2. PICK w \in SerialWaits(f) : n = Close(Unregistered(w))
    BY <2>1
  <2>3. After(f, o, c) /\ AsBefore(f, o) /\ GoodObject(f, c) /\ f.events # <<>>
    BY AfterFlush DEF After, AsBefore
  <2>4. After(w, f, c) /\ GoodObject(w, c)
    BY <2>3, AfterSerialWaits DEF After
  <2>5. After(n, w, c) /\ IsClosed(n)
    BY <2>2, <2>4, AfterUnregisteredClose
  <2>6. After(w, o, c)
    BY <2>3, <2>4, AfterTransitive
  <2>7. QED
    BY <2>5, <2>6, AfterTransitive
<1>3. QED
  BY <1>1, <1>2

(* Waiting for a device, or asking for its events.                         *)
LEMMA AfterEventsOf ==
  ASSUME NEW c \in Nat, NEW o, GoodObject(o, c), NEW n \in EventsOf(o)
  PROVE  /\ After(n, o, c)
         /\ \/ n = o /\ (o.fd = INVALID \/ o.events = <<>>)
            \/ /\ o.fd # INVALID /\ o.events # <<>> /\ AsBefore(n, o)
               /\ Kind # "serial" => n.selected = {<<n.events[1], Mask(n)>>}
            \/ Kind = "serial" /\ IsClosed(n)
<1>1. CASE o.fd = INVALID \/ o.events = <<>>
  <2>1. n = o
    BY <1>1 DEF EventsOf
  <2>2. QED
    BY <1>1, <2>1 DEF After
<1>2. CASE ~(o.fd = INVALID \/ o.events = <<>>) /\ Kind = "serial"
  <2>1. n \in SerialEvents(o)
    BY <1>2 DEF EventsOf
  <2>2. QED
    BY <1>2, <2>1, AfterSerialEvents
<1>3. CASE ~(o.fd = INVALID \/ o.events = <<>>) /\ Kind # "serial"
  <2>1. PICK f \in Flushed(o) : n = Select(f)
    BY <1>3 DEF EventsOf
  <2>2. After(f, o, c) /\ AsBefore(f, o) /\ GoodObject(f, c) /\ f.events # <<>>
    BY <1>3, AfterFlush DEF After, AsBefore
  <2>3. After(n, f, c) /\ AsBefore(n, f) /\ n.selected = {<<f.events[1], Mask(f)>>}
    BY <2>1, <2>2, AfterSelect
  <2>4. Mask(n) = Mask(f)
    BY <1>3, <2>1 DEF Mask, Select
  <2>5. After(n, o, c)
    BY <2>2, <2>3, AfterTransitive
  <2>6. QED
    BY <1>3, <2>2, <2>3, <2>4, <2>5 DEF AsBefore
<1>4. QED
  BY <1>1, <1>2, <1>3


(* unregisterEvent(): events() runs before the event is destroyed.         *)
LEMMA AfterUnregisterEvent ==
  ASSUME NEW c \in Nat, NEW o, GoodObject(o, c), NEW n \in UnregisterEvent(o)
  PROVE  /\ After(n, o, c) /\ n.events = <<>> /\ n.selected = {}
         /\ Kind # "serial" \/ o.fd = INVALID \/ o.events = <<>> => n.fd = o.fd /\ n.state = o.state
<1>1. PICK e \in EventsOf(o) : n = Unregistered(e)
  BY DEF UnregisterEvent
<1>2. After(e, o, c) /\ GoodObject(e, c) /\ (Kind # "serial" \/ o.fd = INVALID \/ o.events = <<>> => AsBefore(e, o))
  <2>1. /\ After(e, o, c)
        /\ \/ e = o
           \/ AsBefore(e, o)
           \/ Kind = "serial" /\ o.fd # INVALID /\ o.events # <<>>
    <3>1. CASE o.fd = INVALID \/ o.events = <<>>
      <4>1. e = o
        BY <3>1 DEF EventsOf
      <4>2. QED
        BY <4>1, AfterEventsOf
    <3>2. CASE ~(o.fd = INVALID \/ o.events = <<>>)
      BY <3>2, AfterEventsOf
    <3>3. QED
      BY <3>1, <3>2
  <2>2. AsBefore(o, o)
    BY DEF AsBefore
  <2>3. QED
    BY <2>1, <2>2 DEF After
<1>3. After(n, e, c) /\ n.fd = e.fd /\ n.state = e.state /\ n.events = <<>> /\ n.selected = {}
  BY <1>1, <1>2, AfterUnregister
<1>4. QED
  BY <1>2, <1>3, AfterTransitive DEF AsBefore

(* There is always another event.                                          *)
LEMMA NewEventIsOne ==
  ASSUME NEW o
  PROVE  NewEvent(o) \in Nat
<1>1. \E e \in EventNumbers : <<e>> # o.events
  <2>1. 1 \in EventNumbers /\ 2 \in EventNumbers
    BY DEF EventNumbers
  <2>2. <<1>> # <<2>>
    OBVIOUS
  <2>3. QED
    BY <2>1, <2>2
<1>2. NewEvent(o) \in EventNumbers
  BY <1>1 DEF NewEvent
<1>3. QED
  BY <1>2 DEF EventNumbers

(* The device gets a new event.                                            *)
LEMMA AfterRegisterEvent ==
  ASSUME NEW c \in Nat, NEW o, GoodObject(o, c), NEW n \in RegisterEvent(o), o.system = "Windows",
         Kind = "serial" => o.fd # INVALID /\ o.events = <<>>
  PROVE  After(n, o, c) /\ EventsOK(n) /\ n.fd = o.fd /\ n.state = o.state
<1>1. PICK u \in UnregisterEvent(o) : n = [u EXCEPT !.events = <<NewEvent(o)>>]
  BY DEF RegisterEvent
<1>2. After(u, o, c) /\ GoodObject(u, c) /\ u \in Objects /\ u.selected = {} /\ u.fd = o.fd /\ u.state = o.state
  <2>1. Kind # "serial" \/ o.fd = INVALID \/ o.events = <<>>
    OBVIOUS
  <2>2. After(u, o, c) /\ u.selected = {} /\ u.fd = o.fd /\ u.state = o.state
    BY <2>1, AfterUnregisterEvent
  <2>3. QED
    BY <2>2 DEF After, GoodObject
<1>3. PICK events \in Seq(Nat) : events = <<NewEvent(o)>>
  <2>1. \A k \in Nat : <<k>> \in Seq(Nat)
    OBVIOUS
  <2>2. QED
    BY <2>1, NewEventIsOne
<1>4. events # <<>>
  BY <1>3
<1>5. n \in Objects
  BY <1>1, <1>2, <1>3, FieldsOfObject
<1>6. /\ n.kind = u.kind /\ n.system = u.system /\ n.state = u.state /\ n.last = u.last /\ n.calls = u.calls
      /\ n.fd = u.fd /\ n.in = u.in /\ n.out = u.out /\ n.inbound = u.inbound /\ n.wire = u.wire
      /\ n.packets = u.packets /\ n.position = u.position /\ n.peerSent = u.peerSent /\ n.sent = u.sent
      /\ n.events = events /\ n.selected = u.selected
  BY <1>1, <1>2, <1>3 DEF Objects
<1>7. GoodObject(n, c)
  BY <1>2, <1>5, <1>6, SameObject
<1>8. After(n, o, c)
  BY <1>2, <1>6, <1>7 DEF After
<1>9. EventsOK(n)
  BY <1>2, <1>4, <1>6, <1>7 DEF EventsOK, GoodObject
<1>10. QED
  BY <1>2, <1>6, <1>8, <1>9

(* close(), of a device that reports to an event or of none.               *)
LEMMA AfterCloseDevice ==
  ASSUME NEW c \in Nat, NEW o, GoodObject(o, c), EventsOK(o), NEW n \in CloseDevice(o)
  PROVE  After(n, o, c) /\ EventsOK(n) /\ n.fd = INVALID
<1>1. CASE o.fd = INVALID
  <2>1. n = Close(o)
    BY <1>1 DEF CloseDevice
  <2>2. After(n, o, c) /\ n.fd = INVALID /\ SameEvents(n, o)
    BY <2>1, AfterClose
  <2>3. EventsOK(n)
    BY <1>1, <2>2 DEF EventsOK, SameEvents, After, GoodObject
  <2>4. QED
    BY <2>2, <2>3
<1>2. CASE o.fd # INVALID
  <2>1. PICK u \in UnregisterEvent(o) : n = Close(u)
    BY <1>2 DEF CloseDevice
  <2>2. After(u, o, c) /\ GoodObject(u, c) /\ u.events = <<>> /\ u.selected = {}
    BY AfterUnregisterEvent DEF After
  <2>3. After(n, u, c) /\ n.fd = INVALID /\ SameEvents(n, u)
    BY <2>1, <2>2, AfterClose
  <2>4. After(n, o, c)
    BY <2>2, <2>3, AfterTransitive
  <2>5. EventsOK(n)
    BY <2>2, <2>3 DEF EventsOK, SameEvents
  <2>6. QED
    BY <2>3, <2>4, <2>5
<1>3. QED
  BY <1>1, <1>2

-----------------------------------------------------------------------------
(* What open() leaves, before NeedsToWrite().                              *)
WindowsOpened(n) ==
  /\ n.fd # INVALID => GoodObject(n, connection + 1) /\ n.inbound = <<>>
  /\ n.fd = INVALID => GoodObject(n, connection)
  /\ EventsOK(n)

(* A device that has been opened gets its event.                           *)
LEMMA RegisteredOpened ==
  ASSUME connection \in Nat, h.system = "Windows", NEW o, GoodObject(o, connection + 1), o.fd # INVALID,
         o.inbound = <<>>, Kind = "serial" => o.events = <<>>, NEW n \in RegisterEvent(o)
  PROVE  WindowsOpened(n)
<1>1. connection + 1 \in Nat /\ o.system = "Windows"
  BY DEF GoodObject
<1>2. After(n, o, connection + 1) /\ EventsOK(n) /\ n.fd = o.fd
  BY <1>1, AfterRegisterEvent
<1>3. QED
  BY <1>2 DEF After, WindowsOpened

(* open() of a TCP client on Windows.                                      *)
LEMMA WindowsOpenTcp ==
  ASSUME IInv, h.system = "Windows", h.state = "Disconnected", Kind = "tcpClient",
         NEW outcome \in {"opened", "failed", "failedWithoutErrno"}, NEW d \in Descriptors, NEW n \in OpenTcp(h, outcome, d)
  PROVE  WindowsOpened(n)
<1>1. GoodObject(h, connection) /\ connection \in Nat /\ EventsOK(h) /\ h.fd = INVALID
  BY Start DEF Follows
<1> DEFINE c == ConnectionStateChanged(h, "Connecting")
<1>2. /\ c \in Objects /\ c.kind = Kind /\ c.system = h.system /\ SameEvents(c, h)
      /\ c.fd = INVALID /\ c.state = "Connecting" /\ c.inbound = <<>> /\ c.in = <<>> /\ c.out = <<>>
      /\ c.last = "Connecting" /\ c.calls \subseteq CallsInOrder
      /\ OutputOK(c, connection) /\ InputOK(c, connection)
  BY <1>1, ConnectingStarts
<1>3. n \in CASE outcome = "opened" -> RegisterEvent(SetDescriptor(OfNewConnection(c), d))
              [] outcome = "failed" -> SetState(c, "Disconnected")
              [] outcome = "failedWithoutErrno" -> RegisterEvent(SetDescriptor(c, INVALID))
  BY DEF OpenTcp
<1> HIDE DEF c
<1>4. CASE outcome = "opened"
  <2> DEFINE o == SetDescriptor(OfNewConnection(c), d)
  <2>1. GoodObject(o, connection + 1) /\ o.fd # INVALID /\ o.inbound = <<>>
    BY <1>2, ConnectingHasDescriptor
  <2> HIDE DEF o
  <2>2. n \in RegisterEvent(o)
    BY <1>3, <1>4 DEF o
  <2>3. QED
    BY <1>1, <2>1, <2>2, RegisteredOpened
<1> DEFINE f == ConnectionStateChanged(c, "Disconnected")
<1>5. GoodObject(f, connection) /\ f.fd = INVALID /\ SameEvents(f, c) /\ f.state = "Disconnected"
  BY <1>2, ConnectingFails
<1> HIDE DEF f
<1>6. CASE outcome = "failed"
  <2>1. n = f
    <3>1. n \in SetState(c, "Disconnected")
      BY <1>3, <1>6
    <3>2. QED
      BY <1>2, <3>1 DEF SetState, f
  <2>2. EventsOK(n)
    BY <1>1, <1>2, <1>5, <2>1 DEF EventsOK, SameEvents, GoodObject
  <2>3. QED
    BY <1>5, <2>1, <2>2 DEF WindowsOpened
<1>7. CASE outcome = "failedWithoutErrno"
  <2>1. n \in RegisterEvent(f)
    <3>1. SetDescriptor(c, INVALID) = f
      BY <1>2, SetNoDescriptor DEF f
    <3>2. QED
      BY <1>3, <1>7, <3>1
  <2>2. After(n, f, connection) /\ EventsOK(n) /\ n.fd = f.fd
    BY <1>1, <1>5, <2>1, AfterRegisterEvent DEF GoodObject
  <2>3. QED
    BY <1>5, <2>2 DEF WindowsOpened, After
<1>8. QED
  BY <1>4, <1>6, <1>7


(* open() of a UDP socket on Windows.                                      *)
LEMMA WindowsOpenUdp ==
  ASSUME IInv, h.system = "Windows", h.state = "Disconnected", Kind = "udp",
         NEW outcome, NEW d \in Descriptors, NEW n \in OpenUdp(h, outcome, d)
  PROVE  WindowsOpened(n)
<1>1. GoodObject(h, connection) /\ connection \in Nat /\ EventsOK(h) /\ h.fd = INVALID
  BY Start DEF Follows
<1>2. CASE outcome = "opened"
  <2> DEFINE o == SetDescriptor(OfNewConnection(h), d)
  <2>1. GoodObject(o, connection + 1) /\ o.fd # INVALID /\ o.inbound = <<>>
    BY <1>1, UdpHasDescriptor
  <2>2. n \in RegisterEvent(o)
    BY <1>2 DEF OpenUdp
  <2> HIDE DEF o
  <2>3. QED
    BY <1>1, <2>1, <2>2, RegisteredOpened
<1>3. CASE outcome # "opened"
  BY <1>1, <1>3 DEF OpenUdp, WindowsOpened
<1>4. QED
  BY <1>2, <1>3

(* open() of a serial port on Windows.                                     *)
LEMMA WindowsOpenSerial ==
  ASSUME IInv, h.system = "Windows", h.state = "Disconnected", Kind = "serial",
         NEW outcome, NEW d \in Descriptors, NEW n \in OpenSerialPort(h, outcome, d)
  PROVE  WindowsOpened(n)
<1>1. GoodObject(h, connection) /\ connection \in Nat /\ EventsOK(h) /\ h.fd = INVALID
  BY Start DEF Follows
<1> DEFINE closed == Close(h)
<1>2. GoodObject(closed, connection) /\ closed.state = "Disconnected" /\ SameEvents(closed, h)
  BY <1>1, ClosedAgain
<1>3. EventsOK(closed) /\ closed.events = <<>> /\ closed.selected = {}
  <2>1. h.events = <<>> /\ h.selected = {}
    BY <1>1 DEF EventsOK, Kind
  <2> HIDE DEF closed
  <2>2. QED
    BY <1>2, <2>1 DEF SameEvents, EventsOK, GoodObject, BuffersOK, StateOK
<1> DEFINE c == ConnectionStateChanged(closed, "Connecting")
           m == SetDescriptor(OfNewConnection(c), d)
           o == ConnectionStateChanged(m, "Connected")
           f == ConnectionStateChanged(c, "Disconnected")
<1>4. n \in IF outcome = "opened" THEN All(SetState(m, "Connected"), RegisterEvent) ELSE {SetDescriptor(c, INVALID)}
  <2>1. CloseDevice(h) = {closed}
    BY <1>1 DEF CloseDevice
  <2>2. QED
    BY <2>1 DEF OpenSerialPort, All
<1> HIDE DEF closed
<1>5. /\ GoodObject(o, connection + 1) /\ o.fd # INVALID /\ o.inbound = <<>> /\ SameEvents(o, closed)
      /\ c \in Objects /\ c.fd = INVALID
      /\ GoodObject(f, connection) /\ f.fd = INVALID /\ SameEvents(f, closed)
  BY <1>2, SerialConnects
<1>6. CASE outcome = "opened"
  <2>1. n \in RegisterEvent(o)
    <3>1. SetState(m, "Connected") = {o}
      BY DEF SetState
    <3> HIDE DEF m, o
    <3>2. QED
      BY <1>4, <1>6, <3>1 DEF All
  <2> HIDE DEF o
  <2>2. QED
    BY <1>1, <1>3, <1>5, <2>1, RegisteredOpened DEF SameEvents
<1>7. CASE outcome # "opened"
  <2>1. n = f
    <3> HIDE DEF c
    <3>1. SetDescriptor(c, INVALID) = f
      BY <1>5, SetNoDescriptor
    <3>2. QED
      BY <1>4, <1>7, <3>1
  <2> HIDE DEF f
  <2>2. QED
    BY <1>3, <1>5, <2>1 DEF SameEvents, EventsOK, GoodObject, WindowsOpened
<1>8. QED
  BY <1>6, <1>7

(* onBeforeWaitEvents() opens the device, on Windows.                      *)
LEMMA WindowsBeforeWaitOpenKeeps ==
  ASSUME IInv, h.system = "Windows", WindowsBeforeWaitOpen
  PROVE  Keeps
<1>1. PICK d \in Descriptors : \E o \in OpenDevice(h, d) :
        /\ h' = NeedsToWrite(o)
        /\ IF h'.fd = INVALID
           THEN UNCHANGED <<sock, connection>>
           ELSE /\ sock' = IF Kind = "tcpClient" THEN "connecting" ELSE "up"
                /\ connection' = connection + 1
  BY DEF WindowsBeforeWaitOpen
<1>2. PICK o \in OpenDevice(h, d) :
        /\ h' = NeedsToWrite(o)
        /\ IF h'.fd = INVALID
           THEN UNCHANGED <<sock, connection>>
           ELSE /\ sock' = IF Kind = "tcpClient" THEN "connecting" ELSE "up"
                /\ connection' = connection + 1
  BY <1>1
<1>3. h.state = "Disconnected" /\ Kind \in Kinds /\ OpenOutcomes \subseteq {"opened", "failed", "failedWithoutErrno"}
  BY OpenOutcomesOfHandler DEF WindowsBeforeWaitOpen, OpenDue, IInv, TypeOK, Objects, Kind
<1>4. WindowsOpened(o)
  <2>1. CASE Kind = "tcpClient"
    <3>1. PICK outcome \in OpenTcpClientSocket : o \in OpenTcp(h, outcome, d)
      BY <2>1 DEF OpenDevice
    <3>2. QED
      BY <1>3, <2>1, <3>1, WindowsOpenTcp DEF OpenTcpClientSocket
  <2>2. CASE Kind = "udp"
    <3>1. PICK outcome \in CreateUdpSocket : o \in OpenUdp(h, outcome, d)
      BY <2>2 DEF OpenDevice
    <3>2. QED
      BY <1>3, <2>2, <3>1, WindowsOpenUdp
  <2>3. CASE Kind = "serial"
    <3>1. PICK outcome \in OpenSerial : o \in OpenSerialPort(h, outcome, d)
      BY <2>3 DEF OpenDevice
    <3>2. QED
      BY <1>3, <2>3, <3>1, WindowsOpenSerial
  <2>4. CASE Kind = "tcpServer"
    <3>1. o = h
      BY <2>4 DEF OpenDevice
    <3>2. GoodObject(h, connection) /\ EventsOK(h) /\ h.fd = INVALID
      BY <1>3, Start DEF Follows
    <3>3. QED
      BY <3>1, <3>2 DEF WindowsOpened
  <2>5. QED
    BY <1>3, <2>1, <2>2, <2>3, <2>4 DEF Kinds
<1>5. QED
  BY <1>2, <1>4, OpenKeeps DEF WindowsOpened, WindowsBeforeWaitOpen


-----------------------------------------------------------------------------
(* The steps on Windows.                                                   *)
LEMMA AfterEventsOK ==
  ASSUME NEW c, NEW o, EventsOK(o), NEW n, After(n, o, c), o.kind = Kind, o.system = h.system,
         AsBefore(n, o) /\ n.selected = o.selected
  PROVE  EventsOK(n)
BY DEF EventsOK, After, AsBefore, GoodObject

(* events() leaves the event of a device right.                            *)
LEMMA EventsOfEventsOK ==
  ASSUME NEW c \in Nat, NEW o, GoodObject(o, c), EventsOK(o), h.system = "Windows", NEW n \in EventsOf(o)
  PROVE  EventsOK(n)
<1>1. After(n, o, c)
  BY AfterEventsOf
<1>2. CASE n = o
  BY <1>2
<1>3. CASE o.fd # INVALID /\ o.events # <<>> /\ AsBefore(n, o)
  BY <1>1, <1>3 DEF EventsOK, After, AsBefore, GoodObject
<1>4. CASE IsClosed(n)
  BY <1>4 DEF EventsOK, IsClosed
<1>5. QED
  BY <1>2, <1>3, <1>4, AfterEventsOf

(* The invariant after a step on Windows that leaves n.                    *)
LEMMA WindowsStepKeeps ==
  ASSUME IInv, h.system = "Windows", NEW n, After(n, h, connection), EventsOK(n), Becomes(n),
         UNCHANGED <<connection, opens, sends>>, pc' \in {pc, "poll", "wait", "idle", "ended"},
         pc' = pc => UNCHANGED <<revents, pollfd>>,
         pc' = "ended" => n.fd = INVALID /\ n.events = <<>>
  PROVE  Keeps
<1>1. Follows(n)
  BY DEF After, Follows
<1>2. pc' \in {"loop", "poll", "wait", "process", "idle", "ended"} /\ opens' \in Nat /\ sends' \in Nat
  BY DEF IInv, TypeOK
<1>3. pc' = "process" => pc = "process" /\ UNCHANGED <<revents, pollfd>>
  OBVIOUS
<1>4. ~(h.system = "Linux")
  OBVIOUS
<1>5. QED
  BY <1>1, <1>2, <1>3, <1>4, StepKeeps

(* The handler before a step on Windows.                                   *)
LEMMA WindowsStart ==
  ASSUME IInv
  PROVE  /\ GoodObject(h, connection) /\ EventsOK(h) /\ connection \in Nat /\ h.kind = Kind
         /\ After(h, h, connection) /\ AsBefore(h, h)
         /\ h.state = "Disconnected" => h.fd = INVALID
<1>1. GoodObject(h, connection) /\ EventsOK(h) /\ connection \in Nat /\ (h.state = "Disconnected" => h.fd = INVALID)
  BY Start DEF Follows
<1>2. QED
  BY <1>1 DEF After, AsBefore, Kind

(* poll() fills its array with the event of the device.                    *)
LEMMA FillPollArrayKeeps ==
  ASSUME IInv, h.system = "Windows", FillPollArray
  PROVE  Keeps
<1>1. PICK n \in EventsOf(h) : Becomes(n)
  BY DEF FillPollArray
<1>2. After(n, h, connection) /\ EventsOK(n)
  BY <1>1, WindowsStart, AfterEventsOf, EventsOfEventsOK
<1>3. pc' = "wait" /\ pc = "poll" /\ UNCHANGED <<pollfd, revents, connection, opens, sends>>
  BY DEF FillPollArray
<1>4. QED
  BY <1>1, <1>2, <1>3, WindowsStepKeeps

(* The event is set, or another one.                                       *)
LEMMA WaitEventKeeps ==
  ASSUME IInv, h.system = "Windows", WaitEvent
  PROVE  Keeps
<1>1. pc' = "process" /\ UNCHANGED <<h, pollfd, sock, connection, opens, sends>>
  BY DEF WaitEvent
<1>2. TypeOK'
  BY <1>1 DEF IInv, TypeOK, Kind
<1>3. DeviceOK'
  BY <1>1 DEF IInv, DeviceOK
<1>4. BuffersOK(h', connection') /\ ConnectingOK(h') /\ EventsOK(h')
  BY <1>1 DEF IInv
<1>5. QED
  BY <1>1, <1>2, <1>3, <1>4 DEF Keeps, IInv

(* The application closes the connection, on Windows.                      *)
LEMMA WindowsCloseHandlerKeeps ==
  ASSUME IInv, h.system = "Windows", WindowsCloseHandler
  PROVE  Keeps
<1>1. PICK n \in CloseDevice(h) : Becomes(n)
  BY DEF WindowsCloseHandler
<1>2. After(n, h, connection) /\ EventsOK(n)
  BY <1>1, WindowsStart, AfterCloseDevice
<1>3. pc' = pc /\ pc \in {"process", "idle"} /\ UNCHANGED <<pollfd, revents, connection, opens, sends>>
  BY DEF WindowsCloseHandler
<1>4. QED
  BY <1>1, <1>2, <1>3, WindowsStepKeeps

(* The thread terminates, on Windows.                                      *)
LEMMA WindowsTerminateKeeps ==
  ASSUME IInv, h.system = "Windows", WindowsTerminate
  PROVE  Keeps
<1>1. PICK o \in IF IsTcp \/ h.state = "Connected" THEN CloseDevice(h) ELSE {h} : Becomes(Unregistered(o))
  BY DEF WindowsTerminate
<1>2. After(o, h, connection) /\ GoodObject(o, connection) /\ o.fd = INVALID
  <2>1. CASE IsTcp \/ h.state = "Connected"
    BY <1>1, <2>1, WindowsStart, AfterCloseDevice DEF After
  <2>2. CASE ~(IsTcp \/ h.state = "Connected")
    <3>1. h.state # "Connecting"
      BY <2>2, WindowsStart, SerialConnected DEF IsTcp
    <3>2. h.state \in States
      BY DEF IInv, TypeOK, Objects
    <3>3. QED
      BY <1>1, <2>2, <3>1, <3>2, WindowsStart DEF States
  <2>3. QED
    BY <2>1, <2>2
<1> DEFINE n == Unregistered(o)
<1>3. After(n, o, connection) /\ n.fd = o.fd /\ n.events = <<>> /\ n.selected = {}
  BY <1>2, AfterUnregister
<1>4. Becomes(n)
  BY <1>1
<1> HIDE DEF n
<1>5. EventsOK(n)
  BY <1>2, <1>3 DEF EventsOK
<1>6. After(n, h, connection)
  BY <1>2, <1>3, AfterTransitive
<1>7. pc' = "ended" /\ pc = "idle" /\ UNCHANGED <<pollfd, revents, connection, opens, sends>>
  BY DEF WindowsTerminate
<1>8. QED
  BY <1>2, <1>3, <1>4, <1>5, <1>6, <1>7, WindowsStepKeeps

(* What a selection reports.  Data are reported to a handler that is       *)
(* connected, and nothing of a device that is closed.                      *)
LEMMA ReportedOf ==
  ASSUME IInv, h.system = "Windows", Kind # "serial", NEW o \in EventsOf(h), h.events # <<>>
  PROVE  /\ Reported(o) # {} => o.fd # INVALID
         /\ "READ" \in Reported(o) => o.state = "Connected"
         /\ "CONNECT" \in Reported(o) => o.state = "Connecting"
<1>1. CASE o.fd = INVALID
  <2>1. o.selected = {}
    BY <1>1, WindowsStart, EventsOfEventsOK DEF EventsOK
  <2>2. Reported(o) = {}
    BY <2>1 DEF Reported
  <2>3. QED
    BY <2>2
<1>2. CASE o.fd # INVALID
  <2>1. o.selected = {<<o.events[1], Mask(o)>>}
    BY <1>2, WindowsStart, AfterEventsOf
  <2>2. Reported(o) \subseteq Conditions(o) \cap Mask(o)
    BY <2>1 DEF Reported
  <2>3. "READ" \in Mask(o) => o.state = "Connected"
    BY DEF Mask
  <2>4. "CONNECT" \in Conditions(o) => o.state = "Connecting"
    BY DEF Conditions
  <2>5. QED
    BY <1>2, <2>2, <2>3, <2>4
<1>3. QED
  BY <1>1, <1>2


(* processEvent() of a socket.                                             *)
LEMMA AfterNetworkEvents ==
  ASSUME IInv, h.system = "Windows", Kind # "serial", h.events # <<>>,
         NEW o \in EventsOf(h), NEW n \in ProcessNetworkEvents(o, Reported(o))
  PROVE  After(n, h, connection) /\ EventsOK(n)
<1> DEFINE net == Reported(o)
<1> DEFINE c == IF "CONNECT" \in net /\ sock # "refused" THEN ConnectionStateChanged(o, "Connected") ELSE o
           r == IF "READ" \in net THEN ReadyRead(c) ELSE c
           w == IF "WRITE" \in net THEN {ReadyWrite(r, k) : k \in Written(r, 1)} ELSE {r}
<1>1. /\ After(o, h, connection) /\ EventsOK(o) /\ GoodObject(o, connection) /\ connection \in Nat
      /\ h.kind = Kind /\ o.kind = Kind /\ o.system = h.system
  BY WindowsStart, AfterEventsOf, EventsOfEventsOK DEF After, GoodObject
<1>2. /\ net # {} => o.fd # INVALID
      /\ "READ" \in net => o.state = "Connected"
      /\ "CONNECT" \in net => o.state = "Connecting"
  BY ReportedOf
<1>3. n \in IF "CLOSE" \in net /\ sock # "reset" THEN All(w, LAMBDA o2 : SetState(o2, "Disconnected")) ELSE w
  BY DEF ProcessNetworkEvents
<1> HIDE DEF net
<1>4. /\ After(c, h, connection) /\ EventsOK(c) /\ c.fd = o.fd /\ ("READ" \in net => c.state = "Connected")
      /\ GoodObject(c, connection) /\ c.kind = Kind /\ c.system = h.system
  <2>1. CASE "CONNECT" \in net /\ sock # "refused"
    <3>1. Follows(o)
      BY <1>1 DEF Follows, After
    <3>2. o.state = "Connecting" /\ o.fd # INVALID
      BY <1>2, <2>1
    <3>3. Follows(c) /\ SameEvents(c, o) /\ c.state = "Connected" /\ c.fd = o.fd
      BY <2>1, <3>1, <3>2, ConnectFollows
    <3> HIDE DEF c
    <3>4. QED
      BY <1>1, <3>3 DEF Follows, After, SameEvents, EventsOK, GoodObject
  <2>2. CASE ~("CONNECT" \in net /\ sock # "refused")
    BY <1>1, <1>2, <2>2
  <2>3. QED
    BY <2>1, <2>2
<1> HIDE DEF c
<1>5. After(r, h, connection) /\ EventsOK(r) /\ r.fd = o.fd /\ GoodObject(r, connection) /\ r.kind = Kind /\ r.system = h.system
  <2>1. CASE "READ" \in net
    <3>1. After(r, c, connection) /\ AsBefore(r, c) /\ r.selected = c.selected
      BY <1>1, <1>4, <2>1, AfterRead
    <3> HIDE DEF r
    <3>2. EventsOK(r)
      BY <1>4, <3>1, AfterEventsOK
    <3>3. After(r, h, connection)
      BY <1>4, <3>1, AfterTransitive
    <3>4. QED
      BY <1>4, <3>1, <3>2, <3>3 DEF After, AsBefore, GoodObject
  <2>2. CASE "READ" \notin net
    BY <1>4, <2>2
  <2>3. QED
    BY <2>1, <2>2
<1> HIDE DEF r
<1>6. ASSUME NEW m \in w
      PROVE  After(m, h, connection) /\ EventsOK(m) /\ m.fd = o.fd /\ GoodObject(m, connection)
  <2>1. CASE m = r
    BY <1>5, <2>1
  <2>2. CASE m # r
    <3>1. PICK k \in Written(r, 1) : m = ReadyWrite(r, k)
      BY <1>6, <2>2
    <3>2. After(m, r, connection) /\ AsBefore(m, r) /\ m.selected = r.selected
      BY <1>5, <3>1, AfterWrite
    <3>3. EventsOK(m)
      BY <1>5, <3>2, AfterEventsOK
    <3>4. After(m, h, connection)
      BY <1>5, <3>2, AfterTransitive
    <3>5. QED
      BY <1>5, <3>2, <3>3, <3>4 DEF After, AsBefore
  <2>3. QED
    BY <2>1, <2>2
<1> HIDE DEF w
<1>7. CASE "CLOSE" \in net /\ sock # "reset"
  <2>1. PICK m \in w : n \in SetState(m, "Disconnected")
    BY <1>3, <1>7 DEF All
  <2>2. After(m, h, connection) /\ EventsOK(m) /\ m.fd # INVALID /\ GoodObject(m, connection)
    BY <1>2, <1>6, <1>7, <2>1
  <2>3. n \in CloseDevice(m)
    BY <2>1, <2>2 DEF SetState
  <2>4. After(n, m, connection) /\ EventsOK(n)
    BY <1>1, <2>2, <2>3, AfterCloseDevice
  <2>5. QED
    BY <2>2, <2>4, AfterTransitive
<1>8. CASE ~("CLOSE" \in net /\ sock # "reset")
  <2>1. n \in w
    BY <1>3, <1>8
  <2>2. QED
    BY <1>6, <2>1
<1>9. QED
  BY <1>7, <1>8

(* process() on Windows.                                                   *)
LEMMA WindowsProcessKeeps ==
  ASSUME IInv, h.system = "Windows", WindowsProcess
  PROVE  Keeps
<1>1. pc = "process" /\ pc' = "idle" /\ revents' = {} /\ UNCHANGED <<pollfd, connection, opens, sends>>
  BY DEF WindowsProcess, Process
<1>2. CASE \E event \in revents : <<event>> = h.events
  <2>1. PICK n \in Processed(h.events[1]) : Becomes(n)
    BY <1>2 DEF WindowsProcess
  <2>2. h.events # <<>> /\ GoodObject(h, connection) /\ EventsOK(h) /\ connection \in Nat
    BY <1>2, WindowsStart
  <2>3. After(n, h, connection) /\ EventsOK(n)
    <3>1. CASE Kind = "serial"
      <4>1. n \in ProcessEvent(h, Reported(h))
        BY <2>1, <3>1 DEF Processed
      <4>2. After(n, h, connection) /\ AsBefore(n, h) /\ n.selected = h.selected
        BY <2>2, <3>1, <4>1, AfterProcessEvent
      <4>3. QED
        BY <2>2, <4>2, WindowsStart, AfterEventsOK
    <3>2. CASE Kind # "serial"
      <4>1. PICK o \in EventsOf(h) : n = o \/ n \in ProcessNetworkEvents(o, Reported(o))
        BY <2>1, <3>2 DEF Processed, All
      <4>2. CASE n = o
        BY <2>2, <4>1, <4>2, AfterEventsOf, EventsOfEventsOK
      <4>3. CASE n # o
        BY <2>2, <3>2, <4>1, <4>3, AfterNetworkEvents
      <4>4. QED
        BY <4>2, <4>3
    <3>3. QED
      BY <3>1, <3>2
  <2>4. QED
    BY <1>1, <2>1, <2>3, WindowsStepKeeps
<1>3. CASE ~(\E event \in revents : <<event>> = h.events)
  <2>1. UNCHANGED <<h, sock>>
    BY <1>3 DEF WindowsProcess
  <2>2. Becomes(h)
    BY <2>1 DEF Becomes, IInv, DeviceOK
  <2>3. QED
    BY <1>1, <2>2, WindowsStart, WindowsStepKeeps
<1>4. QED
  BY <1>2, <1>3

(* Every step of the handler on Windows.                                   *)
LEMMA WindowsNextKeeps ==
  ASSUME IInv, h.system = "Windows", WindowsNext
  PROVE  Keeps
<1>1. CASE BeforeWaitNothing
  BY <1>1, BeforeWaitNothingKeeps
<1>2. CASE WindowsBeforeWaitOpen
  BY <1>2, WindowsBeforeWaitOpenKeeps
<1>3. CASE FillPollArray
  BY <1>3, FillPollArrayKeeps
<1>4. CASE WaitEvent
  BY <1>4, WaitEventKeeps
<1>5. CASE WindowsProcess
  BY <1>5, WindowsProcessKeeps
<1>6. CASE Idle
  BY <1>6, IdleKeeps
<1>7. CASE WindowsTerminate
  BY <1>7, WindowsTerminateKeeps
<1>8. CASE SendPacket
  BY <1>8, SendPacketKeeps
<1>9. CASE WindowsCloseHandler
  BY <1>9, WindowsCloseHandlerKeeps
<1>10. CASE ConnectEnds \/ PeerClose \/ PeerReset
  BY <1>10, SystemKeeps
<1>11. CASE PeerSend
  BY <1>11, PeerSendKeeps
<1>12. CASE TimePasses
  BY <1>12, TimePassesKeeps
<1>13. QED
  BY <1>1, <1>2, <1>3, <1>4, <1>5, <1>6, <1>7, <1>8, <1>9, <1>10, <1>11, <1>12 DEF WindowsNext, WindowsStep

(***************************************************************************)
(* A handler of either system keeps the invariant.                         *)
(***************************************************************************)
THEOREM HandlersInvariantHolds == HandlersSpec => []IInv
<1>1. HandlersInit => IInv
  <2>1. <<>> \in Seq(Nat) /\ <<1>> \in Seq(Nat) /\ <<1>> # <<>>
    BY NoBytes
  <2>2. QED
    BY <2>1, InitGood DEF HandlersInit, Init, WindowsInit
<1>2. IInv /\ [HandlersNext]_handlerVars => IInv'
  <2>1. SUFFICES ASSUME IInv, [HandlersNext]_handlerVars
                 PROVE  IInv'
    OBVIOUS
  <2>2. h.system \in {"Linux", "Windows"}
    BY <2>1 DEF IInv, TypeOK, Objects
  <2>3. CASE ~OnWindows /\ Next
    BY <2>1, <2>2, <2>3, NextKeeps DEF OnWindows, Keeps
  <2>4. CASE OnWindows /\ WindowsNext
    BY <2>1, <2>4, WindowsNextKeeps DEF OnWindows, Keeps
  <2>5. CASE UNCHANGED handlerVars
    BY <2>1, <2>5, StutterKeeps DEF Keeps
  <2>6. QED
    BY <2>1, <2>3, <2>4, <2>5 DEF HandlersNext
<1>3. QED
  BY <1>1, <1>2, PTL DEF HandlersSpec

(***************************************************************************)
(* The state of a handler, its descriptor, its events and what the         *)
(* application is told agree.  On Windows the event of an open device must *)
(* be there before the thread waits.                                       *)
(***************************************************************************)
THEOREM StateMatchesDescriptorHolds == HandlersSpec => []StateMatchesDescriptor
<1>1. IInv => StateMatchesDescriptor
  BY DEF IInv, BuffersOK, StateOK, EventsOK, DeviceOK, StateMatchesDescriptor
<1>2. QED
  BY <1>1, HandlersInvariantHolds, PTL

(***************************************************************************)
(* What goes out on a connection are the packets sent on it, in order.     *)
(***************************************************************************)
THEOREM WireInOrderHolds == HandlersSpec => []WireInOrder
<1>1. IInv => WireInOrder
  BY DEF IInv, BuffersOK, OutputOK, WireInOrder
<1>2. QED
  BY <1>1, HandlersInvariantHolds, PTL

(***************************************************************************)
(* The packets given to the application are whole, in order and of one     *)
(* connection.                                                             *)
(***************************************************************************)
THEOREM PacketsWholeHolds == HandlersSpec => []PacketsWhole
<1>1. IInv => PacketsWhole
  BY DEF IInv, BuffersOK, InputOK, PacketsWhole
<1>2. QED
  BY <1>1, HandlersInvariantHolds, PTL

================================================================================
