------------------------------ MODULE PartsProofs ------------------------------
(***************************************************************************)
(* Theorems about parts of MCParts.                                        *)
(***************************************************************************)
EXTENDS MCParts, SublistsProofs, TLAPS

(***************************************************************************)
(* Opening a device.                                                       *)
(***************************************************************************)
(* What is known of the calls of a function, and is proved for each.       *)
CallsInOrder(s, connects) ==
  /\ Len(s) \in Nat \ {0}
  /\ \A n \in 1 .. Len(s) : s[n].name = "connect" <=> connects /\ n = Len(s)
  /\ \A n \in 1 .. Len(s) : \A i \in 1 .. n - 1 : s[i].gives \subseteq s[n].undoes
  /\ \A n \in 1 .. Len(s) : s[n].gives \subseteq {"socket", "addresses"}
  /\ \E i \in 1 .. Len(s) : "socket" \in s[i].gives
  /\ connects => s[Len(s)].gives = {}
  /\ ~(connects /\ Device!Linux) => \A i \in 1 .. Len(s) : "addresses" \notin s[i].gives

(* A call that gives nothing may be made before.                           *)
LEMMA StartedBefore ==
  ASSUME NEW S, NEW t \in Seq(S), NEW c \in S, NEW connects \in BOOLEAN, CallsInOrder(t, connects),
         c.name # "connect", c.gives = {}
  PROVE  CallsInOrder(<<c>> \o t, connects)
<1>1. PICK m \in Nat \ {0} : m = Len(t)
  BY DEF CallsInOrder
<1>0. <<c>> \in Seq(S) /\ Len(<<c>>) = 1 /\ <<c>>[1] = c
  OBVIOUS
<1>2. PICK s \in Seq(S) : s = <<c>> \o t
  BY <1>0, JoinFacts
<1>3. Len(s) = m + 1 /\ s[1] = c /\ \A i \in 1 .. m : s[i + 1] = t[i]
  <2>2. \A i \in 1 .. m : s[1 + i] = t[i]
    BY <1>0, <1>1, <1>2, JoinFacts
  <2>3. Len(s) = 1 + m /\ s[1] = c
    BY <1>0, <1>1, <1>2, JoinFacts
  <2>4. \A i \in 1 .. m : 1 + i = i + 1
    OBVIOUS
  <2>5. QED
    BY <2>2, <2>3, <2>4
<1>4. \A n \in 1 .. m + 1 : n = 1 \/ \E k \in 1 .. m : n = k + 1
  <2> TAKE n \in 1 .. m + 1
  <2>1. n = 1 \/ (n - 1 \in 1 .. m /\ n = n - 1 + 1)
    OBVIOUS
  <2>2. QED
    BY <2>1
<1>5. \A n \in 1 .. m + 1 : s[n].name = "connect" <=> connects /\ n = m + 1
  <2> TAKE n \in 1 .. m + 1
  <2>1. CASE n = 1
    BY <2>1, <1>3
  <2>2. ASSUME NEW k \in 1 .. m, n = k + 1
        PROVE  s[n].name = "connect" <=> connects /\ n = m + 1
    BY <2>2, <1>1, <1>3 DEF CallsInOrder
  <2>3. QED
    BY <2>1, <2>2, <1>4
<1>6. \A n \in 1 .. m + 1 : \A i \in 1 .. n - 1 : s[i].gives \subseteq s[n].undoes
  <2> TAKE n \in 1 .. m + 1
  <2> TAKE i \in 1 .. n - 1
  <2>1. CASE i = 1
    BY <2>1, <1>3
  <2>2. CASE i # 1
    <3>1. i \in 1 .. m + 1 /\ n # 1
      BY <2>2
    <3>2. PICK k \in 1 .. m : n = k + 1
      BY <3>1, <1>4
    <3>3. PICK h \in 1 .. m : i = h + 1
      BY <3>1, <2>2, <1>4
    <3>4. h \in 1 .. k - 1
      BY <3>2, <3>3
    <3>5. QED
      BY <3>2, <3>3, <3>4, <1>1, <1>3 DEF CallsInOrder
  <2>3. QED
    BY <2>1, <2>2
<1>7. \A n \in 1 .. m + 1 : s[n].gives \subseteq {"socket", "addresses"}
  BY <1>1, <1>3, <1>4 DEF CallsInOrder
<1>8. \E i \in 1 .. m + 1 : "socket" \in s[i].gives
  <2>1. PICK i \in 1 .. m : "socket" \in t[i].gives
    BY <1>1 DEF CallsInOrder
  <2>2. i + 1 \in 1 .. m + 1 /\ s[i + 1] = t[i]
    BY <1>3
  <2>3. QED
    BY <2>1, <2>2
<1>9. connects => s[m + 1].gives = {}
  BY <1>1, <1>3 DEF CallsInOrder
<1>10. ~(connects /\ Device!Linux) => \A i \in 1 .. m + 1 : "addresses" \notin s[i].gives
  BY <1>1, <1>3, <1>4 DEF CallsInOrder
<1>11. CallsInOrder(s, connects)
  <2>1. m + 1 = Len(s) /\ Len(s) \in Nat \ {0}
    BY <1>3
  <2>2. \A n \in 1 .. Len(s) : s[n].name = "connect" <=> connects /\ n = Len(s)
    BY <2>1, <1>5, Zenon
  <2>3. \A n \in 1 .. Len(s) : \A i \in 1 .. n - 1 : s[i].gives \subseteq s[n].undoes
    BY <2>1, <1>6, Zenon
  <2>4. \A n \in 1 .. Len(s) : s[n].gives \subseteq {"socket", "addresses"}
    BY <2>1, <1>7, Zenon
  <2>5. \E i \in 1 .. Len(s) : "socket" \in s[i].gives
    BY <2>1, <1>8, Zenon
  <2>6. connects => s[Len(s)].gives = {}
    BY <2>1, <1>9, Zenon
  <2>7. ~(connects /\ Device!Linux) => \A i \in 1 .. Len(s) : "addresses" \notin s[i].gives
    BY <2>1, <1>10, Zenon
  <2>8. QED
    BY <2>1, <2>2, <2>3, <2>4, <2>5, <2>6, <2>7, Zenon DEF CallsInOrder
<1>12. QED
  BY <1>2, <1>11

(* The tables of the calls.                                                *)
LEMMA CallsFacts ==
  ASSUME system \in {"Linux", "Windows"}, isSocketsInitialized \in BOOLEAN,
         function \in {"createTcpServerSocket", "openTcpClientSocket", "createUdpSocket", "openSerial"}
  PROVE  CallsInOrder(Device!Calls, function = "openTcpClientSocket")
<1>1. system \in {"Linux", "Windows"} /\ isSocketsInitialized \in BOOLEAN
      /\ function \in {"createTcpServerSocket", "openTcpClientSocket", "createUdpSocket", "openSerial"}
  OBVIOUS
<1>2. CASE function = "openSerial"
  <2>1. CASE system = "Linux"
    <3>1. Device!Calls =
            <<[name |-> "open", gives |-> {"socket"}, undoes |-> {}]>>
      BY <1>1, <1>2, <2>1 DEF Device!Calls, Device!Linux, Device!Gives, Device!Call, Device!ClosingSocket, Device!OpenSerialLinux
    <3>2. QED
      BY <1>1, <1>2, <2>1, <3>1 DEF CallsInOrder, Device!Linux
  <2>2. CASE system # "Linux"
    <3>1. Device!Calls =
            <<[name |-> "CreateFile", gives |-> {"socket"}, undoes |-> {}],
              [name |-> "SetupComm", gives |-> {}, undoes |-> {"socket"}],
              [name |-> "GetCommState", gives |-> {}, undoes |-> {"socket"}],
              [name |-> "SetCommState", gives |-> {}, undoes |-> {"socket"}],
              [name |-> "GetCommTimeouts", gives |-> {}, undoes |-> {"socket"}],
              [name |-> "SetCommTimeouts", gives |-> {}, undoes |-> {"socket"}]>>
      BY <1>1, <1>2, <2>2 DEF Device!Calls, Device!Linux, Device!Gives, Device!Call, Device!ClosingSocket, Device!OpenSerialWindows
    <3>2. QED
      BY <1>1, <1>2, <2>2, <3>1 DEF CallsInOrder, Device!Linux
  <2>3. QED
    BY <1>1, <2>1, <2>2
<1>3. CASE function = "createTcpServerSocket"
  <2>1. CASE system = "Linux"
    <3>1. Device!Calls =
            <<[name |-> "socket", gives |-> {"socket"}, undoes |-> {}],
              [name |-> "setsockopt", gives |-> {}, undoes |-> {"socket"}],
              [name |-> "fcntl", gives |-> {}, undoes |-> {"socket"}],
              [name |-> "bind", gives |-> {}, undoes |-> {"socket"}],
              [name |-> "listen", gives |-> {}, undoes |-> {"socket"}]>>
      BY <1>1, <1>3, <2>1 DEF Device!Calls, Device!Linux, Device!Gives, Device!Call, Device!ClosingSocket, Device!CreateTcpServerSocketLinux
    <3>2. QED
      BY <1>1, <1>3, <2>1, <3>1 DEF CallsInOrder, Device!Linux
  <2>2. CASE system # "Linux" /\ isSocketsInitialized
    <3>1. Device!CheckSocketsInitialization = <<>>
      BY <1>1, <2>2 DEF Device!CheckSocketsInitialization, Device!InitializeSockets, Device!Linux, Device!Call
    <3>2. Device!Calls =
            Device!CheckSocketsInitialization \o
              <<[name |-> "WSASocket", gives |-> {"socket"}, undoes |-> {}],
                [name |-> "ioctlsocket", gives |-> {}, undoes |-> {"socket"}],
                [name |-> "bind", gives |-> {}, undoes |-> {"socket"}],
                [name |-> "listen", gives |-> {}, undoes |-> {"socket"}]>>
      BY <1>1, <1>3, <2>2 DEF Device!Calls, Device!Linux, Device!Gives, Device!Call, Device!ClosingSocket, Device!CreateTcpServerSocketWindows
    <3>3. Device!Calls =
            <<[name |-> "WSASocket", gives |-> {"socket"}, undoes |-> {}],
              [name |-> "ioctlsocket", gives |-> {}, undoes |-> {"socket"}],
              [name |-> "bind", gives |-> {}, undoes |-> {"socket"}],
              [name |-> "listen", gives |-> {}, undoes |-> {"socket"}]>>
      BY <3>1, <3>2
    <3>4. QED
      BY <1>1, <1>3, <2>2, <3>3 DEF CallsInOrder, Device!Linux
  <2>3. CASE system # "Linux" /\ ~isSocketsInitialized
    <3>1. Device!CheckSocketsInitialization = <<[name |-> "WSAStartup", gives |-> {}, undoes |-> {}]>>
      BY <1>1, <2>3 DEF Device!CheckSocketsInitialization, Device!InitializeSockets, Device!Linux, Device!Call
    <3>2. Device!Calls =
            Device!CheckSocketsInitialization \o
              <<[name |-> "WSASocket", gives |-> {"socket"}, undoes |-> {}],
                [name |-> "ioctlsocket", gives |-> {}, undoes |-> {"socket"}],
                [name |-> "bind", gives |-> {}, undoes |-> {"socket"}],
                [name |-> "listen", gives |-> {}, undoes |-> {"socket"}]>>
      BY <1>1, <1>3, <2>3 DEF Device!Calls, Device!Linux, Device!Gives, Device!Call, Device!ClosingSocket, Device!CreateTcpServerSocketWindows
    <3> DEFINE others ==
              <<[name |-> "WSASocket", gives |-> {"socket"}, undoes |-> {}],
                [name |-> "ioctlsocket", gives |-> {}, undoes |-> {"socket"}],
                [name |-> "bind", gives |-> {}, undoes |-> {"socket"}],
                [name |-> "listen", gives |-> {}, undoes |-> {"socket"}]>>
    <3> DEFINE starting == [name |-> "WSAStartup", gives |-> {}, undoes |-> {}]
    <3> DEFINE S == {starting, [name |-> "WSASocket", gives |-> {"socket"}, undoes |-> {}],
                     [name |-> "ioctlsocket", gives |-> {}, undoes |-> {"socket"}],
                     [name |-> "bind", gives |-> {}, undoes |-> {"socket"}],
                     [name |-> "listen", gives |-> {}, undoes |-> {"socket"}]}
    <3>3. others \in Seq(S) /\ starting \in S
      OBVIOUS
    <3>4. CallsInOrder(others, function = "openTcpClientSocket")
      BY <1>1, <1>3, <2>3 DEF CallsInOrder, Device!Linux
    <3>5. starting.name # "connect" /\ starting.gives = {}
      OBVIOUS
    <3>6. Device!Calls = <<starting>> \o others
      BY <3>1, <3>2
    <3> HIDE DEF others, starting, S
    <3>7. QED
      BY <1>1, <3>3, <3>4, <3>5, <3>6, StartedBefore
  <2>4. QED
    BY <1>1, <2>1, <2>2, <2>3
<1>4. CASE function = "openTcpClientSocket"
  <2>1. CASE system = "Linux"
    <3>1. Device!Calls =
            <<[name |-> "getaddrinfo", gives |-> {"addresses"}, undoes |-> {}],
              [name |-> "socket", gives |-> {"socket"}, undoes |-> {"addresses"}],
              [name |-> "fcntl", gives |-> {}, undoes |-> {"socket", "addresses"}],
              [name |-> "SO_SNDTIMEO", gives |-> {}, undoes |-> {"socket", "addresses"}],
              [name |-> "SO_RCVTIMEO", gives |-> {}, undoes |-> {"socket", "addresses"}],
              [name |-> "TCP_SYNCNT", gives |-> {}, undoes |-> {"socket", "addresses"}],
              [name |-> "connect", gives |-> {}, undoes |-> {"socket", "addresses"}]>>
      BY <1>1, <1>4, <2>1 DEF Device!Calls, Device!Linux, Device!Gives, Device!Call, Device!ClosingSocket, Device!OpenTcpClientSocketLinux
    <3>2. QED
      BY <1>1, <1>4, <2>1, <3>1 DEF CallsInOrder, Device!Linux
  <2>2. CASE system # "Linux" /\ isSocketsInitialized
    <3>1. Device!CheckSocketsInitialization = <<>>
      BY <1>1, <2>2 DEF Device!CheckSocketsInitialization, Device!InitializeSockets, Device!Linux, Device!Call
    <3>2. Device!Calls =
            Device!CheckSocketsInitialization \o
              <<[name |-> "WSASocket", gives |-> {"socket"}, undoes |-> {}],
                [name |-> "ioctlsocket", gives |-> {}, undoes |-> {"socket"}],
                [name |-> "connect", gives |-> {}, undoes |-> {"socket"}]>>
      BY <1>1, <1>4, <2>2 DEF Device!Calls, Device!Linux, Device!Gives, Device!Call, Device!ClosingSocket, Device!OpenTcpClientSocketWindows
    <3>3. Device!Calls =
            <<[name |-> "WSASocket", gives |-> {"socket"}, undoes |-> {}],
              [name |-> "ioctlsocket", gives |-> {}, undoes |-> {"socket"}],
              [name |-> "connect", gives |-> {}, undoes |-> {"socket"}]>>
      BY <3>1, <3>2
    <3>4. QED
      BY <1>1, <1>4, <2>2, <3>3 DEF CallsInOrder, Device!Linux
  <2>3. CASE system # "Linux" /\ ~isSocketsInitialized
    <3>1. Device!CheckSocketsInitialization = <<[name |-> "WSAStartup", gives |-> {}, undoes |-> {}]>>
      BY <1>1, <2>3 DEF Device!CheckSocketsInitialization, Device!InitializeSockets, Device!Linux, Device!Call
    <3>2. Device!Calls =
            Device!CheckSocketsInitialization \o
              <<[name |-> "WSASocket", gives |-> {"socket"}, undoes |-> {}],
                [name |-> "ioctlsocket", gives |-> {}, undoes |-> {"socket"}],
                [name |-> "connect", gives |-> {}, undoes |-> {"socket"}]>>
      BY <1>1, <1>4, <2>3 DEF Device!Calls, Device!Linux, Device!Gives, Device!Call, Device!ClosingSocket, Device!OpenTcpClientSocketWindows
    <3> DEFINE others ==
              <<[name |-> "WSASocket", gives |-> {"socket"}, undoes |-> {}],
                [name |-> "ioctlsocket", gives |-> {}, undoes |-> {"socket"}],
                [name |-> "connect", gives |-> {}, undoes |-> {"socket"}]>>
    <3> DEFINE starting == [name |-> "WSAStartup", gives |-> {}, undoes |-> {}]
    <3> DEFINE S == {starting, [name |-> "WSASocket", gives |-> {"socket"}, undoes |-> {}],
                     [name |-> "ioctlsocket", gives |-> {}, undoes |-> {"socket"}],
                     [name |-> "connect", gives |-> {}, undoes |-> {"socket"}]}
    <3>3. others \in Seq(S) /\ starting \in S
      OBVIOUS
    <3>4. CallsInOrder(others, function = "openTcpClientSocket")
      BY <1>1, <1>4, <2>3 DEF CallsInOrder, Device!Linux
    <3>5. starting.name # "connect" /\ starting.gives = {}
      OBVIOUS
    <3>6. Device!Calls = <<starting>> \o others
      BY <3>1, <3>2
    <3> HIDE DEF others, starting, S
    <3>7. QED
      BY <1>1, <3>3, <3>4, <3>5, <3>6, StartedBefore
  <2>4. QED
    BY <1>1, <2>1, <2>2, <2>3
<1>5. CASE function = "createUdpSocket"
  <2>1. CASE system = "Linux" \/ isSocketsInitialized
    <3>1. Device!CheckSocketsInitialization = <<>>
      BY <1>1, <2>1 DEF Device!CheckSocketsInitialization, Device!InitializeSockets, Device!Linux, Device!Call
    <3>2. Device!Calls =
            Device!CheckSocketsInitialization \o
              <<[name |-> "socket", gives |-> {"socket"}, undoes |-> {}],
                [name |-> "bind", gives |-> {}, undoes |-> {"socket"}]>>
      BY <1>1, <1>5, <2>1 DEF Device!Calls, Device!Linux, Device!Gives, Device!Call, Device!ClosingSocket, Device!CreateUdpSocket
    <3>3. Device!Calls =
            <<[name |-> "socket", gives |-> {"socket"}, undoes |-> {}],
              [name |-> "bind", gives |-> {}, undoes |-> {"socket"}]>>
      BY <3>1, <3>2
    <3>4. QED
      BY <1>1, <1>5, <2>1, <3>3 DEF CallsInOrder, Device!Linux
  <2>2. CASE system # "Linux" /\ ~isSocketsInitialized
    <3>1. Device!CheckSocketsInitialization = <<[name |-> "WSAStartup", gives |-> {}, undoes |-> {}]>>
      BY <1>1, <2>2 DEF Device!CheckSocketsInitialization, Device!InitializeSockets, Device!Linux, Device!Call
    <3>2. Device!Calls =
            Device!CheckSocketsInitialization \o
              <<[name |-> "socket", gives |-> {"socket"}, undoes |-> {}],
                [name |-> "bind", gives |-> {}, undoes |-> {"socket"}]>>
      BY <1>1, <1>5, <2>2 DEF Device!Calls, Device!Linux, Device!Gives, Device!Call, Device!ClosingSocket, Device!CreateUdpSocket
    <3> DEFINE others ==
              <<[name |-> "socket", gives |-> {"socket"}, undoes |-> {}],
                [name |-> "bind", gives |-> {}, undoes |-> {"socket"}]>>
    <3> DEFINE starting == [name |-> "WSAStartup", gives |-> {}, undoes |-> {}]
    <3> DEFINE S == {starting, [name |-> "socket", gives |-> {"socket"}, undoes |-> {}],
                     [name |-> "bind", gives |-> {}, undoes |-> {"socket"}]}
    <3>3. others \in Seq(S) /\ starting \in S
      OBVIOUS
    <3>4. CallsInOrder(others, function = "openTcpClientSocket")
      BY <1>1, <1>5, <2>2 DEF CallsInOrder, Device!Linux
    <3>5. starting.name # "connect" /\ starting.gives = {}
      OBVIOUS
    <3>6. Device!Calls = <<starting>> \o others
      BY <3>1, <3>2
    <3> HIDE DEF others, starting, S
    <3>7. QED
      BY <1>1, <3>3, <3>4, <3>5, <3>6, StartedBefore
  <2>3. QED
    BY <1>1, <2>1, <2>2
<1>6. QED
  BY <1>1, <1>2, <1>3, <1>4, <1>5

(* Nothing is given before the first call, and a call adds what it gives.  *)
LEMMA GivenFacts ==
  Device!Given(0) = {} /\ \A n \in Nat : Device!Given(n + 1) = Device!Given(n) \cup Device!Calls[n + 1].gives
<1>1. Device!Given(0) = {}
  BY DEF Device!Given
<1>2. ASSUME NEW n \in Nat
      PROVE  Device!Given(n + 1) = Device!Given(n) \cup Device!Calls[n + 1].gives
  <2>1. 1 .. n + 1 = (1 .. n) \cup {n + 1}
    OBVIOUS
  <2>2. QED
    BY <2>1, Zenon DEF Device!Given
<1>3. QED
  BY <1>1, <1>2

(* The calls do not change.                                                *)
LEMMA CallsStay ==
  ASSUME UNCHANGED <<system, function, isSocketsInitialized>>
  PROVE  Device!Calls' = Device!Calls /\ \A n \in Nat : Device!Given(n)' = Device!Given(n)
<1>1. Device!Calls' = Device!Calls
  BY Zenon DEF Device!Calls, Device!Linux, Device!Gives, Device!Call, Device!ClosingSocket, Device!OpenSerialLinux,
               Device!OpenSerialWindows, Device!CreateTcpServerSocketLinux, Device!CreateTcpServerSocketWindows,
               Device!OpenTcpClientSocketLinux, Device!OpenTcpClientSocketWindows, Device!CreateUdpSocket,
               Device!CheckSocketsInitialization, Device!InitializeSockets
<1>2. QED
  BY <1>1, Zenon DEF Device!Given

(* All that a function got, and what is left when it fails.                *)
LEMMA GivenInAll ==
  ASSUME NEW connects \in BOOLEAN, CallsInOrder(Device!Calls, connects)
  PROVE  /\ connects => Device!Given(Len(Device!Calls)) = Device!Given(Len(Device!Calls) - 1)
         /\ Device!Given(Len(Device!Calls)) \ {"addresses"} = {"socket"}
         /\ ~(connects /\ Device!Linux) => Device!Given(Len(Device!Calls)) = {"socket"}
         /\ \A n \in 0 .. Len(Device!Calls) - 1 : Device!Given(n) \ Device!Calls[n + 1].undoes = {}
<1>1. PICK m \in Nat \ {0} : m = Len(Device!Calls)
  BY DEF CallsInOrder
<1>2. connects => Device!Given(m) = Device!Given(m - 1)
  <2>1. PICK k \in Nat : m = k + 1
    <3>1. m - 1 \in Nat /\ m = m - 1 + 1
      OBVIOUS
    <3>2. QED
      BY <3>1
  <2>2. connects => Device!Calls[m].gives = {}
    BY <1>1 DEF CallsInOrder
  <2>3. Device!Given(k + 1) = Device!Given(k) \cup Device!Calls[k + 1].gives
    BY GivenFacts
  <2>4. m - 1 = k
    BY <2>1
  <2>5. QED
    BY <2>1, <2>2, <2>3, <2>4, Zenon
<1>3. Device!Given(m) \subseteq {"socket", "addresses"} /\ "socket" \in Device!Given(m)
      /\ (~(connects /\ Device!Linux) => "addresses" \notin Device!Given(m))
  BY <1>1, Zenon DEF CallsInOrder, Device!Given
<1>4. \A n \in 0 .. m - 1 : Device!Given(n) \subseteq Device!Calls[n + 1].undoes
  <2> TAKE n \in 0 .. m - 1
  <2>1. PICK k \in 1 .. m : k = n + 1
    OBVIOUS
  <2>2. \A i \in 1 .. k - 1 : Device!Calls[i].gives \subseteq Device!Calls[k].undoes
    BY <1>1 DEF CallsInOrder
  <2>3. k - 1 = n
    BY <2>1
  <2>4. \A i \in 1 .. n : Device!Calls[i].gives \subseteq Device!Calls[n + 1].undoes
    BY <2>1, <2>2, <2>3, Zenon
  <2>5. QED
    BY <2>4, Zenon DEF Device!Given
<1>5. QED
  BY <1>1, <1>2, <1>3, <1>4

(* The invariant holds before the first call, and each step keeps it.      *)
LEMMA OpeningStarts == ASSUME Device!Init PROVE Device!OpeningInv
<1>1. PICK m \in Nat \ {0} : m = Len(Device!Calls)
  BY CallsFacts DEF Device!Init, CallsInOrder
<1>2. 0 < m /\ 0 \in 0 .. m
  OBVIOUS
<1>3. QED
  BY <1>1, <1>2, GivenFacts DEF Device!Init, Device!OpeningInv

(* Every step keeps what is known of a packet being read.                  *)
LEMMA OpeningKept ==
  ASSUME Device!OpeningInv, Device!Next \/ UNCHANGED openingVars
  PROVE  Device!OpeningInv'
<1> DEFINE connects == function = "openTcpClientSocket"
<1>1. connects \in BOOLEAN /\ CallsInOrder(Device!Calls, connects)
  BY CallsFacts DEF Device!OpeningInv
<1>2. PICK m \in Nat \ {0} : m = Len(Device!Calls)
  BY <1>1 DEF CallsInOrder
<1>3. \A n \in 1 .. m : Device!Calls[n].name = "connect" <=> connects /\ n = m
  BY <1>1, <1>2 DEF CallsInOrder
<1>4. /\ connects => Device!Given(m) = Device!Given(m - 1)
      /\ Device!Given(m) \ {"addresses"} = {"socket"}
      /\ ~(connects /\ Device!Linux) => Device!Given(m) = {"socket"}
      /\ \A n \in 0 .. m - 1 : Device!Given(n) \ Device!Calls[n + 1].undoes = {}
  <2> HIDE DEF connects
  <2>1. QED
    BY <1>1, <1>2, GivenInAll
<1>5. UNCHANGED <<system, function, isSocketsInitialized>>
  BY Zenon DEF Device!Next, Device!CallSucceeds, Device!ConnectedAtOnce, Device!Connecting, Device!CallFails,
               Device!Take, openingVars
<1>6. Device!Calls' = Device!Calls /\ \A n \in Nat : Device!Given(n)' = Device!Given(n)
  BY <1>5, CallsStay
<1>7. ASSUME NEW h \in Nat, calls' = h
      PROVE  Device!Given(calls)' = Device!Given(h)
  BY <1>6, <1>7, Zenon DEF Device!Given
<1>8. /\ system \in {"Linux", "Windows"} /\ isSocketsInitialized \in BOOLEAN
      /\ function \in {"createTcpServerSocket", "openTcpClientSocket", "createUdpSocket", "openSerial"}
      /\ result \in {"none", "descriptor", "INVALID"} /\ calls \in 0 .. m
      /\ ~opened => descriptor = "INVALID"
      /\ result = "none" => calls < m /\ held = Device!Given(calls) /\ ~opened
      /\ result = "INVALID" => held = {} /\ descriptor = "INVALID"
      /\ result = "descriptor" /\ errorCode # "unset" =>
           /\ held = {"socket"} /\ errorCode # "error"
           /\ opened => descriptor = "descriptor"
  BY <1>2 DEF Device!OpeningInv
<1>9. SUFFICES
      /\ result' \in {"none", "descriptor", "INVALID"} /\ calls' \in 0 .. m
      /\ ~opened' => descriptor' = "INVALID"
      /\ result' = "none" => calls' < m /\ held' = Device!Given(calls') /\ ~opened'
      /\ result' = "INVALID" => held' = {} /\ descriptor' = "INVALID"
      /\ result' = "descriptor" /\ errorCode' # "unset" =>
           /\ held' = {"socket"} /\ errorCode' # "error"
           /\ opened' => descriptor' = "descriptor"
  <2>1. calls' \in Nat => Device!Given(calls)' = Device!Given(calls')
    BY <1>7
  <2>2. Len(Device!Calls)' = m
    BY <1>2, <1>6
  <2>3. QED
    BY <1>5, <1>8, <1>9, <2>1, <2>2 DEF Device!OpeningInv
<1>10. CASE Device!CallSucceeds
  <2>1. calls \in 0 .. m - 1 /\ calls + 1 \in 1 .. m /\ calls + 1 \in Nat /\ ~(connects /\ calls + 1 = m)
    BY <1>3, <1>8, <1>10 DEF Device!CallSucceeds, Device!NextCall
  <2>2. held' = Device!Given(calls + 1)
    BY <1>8, <1>10, <2>1, GivenFacts DEF Device!CallSucceeds, Device!NextCall
  <2>3. calls + 1 = m => held' = {"socket"}
    BY <1>4, <2>1, <2>2
  <2>4. QED
    BY <1>2, <1>6, <1>8, <1>10, <2>1, <2>2, <2>3 DEF Device!CallSucceeds
<1>11. ASSUME Device!ConnectedAtOnce \/ Device!Connecting
       PROVE  connects /\ calls + 1 = m /\ held = Device!Given(m) /\ calls + 1 \in 0 .. m
  <2>1. calls + 1 \in 1 .. m /\ Device!Calls[calls + 1].name = "connect" /\ held = Device!Given(calls)
    BY <1>8, <1>11 DEF Device!ConnectedAtOnce, Device!Connecting, Device!NextCall
  <2>2. connects /\ calls + 1 = m
    BY <1>3, <2>1
  <2>3. m - 1 = calls
    BY <1>8, <2>2
  <2>4. QED
    BY <1>4, <2>1, <2>2, <2>3
<1>12. CASE Device!ConnectedAtOnce
  BY <1>4, <1>8, <1>11, <1>12 DEF Device!ConnectedAtOnce
<1>13. CASE Device!Connecting
  BY <1>4, <1>8, <1>11, <1>13 DEF Device!Connecting
<1>14. ASSUME NEW code, Device!CallFails(code)
       PROVE  result' = "INVALID" /\ held' = {} /\ UNCHANGED <<calls, descriptor, opened>> /\ ~opened
  <2>1. calls \in 0 .. m - 1 /\ held = Device!Given(calls)
    BY <1>8, <1>14 DEF Device!CallFails
  <2>2. held' = held \ Device!Calls[calls + 1].undoes
    BY <1>14 DEF Device!CallFails, Device!NextCall
  <2>3. QED
    BY <1>4, <1>8, <1>14, <2>1, <2>2 DEF Device!CallFails
<1>15. CASE Device!Take
  <2>1. opened' = TRUE /\ UNCHANGED <<calls, held, result, errorCode>> /\ result # "none" /\ descriptor = "INVALID"
    BY <1>8, <1>15 DEF Device!Take
  <2>2. \/ descriptor' = result
        \/ descriptor' = descriptor /\ (errorCode = "unset" \/ errorCode = "error")
    BY <1>15 DEF Device!Take, Device!OpenSocket, Device!OpenSerialPort, Device!Initialize, Device!Failed
  <2>3. QED
    BY <1>8, <2>1, <2>2
<1>16. CASE UNCHANGED openingVars
  BY <1>8, <1>16 DEF openingVars
<1>17. QED
  BY <1>8, <1>10, <1>12, <1>13, <1>14, <1>15, <1>16 DEF Device!Next

(* Whichever call fails, a descriptor is held exactly when one is open.    *)
THEOREM HeldIfOpenHolds == MCSpec => []HeldIfOpen
<1>1. MCInit => Device!OpeningInv
  BY OpeningStarts DEF MCInit
<1>2. Device!OpeningInv
      /\ [MCNext]_<<part, timerVars, streamVars, framesVars, maskVars, namesVars, contractVars, crcVars, openingVars, listVars, eventVars,
                    exchangeVars, udpVars, factoryVars, windowsListenVars, trafficVars, rowVars>>
      => Device!OpeningInv'
  BY OpeningKept, Zenon DEF MCNext
<1>3. Device!OpeningInv => HeldIfOpen
  BY DEF Device!OpeningInv, HeldIfOpen, Device!HeldIfOpen
<1>4. QED
  BY <1>1, <1>2, <1>3, PTL DEF MCSpec

(***************************************************************************)
(* A thread that listens on Windows.                                       *)
(***************************************************************************)
(* A thread that waits is woken for the next connection.                   *)
LEMMA ListenKept ==
  ASSUME Listening!ListenInv, Listening!Next \/ UNCHANGED windowsListenVars
  PROVE  Listening!ListenInv'
<1> USE DEF Listening!ListenInv
<1>1. CASE Listening!BeforeWait
  BY <1>1 DEF Listening!BeforeWait, Listening!CreateFails, Listening!SelectFails, Listening!Initialized
<1>2. CASE Listening!WaitOtherwise \/ Listening!Wait \/ Listening!ResetEvent
  BY <1>2 DEF Listening!WaitOtherwise, Listening!Wait, Listening!ResetEvent
<1>3. ASSUME NEW rest, Listening!Accepted(rest), ~socket /\ ~unknown => rest = <<>>
      PROVE  Listening!ListenInv'
  BY <1>3 DEF Listening!Accepted
<1>4. CASE Listening!Process \/ Listening!AcceptFails
  BY <1>3, <1>4 DEF Listening!Process, Listening!AcceptFails
<1>5. CASE Listening!EndLoop
  BY <1>5 DEF Listening!EndLoop
<1>6. ASSUME NEW c, Listening!Visit(c)
      PROVE  Listening!ListenInv'
  BY <1>6 DEF Listening!Visit
<1>7. CASE Listening!TimePasses \/ Listening!AskToEnd \/ UNCHANGED windowsListenVars
  BY <1>7 DEF Listening!TimePasses, Listening!AskToEnd, windowsListenVars
<1>8. QED
  BY <1>1, <1>2, <1>4, <1>5, <1>6, <1>7 DEF Listening!Next

(***************************************************************************)
(* A thread with an event loop.                                            *)
(***************************************************************************)
CallPlace == {"between", "handling", "looping"}
CallOfThread == [left : Seq(Nat), at : CallPlace]

(* The innermost call of a stack, changed or left.                         *)
LEMMA TopFacts ==
  ASSUME NEW S, NEW s \in Seq(S), s # <<>>
  PROVE  /\ Len(s) \in Nat \ {0} /\ s[Len(s)] \in S /\ Looping!Last(s) = s[Len(s)] /\ DOMAIN s = 1 .. Len(s)
         /\ Looping!Front(s) \in Seq(S) /\ Len(Looping!Front(s)) = Len(s) - 1 /\ \A i \in 1 .. Len(s) - 1 : Looping!Front(s)[i] = s[i]
<1>1. PICK n \in Nat \ {0} : n = Len(s)
  OBVIOUS
<1>2. s \in [1 .. n -> S] /\ n \in 1 .. n
  BY <1>1
<1>3. Looping!Front(s) \in [1 .. n - 1 -> S] /\ \A i \in 1 .. n - 1 : Looping!Front(s)[i] = s[i]
  <2>1. Looping!Front(s) = SubSeq(s, 1, n - 1)
    BY <1>1, Zenon DEF Looping!Front
  <2>2. Looping!Front(s) \in Seq(S) /\ Len(Looping!Front(s)) = n - 1 /\ \A i \in 1 .. n - 1 : Looping!Front(s)[i] = s[i]
    BY <1>1, <2>1
  <2>3. QED
    BY <2>2
<1>4. Looping!Front(s) \in Seq(S) /\ Len(Looping!Front(s)) = n - 1
  BY <1>3, SequenceOf
<1>5. QED
  BY <1>1, <1>2, <1>3, <1>4, Zenon DEF Looping!Last

(* The innermost call, changed.                                            *)
LEMMA TopChanged ==
  ASSUME NEW S, NEW s \in Seq(S), s # <<>>, NEW c \in S
  PROVE  /\ [s EXCEPT ![Len(s)] = c] \in Seq(S) /\ Len([s EXCEPT ![Len(s)] = c]) = Len(s)
         /\ [s EXCEPT ![Len(s)] = c][Len(s)] = c
         /\ \A i \in 1 .. Len(s) - 1 : [s EXCEPT ![Len(s)] = c][i] = s[i]
<1>1. PICK n \in Nat \ {0} : n = Len(s)
  OBVIOUS
<1>2. s \in [1 .. n -> S] /\ n \in 1 .. n
  BY <1>1
<1>3. PICK t \in [1 .. n -> S] : t = [s EXCEPT ![n] = c]
  BY <1>2
<1>4. t[n] = c /\ \A i \in 1 .. n - 1 : t[i] = s[i]
  BY <1>2, <1>3
<1>5. t \in Seq(S) /\ Len(t) = n
  BY SequenceOf
<1>6. QED
  BY <1>1, <1>3, <1>4, <1>5, Zenon

(* A call that goes to another place keeps its messages.                   *)
LEMMA TopMoves ==
  ASSUME NEW place \in CallPlace, stack \in Seq(CallOfThread), stack # <<>>, Looping!MoveTop(place)
  PROVE  /\ stack' \in Seq(CallOfThread) /\ Len(stack') = Len(stack)
         /\ \A k \in 1 .. Len(stack) : stack'[k].left = stack[k].left
<1>1. PICK t \in CallOfThread : t = stack[Len(stack)]
  BY TopFacts
<1>2. PICK c \in CallOfThread : c = [t EXCEPT !.at = place]
  BY DEF CallOfThread
<1>3. c.left = t.left
  BY <1>2 DEF CallOfThread
<1>4. stack' = [stack EXCEPT ![Len(stack)] = c]
  BY <1>1, <1>2 DEF Looping!MoveTop
<1>5. \A k \in 1 .. Len(stack) : k = Len(stack) \/ k \in 1 .. Len(stack) - 1
  BY TopFacts
<1>6. stack' \in Seq(CallOfThread) /\ Len(stack') = Len(stack) /\ stack'[Len(stack)] = c
      /\ \A k \in 1 .. Len(stack) - 1 : stack'[k] = stack[k]
  BY <1>4, TopChanged
<1>7. QED
  BY <1>1, <1>3, <1>5, <1>6, Zenon

(* What is known of the rows: they are the sequences of the state.         *)
RowsOf(h, s, q) == [k \in 0 .. Len(s) + 1 |-> IF k = 0 THEN h ELSE IF k \in DOMAIN s THEN s[k].left ELSE q]

(* Row by row.                                                             *)
LEMMA RowsFacts ==
  ASSUME NEW h \in Seq(Nat), NEW s \in Seq(CallOfThread), NEW q \in Seq(Nat)
  PROVE  /\ RowsOf(h, s, q) \in [0 .. Len(s) + 1 -> Seq(Nat)] /\ RowsOf(h, s, q)[0] = h
         /\ RowsOf(h, s, q)[Len(s) + 1] = q /\ Len(s) \in Nat
         /\ \A k \in 1 .. Len(s) : RowsOf(h, s, q)[k] = s[k].left
<1>0. PICK n \in Nat : n = Len(s) + 1 /\ n - 1 = Len(s)
  <2>1. Len(s) \in Nat
    OBVIOUS
  <2>2. QED
    BY <2>1
<1>1. \A k \in 1 .. n - 1 : s[k].left \in Seq(Nat) /\ k \in DOMAIN s
  <2> TAKE k \in 1 .. n - 1
  <2>1. k \in DOMAIN s /\ s[k] \in CallOfThread
    BY <1>0
  <2>2. QED
    BY <2>1 DEF CallOfThread
<1>2. DOMAIN s = 1 .. n - 1 /\ n \notin DOMAIN s /\ n # 0
  BY <1>0
<1>3. \A k \in 0 .. n : k = 0 \/ k = n \/ k \in 1 .. n - 1
  OBVIOUS
<1>4. 0 \in 0 .. n /\ n \in 0 .. n /\ n \in Nat \ {0} /\ \A k \in 1 .. n - 1 : k \in 0 .. n /\ k # 0
  BY <1>0
<1>5. RowsOf(h, s, q) = [k \in 0 .. n |-> IF k = 0 THEN h ELSE IF k \in DOMAIN s THEN s[k].left ELSE q]
  BY <1>0, Zenon DEF RowsOf
<1>6. /\ RowsOf(h, s, q) \in [0 .. n -> Seq(Nat)] /\ RowsOf(h, s, q)[0] = h /\ RowsOf(h, s, q)[n] = q
      /\ \A k \in 1 .. n - 1 : RowsOf(h, s, q)[k] = s[k].left
  BY <1>1, <1>2, <1>3, <1>4, <1>5
<1>7. QED
  BY <1>0, <1>6

(* The rows of the state.                                                  *)
LEMMA StateRows ==
  ASSUME Looping!EventsTypeOK, NEW n \in Nat, n = Len(stack) + 1
  PROVE  /\ Looping!Rows \in [0 .. n -> Seq(Nat)] /\ Looping!Rows[0] = handled /\ Looping!Rows[n] = queue /\ n \in Nat \ {0}
         /\ \A k \in 1 .. n - 1 : Looping!Rows[k] = stack[k].left
<1>1. stack \in Seq(CallOfThread) /\ queue \in Seq(Nat) /\ handled \in Seq(Nat)
  BY DEF Looping!EventsTypeOK, CallOfThread, CallPlace
<1>2. Looping!Rows = RowsOf(handled, stack, queue)
  BY Zenon DEF Looping!Rows, RowsOf
<1>3. /\ Looping!Rows \in [0 .. Len(stack) + 1 -> Seq(Nat)] /\ Looping!Rows[0] = handled
      /\ Looping!Rows[Len(stack) + 1] = queue /\ Len(stack) \in Nat
      /\ \A k \in 1 .. Len(stack) : Looping!Rows[k] = stack[k].left
  BY <1>1, <1>2, RowsFacts
<1>4. QED
  BY <1>3

(* The rows of the next state.                                             *)
LEMMA NextRows ==
  ASSUME Looping!EventsTypeOK', NEW n \in Nat, n = Len(stack') + 1
  PROVE  /\ Looping!Rows' \in [0 .. n -> Seq(Nat)] /\ Looping!Rows'[0] = handled' /\ Looping!Rows'[n] = queue' /\ n \in Nat \ {0}
         /\ \A k \in 1 .. n - 1 : Looping!Rows'[k] = stack'[k].left
<1>1. stack' \in Seq(CallOfThread) /\ queue' \in Seq(Nat) /\ handled' \in Seq(Nat)
  BY DEF Looping!EventsTypeOK, CallOfThread, CallPlace
<1>2. Looping!Rows' = RowsOf(handled', stack', queue')
  BY Zenon DEF Looping!Rows, RowsOf
<1>3. /\ Looping!Rows' \in [0 .. Len(stack') + 1 -> Seq(Nat)] /\ Looping!Rows'[0] = handled'
      /\ Looping!Rows'[Len(stack') + 1] = queue' /\ Len(stack') \in Nat
      /\ \A k \in 1 .. Len(stack') : Looping!Rows'[k] = stack'[k].left
  BY <1>1, <1>2, RowsFacts
<1>4. QED
  BY <1>3

(* A call is one of the thread, with its messages.                         *)
LEMMA CallFacts ==
  ASSUME NEW messages \in Seq(Nat), NEW place \in CallPlace
  PROVE  Looping!Call(messages, place) \in CallOfThread /\ Looping!Call(messages, place).left = messages
  BY DEF Looping!Call, CallOfThread

(* A call of processMessages(), and one of a timer.                        *)
LEMMA Pushed ==
  ASSUME NEW messages \in Seq(Nat), NEW place \in CallPlace, stack \in Seq(CallOfThread),
         stack' = Append(stack, Looping!Call(messages, place))
  PROVE  /\ stack' \in Seq(CallOfThread) /\ Len(stack') = Len(stack) + 1 /\ Len(stack) \in Nat
         /\ stack'[Len(stack) + 1].left = messages /\ \A k \in 1 .. Len(stack) : stack'[k] = stack[k]
<1>1. PICK c \in CallOfThread : c = Looping!Call(messages, place) /\ c.left = messages
  BY CallFacts
<1>2. stack' = Append(stack, c)
  BY <1>1
<1>3. QED
  BY <1>1, <1>2, AppendFacts

(* What every step does to the stack.                                      *)
MovesTop == Looping!RunEventLoop \/ Looping!LeaveEventLoop \/ Looping!HandlerReturns

(* The innermost call only moves.                                          *)
LEMMA MovesTopFacts ==
  ASSUME Looping!EventsTypeOK, MovesTop
  PROVE  /\ stack' \in Seq(CallOfThread) /\ Len(stack') = Len(stack) /\ stack # <<>>
         /\ \A k \in 1 .. Len(stack) : stack'[k].left = stack[k].left
         /\ UNCHANGED <<eventPc, queue, events, exiting, posting, posted, handled, early, inside, stops>>
<1>1. stack \in Seq(CallOfThread)
  BY DEF Looping!EventsTypeOK, CallOfThread, CallPlace
<1>2. PICK place \in CallPlace : Looping!MoveTop(place)
  BY DEF MovesTop, Looping!RunEventLoop, Looping!LeaveEventLoop, Looping!HandlerReturns, CallPlace
<1>3. stack # <<>>
  BY DEF MovesTop, Looping!RunEventLoop, Looping!LeaveEventLoop, Looping!HandlerReturns, Looping!At
<1>4. UNCHANGED <<eventPc, queue, events, exiting, posting, posted, handled, early, inside, stops>>
  BY DEF MovesTop, Looping!RunEventLoop, Looping!LeaveEventLoop, Looping!HandlerReturns
<1>5. QED
  BY <1>1, <1>2, <1>3, <1>4, TopMoves

(* The innermost call loses a message, which is handled.                   *)
LEMMA ProcessMessageFacts ==
  ASSUME Looping!EventsTypeOK, Looping!ProcessMessage
  PROVE  /\ stack' \in Seq(CallOfThread) /\ Len(stack') = Len(stack) /\ Len(stack) \in Nat \ {0}
         /\ \A k \in 1 .. Len(stack) - 1 : stack'[k] = stack[k]
         /\ stack[Len(stack)].left \in Seq(Nat) /\ stack[Len(stack)].left # <<>>
         /\ stack'[Len(stack)].left = Tail(stack[Len(stack)].left)
         /\ handled' = Append(handled, Head(stack[Len(stack)].left))
         /\ UNCHANGED <<eventPc, queue, events, exiting, posting, posted, early, inside, stops>>
<1>1. stack \in Seq(CallOfThread) /\ stack # <<>> /\ Looping!Top.left # <<>>
  BY DEF Looping!EventsTypeOK, CallOfThread, CallPlace, Looping!ProcessMessage, Looping!At
<1>2. PICK t \in CallOfThread : t = Looping!Top /\ t = stack[Len(stack)]
  BY <1>1, TopFacts DEF Looping!Top
<1>3. t.left \in Seq(Nat) /\ t.left # <<>>
  BY <1>1, <1>2 DEF CallOfThread
<1>10. PICK less \in Seq(Nat) : less = Tail(t.left)
  BY <1>3, TailFacts
<1>12. "handling" \in CallPlace
  BY DEF CallPlace
<1>11. PICK c \in CallOfThread : c = Looping!Call(less, "handling") /\ c.left = less
  BY <1>12, CallFacts
<1>4. c = Looping!Call(Tail(t.left), "handling") /\ c.left = Tail(t.left)
  BY <1>10, <1>11
<1>5. stack' = [stack EXCEPT ![Len(stack)] = c] /\ handled' = Append(handled, Head(t.left))
  BY <1>2, <1>4, Zenon DEF Looping!ProcessMessage
<1>6. Len(stack) \in Nat \ {0}
  BY <1>1, TopFacts
<1>7. /\ stack' \in Seq(CallOfThread) /\ Len(stack') = Len(stack) /\ stack'[Len(stack)] = c
      /\ \A k \in 1 .. Len(stack) - 1 : stack'[k] = stack[k]
  BY <1>1, <1>5, TopChanged
<1>8. UNCHANGED <<eventPc, queue, events, exiting, posting, posted, early, inside, stops>>
  BY DEF Looping!ProcessMessage
<1>9. QED
  BY <1>2, <1>3, <1>4, <1>5, <1>6, <1>7, <1>8, Zenon

(* The types are kept.                                                     *)
LEMMA EventsTypeKept ==
  ASSUME Looping!EventsTypeOK, Looping!Next \/ UNCHANGED eventVars
  PROVE  Looping!EventsTypeOK'
<1>1. /\ stack \in Seq(CallOfThread) /\ queue \in Seq(Nat) /\ handled \in Seq(Nat) /\ posted \in Nat
      /\ events \in Seq({"WakeUp", "Terminate"}) /\ exiting \in BOOLEAN
  BY DEF Looping!EventsTypeOK, CallOfThread, CallPlace
<1>2. posted + 1 \in Nat /\ Append(queue, posted + 1) \in Seq(Nat) /\ <<>> \in Seq(Nat)
  BY <1>1
<1>3. \A signal \in {"WakeUp", "Terminate"} : Looping!Emitted(signal) \in Seq({"WakeUp", "Terminate"})
  BY <1>1 DEF Looping!Emitted
<1>4. \A signal : eventPc = "created" => Looping!Emitted(signal) = events
  BY DEF Looping!Emitted
<1>5. SUFFICES
        /\ eventPc' \in {"created", "started", "exec", "last", "finished"} /\ stops' \in {"no", "early", "asked"}
        /\ events' \in Seq({"WakeUp", "Terminate"}) /\ exiting' \in BOOLEAN /\ posted' \in Nat
        /\ stack' \in Seq(CallOfThread)
        /\ queue' \in Seq(Nat) /\ handled' \in Seq(Nat)
        /\ eventPc' = "created" => stack' = <<>> /\ events' = <<>>
  BY DEF Looping!EventsTypeOK, CallOfThread, CallPlace
<1>6. ASSUME NEW messages \in Seq(Nat), Looping!ProcessMessages(messages)
      PROVE  stack' \in Seq(CallOfThread) /\ queue' \in Seq(Nat)
  <2>1. stack' = Append(stack, Looping!Call(messages, "between")) /\ queue' = <<>>
    BY <1>6 DEF Looping!ProcessMessages
  <2>2. QED
    BY <1>1, <1>2, <2>1, Pushed DEF CallPlace
<1>7. CASE Looping!Enqueue \/ UNCHANGED eventVars \/ Looping!InitializeThread \/ Looping!Exec \/ Looping!FinishThread
  BY <1>1, <1>2, <1>7 DEF Looping!EventsTypeOK, Looping!Enqueue, eventVars, Looping!InitializeThread, Looping!Exec, Looping!FinishThread
<1>8. CASE \E message \in posting : Looping!SignalEventWakeUp(message)
  BY <1>1, <1>3, <1>4, <1>8 DEF Looping!EventsTypeOK, Looping!SignalEventWakeUp
<1>9. CASE Looping!SignalEventTerminate
  BY <1>1, <1>3, <1>4, <1>9 DEF Looping!EventsTypeOK, Looping!SignalEventTerminate
<1>10. CASE Looping!PostToItself
  <2>1. Looping!InHandler /\ Looping!ProcessMessages(Append(queue, posted + 1)) /\ posted' = posted + 1
        /\ UNCHANGED <<eventPc, events, exiting, handled, stops>>
    BY <1>10 DEF Looping!PostToItself
  <2>2. eventPc # "created"
    BY <2>1 DEF Looping!InHandler, Looping!At, Looping!EventsTypeOK
  <2>3. QED
    BY <1>1, <1>2, <1>6, <2>1, <2>2 DEF Looping!EventsTypeOK
<1>11. CASE Looping!TerminateItself
  BY <1>1, <1>11 DEF Looping!EventsTypeOK, Looping!TerminateItself, Looping!SlotTerminateThread
<1>12. CASE MovesTop
  BY <1>1, <1>12, MovesTopFacts DEF Looping!EventsTypeOK
<1>13. CASE Looping!ProcessMessage
  <2>1. stack[Len(stack)].left \in Seq(Nat) /\ stack[Len(stack)].left # <<>>
        /\ handled' = Append(handled, Head(stack[Len(stack)].left))
    BY <1>13, ProcessMessageFacts
  <2>2. handled' \in Seq(Nat)
    <3>1. Head(stack[Len(stack)].left) \in Nat
      BY <2>1, TailFacts
    <3>2. QED
      BY <1>1, <2>1, <3>1, AppendFacts
  <2>3. stack # <<>>
    BY <1>13 DEF Looping!ProcessMessage, Looping!At
  <2>4. QED
    BY <1>1, <1>13, <2>2, <2>3, ProcessMessageFacts DEF Looping!EventsTypeOK
<1>14. CASE Looping!CallReturns
  <2>1. stack # <<>> /\ stack' = Looping!Front(stack) /\ UNCHANGED <<eventPc, queue, events, exiting, posted, handled, stops>>
    BY <1>14 DEF Looping!CallReturns, Looping!At
  <2>2. stack' \in Seq(CallOfThread)
    BY <1>1, <2>1, TopFacts
  <2>3. QED
    BY <1>1, <2>1, <2>2 DEF Looping!EventsTypeOK
<1>15. CASE Looping!TakeEvent
  <2>1. Looping!Looping /\ events # <<>> /\ events' = Tail(events) /\ UNCHANGED <<eventPc, posted, handled>>
        /\ exiting' \in BOOLEAN /\ stops' \in {"no", "early", "asked"}
    BY <1>1, <1>15 DEF Looping!TakeEvent, Looping!SlotTerminateThread, Looping!EventsTypeOK
  <2>2. eventPc # "created"
    BY <2>1 DEF Looping!Looping, Looping!At, Looping!EventsTypeOK
  <2>3. events' \in Seq({"WakeUp", "Terminate"})
    BY <1>1, <2>1
  <2>4. Looping!ProcessMessages(queue) \/ UNCHANGED <<queue, stack>>
    BY <1>15 DEF Looping!TakeEvent
  <2>5. stack' \in Seq(CallOfThread) /\ queue' \in Seq(Nat)
    BY <1>1, <1>6, <2>4
  <2>6. QED
    BY <1>1, <2>1, <2>2, <2>3, <2>5 DEF Looping!EventsTypeOK
<1>16. CASE Looping!SlotTimerEventLoop
  <2>1. Looping!Looping /\ stack' = Append(stack, Looping!Call(<<>>, "handling"))
        /\ UNCHANGED <<eventPc, queue, events, exiting, posted, handled, stops>>
    BY <1>16 DEF Looping!SlotTimerEventLoop
  <2>2. eventPc # "created"
    BY <2>1 DEF Looping!Looping, Looping!At, Looping!EventsTypeOK
  <2>3. stack' \in Seq(CallOfThread)
    BY <1>1, <1>2, <2>1, Pushed DEF CallPlace
  <2>4. QED
    BY <1>1, <2>1, <2>2, <2>3 DEF Looping!EventsTypeOK
<1>17. CASE Looping!ExecReturns
  <2>1. Looping!ProcessMessages(queue) /\ eventPc' = "last" /\ UNCHANGED <<events, exiting, posted, handled, stops>>
    BY <1>17 DEF Looping!ExecReturns
  <2>2. QED
    BY <1>1, <1>6, <2>1 DEF Looping!EventsTypeOK
<1>18. QED
  BY <1>7, <1>8, <1>9, <1>10, <1>11, <1>12, <1>13, <1>14, <1>15, <1>16, <1>17 DEF Looping!Next, MovesTop

(* Of every step's new events, and those that are left.                    *)
LEMMA EmittedFacts ==
  ASSUME Looping!EventsTypeOK, NEW signal \in {"WakeUp", "Terminate"}, eventPc \notin {"created", "finished"}
  PROVE  /\ Looping!ToSet(Looping!Emitted(signal)) = Looping!ToSet(events) \cup {signal}
         /\ \A i, j \in DOMAIN Looping!Emitted(signal) :
               \/ i = j
               \/ /\ i \in DOMAIN events /\ Looping!Emitted(signal)[i] = events[i]
                  /\ Looping!Emitted(signal)[j] = signal \/ (j \in DOMAIN events /\ Looping!Emitted(signal)[j] = events[j])
               \/ j \in DOMAIN events /\ Looping!Emitted(signal)[j] = events[j] /\ Looping!Emitted(signal)[i] = signal
<1> DEFINE E == {"WakeUp", "Terminate"}
<1>1. events \in Seq(E) /\ signal \in E
  BY DEF Looping!EventsTypeOK
<1> HIDE DEF E
<1>2. PICK m \in Nat : m = Len(events)
  BY <1>1, AppendFacts
<1>3. PICK s : s = Looping!Emitted(signal)
  OBVIOUS
<1>4. s = Append(events, signal)
  BY <1>3 DEF Looping!Emitted
<1>5. /\ DOMAIN events = 1 .. m /\ DOMAIN s = 1 .. m + 1 /\ s[m + 1] = signal
      /\ \A i \in 1 .. m : s[i] = events[i]
  BY <1>1, <1>2, <1>4, AppendFacts
<1>6. (\A i \in 1 .. m + 1 : i = m + 1 \/ i \in 1 .. m) /\ m + 1 \in 1 .. m + 1 /\ \A i \in 1 .. m : i \in 1 .. m + 1
  OBVIOUS
<1>7. Looping!ToSet(s) = Looping!ToSet(events) \cup {signal}
  BY <1>5, <1>6, Zenon DEF Looping!ToSet
<1>8. QED
  BY <1>3, <1>5, <1>6, <1>7, Zenon

(* The first event taken, and those that are left.                         *)
LEMMA TakenFacts ==
  ASSUME Looping!EventsTypeOK, events # <<>>
  PROVE  /\ Head(events) \in {"WakeUp", "Terminate"} /\ Looping!ToSet(events) = Looping!ToSet(Tail(events)) \cup {Head(events)}
         /\ \A i, j \in DOMAIN Tail(events) : \E k, l \in DOMAIN events :
               /\ Tail(events)[i] = events[k] /\ Tail(events)[j] = events[l] /\ (k = l => i = j)
         /\ \A i \in DOMAIN Tail(events) : \E k \in DOMAIN events :
               Tail(events)[i] = events[k] /\ k # 1
         /\ 1 \in DOMAIN events /\ events[1] = Head(events)
<1> DEFINE E == {"WakeUp", "Terminate"}
<1>1. events \in Seq(E)
  BY DEF Looping!EventsTypeOK
<1> HIDE DEF E
<1>2. PICK m \in Nat \ {0} : m = Len(events)
  BY <1>1, TailFacts
<1> DEFINE s == Tail(events)
<1>3. s \in Seq(E) /\ s = Tail(events)
  BY <1>1, TailFacts
<1> HIDE DEF s
<1>4. /\ DOMAIN events = 1 .. m /\ DOMAIN s = 1 .. m - 1 /\ Head(events) = events[1] /\ Head(events) \in E
      /\ \A i \in 1 .. m - 1 : s[i] = events[i + 1]
  <2>1. Len(s) = m - 1
    BY <1>1, <1>2, <1>3, TailFacts
  <2>2. \A i \in 1 .. m - 1 : s[i] = events[i + 1]
    BY <1>1, <1>2, <1>3, TailFacts
  <2>3. DOMAIN events = 1 .. m /\ DOMAIN s = 1 .. m - 1
    BY <1>1, <1>2, <1>3, <2>1, DomainFacts
  <2>4. QED
    BY <1>1, <2>2, <2>3, TailFacts
<1>5. \A i \in 1 .. m : i = 1 \/ (i - 1 \in 1 .. m - 1 /\ i = i - 1 + 1)
  OBVIOUS
<1>6. 1 \in 1 .. m /\ \A i \in 1 .. m - 1 : i + 1 \in 1 .. m /\ i + 1 # 1
  OBVIOUS
<1>7. \A i, j \in 1 .. m - 1 : i + 1 = j + 1 => i = j
  OBVIOUS
<1>8. Looping!ToSet(events) = Looping!ToSet(s) \cup {Head(events)}
  <2>1. \A i \in DOMAIN events : events[i] = Head(events) \/ events[i] \in Looping!ToSet(s)
    <3> TAKE i \in DOMAIN events
    <3>1. CASE i = 1
      BY <1>4, <3>1
    <3>2. CASE i - 1 \in 1 .. m - 1 /\ i = i - 1 + 1
      <4>1. i - 1 \in DOMAIN s /\ s[i - 1] = events[i]
        BY <1>4, <3>2, Zenon
      <4>2. QED
        BY <4>1, Zenon DEF Looping!ToSet
    <3>3. QED
      BY <1>4, <1>5, <3>1, <3>2, Zenon
  <2>2. \A i \in DOMAIN s : s[i] \in Looping!ToSet(events)
    BY <1>4, <1>6, Zenon DEF Looping!ToSet
  <2>3. Head(events) \in Looping!ToSet(events)
    BY <1>4, <1>6, Zenon DEF Looping!ToSet
  <2>4. QED
    BY <2>1, <2>2, <2>3, Zenon DEF Looping!ToSet
<1>9. \A i, j \in DOMAIN s : \E k, l \in DOMAIN events : s[i] = events[k] /\ s[j] = events[l] /\ (k = l => i = j)
  <2> TAKE i, j \in DOMAIN s
  <2>1. i \in 1 .. m - 1 /\ j \in 1 .. m - 1
    BY <1>4, Zenon
  <2>2. i + 1 \in DOMAIN events /\ s[i] = events[i + 1] /\ j + 1 \in DOMAIN events /\ s[j] = events[j + 1]
    BY <2>1, <1>4, <1>6, Zenon
  <2>3. i + 1 = j + 1 => i = j
    BY <2>1, <1>7, Zenon
  <2>4. QED
    BY <2>2, <2>3, Zenon
<1>10. \A i \in DOMAIN s : \E k \in DOMAIN events : s[i] = events[k] /\ k # 1
  BY <1>4, <1>6, Zenon
<1>11. 1 \in DOMAIN events /\ events[1] = Head(events)
  BY <1>4, <1>6
<1>12. Head(events) \in {"WakeUp", "Terminate"}
  BY <1>4 DEF E
<1>13. QED
  BY <1>8, <1>9, <1>10, <1>11, <1>12, Zenon DEF s

(* The thread is woken for what it was signalled.                          *)
LEMMA WokenKept ==
  ASSUME Looping!EventsTypeOK, Looping!WokenFor, Looping!Next \/ UNCHANGED eventVars
  PROVE  Looping!WokenFor'
<1>0. posted \in Nat /\ queue \in Seq(Nat)
  BY DEF Looping!EventsTypeOK
<1>1. Looping!ToSet(<<>>) = {}
  BY DEF Looping!ToSet
<1>2. ASSUME queue' = <<>>
      PROVE  Looping!WokenFor'
  BY <1>1, <1>2 DEF Looping!WokenFor
<1>3. CASE Looping!Enqueue
  <2>1. queue' = Append(queue, posted + 1) /\ posting' = posting \cup {posted + 1} /\ UNCHANGED <<eventPc, events, early>>
    BY <1>3 DEF Looping!Enqueue
  <2>2. Looping!ToSet(queue') \subseteq Looping!ToSet(queue) \cup {posted + 1}
    <3>1. /\ DOMAIN queue = 1 .. Len(queue) /\ DOMAIN queue' = 1 .. Len(queue) + 1 /\ queue'[Len(queue) + 1] = posted + 1
          /\ \A i \in 1 .. Len(queue) : queue'[i] = queue[i]
      <4>1. posted + 1 \in Nat
        BY <1>0
      <4>2. QED
        BY <1>0, <2>1, <4>1, AppendFacts
    <3>2. \A i \in 1 .. Len(queue) + 1 : i = Len(queue) + 1 \/ i \in 1 .. Len(queue)
      BY <1>0
    <3>3. QED
      BY <3>1, <3>2, Zenon DEF Looping!ToSet
  <2>3. QED
    BY <2>1, <2>2 DEF Looping!WokenFor
<1>4. ASSUME NEW message \in posting, Looping!SignalEventWakeUp(message)
      PROVE  Looping!WokenFor'
  <2>1. /\ posting' = posting \ {message} /\ events' = Looping!Emitted("WakeUp") /\ UNCHANGED <<eventPc, queue>>
        /\ early' = IF eventPc = "created" THEN early \cup {message} ELSE early
    BY <1>4 DEF Looping!SignalEventWakeUp
  <2>2. CASE eventPc = "created"
    <3>1. events' = events /\ events = <<>>
      BY <2>1, <2>2 DEF Looping!Emitted, Looping!EventsTypeOK
    <3>2. Looping!ToSet(queue) \subseteq early \cup posting
      BY <1>1, <2>2, <3>1 DEF Looping!WokenFor
    <3>3. QED
      BY <2>1, <2>2, <3>2 DEF Looping!WokenFor
  <2>3. CASE eventPc = "finished"
    BY <2>1, <2>3 DEF Looping!WokenFor
  <2>4. CASE eventPc \notin {"created", "finished"}
    <3>1. "WakeUp" \in Looping!ToSet(events')
      BY <2>1, <2>4, EmittedFacts
    <3>2. QED
      BY <3>1 DEF Looping!WokenFor
  <2>5. QED
    BY <2>2, <2>3, <2>4
<1>5. CASE Looping!SignalEventTerminate
  <2>1. events' = Looping!Emitted("Terminate") /\ UNCHANGED <<eventPc, queue, posting, early>>
    BY <1>5 DEF Looping!SignalEventTerminate
  <2>2. Looping!ToSet(events) \subseteq Looping!ToSet(events')
    <3>1. CASE eventPc \in {"created", "finished"}
      BY <2>1, <3>1 DEF Looping!Emitted
    <3>2. CASE eventPc \notin {"created", "finished"}
      BY <2>1, <3>2, EmittedFacts
    <3>3. QED
      BY <3>1, <3>2
  <2>3. QED
    BY <2>1, <2>2 DEF Looping!WokenFor
<1>6. CASE Looping!PostToItself \/ Looping!ExecReturns
  BY <1>2, <1>6 DEF Looping!PostToItself, Looping!ExecReturns, Looping!ProcessMessages
<1>7. CASE Looping!TakeEvent
  <2>1. events # <<>> /\ events' = Tail(events) /\ UNCHANGED <<eventPc, posting, early>>
    BY <1>7 DEF Looping!TakeEvent
  <2>2. CASE Head(events) = "WakeUp"
    BY <1>2, <1>7, <2>2 DEF Looping!TakeEvent, Looping!ProcessMessages
  <2>3. CASE Head(events) # "WakeUp"
    <3>1. UNCHANGED queue
      BY <1>7, <2>3 DEF Looping!TakeEvent
    <3>2. "WakeUp" \in Looping!ToSet(events) => "WakeUp" \in Looping!ToSet(events')
      BY <2>1, <2>3, TakenFacts
    <3>3. QED
      BY <2>1, <3>1, <3>2 DEF Looping!WokenFor
  <2>4. QED
    BY <2>2, <2>3
<1>8. CASE MovesTop \/ Looping!ProcessMessage
  <2>1. UNCHANGED <<eventPc, queue, events, posting, early>>
    BY <1>8, MovesTopFacts, ProcessMessageFacts
  <2>2. QED
    BY <2>1 DEF Looping!WokenFor
<1>9. CASE Looping!TerminateItself \/ Looping!CallReturns \/ Looping!SlotTimerEventLoop \/ Looping!InitializeThread \/ Looping!Exec \/ UNCHANGED eventVars
  BY <1>9 DEF Looping!TerminateItself, Looping!CallReturns, Looping!SlotTimerEventLoop, Looping!InitializeThread, Looping!Exec, eventVars, Looping!WokenFor
<1>10. CASE Looping!FinishThread
  BY <1>10 DEF Looping!FinishThread, Looping!WokenFor
<1>11. QED
  BY <1>3, <1>4, <1>5, <1>6, <1>7, <1>8, <1>9, <1>10 DEF Looping!Next, MovesTop

(* A request to end is on its way once.                                    *)
LEMMA EndsKept ==
  ASSUME Looping!EventsTypeOK, Looping!EndsOnceAsked, Looping!Next \/ UNCHANGED eventVars
  PROVE  Looping!EndsOnceAsked'
<1>1. CASE UNCHANGED <<eventPc, events, exiting, stops>>
  BY <1>1 DEF Looping!EndsOnceAsked
<1>2. CASE Looping!Enqueue \/ Looping!PostToItself \/ MovesTop \/ Looping!ProcessMessage \/ Looping!CallReturns \/ Looping!SlotTimerEventLoop \/ UNCHANGED eventVars
  <2>1. UNCHANGED <<eventPc, events, exiting, stops>>
    BY <1>2, MovesTopFacts, ProcessMessageFacts
       DEF Looping!Enqueue, Looping!PostToItself, Looping!CallReturns, Looping!SlotTimerEventLoop, eventVars
  <2>2. QED
    BY <1>1, <2>1
<1>3. ASSUME NEW message \in posting, Looping!SignalEventWakeUp(message)
      PROVE  Looping!EndsOnceAsked'
  <2>1. events' = Looping!Emitted("WakeUp") /\ UNCHANGED <<eventPc, exiting, stops>>
    BY <1>3 DEF Looping!SignalEventWakeUp
  <2>2. CASE eventPc \in {"created", "finished"}
    BY <2>1, <2>2, <1>1 DEF Looping!Emitted
  <2>3. CASE eventPc \notin {"created", "finished"}
    <3>1. Looping!ToSet(events') = Looping!ToSet(events) \cup {"WakeUp"}
      BY <2>1, <2>3, EmittedFacts
    <3>2. \A i, j \in DOMAIN events' : events'[i] = "Terminate" /\ events'[j] = "Terminate" => i = j
      <4> TAKE i, j \in DOMAIN events'
      <4>1. \/ i = j
            \/ events'[i] = "WakeUp" \/ events'[j] = "WakeUp"
            \/ i \in DOMAIN events /\ events'[i] = events[i] /\ j \in DOMAIN events /\ events'[j] = events[j]
        BY <2>1, <2>3, EmittedFacts
      <4>2. QED
        BY <4>1 DEF Looping!EndsOnceAsked
    <3>3. QED
      BY <2>1, <3>1, <3>2 DEF Looping!EndsOnceAsked
  <2>4. QED
    BY <2>2, <2>3
<1>4. CASE Looping!SignalEventTerminate
  <2>1. events' = Looping!Emitted("Terminate") /\ stops # "asked" /\ eventPc # "finished" /\ UNCHANGED <<eventPc, exiting>>
        /\ stops' = IF eventPc = "created" THEN "early" ELSE "asked"
    BY <1>4 DEF Looping!SignalEventTerminate
  <2>2. "Terminate" \notin Looping!ToSet(events)
    BY <2>1 DEF Looping!EndsOnceAsked
  <2>3. CASE eventPc = "created"
    BY <2>1, <2>2, <2>3 DEF Looping!EndsOnceAsked, Looping!Emitted
  <2>4. CASE eventPc # "created"
    <3>1. Looping!ToSet(events') = Looping!ToSet(events) \cup {"Terminate"}
      BY <2>1, <2>4, EmittedFacts
    <3>2. \A i \in DOMAIN events : events[i] # "Terminate"
      BY <2>2, Zenon DEF Looping!ToSet
    <3>3. \A i, j \in DOMAIN events' : events'[i] = "Terminate" /\ events'[j] = "Terminate" => i = j
      <4> TAKE i, j \in DOMAIN events'
      <4>1. \/ i = j
            \/ i \in DOMAIN events /\ events'[i] = events[i]
            \/ j \in DOMAIN events /\ events'[j] = events[j]
        BY <2>1, <2>4, EmittedFacts
      <4>2. QED
        BY <3>2, <4>1, Zenon
    <3>4. QED
      BY <2>1, <2>4, <3>1, <3>3 DEF Looping!EndsOnceAsked
  <2>5. QED
    BY <2>3, <2>4
<1>5. CASE Looping!TerminateItself
  BY <1>5 DEF Looping!TerminateItself, Looping!SlotTerminateThread, Looping!EndsOnceAsked, Looping!EventsTypeOK
<1>6. CASE Looping!TakeEvent
  <2>1. events # <<>> /\ events' = Tail(events) /\ UNCHANGED eventPc
    BY <1>6 DEF Looping!TakeEvent
  <2>2. \A i, j \in DOMAIN events' : events'[i] = "Terminate" /\ events'[j] = "Terminate" => i = j
    <3>1. ASSUME NEW i \in DOMAIN Tail(events), NEW j \in DOMAIN Tail(events),
                 Tail(events)[i] = "Terminate", Tail(events)[j] = "Terminate"
          PROVE  i = j
      <4>1. PICK k, l \in DOMAIN events : Tail(events)[i] = events[k] /\ Tail(events)[j] = events[l] /\ (k = l => i = j)
        BY <2>1, TakenFacts, Zenon
      <4>2. QED
        BY <3>1, <4>1, Zenon DEF Looping!EndsOnceAsked
    <3>2. QED
      BY <2>1, <3>1, Zenon
  <2>3. Looping!ToSet(events) = Looping!ToSet(events') \cup {Head(events)} /\ Head(events) \in {"WakeUp", "Terminate"}
    BY <2>1, TakenFacts
  <2>4. CASE Head(events) = "WakeUp"
    <3>1. UNCHANGED <<exiting, stops>>
      BY <1>6, <2>4 DEF Looping!TakeEvent
    <3>2. "Terminate" \in Looping!ToSet(events) <=> "Terminate" \in Looping!ToSet(events')
      BY <2>3, <2>4
    <3>3. QED
      BY <2>1, <2>2, <3>1, <3>2 DEF Looping!EndsOnceAsked
  <2>5. CASE Head(events) = "Terminate"
    <3>1. exiting' = (exiting \/ eventPc = "exec") /\ stops' = (IF eventPc = "started" THEN "early" ELSE stops)
      BY <1>6, <2>5 DEF Looping!TakeEvent, Looping!SlotTerminateThread
    <3>2. "Terminate" \notin Looping!ToSet(events')
      <4> SUFFICES ASSUME NEW i \in DOMAIN events', events'[i] = "Terminate" PROVE FALSE
        BY Zenon DEF Looping!ToSet
      <4>1. PICK k \in DOMAIN events : events'[i] = events[k] /\ k # 1
        BY <2>1, TakenFacts
      <4>2. 1 \in DOMAIN events /\ events[1] = "Terminate"
        BY <2>1, <2>5, TakenFacts
      <4>3. QED
        BY <4>1, <4>2 DEF Looping!EndsOnceAsked
    <3>3. stops = "asked"
      BY <2>3, <2>5 DEF Looping!EndsOnceAsked
    <3>4. eventPc \in {"started", "exec", "last", "finished"}
      <4>2. eventPc # "created"
        BY <2>1 DEF Looping!EventsTypeOK
      <4>3. QED
        BY <4>2 DEF Looping!EventsTypeOK
    <3>5. QED
      BY <2>1, <2>2, <3>1, <3>2, <3>3, <3>4 DEF Looping!EndsOnceAsked
  <2>6. QED
    BY <2>3, <2>4, <2>5
<1>7. CASE Looping!InitializeThread
  BY <1>7 DEF Looping!InitializeThread, Looping!EndsOnceAsked
<1>8. CASE Looping!Exec
  BY <1>8 DEF Looping!Exec, Looping!EndsOnceAsked
<1>9. CASE Looping!ExecReturns
  BY <1>9 DEF Looping!ExecReturns, Looping!EndsOnceAsked
<1>10. CASE Looping!FinishThread
  BY <1>10 DEF Looping!FinishThread, Looping!EndsOnceAsked
<1>11. QED
  BY <1>2, <1>3, <1>4, <1>5, <1>6, <1>7, <1>8, <1>9, <1>10 DEF Looping!Next, MovesTop

(* The event loop's instance has copies of the operators it extends: they  *)
(* are the same sets, and the same rows in turn.                           *)
LEMMA SameToSet == ASSUME NEW s PROVE Looping!ToSet(s) = ToSet(s)
  BY Zenon DEF Looping!ToSet, ToSet

(* The rows of the instance are in turn when they are.                     *)
LEMMA SameTurn ==
  ASSUME NEW rows, NEW n, NEW many, NEW within
  PROVE  Looping!InTurn(rows, n, many, within) <=> InTurn(rows, n, many, within)
  BY SameToSet DEF Looping!InTurn, InTurn

(* The messages stay in turn.                                              *)
LEMMA TurnKept ==
  ASSUME Looping!EventsTypeOK, Looping!EventsTypeOK', InTurn(Looping!Rows, Len(stack) + 1, posted, inside), Looping!Next \/ UNCHANGED eventVars
  PROVE  InTurn(Looping!Rows, Len(stack) + 1, posted, inside)'
<1>1. /\ stack \in Seq(CallOfThread) /\ queue \in Seq(Nat) /\ handled \in Seq(Nat) /\ posted \in Nat
  BY DEF Looping!EventsTypeOK, CallOfThread, CallPlace
<1>2. PICK n \in Nat \ {0} : n = Len(stack) + 1 /\ n - 1 = Len(stack)
  <2>1. Len(stack) \in Nat
    BY <1>1
  <2>2. Len(stack) + 1 \in Nat \ {0} /\ Len(stack) + 1 - 1 = Len(stack)
    BY <2>1
  <2>3. QED
    BY <2>2
<1>3. PICK rows \in [0 .. n -> Seq(Nat)] : rows = Looping!Rows
  BY <1>2, StateRows
<1>4. rows[0] = handled /\ rows[n] = queue /\ \A k \in 1 .. n - 1 : rows[k] = stack[k].left
  BY <1>2, <1>3, StateRows
<1>5. InTurn(rows, n, posted, inside)
  BY <1>2, <1>3
<1>6. PICK rows2 : rows2 = Looping!Rows'
  OBVIOUS
<1>7. ASSUME NEW m \in Nat \ {0}, m = Len(stack') + 1
      PROVE  /\ rows2 \in [0 .. m -> Seq(Nat)] /\ rows2[0] = handled' /\ rows2[m] = queue'
             /\ \A k \in 1 .. m - 1 : rows2[k] = stack'[k].left
             /\ InTurn(rows2, m, posted', inside') => InTurn(Looping!Rows, Len(stack) + 1, posted, inside)'
  BY <1>6, <1>7, NextRows
<1>8. \A k \in 0 .. n : k = 0 \/ k = n \/ k \in 1 .. n - 1
  OBVIOUS
<1>9. CASE Len(stack') = Len(stack) /\ (\A k \in 1 .. n - 1 : stack'[k].left = stack[k].left)
           /\ UNCHANGED <<queue, handled, posted, inside>>
  <2>1. /\ rows2 \in [0 .. n -> Seq(Nat)] /\ rows2[0] = handled /\ rows2[n] = queue
        /\ \A k \in 1 .. n - 1 : rows2[k] = stack[k].left
    BY <1>2, <1>7, <1>9
  <2>2. \A k \in 0 .. n : rows2[k] = rows[k]
    BY <1>4, <1>8, <2>1, Zenon
  <2>4. rows2 = rows
    BY <2>1, <2>2
  <2>3. QED
    BY <1>2, <1>5, <1>7, <1>9, <2>4
<1>10. CASE Looping!Enqueue
  <2>1. queue' = Append(queue, posted + 1) /\ posted' = posted + 1 /\ UNCHANGED <<stack, handled, inside>>
    BY <1>10 DEF Looping!Enqueue
  <2>2. /\ rows2 \in [0 .. n -> Seq(Nat)] /\ rows2[0] = handled /\ rows2[n] = Append(rows[n], posted + 1)
        /\ \A k \in 1 .. n - 1 : rows2[k] = rows[k]
    BY <1>2, <1>4, <1>7, <2>1
  <2>3. \A k \in 0 .. n - 1 : rows2[k] = rows[k]
    BY <1>4, <2>2
  <2>4. InTurn(rows2, n, posted + 1, inside)
    BY <1>1, <1>5, <2>2, <2>3, RowAdded
  <2>5. QED
    BY <1>2, <1>7, <2>1, <2>4
<1>11. ASSUME NEW messages \in Seq(Nat), NEW many \in Nat, Looping!ProcessMessages(messages), posted' = many, UNCHANGED handled,
              NEW before \in [0 .. n -> Seq(Nat)], InTurn(before, n, many, inside),
              before[n] = messages, \A k \in 0 .. n - 1 : before[k] = rows[k]
       PROVE  InTurn(Looping!Rows, Len(stack) + 1, posted, inside)'
  <2>1. /\ stack' = Append(stack, Looping!Call(messages, "between")) /\ queue' = <<>>
        /\ inside' = IF Looping!Outside THEN inside ELSE inside \cup ToSet(messages)
    BY <1>11, SameToSet DEF Looping!ProcessMessages
  <2>2. /\ Len(stack') = n /\ stack'[n].left = messages /\ \A k \in 1 .. n - 1 : stack'[k] = stack[k]
    BY <1>1, <1>2, <2>1, Pushed DEF CallPlace
  <2>3. PICK m \in Nat \ {0} : m = n + 1 /\ m - 1 = n
    OBVIOUS
  <2>4. /\ rows2 \in [0 .. m -> Seq(Nat)] /\ rows2[0] = handled /\ rows2[m] = <<>>
        /\ \A k \in 1 .. n : rows2[k] = stack'[k].left
    BY <1>7, <1>11, <2>1, <2>2, <2>3
  <2>5. \A k \in 0 .. n : rows2[k] = before[k]
    <3> TAKE k \in 0 .. n
    <3>1. CASE k = 0
      <4>1. 0 \in 0 .. n - 1
        OBVIOUS
      <4>2. QED
        BY <1>4, <1>11, <2>4, <3>1, <4>1
    <3>2. CASE k = n
      <4>1. n \in 1 .. n
        OBVIOUS
      <4>2. QED
        BY <1>11, <2>2, <2>4, <3>2, <4>1, Zenon
    <3>3. CASE k \in 1 .. n - 1
      <4>1. k \in 1 .. n /\ k \in 0 .. n - 1
        BY <3>3
      <4>2. QED
        BY <1>4, <1>11, <2>2, <2>4, <3>3, <4>1, Zenon
    <3>4. QED
      BY <1>8, <3>1, <3>2, <3>3
  <2>6. inside \subseteq inside' /\ (n >= 2 => ToSet(before[n]) \subseteq inside')
    <3>1. n >= 2 => ~Looping!Outside
      BY <1>1, <1>2 DEF Looping!Outside
    <3>2. QED
      BY <1>11, <2>1, <3>1
  <2>7. InTurn(rows2, n + 1, many, inside')
    BY <1>11, <2>3, <2>4, <2>5, <2>6, RowsTaken
  <2>8. QED
    BY <1>7, <1>11, <2>2, <2>3, <2>7
<1>12. ASSUME Looping!ProcessMessages(queue), UNCHANGED <<handled, posted>>
       PROVE  InTurn(Looping!Rows, Len(stack) + 1, posted, inside)'
  <2>1. \A k \in 0 .. n - 1 : rows[k] = rows[k]
    OBVIOUS
  <2>2. QED
    BY <1>1, <1>3, <1>4, <1>5, <1>11, <1>12, <2>1
<1>13. CASE Looping!PostToItself
  <2>1. Looping!ProcessMessages(Append(queue, posted + 1)) /\ posted' = posted + 1 /\ UNCHANGED handled
    BY <1>13 DEF Looping!PostToItself
  <2>2. posted + 1 \in Nat /\ Append(queue, posted + 1) \in Seq(Nat)
    BY <1>1
  <2>3. PICK before \in [0 .. n -> Seq(Nat)] : before = [rows EXCEPT ![n] = Append(queue, posted + 1)]
    BY <1>3, <2>2
  <2>4. before[n] = Append(rows[n], posted + 1) /\ \A k \in 0 .. n - 1 : before[k] = rows[k]
    BY <1>4, <2>3
  <2>5. InTurn(before, n, posted + 1, inside)
    BY <1>1, <1>5, <2>4, RowAdded
  <2>6. QED
    BY <1>4, <1>11, <2>1, <2>2, <2>4, <2>5
<1>14. CASE MovesTop
  <2>1. Len(stack') = Len(stack) /\ (\A k \in 1 .. n - 1 : stack'[k].left = stack[k].left)
        /\ UNCHANGED <<queue, handled, posted, inside>>
    BY <1>2, <1>14, MovesTopFacts
  <2>2. QED
    BY <1>9, <2>1
<1>15. CASE Looping!ProcessMessage
  <2>1. /\ Len(stack') = n - 1 /\ n - 1 \in Nat \ {0}
        /\ \A k \in 1 .. n - 2 : stack'[k] = stack[k]
        /\ stack[n - 1].left # <<>> /\ stack'[n - 1].left = Tail(stack[n - 1].left)
        /\ handled' = Append(handled, Head(stack[n - 1].left)) /\ UNCHANGED <<queue, posted, inside>>
    <3>1. n - 2 = Len(stack) - 1
      BY <1>1, <1>2
    <3>2. QED
      BY <1>2, <1>15, <3>1, ProcessMessageFacts
  <2>2. n >= 2 /\ n - 1 \in 1 .. n - 1 /\ \A k \in 1 .. n : k # n - 1 => k = n \/ (k \in 1 .. n - 2 /\ k \in 1 .. n - 1)
    BY <2>1
  <2>3. /\ rows2 \in [0 .. n -> Seq(Nat)] /\ rows2[0] = handled' /\ rows2[n] = queue
        /\ \A k \in 1 .. n - 1 : rows2[k] = stack'[k].left
    BY <1>2, <1>7, <2>1
  <2>4. \A k \in 1 .. n : k # n - 1 => rows2[k] = rows[k]
    BY <1>4, <2>1, <2>2, <2>3
  <2>5. /\ rows[n - 1] # <<>> /\ rows2[n - 1] = Tail(rows[n - 1]) /\ rows2[0] = Append(rows[0], Head(rows[n - 1]))
    BY <1>4, <2>1, <2>2, <2>3
  <2>6. InTurn(rows2, n, posted, inside)
    BY <1>1, <1>5, <2>2, <2>3, <2>4, <2>5, RowHandled
  <2>7. QED
    BY <1>2, <1>7, <2>1, <2>6
<1>16. CASE Looping!CallReturns
  <2>1. stack # <<>> /\ Looping!Top.left = <<>> /\ stack' = Looping!Front(stack) /\ UNCHANGED <<queue, handled, posted, inside>>
    BY <1>16 DEF Looping!CallReturns, Looping!At
  <2>2. PICK m \in Nat \ {0} : m = n - 1 /\ n = m + 1 /\ m = Len(stack)
    <3>1. n - 1 \in Nat \ {0}
      BY <1>1, <1>2, <2>1, TopFacts
    <3>2. n = n - 1 + 1
      OBVIOUS
    <3>3. QED
      BY <1>2, <3>1, <3>2
  <2>3. stack[m].left = <<>> /\ Len(stack') = m - 1 /\ \A k \in 1 .. m - 1 : stack'[k] = stack[k]
    BY <1>1, <2>1, <2>2, TopFacts DEF Looping!Top
  <2>4. /\ rows2 \in [0 .. m -> Seq(Nat)] /\ rows2[0] = handled /\ rows2[m] = queue
        /\ \A k \in 1 .. m - 1 : rows2[k] = stack'[k].left
    <3>1. m = Len(stack') + 1
      BY <2>3
    <3>2. QED
      BY <1>7, <2>1, <3>1
  <2>5. \A k \in 0 .. m - 1 : rows2[k] = rows[k]
    <3>1. \A k \in 0 .. m - 1 : k = 0 \/ (k \in 1 .. m - 1 /\ k \in 1 .. n - 1)
      BY <2>2
    <3>2. QED
      BY <1>4, <2>3, <2>4, <3>1
  <2>6. rows[m] = <<>> /\ rows2[m] = rows[m + 1]
    <3>1. m \in 1 .. n - 1
      BY <2>2
    <3>2. QED
      BY <1>4, <2>2, <2>3, <2>4, <3>1
  <2>7. rows \in [0 .. m + 1 -> Seq(Nat)] /\ InTurn(rows, m + 1, posted, inside)
    BY <1>5, <2>2
  <2>8. InTurn(rows2, m, posted, inside)
    BY <1>1, <2>4, <2>5, <2>6, <2>7, RowsClosed
  <2>9. m = Len(stack') + 1
    BY <2>3
  <2>10. QED
    BY <1>7, <2>1, <2>8, <2>9
<1>17. CASE Looping!TakeEvent
  <2>1. \/ Looping!ProcessMessages(queue) /\ UNCHANGED <<handled, posted>>
        \/ UNCHANGED <<queue, stack, inside, handled, posted>>
    BY <1>17 DEF Looping!TakeEvent
  <2>2. QED
    BY <1>9, <1>12, <2>1
<1>18. CASE Looping!SlotTimerEventLoop
  <2>1. stack' = Append(stack, Looping!Call(<<>>, "handling")) /\ UNCHANGED <<queue, handled, posted, inside>>
    BY <1>18 DEF Looping!SlotTimerEventLoop
  <2>2. /\ Len(stack') = n /\ stack'[n].left = <<>> /\ \A k \in 1 .. n - 1 : stack'[k] = stack[k]
    <3>1. <<>> \in Seq(Nat)
      OBVIOUS
    <3>2. QED
      BY <1>1, <1>2, <2>1, <3>1, Pushed DEF CallPlace
  <2>3. PICK m \in Nat \ {0} : m = n + 1 /\ m - 1 = n
    OBVIOUS
  <2>4. /\ rows2 \in [0 .. m -> Seq(Nat)] /\ rows2[0] = handled /\ rows2[m] = queue
        /\ \A k \in 1 .. n : rows2[k] = stack'[k].left
    BY <1>7, <2>1, <2>2, <2>3
  <2>5. \A k \in 0 .. n - 1 : rows2[k] = rows[k]
    <3>1. \A k \in 0 .. n - 1 : k = 0 \/ (k \in 1 .. n - 1 /\ k \in 1 .. n)
      OBVIOUS
    <3>2. QED
      BY <1>4, <2>2, <2>4, <3>1
  <2>6. rows2[n] = <<>> /\ rows2[n + 1] = rows[n]
    <3>1. n \in 1 .. n
      OBVIOUS
    <3>2. QED
      BY <1>4, <2>2, <2>3, <2>4, <3>1
  <2>7. InTurn(rows2, n + 1, posted, inside)
    BY <1>1, <1>5, <2>3, <2>4, <2>5, <2>6, RowsOpened
  <2>8. QED
    BY <1>7, <2>1, <2>2, <2>3, <2>7
<1>19. CASE Looping!ExecReturns
  BY <1>12, <1>19 DEF Looping!ExecReturns
<1>20. CASE UNCHANGED <<stack, queue, handled, posted, inside>>
  BY <1>9, <1>20
<1>21. CASE \/ Looping!SignalEventTerminate \/ Looping!TerminateItself \/ Looping!InitializeThread \/ Looping!Exec \/ Looping!FinishThread \/ UNCHANGED eventVars
            \/ \E message \in posting : Looping!SignalEventWakeUp(message)
  BY <1>20, <1>21 DEF Looping!SignalEventTerminate, Looping!TerminateItself, Looping!InitializeThread, Looping!Exec, Looping!FinishThread, eventVars, Looping!SignalEventWakeUp
<1>22. QED
  BY <1>10, <1>13, <1>14, <1>15, <1>16, <1>17, <1>18, <1>19, <1>21 DEF Looping!Next, MovesTop

(* Every step keeps the invariant.                                         *)
LEMMA EventsInvKept ==
  ASSUME Looping!EventsInv, Looping!Next \/ UNCHANGED eventVars
  PROVE  Looping!EventsInv'
<1>1. Looping!EventsTypeOK'
  BY EventsTypeKept DEF Looping!EventsInv
<1>2. Looping!WokenFor' /\ Looping!EndsOnceAsked'
  BY WokenKept, EndsKept DEF Looping!EventsInv
<1>3. InTurn(Looping!Rows, Len(stack) + 1, posted, inside)'
  BY <1>1, TurnKept, SameTurn DEF Looping!EventsInv
<1>4. QED
  BY <1>1, <1>2, <1>3, SameTurn DEF Looping!EventsInv

(* It holds of a thread that was not started.                              *)
LEMMA EventsInvStarts == ASSUME Looping!Init PROVE Looping!EventsInv
<1>1. Looping!EventsTypeOK
  <2>1. <<>> \in Seq({"WakeUp", "Terminate"}) /\ <<>> \in Seq(CallOfThread) /\ <<>> \in Seq(Nat)
    BY EmptySequence
  <2>2. QED
    BY <2>1 DEF Looping!Init, Looping!EventsTypeOK, CallOfThread, CallPlace
<1>2. Looping!WokenFor /\ Looping!EndsOnceAsked
  BY DEF Looping!Init, Looping!WokenFor, Looping!EndsOnceAsked, Looping!ToSet
<1>3. \A k \in DOMAIN Looping!Rows : Looping!Rows[k] = <<>>
  BY DEF Looping!Init, Looping!Rows
<1>4. DOMAIN Looping!Rows = {0, 1} /\ Len(stack) + 1 = 1 /\ posted = 0
  BY DEF Looping!Init, Looping!Rows
<1>5. InTurn(Looping!Rows, 1, 0, inside)
  <2>1. 0 .. 1 = {0, 1} /\ 1 .. 1 = {1} /\ 1 .. 0 = {} /\ 2 .. 1 - 1 = {}
    OBVIOUS
  <2>2. DOMAIN Looping!Rows[0] = {} /\ DOMAIN Looping!Rows[1] = {}
    BY <1>3, <1>4
  <2>3. QED
    BY <2>1, <2>2 DEF InTurn
<1>6. QED
  BY <1>1, <1>2, <1>4, <1>5, SameTurn DEF Looping!EventsInv

(* The invariant has what a thread with an event loop promises.            *)
LEMMA EventsInvDelivers == ASSUME Looping!EventsInv PROVE Looping!EventsDelivered
<1>1. PICK n \in Nat \ {0} : n = Len(stack) + 1
  <2>1. Len(stack) \in Nat
    BY DEF Looping!EventsInv, Looping!EventsTypeOK
  <2>2. QED
    BY <2>1
<1>2. Looping!Rows \in [0 .. n -> Seq(Nat)] /\ Looping!Rows[0] = handled /\ InTurn(Looping!Rows, n, posted, inside)
  BY <1>1, StateRows, SameTurn DEF Looping!EventsInv
<1>3. DOMAIN Looping!Rows = 0 .. n /\ 0 \in 0 .. n
  BY <1>2
<1>4. Looping!Waiting => Looping!ToSet(queue) \subseteq early \cup posting /\ stops # "asked"
  BY DEF Looping!EventsInv, Looping!WokenFor, Looping!EndsOnceAsked, Looping!Waiting, Looping!ToSet
<1>5. UNION {Looping!ToSet(Looping!Rows[k]) : k \in DOMAIN Looping!Rows} = 1 .. posted
  <2>1. \A k \in 0 .. n : \A x \in ToSet(Looping!Rows[k]) : x \in 1 .. posted
    <3>1. \A k \in 0 .. n : \A i \in DOMAIN Looping!Rows[k] : Looping!Rows[k][i] \in 1 .. posted
      BY <1>2, Zenon DEF InTurn
    <3>2. QED
      BY <3>1, Zenon DEF ToSet
  <2>2. \A x \in 1 .. posted : \E k \in 0 .. n : x \in ToSet(Looping!Rows[k])
    BY <1>2, Zenon DEF InTurn
  <2>3. QED
    BY <1>3, <2>1, <2>2, SameToSet
<1>6. \A k \in 0 .. n : \A i \in DOMAIN Looping!Rows[k] : Looping!Rows[k][i] \in 1 .. posted
  BY <1>2, Zenon DEF InTurn
<1>7. \A k \in 0 .. n : \A i \in DOMAIN Looping!Rows[k] : i \in Nat
  BY <1>2
<1>8. \A x, y \in 1 .. posted : x < y => x # y
  OBVIOUS
<1>9. \A k, l \in 0 .. n : \A i \in DOMAIN Looping!Rows[k], j \in DOMAIN Looping!Rows[l] : Looping!Rows[k][i] = Looping!Rows[l][j] => k = l /\ i = j
  <2>1. ASSUME NEW k \in 0 .. n, NEW l \in 0 .. n, NEW i \in DOMAIN Looping!Rows[k], NEW j \in DOMAIN Looping!Rows[l],
               k < l \/ (k = l /\ i < j)
        PROVE  Looping!Rows[k][i] # Looping!Rows[l][j]
    <3>1. CASE k = 0 /\ l = 0
      <4>1. i < j
        BY <2>1, <3>1
      <4>2. QED
        BY <1>2, <3>1, <4>1, Zenon DEF InTurn
    <3>2. CASE k = 0 /\ l # 0
      <4>1. l \in 1 .. n
        BY <3>2
      <4>2. QED
        BY <1>2, <3>2, <4>1, Zenon DEF InTurn
    <3>3. CASE k # 0
      <4>1. k \in 1 .. n /\ l \in 1 .. n
        BY <2>1, <3>3
      <4>2. Looping!Rows[k][i] < Looping!Rows[l][j]
        BY <1>2, <2>1, <4>1, Zenon DEF InTurn
      <4>3. QED
        BY <1>6, <1>8, <4>2, Zenon
    <3>4. QED
      BY <3>1, <3>2, <3>3
  <2>2. ASSUME NEW k \in 0 .. n, NEW l \in 0 .. n, NEW i \in DOMAIN Looping!Rows[k], NEW j \in DOMAIN Looping!Rows[l],
               Looping!Rows[k][i] = Looping!Rows[l][j]
        PROVE  k = l /\ i = j
    <3>1. ~(k < l \/ (k = l /\ i < j))
      BY <2>1, <2>2, Zenon
    <3>2. ~(l < k \/ (l = k /\ j < i))
      BY <2>1, <2>2, Zenon
    <3>3. i \in Nat /\ j \in Nat
      BY <1>7, Zenon
    <3>4. QED
      BY <3>1, <3>2, <3>3
  <2>3. QED
    BY <2>2, Zenon
<1>10. \A i, j \in DOMAIN handled : i < j /\ handled[i] > handled[j] => handled[i] \in inside
  BY <1>2, Zenon DEF InTurn
<1>11. eventPc \in {"last", "finished"} => stops = "asked"
  BY DEF Looping!EventsInv, Looping!EndsOnceAsked
<1>12. QED
  BY <1>3, <1>4, <1>5, <1>9, <1>10, <1>11, Zenon DEF Looping!EventsDelivered

(* A thread with an event loop that waits has been asked for nothing it    *)
(* has not done, and no connection waits unseen.                           *)
THEOREM EventsDeliveredHolds == MCSpec => []EventsDelivered
<1>1. MCInit => Looping!EventsInv /\ Listening!ListenInv
  BY EventsInvStarts, Zenon DEF MCInit, Listening!Init, Listening!ListenInv
<1>2. Looping!EventsInv /\ Listening!ListenInv
      /\ [MCNext]_<<part, timerVars, streamVars, framesVars, maskVars, namesVars, contractVars, crcVars, openingVars, listVars, eventVars,
                    exchangeVars, udpVars, factoryVars, windowsListenVars, trafficVars, rowVars>>
      => (Looping!EventsInv /\ Listening!ListenInv)'
  BY EventsInvKept, ListenKept, Zenon DEF MCNext
<1>3. Looping!EventsInv => Looping!EventsDelivered
  BY EventsInvDelivers
<1>4. Listening!ListenInv => Listening!NobodyWaitsUnseen
  BY DEF Listening!ListenInv, Listening!NobodyWaitsUnseen
<1>5. Looping!EventsInv /\ Listening!ListenInv => EventsDelivered
  BY <1>3, <1>4 DEF EventsDelivered
<1>6. QED
  BY <1>1, <1>2, <1>5, PTL DEF MCSpec

=============================================================================
