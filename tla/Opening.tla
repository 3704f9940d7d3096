-------------------------------- MODULE Opening --------------------------------
(***************************************************************************)
(* Opening a device: the functions of Utils/SocketUtils and                *)
(* Utils/SerialUtils that make a descriptor by several calls of the        *)
(* system, each of which may fail, and the open() or initialize() that     *)
(* calls them and decides by an error code what to keep.  Linux and        *)
(* Windows.  A step is a call of the system, or what the caller does.      *)
(***************************************************************************)
EXTENDS Integers, FiniteSets, Sequences

VARIABLES
  system,    \* "Linux" or "Windows"
  function,  \* the one that runs
  calls,     \* of the system that it made
  held,      \* what the system gave and has not got back
  result,    \* "none" yet, a "descriptor", or "INVALID"
  errorCode, \* "none" is 0; "unset" when the function never assigned it
  descriptor,\* the handler's or poller's
  reported,  \* an error was
  ended,     \* the caller has ended
  isSocketsInitialized \* _isSocketsInitialized when the function was called

openingVars == <<system, function, calls, held, result, errorCode, descriptor, reported, ended, isSocketsInitialized>>

Linux == system = "Linux"

(* A call of the system, what it gives when it succeeds and what the       *)
(* function gives back when it fails.                                      *)
Call(name, gives, undoes) == [name |-> name, gives |-> gives, undoes |-> undoes]
Gives(name, resource) == Call(name, {resource}, {})
ClosingSocket(name) == Call(name, {}, {"socket"})

(* On Linux there is nothing to start.                                     *)
InitializeSockets == IF Linux THEN <<>> ELSE <<Call("WSAStartup", {}, {})>>

CheckSocketsInitialization == IF isSocketsInitialized THEN <<>> ELSE InitializeSockets

CreateTcpServerSocketLinux ==
  <<Gives("socket", "socket"), ClosingSocket("setsockopt"), ClosingSocket("fcntl"),
    ClosingSocket("bind"), ClosingSocket("listen")>>

CreateTcpServerSocketWindows ==
  CheckSocketsInitialization \o
  <<Gives("WSASocket", "socket"), ClosingSocket("ioctlsocket"), ClosingSocket("bind"), ClosingSocket("listen")>>

(* Mutant of OpenTcpClientSocketLinux: the addresses stay when an option   *)
(* of the socket cannot be set.                                            *)
OpenTcpClientSocketLeaking ==
  <<Gives("getaddrinfo", "addresses"), Call("socket", {"socket"}, {"addresses"}),
    ClosingSocket("setsockopt"), Call("connect", {}, {"socket", "addresses"})>>

OpenTcpClientSocketLinux ==
  LET Both(name) == Call(name, {}, {"socket", "addresses"})
  IN <<Gives("getaddrinfo", "addresses"), Call("socket", {"socket"}, {"addresses"}), Both("fcntl"),
       Both("SO_SNDTIMEO"), Both("SO_RCVTIMEO"), Both("TCP_SYNCNT"), Both("connect")>>

OpenTcpClientSocketWindows ==
  CheckSocketsInitialization \o
  <<Gives("WSASocket", "socket"), ClosingSocket("ioctlsocket"), ClosingSocket("connect")>>

CreateUdpSocket ==
  CheckSocketsInitialization \o <<Gives("socket", "socket"), ClosingSocket("bind")>>

OpenSerialLinux == <<Gives("open", "socket")>>

OpenSerialWindows ==
  <<Gives("CreateFile", "socket"), ClosingSocket("SetupComm"), ClosingSocket("GetCommState"),
    ClosingSocket("SetCommState"), ClosingSocket("GetCommTimeouts"), ClosingSocket("SetCommTimeouts")>>

Calls ==
  CASE function = "createTcpServerSocket" -> IF Linux THEN CreateTcpServerSocketLinux ELSE CreateTcpServerSocketWindows
    [] function = "openTcpClientSocket"   -> IF Linux THEN OpenTcpClientSocketLinux ELSE OpenTcpClientSocketWindows
    [] function = "createUdpSocket"       -> CreateUdpSocket
    [] function = "openSerial"            -> IF Linux THEN OpenSerialLinux ELSE OpenSerialWindows

Init ==
  /\ system \in {"Linux", "Windows"} /\ isSocketsInitialized \in BOOLEAN
  /\ function \in {"createTcpServerSocket", "openTcpClientSocket", "createUdpSocket", "openSerial"}
  /\ calls = 0 /\ held = {} /\ result = "none" /\ errorCode = "unset"
  /\ descriptor = "INVALID" /\ reported = FALSE /\ ended = FALSE

NextCall == Calls[calls + 1]

(* The socket is returned; only a connection under way needs an error code.*)
(* On Linux the client's function assigns none otherwise, and leaves a     *)
(* connection made at once its list of addresses.                          *)
CallSucceeds ==
  /\ result = "none" /\ NextCall.name # "connect"
  /\ calls' = calls + 1
  /\ held' = held \cup NextCall.gives
  /\ result' = IF calls' = Len(Calls) THEN "descriptor" ELSE "none"
  /\ errorCode' = IF result' = "descriptor" THEN "none" ELSE errorCode
  /\ UNCHANGED <<system, function, descriptor, reported, ended, isSocketsInitialized>>

ConnectedAtOnce ==
  /\ result = "none" /\ NextCall.name = "connect"
  /\ calls' = calls + 1 /\ result' = "descriptor"
  /\ errorCode' = IF Linux THEN "unset" ELSE "none"
  /\ UNCHANGED <<system, function, held, descriptor, reported, ended, isSocketsInitialized>>

Connecting ==
  /\ result = "none" /\ NextCall.name = "connect"
  /\ calls' = calls + 1 /\ result' = "descriptor" /\ errorCode' = "inProgress"
  /\ held' = held \ {"addresses"}
  /\ UNCHANGED <<system, function, descriptor, reported, ended, isSocketsInitialized>>

(* getaddrinfo() need not set errno.  Without WSAStartup() only            *)
(* createUdpSocket() has assigned the error code.                          *)
CallFails(code) ==
  /\ result = "none"
  /\ code \in CASE NextCall.name = "getaddrinfo" -> {"none", "error"}
                [] NextCall.name = "WSAStartup" -> {IF function = "createUdpSocket" THEN "none" ELSE "unset"}
                [] OTHER -> {"error"}
  /\ errorCode' = code /\ result' = "INVALID"
  /\ held' = held \ NextCall.undoes
  /\ UNCHANGED <<system, function, calls, descriptor, reported, ended, isSocketsInitialized>>

(* What an error code that was never assigned counts as is left open.      *)
Failed == {code \in {TRUE, FALSE} : errorCode # "unset" => code = (errorCode = "error")}

(* HandlerTcpSocket::open() and HandlerUdpSocket::open().                  *)
OpenSocket(failed) ==
  /\ function \in {"openTcpClientSocket", "createUdpSocket"}
  /\ failed \in Failed
  /\ descriptor' = IF failed THEN descriptor ELSE result
  /\ reported' = failed

(* HandlerSerialPort::open() *)
OpenSerialPort ==
  /\ function = "openSerial"
  /\ descriptor' = result
  /\ reported' = (result = "INVALID")

(* PollerListenSocket::initialize(); on Windows the event may not be tied  *)
(* to the socket, which is kept.                                           *)
Initialize(failed, tied) ==
  /\ function = "createTcpServerSocket"
  /\ failed \in Failed
  /\ ~tied => ~Linux /\ ~failed
  /\ descriptor' = result
  /\ reported' = (failed \/ ~tied)

Take ==
  /\ result # "none" /\ ~ended
  /\ \/ \E failed \in BOOLEAN : OpenSocket(failed)
     \/ OpenSerialPort
     \/ \E failed, tied \in BOOLEAN : Initialize(failed, tied)
  /\ ended' = TRUE
  /\ UNCHANGED <<system, function, calls, held, result, errorCode, isSocketsInitialized>>

Next ==
  \/ CallSucceeds \/ ConnectedAtOnce \/ Connecting
  \/ \E code \in {"none", "error", "unset"} : CallFails(code)
  \/ Take

Spec == Init /\ [][Next]_openingVars

---------------------------------------------------------------------------

(* Whichever call of the system fails, the handler ends with a descriptor  *)
(* exactly when one is open, and nothing else is kept: no descriptor is    *)
(* lost, and none is used that was closed.  This leaves out a connection   *)
(* made at once on Linux.                                                  *)
HeldIfOpen ==
  ended /\ ~(result = "descriptor" /\ errorCode = "unset") =>
    /\ "socket" \in held <=> descriptor = "descriptor"
    /\ "addresses" \notin held

(* The inductive invariant behind it: until a call fails, what the calls   *)
(* so far gave is held.                                                    *)
Given(n) == UNION {Calls[i].gives : i \in 1 .. n}

OpeningInv ==
  /\ system \in {"Linux", "Windows"} /\ isSocketsInitialized \in BOOLEAN
  /\ function \in {"createTcpServerSocket", "openTcpClientSocket", "createUdpSocket", "openSerial"}
  /\ result \in {"none", "descriptor", "INVALID"} /\ calls \in 0 .. Len(Calls)
  /\ ~ended => descriptor = "INVALID"
  /\ result = "none" => calls < Len(Calls) /\ held = Given(calls) /\ ~ended
  /\ result = "INVALID" => held = {} /\ descriptor = "INVALID"
  /\ result = "descriptor" /\ errorCode # "unset" =>
       /\ held = {"socket"} /\ errorCode # "error"
       /\ ended => descriptor = "descriptor"
=============================================================================
