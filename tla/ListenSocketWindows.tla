-------------------------- MODULE ListenSocketWindows --------------------------
(***************************************************************************)
(* Threads/ThreadListenSocket and PollerListenSocket on Windows: a socket  *)
(* that listens, the event the system sets for a connection, and one       *)
(* connection accepted for every event taken.                              *)
(***************************************************************************)
EXTENDS Integers, Sequences

CONSTANTS
  Visitors,    \* clients, each connects once
  MaxFailures  \* bound: calls of the system that fail

VARIABLES
  at,            \* where the thread is
  socket,        \* _descriptor: is it a socket that listens
  isInitialized, \* _isInitialized
  selected,      \* FD_ACCEPT is asked for
  event,         \* _event is set
  recording,     \* the system will set it for the next connection
  unknown,       \* a socket listens that nobody has the descriptor of
  waiting,       \* connections not accepted yet
  visitor,       \* each client
  start,         \* _nextStartListening has passed
  ending,        \* _isTerminated
  mishaps        \* bound counter

windowsListenVars ==
  <<at, socket, isInitialized, selected, event, recording, unknown, waiting, visitor, start, ending, mishaps>>

Init ==
  /\ at = "loop" /\ socket = FALSE /\ isInitialized = FALSE /\ selected = FALSE /\ event = FALSE
  /\ recording = FALSE /\ unknown = FALSE /\ waiting = <<>>
  /\ visitor = [c \in Visitors |-> "out"] /\ start = TRUE /\ ending = FALSE /\ mishaps = 0

Mishap == mishaps < MaxFailures /\ mishaps' = mishaps + 1

(* bind() fails while another socket has the port.  Whatever _descriptor   *)
(* was is overwritten.                                                     *)
CreateFails ==
  /\ \/ (socket \/ unknown) /\ UNCHANGED mishaps
     \/ Mishap
  /\ unknown' = (unknown \/ socket) /\ socket' = FALSE
  /\ start' = FALSE
  /\ UNCHANGED <<isInitialized, selected, event, recording>>

(* WSAEventSelect() fails: the socket stays.                               *)
SelectFails ==
  /\ ~socket /\ ~unknown /\ Mishap
  /\ socket' = TRUE /\ selected' = FALSE /\ event' = FALSE /\ recording' = FALSE
  /\ start' = FALSE
  /\ UNCHANGED <<isInitialized, unknown>>

Initialized ==
  /\ ~socket /\ ~unknown
  /\ socket' = TRUE /\ isInitialized' = TRUE /\ selected' = TRUE
  /\ event' = FALSE /\ recording' = TRUE
  /\ UNCHANGED <<unknown, start, mishaps>>

BeforeWait ==
  /\ at = "loop" /\ ~ending
  /\ at' = "wait"
  /\ IF isInitialized \/ ~start
     THEN UNCHANGED <<socket, isInitialized, selected, event, recording, unknown, start, mishaps>>
     ELSE CreateFails \/ SelectFails \/ Initialized
  /\ UNCHANGED <<waiting, visitor, ending>>

(* The timeout, or an event of the thread's own.                           *)
WaitOtherwise ==
  /\ at = "wait"
  /\ at' = "loop"
  /\ UNCHANGED <<socket, isInitialized, selected, event, recording, unknown, waiting, visitor, start, ending, mishaps>>

(* poll() resets the event, process() resets it again.                     *)
Wait ==
  /\ at = "wait" /\ isInitialized /\ event
  /\ at' = "process" /\ event' = FALSE
  /\ UNCHANGED <<socket, isInitialized, selected, recording, unknown, waiting, visitor, start, ending, mishaps>>

ResetEvent ==
  /\ at = "process"
  /\ at' = "accept" /\ event' = FALSE
  /\ UNCHANGED <<socket, isInitialized, selected, recording, unknown, waiting, visitor, start, ending, mishaps>>

(* External: WSAAccept() asks for the event again, at once if there is     *)
(* another connection, also when it fails itself.                          *)
Accepted(rest) ==
  /\ at = "accept" /\ at' = "loop"
  /\ waiting' = rest
  /\ event' = (event \/ rest # <<>>) /\ recording' = (rest = <<>>)
  /\ UNCHANGED <<socket, isInitialized, selected, unknown, start, ending>>

(* One connection; the application takes it, or it is closed.              *)
Process ==
  /\ waiting # <<>>
  /\ Accepted(Tail(waiting))
  /\ \E answer \in {"served", "refused"} : visitor' = [visitor EXCEPT ![Head(waiting)] = answer]
  /\ UNCHANGED mishaps

AcceptFails ==
  /\ IF waiting = <<>> THEN UNCHANGED mishaps ELSE Mishap
  /\ Accepted(waiting)
  /\ UNCHANGED visitor

(* finalize() in terminateChildThreads().                                  *)
EndLoop ==
  /\ at = "loop" /\ ending
  /\ at' = "ended" /\ isInitialized' = FALSE
  /\ socket' = FALSE
  /\ IF socket
     THEN /\ waiting' = <<>>
          /\ visitor' = [c \in Visitors |-> IF visitor[c] = "waiting" THEN "reset" ELSE visitor[c]]
          /\ selected' = FALSE /\ recording' = FALSE
     ELSE UNCHANGED <<waiting, visitor, selected, recording>>
  /\ UNCHANGED <<event, unknown, start, ending, mishaps>>

(* External: a client connects.                                            *)
Visit(c) ==
  /\ visitor[c] = "out" /\ (socket \/ unknown)
  /\ visitor' = [visitor EXCEPT ![c] = "waiting"]
  /\ waiting' = Append(waiting, c)
  /\ event' = (event \/ recording) /\ recording' = FALSE
  /\ UNCHANGED <<at, socket, isInitialized, selected, unknown, start, ending, mishaps>>

TimePasses ==
  /\ ~start /\ start' = TRUE
  /\ UNCHANGED <<at, socket, isInitialized, selected, event, recording, unknown, waiting, visitor, ending, mishaps>>

AskToEnd ==
  /\ ~ending /\ ending' = TRUE
  /\ UNCHANGED <<at, socket, isInitialized, selected, event, recording, unknown, waiting, visitor, start, mishaps>>

Next ==
  \/ BeforeWait \/ WaitOtherwise \/ Wait \/ ResetEvent \/ Process \/ AcceptFails \/ EndLoop
  \/ TimePasses \/ AskToEnd
  \/ \E c \in Visitors : Visit(c)

Spec == Init /\ [][Next]_windowsListenVars

---------------------------------------------------------------------------

(* No connection waits at a thread that listens and will not be woken for  *)
(* it, although events are fewer than connections; and when the thread has *)
(* ended no socket of it listens, and nobody waits.  This leaves out what  *)
(* follows a WSAEventSelect() that failed and was tried again.             *)
NobodyWaitsUnseen ==
  /\ at \in {"loop", "wait"} /\ isInitialized /\ waiting # <<>> => event
  /\ isInitialized => socket /\ selected
  /\ at = "ended" /\ ~unknown => waiting = <<>> /\ ~socket

(* The inductive invariant behind it: a thread that waits has its event    *)
(* set, or nobody is waiting and the next one will set it.                 *)
ListenInv ==
  /\ isInitialized => socket /\ selected
  /\ at \in {"loop", "wait"} /\ isInitialized => event \/ (recording /\ waiting = <<>>)
  /\ ~socket /\ ~unknown => waiting = <<>>
  /\ at = "ended" => ~socket
=============================================================================
