----------------------------- MODULE PollingWindows -----------------------------
(***************************************************************************)
(* Threads/PollingsWindows with the PollerThread of Windows: events that   *)
(* other threads set, one of them taken in every round of poll(), reset,   *)
(* and given to the pollers that have it.                                  *)
(*                                                                         *)
(* Whoever sets an event has something to be seen to: it has asked.        *)
(***************************************************************************)
EXTENDS Integers, FiniteSets, Sequences, SequencesExt

CONSTANTS
  Pollers,
  EventsOf,        \* events() of each poller, in their order
  MaximumWait,     \* a number, MAXIMUM_WAIT_OBJECTS of WaitForMultipleObjects()
  MaxRegistrations, \* bound
  MaxAsks          \* bound

VARIABLES
  list,      \* _pollers
  set,       \* events that are set
  asked,     \* events whose sender has not been seen to
  taken,     \* the event of this round, or none
  next,      \* the poller the round is at
  reset,     \* that poller's process() has reset the event
  failed,    \* WAIT_FAILED was returned
  registrations, asks

windowsVars == <<list, set, asked, taken, next, reset, failed, registrations, asks>>

NoEvent == "none"
Events == UNION {ToSet(EventsOf[p]) : p \in Pollers}
HasEvent(p, e) == Contains(EventsOf[p], e)

Init ==
  /\ list = <<>> /\ set = {} /\ asked = {} /\ taken = NoEvent /\ next = 0
  /\ reset = FALSE /\ failed = FALSE /\ registrations = 0 /\ asks = 0

(* Position in _pollers from 0, as QList counts, -1 for none.              *)
IndexOf(p) == SelectInSeq(list, LAMBDA q : q = p) - 1

(* The poller of the thread, which is the first, is registered once.       *)
RegisterPoller(p) ==
  /\ taken = NoEvent /\ registrations < MaxRegistrations /\ IndexOf(p) # 0
  /\ list' = IF IndexOf(p) < 1 THEN Append(list, p) ELSE list
  /\ registrations' = registrations + 1
  /\ UNCHANGED <<set, asked, taken, next, reset, failed, asks>>

UnregisterPoller(p) ==
  /\ taken = NoEvent /\ Contains(list, p)
  /\ list' = SelectSeq(list, LAMBDA q : q # p)
  /\ UNCHANGED <<set, asked, taken, next, reset, failed, registrations, asks>>

(* SetEvent(), from another thread or from the system.                     *)
SetEvent(e) ==
  /\ asks < MaxAsks
  /\ set' = set \cup {e} /\ asked' = asked \cup {e} /\ asks' = asks + 1
  /\ UNCHANGED <<list, taken, next, reset, failed, registrations>>

PollArray == FlattenSeq([i \in 1 .. Len(list) |-> EventsOf[list[i]]])

PollFails ==
  /\ taken = NoEvent /\ (Len(PollArray) = 0 \/ Len(PollArray) > MaximumWait)
  /\ failed' = TRUE
  /\ UNCHANGED <<list, set, asked, taken, next, reset, registrations, asks>>

(* WaitForMultipleObjects() returns the first event of the array that is   *)
(* set; poll() resets it.                                                  *)
Poll ==
  LET first == SelectInSeq(PollArray, LAMBDA e : e \in set)
  IN  /\ taken = NoEvent /\ Len(PollArray) \in 1 .. MaximumWait /\ first > 0
      /\ taken' = PollArray[first] /\ next' = 1 /\ reset' = FALSE /\ failed' = FALSE
      /\ set' = set \ {PollArray[first]}
      /\ UNCHANGED <<list, asked, registrations, asks>>

(* PollerThread::process() and the handlers' reset the event themselves.   *)
ResetAgain ==
  /\ taken # NoEvent /\ next <= Len(list) /\ ~reset /\ HasEvent(list[next], taken)
  /\ reset' = TRUE
  /\ set' = set \ {taken}
  /\ UNCHANGED <<list, asked, taken, next, failed, registrations, asks>>

(* The slots run: messages are taken from the queue, the device is read.   *)
Handle ==
  /\ taken # NoEvent /\ next <= Len(list) /\ reset /\ HasEvent(list[next], taken)
  /\ asked' = asked \ {taken}
  /\ next' = next + 1 /\ reset' = FALSE
  /\ UNCHANGED <<list, set, taken, failed, registrations, asks>>

PassOver ==
  /\ taken # NoEvent /\ next <= Len(list) /\ ~HasEvent(list[next], taken)
  /\ next' = next + 1
  /\ UNCHANGED <<list, set, asked, taken, reset, failed, registrations, asks>>

(* Mutant of RoundEnds: the event is reset once more.                      *)
RoundEndsReset ==
  /\ taken # NoEvent /\ next > Len(list)
  /\ set' = set \ {taken}
  /\ taken' = NoEvent /\ next' = 0
  /\ UNCHANGED <<list, asked, reset, failed, registrations, asks>>

RoundEnds ==
  /\ taken # NoEvent /\ next > Len(list)
  /\ taken' = NoEvent /\ next' = 0
  /\ UNCHANGED <<list, set, asked, reset, failed, registrations, asks>>

Round == Poll \/ PollFails \/ ResetAgain \/ Handle \/ PassOver \/ RoundEnds
Next == Round \/ (\E e \in Events : SetEvent(e)) \/ (\E p \in Pollers : RegisterPoller(p) \/ UnregisterPoller(p))

Spec == Init /\ [][Next]_windowsVars

(***************************************************************************)
(* Properties.                                                             *)
(***************************************************************************)

(* With a bounded number of signals every one is seen to, unless its       *)
(* poller is taken off the list.                                           *)
AllHandled == \A e \in Events : (e \in asked) ~> (e \notin asked \/ \A i \in DOMAIN list : ~HasEvent(list[i], e))
================================================================================
