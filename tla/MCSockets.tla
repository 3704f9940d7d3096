------------------------------- MODULE MCSockets -------------------------------
(***************************************************************************)
(* What waits for the system, each on its own: the class Polling of either *)
(* platform, on Windows a thread's own poller and two of devices, and the  *)
(* socket that listens.  The initial state chooses one of them.            *)
(***************************************************************************)
EXTENDS Polling, ListenSocket

CONSTANTS thread, device1, device2, MaximumWait, MaxRegistrations, MaxAsks

VARIABLES chosen, waitList, set, asked, taken, at, reset, failed, registrations, asks

Windows == INSTANCE PollingWindows WITH
  Pollers <- {thread, device1, device2},
  EventsOf <- [p \in {thread, device1, device2} |->
                 CASE p = thread -> <<"terminate", "childTerminated", "wakeUp">>
                   [] p = device1 -> <<"device1">>
                   [] p = device2 -> <<"device2">>],
  list <- waitList, next <- at

windowsVars == <<waitList, set, asked, taken, at, reset, failed, registrations, asks>>
vars == <<chosen, pollingVars, windowsVars, listenVars>>

Linux     == chosen = "linux"
OnWindows == chosen = "windows"
Listening == chosen = "listen"

MCInit ==
  /\ chosen \in {"linux", "windows", "listen"}
  /\ Init /\ Windows!Init /\ ListenInit

MCNext ==
  /\ UNCHANGED chosen
  /\ \/ Linux /\ Next /\ UNCHANGED <<windowsVars, listenVars>>
     \/ OnWindows /\ Windows!Next /\ UNCHANGED <<pollingVars, listenVars>>
     \/ Listening /\ ListenNext /\ UNCHANGED <<pollingVars, windowsVars>>

(* A thread that polls goes on with its round and begins another.          *)
PollingFairness ==
  /\ WF_pollingVars(Linux /\ Round)
  /\ WF_windowsVars(OnWindows /\ Windows!Round)

(* The thread that listens goes on, its timer runs out, children end, and  *)
(* of the bytes in its pipe each is read at some time.                     *)
ListenFairness ==
  /\ WF_listenVars(Listening /\ Thread) /\ WF_listenVars(Listening /\ ReopenTimeout)
  /\ \A c \in Clients : WF_listenVars(Listening /\ ChildEnds(c))
  /\ SF_listenVars(Listening /\ ReadSignal /\ terminated')
  /\ SF_listenVars(Listening /\ ReadSignal /\ "ChildTerminated" \notin signals')

MCSpec == MCInit /\ [][MCNext]_vars /\ PollingFairness /\ ListenFairness

(* On both platforms every event of a poller in the list is handled, by    *)
(* the poller that has it.                                                 *)
AllEventsHandled == EventsHandled /\ Windows!AllHandled
================================================================================
