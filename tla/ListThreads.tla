------------------------------ MODULE ListThreads ------------------------------
(***************************************************************************)
(* Threads/ListThreads, the registry of running threads and what they say  *)
(* of themselves (ThreadBase::accumulateStatistic), and the snapshots that *)
(* ThreadMainDaemon takes of it for a file.                                *)
(*                                                                         *)
(* The key of a statistic is a pointer: an object deleted and another      *)
(* created may have the same address.  A step is a call of the registry,   *)
(* the two halves of instance(), or the two of snapshotThreads().          *)
(***************************************************************************)
EXTENDS Integers, FiniteSets, SequencesExt

CONSTANTS
  Objects,  \* addresses of thread objects
  Daemon,   \* that of the ThreadMainDaemon
  Interval, \* TIMEOUT_ACCUMULATE_STATISTIC and TIMEOUT_BUILD_STATISTIC, in ticks
  MaxTime,  \* bound on the clock
  MaxRuns   \* bound on the objects created at an address

VARIABLES
  now,      \* the tick count
  lists,    \* the ListThreads objects made: [threads, statistic]
  instance, \* the index of _instance, 0 for none
  thread,   \* of each address, the thread's place, tick counts and, as history, what it said of itself
  due,      \* _nextBuildStatisticTickCount
  rightNow, \* a snapshot that snapshotThreads(true) asks for
  taken,    \* statisticList, in a sequence
  statisticFile, \* the last statistic posted to the log thread
  order,    \* history: the threads registered, in their order
  expected  \* history: what they had said when the last snapshot was taken

listVars == <<now, lists, instance, thread, due, rightNow, taken, statisticFile, order, expected>>

Thread(run) == [pc |-> "new", run |-> run, next |-> 0, terminated |-> FALSE, said |-> <<>>]

Init ==
  /\ now = 1 /\ lists = <<>> /\ instance = 0
  /\ thread = [t \in Objects |-> Thread(1)]
  /\ due = 1 + Interval /\ rightNow = FALSE
  /\ taken = <<>> /\ statisticFile = <<>>
  /\ order = <<>> /\ expected = <<>>

Running == {t \in Objects : thread[t].pc \in {"running", "finishing"}}
Goto(t, pc) == thread' = [thread EXCEPT ![t].pc = pc]

(* instance() is not guarded: two threads may both find none. *)
LookForInstance(t) ==
  /\ thread[t].pc = "new"
  /\ Goto(t, IF instance = 0 THEN "creating" ELSE "registering")
  /\ UNCHANGED <<now, lists, instance, due, rightNow, taken, statisticFile, order, expected>>

CreateInstance(t) ==
  /\ thread[t].pc = "creating"
  /\ lists' = Append(lists, [threads |-> <<>>, statistic |-> <<>>])
  /\ instance' = Len(lists')
  /\ Goto(t, "registering")
  /\ UNCHANGED <<now, due, rightNow, taken, statisticFile, order, expected>>

(* The daemon takes a snapshot when it starts. *)
RegisterThread(t) ==
  /\ thread[t].pc = "registering"
  /\ lists' = [lists EXCEPT ![instance].threads = Append(@, t)]
  /\ order' = Append(order, t)
  /\ rightNow' = (rightNow \/ t = Daemon)
  /\ Goto(t, "running")
  /\ UNCHANGED <<now, instance, due, taken, statisticFile, expected>>

(* A thread speaks of itself between messages, and no more than once in an *)
(* interval.                                                               *)
Speaks(t) == t \in Running /\ now > thread[t].next

AccumulateStatistic(t) ==
  /\ Speaks(t)
  /\ LET statistic == [name |-> t, run |-> thread[t].run, alive |-> now, terminated |-> thread[t].terminated]
         known     == lists[instance].statistic
     IN /\ lists' = [lists EXCEPT ![instance].statistic =
                       [key \in DOMAIN known \cup {t} |-> IF key = t THEN statistic ELSE known[key]]]
        /\ thread' = [thread EXCEPT ![t].next = now + Interval, ![t].said = <<statistic>>]
  /\ UNCHANGED <<now, instance, due, rightNow, taken, statisticFile, order, expected>>

(* The loop of run() ends; the daemon takes another snapshot.              *)
TerminateThread(t) ==
  /\ thread[t].pc = "running"
  /\ thread' = [thread EXCEPT ![t].pc = "finishing", ![t].terminated = TRUE]
  /\ rightNow' = (rightNow \/ t = Daemon)
  /\ UNCHANGED <<now, lists, instance, due, taken, statisticFile, order, expected>>

Others(threads, t) == SelectSeq(threads, LAMBDA other : other # t)

(* Mutant of Unregistered: the statistic stays. *)
UnregisteredOnly(list, t) == [list EXCEPT !.threads = Others(@, t)]

Unregistered(list, t) ==
  [threads |-> Others(list.threads, t), statistic |-> [key \in DOMAIN list.statistic \ {t} |-> list.statistic[key]]]

(* The daemon's last snapshot comes before; its children have ended.       *)
UnregisterThread(t) ==
  /\ thread[t].pc = "finishing"
  /\ t = Daemon => ~rightNow /\ taken = <<>> /\ Running = {Daemon}
  /\ lists' = [lists EXCEPT ![instance] = Unregistered(@, t)]
  /\ order' = Others(order, t)
  /\ Goto(t, "finished")
  /\ UNCHANGED <<now, instance, due, rightNow, taken, statisticFile, expected>>

(* External: the owner deletes the object, and another comes to lie there. *)
Recreate(t) ==
  /\ thread[t].pc = "finished" /\ t # Daemon
  /\ thread[t].run < MaxRuns
  /\ thread' = [thread EXCEPT ![t] = Thread(@.run + 1)]
  /\ UNCHANGED <<now, lists, instance, due, rightNow, taken, statisticFile, order, expected>>

(* statistic(): of the threads in the list, those that have said something. *)
Statistic(list) ==
  LET known == SelectSeq(list.threads, LAMBDA t : t \in DOMAIN list.statistic)
  IN [i \in DOMAIN known |-> list.statistic[known[i]]]

SnapshotThreads ==
  /\ Daemon \in Running /\ taken = <<>>
  /\ rightNow \/ now >= due
  /\ due' = now + Interval /\ rightNow' = FALSE
  /\ taken' = <<Statistic(lists[instance])>>
  /\ expected' = FlattenSeq([i \in DOMAIN order |-> thread[order[i]].said])
  /\ UNCHANGED <<now, lists, instance, thread, statisticFile, order>>

PostSnapshot ==
  /\ taken # <<>>
  /\ statisticFile' = taken[1]
  /\ taken' = <<>>
  /\ UNCHANGED <<now, lists, instance, thread, due, rightNow, order, expected>>

Tick ==
  /\ now < MaxTime
  /\ now' = now + 1
  /\ UNCHANGED <<lists, instance, thread, due, rightNow, taken, statisticFile, order, expected>>

Next ==
  \/ \E t \in Objects :
       LookForInstance(t) \/ CreateInstance(t) \/ RegisterThread(t) \/ AccumulateStatistic(t)
         \/ TerminateThread(t) \/ UnregisterThread(t) \/ Recreate(t)
  \/ SnapshotThreads \/ PostSnapshot \/ Tick

Spec == Init /\ [][Next]_listVars

---------------------------------------------------------------------------

(* A snapshot shows of every thread that was running what this thread said *)
(* last, in the order they started: nothing of threads that are gone, and  *)
(* nothing that another thread said whose object lay at the same address.  *)
(* This leaves out two threads that both made the registry.                *)
ShowsRunningThreads ==
  Len(lists) < 2 => \A shown \in Range(taken) \cup (IF taken = <<>> THEN {statisticFile} ELSE {}) : shown = expected
=============================================================================
