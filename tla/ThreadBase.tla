----------------------------- MODULE ThreadBase -----------------------------
(***************************************************************************)
(* Threads/ThreadBase, Threads/QueueMessages, Threads/PollerThread and the *)
(* start and stop loops of Threads/DaemonApplication.h: a tree of threads, *)
(* each with a message queue and a signal pipe, in ThreadRunMode::Polling  *)
(* on Linux.                                                               *)
(*                                                                         *)
(* A thread is at one place (pc) of run() and of the functions it calls.   *)
(* A step is the code between two accesses to state that another thread    *)
(* can reach: the queue (under its mutex), the pipe (a system call), and   *)
(* QThread's running/finished flags and the object's lifetime.  Everything *)
(* else is private to the thread.                                          *)
(*                                                                         *)
(* Virtual functions are the application's code.  While a thread is in one *)
(* (CallbackLocs) it may, any number of times and in any order, use the    *)
(* operations ThreadBase offers it: post a message, register and start a   *)
(* child, ask a child to terminate, terminate itself; then it returns.     *)
(***************************************************************************)
EXTENDS Integers, FiniteSets, SequencesExt

CONSTANTS
  Threads,        \* the ThreadBase objects
  Root,           \* the main thread, started and stopped by AppMain / Service
  Nobody,         \* nullptr where a ThreadBase* is expected
  ParentOf,       \* ParentOf[t]: _parentThread, given to t's constructor
  PipeCapacity,   \* bytes the signal pipe holds (65536 on Linux)
  MaxPosts,       \* bound: how many messages each thread posts
  PostsTo,        \* the threads that each thread's code posts to
  SelfStopping,   \* the threads whose code calls terminateThread()
  LateCallbacks   \* TRUE: message handlers use the child list whenever they
                  \* run; FALSE: they leave it alone once the thread has
                  \* begun to stop its children

ASSUME TreeAssumption ==
  /\ Root \in Threads /\ Nobody \notin Threads
  /\ ParentOf \in [Threads -> Threads \cup {Nobody}]
  /\ \A t \in Threads : ParentOf[t] = Nobody <=> t = Root

ASSUME BoundAssumption ==
  /\ PipeCapacity \in Nat \ {0}
  /\ MaxPosts \in [Threads -> Nat]
  /\ PostsTo \in [Threads -> SUBSET Threads]
  /\ SelfStopping \subseteq Threads
  /\ LateCallbacks \in BOOLEAN

VARIABLES
  qthread,        \* QThread: not started, running, finished; or deleted
  pc, ret,        \* where the thread is; where processMessages or
                  \* destroyTerminatedChildThreads returns to
  index,          \* i of the loops over _childThreadsList, counted from 1
  isTerminated,   \* _isTerminated
  childThreads,   \* _childThreadsList
  queue,          \* _queue
  pipe,           \* unread bytes of _pollerThread's pipe
  batch,          \* the messages processMessages has dequeued and not handled
  signalTo,       \* whose signalEventWakeUp() the thread is about to call
  posted,         \* how many messages the thread has posted
  handled,        \* history: the messages given to processMessage, in order
  app             \* the stage of AppMain / Service

threadVars == <<qthread, pc, ret, index, isTerminated, childThreads>>
mailVars   == <<queue, pipe, batch, signalTo, posted, handled>>
vars       == <<threadVars, mailVars, app>>

Message == [from : Threads, no : Nat \ {0}]

SignalTerminate             == "SignalTerminate"
SignalTerminateChildThreads == "SignalTerminateChildThreads"
SignalWakeUp                == "SignalWakeUp"
ThreadSignals == {SignalTerminate, SignalTerminateChildThreads, SignalWakeUp}

(* Virtual functions: onThreadStarted with startChildThreads;              *)
(* onBeforeWaitEvents, whose return starts poll(); the other pollers'      *)
(* process() with onIdle; and processMessage.                              *)
CallbackLocs == {"started", "waiting", "events", "handling"}

(* Where processMessages and destroyTerminatedChildThreads are called from *)
(* ("none": the thread is in neither).                                     *)
ReturnLocs == {"none", "events", "loop", "join", "joinWait", "drained"}

Locs == CallbackLocs \cup ReturnLocs \cup
        {"off", "collect", "processMessages", "batch", "delete", "exit"}

Init ==
  /\ qthread = [t \in Threads |-> "new"]
  /\ pc = [t \in Threads |-> "off"]
  /\ ret = [t \in Threads |-> "none"]
  /\ index = [t \in Threads |-> 0]
  /\ isTerminated = [t \in Threads |-> FALSE]
  /\ childThreads = [t \in Threads |-> <<>>]
  /\ queue = [t \in Threads |-> <<>>]
  /\ pipe = [t \in Threads |-> <<>>]
  /\ batch = [t \in Threads |-> <<>>]
  /\ signalTo = [t \in Threads |-> Nobody]
  /\ posted = [t \in Threads |-> 0]
  /\ handled = [t \in Threads |-> <<>>]
  /\ app = "boot"

-----------------------------------------------------------------------------
(* Helpers.  A running thread whose object was deleted takes no more steps *)
(* (~QThread aborts the process).                                          *)

At(t, loc) == qthread[t] = "running" /\ pc[t] = loc

Goto(t, loc) == pc' = [pc EXCEPT ![t] = loc]

(* isFinished() of an object that still exists.                            *)
IsFinished(t) == qthread[t] \in {"finished", "deleted"}

(* signalEvent*(): nothing for a finished thread; otherwise one write to   *)
(* the non-blocking pipe, whose failure on a full pipe is ignored.         *)
SendSignal(t, signal) ==
  pipe' = IF IsFinished(t) \/ Len(pipe[t]) >= PipeCapacity
          THEN pipe
          ELSE [pipe EXCEPT ![t] = Append(@, signal)]

StartThread(t) ==
  /\ qthread' = [qthread EXCEPT ![t] = "running"]
  /\ pc' = [pc EXCEPT ![t] = "started"]

(* delete of a child: the pipe is closed, what is left in the queue is     *)
(* freed.                                                                  *)
DeleteThread(c) ==
  /\ qthread' = [qthread EXCEPT ![c] = "deleted"]
  /\ pipe' = [pipe EXCEPT ![c] = <<>>]
  /\ queue' = [queue EXCEPT ![c] = <<>>]

(* while (!isTerminated()) in run(), and on the way out the start of       *)
(* terminateChildThreads().                                                *)
LoopTest(t) ==
  IF isTerminated[t]
  THEN /\ Goto(t, "join")
       /\ index' = [index EXCEPT ![t] = Len(childThreads[t])]
  ELSE Goto(t, "waiting") /\ UNCHANGED index

CallProcessMessages(t, loc) ==
  /\ Goto(t, "processMessages")
  /\ ret' = [ret EXCEPT ![t] = loc]

CallDestroyTerminatedChildThreads(t, loc) ==
  /\ Goto(t, "collect")
  /\ ret' = [ret EXCEPT ![t] = loc]
  /\ index' = [index EXCEPT ![t] = Len(childThreads[t])]

-----------------------------------------------------------------------------
(* What the application's code may do in a callback.                       *)

InCallback(t) ==
  /\ qthread[t] = "running" /\ pc[t] \in CallbackLocs
  /\ signalTo[t] = Nobody

(* The thread has entered terminateChildThreads() and handles messages     *)
(* from inside it or after it.                                             *)
StoppingChildren(t) == pc[t] = "handling" /\ ret[t] \in {"join", "joinWait", "drained"}

MayUseChildren(t) == InCallback(t) /\ (LateCallbacks \/ ~StoppingChildren(t))

(* The threads t has a pointer to: itself, its parent, its children.       *)
Subscribers(t) ==
  {t} \cup ({ParentOf[t]} \ {Nobody})
      \cup (IF MayUseChildren(t) THEN ToSet(childThreads[t]) ELSE {})

(* postMessage(), first half: the message is in the queue, the target has  *)
(* not been signalled yet.                                                 *)
PostMessage(t, target) ==
  /\ InCallback(t) /\ posted[t] < MaxPosts[t]
  /\ target \in Subscribers(t) \cap PostsTo[t]
  /\ posted' = [posted EXCEPT ![t] = @ + 1]
  /\ queue' = [queue EXCEPT ![target] = Append(@, [from |-> t, no |-> posted[t] + 1])]
  /\ signalTo' = [signalTo EXCEPT ![t] = target]
  /\ UNCHANGED <<threadVars, pipe, batch, handled, app>>

(* postMessage(), second half: signalEventWakeUp().                        *)
SignalEventWakeUp(t) ==
  /\ qthread[t] = "running" /\ signalTo[t] # Nobody
  /\ SendSignal(signalTo[t], SignalWakeUp)
  /\ signalTo' = [signalTo EXCEPT ![t] = Nobody]
  /\ UNCHANGED <<threadVars, queue, batch, posted, handled, app>>

(* stopTimer(), stopAllTimers(), a child's postTerminateEvent(); asking    *)
(* again before the child has read the first request is left out (bound).  *)
StopChild(t, c) ==
  /\ MayUseChildren(t)
  /\ c \in ToSet(childThreads[t]) /\ ~Contains(pipe[c], SignalTerminate)
  /\ SendSignal(c, SignalTerminate)
  /\ UNCHANGED <<threadVars, queue, batch, signalTo, posted, handled, app>>

TerminateThread(t) ==
  /\ t \in SelfStopping /\ InCallback(t) /\ ~isTerminated[t]
  /\ isTerminated' = [isTerminated EXCEPT ![t] = TRUE]
  /\ UNCHANGED <<qthread, pc, ret, index, childThreads, mailVars, app>>

RegisterAndStartChildThread(t, c) ==
  /\ MayUseChildren(t)
  /\ ParentOf[c] = t /\ qthread[c] = "new"
  /\ childThreads' = [childThreads EXCEPT ![t] = Append(@, c)]
  /\ StartThread(c)
  /\ UNCHANGED <<ret, index, isTerminated, mailVars, app>>

StartedReturn(t) ==
  /\ InCallback(t) /\ pc[t] = "started"
  /\ LoopTest(t)
  /\ UNCHANGED <<qthread, ret, isTerminated, childThreads, mailVars, app>>

ProcessMessageReturn(t) ==
  /\ InCallback(t) /\ pc[t] = "handling"
  /\ Goto(t, "batch")
  /\ UNCHANGED <<qthread, ret, index, isTerminated, childThreads, mailVars, app>>

(* waitEvents() returns and onAfterWaitEvents() runs: terminated children  *)
(* are collected once a second; the clock is abstracted to a choice.       *)
CollectNotDue(t) ==
  /\ InCallback(t) /\ pc[t] = "events"
  /\ LoopTest(t)
  /\ UNCHANGED <<qthread, ret, isTerminated, childThreads, mailVars, app>>

(* Mutant: terminated children are collected on the child's signal only.   *)
CollectNever(t) ==
  /\ InCallback(t) /\ pc[t] = "events"
  /\ LoopTest(t)
  /\ UNCHANGED <<qthread, ret, isTerminated, childThreads, mailVars, app>>

CollectDue(t) ==
  /\ InCallback(t) /\ pc[t] = "events"
  /\ CallDestroyTerminatedChildThreads(t, "loop")
  /\ UNCHANGED <<qthread, isTerminated, childThreads, mailVars, app>>

-----------------------------------------------------------------------------
(* run(): the loop.                                                        *)

(* Polling::poll finds a byte in the pipe and PollerThread::process reads  *)
(* it: one byte in one round.                                              *)
ReceiveSignal(t, signal) ==
  /\ InCallback(t) /\ pc[t] = "waiting"
  /\ pipe[t] # <<>> /\ Head(pipe[t]) = signal
  /\ pipe' = [pipe EXCEPT ![t] = Tail(@)]

SlotTerminateThread(t) ==
  /\ ReceiveSignal(t, SignalTerminate)
  /\ isTerminated' = [isTerminated EXCEPT ![t] = TRUE]
  /\ Goto(t, "events")
  /\ UNCHANGED <<qthread, ret, index, childThreads, queue, batch, signalTo, posted, handled, app>>

(* Mutant: a wake-up is left to the next one.                              *)
WakeUpIgnored(t) ==
  /\ ReceiveSignal(t, SignalWakeUp)
  /\ Goto(t, "events")
  /\ UNCHANGED <<qthread, ret, index, isTerminated, childThreads, queue, batch, signalTo, posted, handled, app>>

SlotWakeUpThread(t) ==
  /\ ReceiveSignal(t, SignalWakeUp)
  /\ CallProcessMessages(t, "events")
  /\ UNCHANGED <<qthread, index, isTerminated, childThreads, queue, batch, signalTo, posted, handled, app>>

SlotTerminateChildThreads(t) ==
  /\ ReceiveSignal(t, SignalTerminateChildThreads)
  /\ CallDestroyTerminatedChildThreads(t, "events")
  /\ UNCHANGED <<qthread, isTerminated, childThreads, queue, batch, signalTo, posted, handled, app>>

(* poll() ends without a byte in the pipe: a timeout, or an event of       *)
(* another poller.                                                         *)
PollOther(t) ==
  /\ InCallback(t) /\ pc[t] = "waiting" /\ pipe[t] = <<>>
  /\ Goto(t, "events")
  /\ UNCHANGED <<qthread, ret, index, isTerminated, childThreads, mailVars, app>>

(* Mutants: the pointer stays in the list; the child may still run.        *)
CollectKeepingPointer(t) ==
  /\ At(t, "collect") /\ index[t] > 0
  /\ LET c == childThreads[t][index[t]]
     IN IF IsFinished(c) THEN DeleteThread(c) ELSE UNCHANGED <<qthread, pipe, queue>>
  /\ index' = [index EXCEPT ![t] = @ - 1]
  /\ UNCHANGED <<pc, ret, isTerminated, childThreads, batch, signalTo, posted, handled, app>>

CollectRunning(t) ==
  /\ At(t, "collect") /\ index[t] > 0
  /\ DeleteThread(childThreads[t][index[t]])
  /\ childThreads' = [childThreads EXCEPT ![t] = RemoveAt(@, index[t])]
  /\ index' = [index EXCEPT ![t] = @ - 1]
  /\ UNCHANGED <<pc, ret, isTerminated, batch, signalTo, posted, handled, app>>

(* destroyTerminatedChildThreads(): one turn of the loop, from the end.    *)
CollectChild(t) ==
  /\ At(t, "collect") /\ index[t] > 0
  /\ LET c == childThreads[t][index[t]]
     IN IF IsFinished(c)
        THEN /\ DeleteThread(c)
             /\ childThreads' = [childThreads EXCEPT ![t] = RemoveAt(@, index[t])]
        ELSE UNCHANGED <<qthread, childThreads, pipe, queue>>
  /\ index' = [index EXCEPT ![t] = @ - 1]
  /\ UNCHANGED <<pc, ret, isTerminated, batch, signalTo, posted, handled, app>>

CollectReturn(t) ==
  /\ At(t, "collect") /\ index[t] = 0
  /\ IF ret[t] = "loop" THEN LoopTest(t) ELSE Goto(t, ret[t]) /\ UNCHANGED index
  /\ ret' = [ret EXCEPT ![t] = "none"]
  /\ UNCHANGED <<qthread, isTerminated, childThreads, mailVars, app>>

-----------------------------------------------------------------------------
(* processMessages(): dequeueAll(), then the handler for each message.     *)

DequeueAll(t) ==
  /\ At(t, "processMessages")
  /\ batch' = [batch EXCEPT ![t] = queue[t]]
  /\ queue' = [queue EXCEPT ![t] = <<>>]
  /\ Goto(t, "batch")
  /\ UNCHANGED <<qthread, ret, index, isTerminated, childThreads, pipe, signalTo, posted, handled, app>>

ProcessMessage(t) ==
  /\ At(t, "batch") /\ batch[t] # <<>>
  /\ handled' = [handled EXCEPT ![t] = Append(@, Head(batch[t]))]
  /\ batch' = [batch EXCEPT ![t] = Tail(@)]
  /\ Goto(t, "handling")
  /\ UNCHANGED <<qthread, ret, index, isTerminated, childThreads, queue, pipe, signalTo, posted, app>>

ProcessMessagesReturn(t) ==
  /\ At(t, "batch") /\ batch[t] = <<>>
  /\ Goto(t, ret[t])
  /\ ret' = [ret EXCEPT ![t] = "none"]
  /\ UNCHANGED <<qthread, index, isTerminated, childThreads, mailVars, app>>

-----------------------------------------------------------------------------
(* run(): the end.  terminateChildThreads() asks the children to stop and  *)
(* waits for them one by one from the end of the list, then deletes them.  *)

JoinTurn(t) == At(t, "join") /\ index[t] > 0
JoinedChild(t) == childThreads[t][index[t]]

(* Mutant: the child is waited for and never asked to stop.                *)
JoinSilently(t) ==
  /\ JoinTurn(t) /\ ~IsFinished(JoinedChild(t))
  /\ Goto(t, "joinWait")
  /\ UNCHANGED <<qthread, ret, index, isTerminated, childThreads, mailVars, app>>

(* terminateChildThread() of a child that runs: one terminate signal.      *)
JoinChild(t) ==
  /\ JoinTurn(t) /\ ~IsFinished(JoinedChild(t))
  /\ SendSignal(JoinedChild(t), SignalTerminate)
  /\ Goto(t, "joinWait")
  /\ UNCHANGED <<qthread, ret, index, isTerminated, childThreads, queue, batch, signalTo, posted, handled, app>>

(* while (!thread->isFinished()) processMessages(); a turn that finds the  *)
(* queue empty changes nothing and is left out.                            *)
JoinBusyWait(t) ==
  /\ At(t, "joinWait") /\ ~IsFinished(JoinedChild(t)) /\ queue[t] # <<>>
  /\ CallProcessMessages(t, "joinWait")
  /\ UNCHANGED <<qthread, index, isTerminated, childThreads, mailVars, app>>

(* Mutant: processMessages() once instead of while (!isFinished()).        *)
JoinUnfinished(t) ==
  /\ At(t, "joinWait")
  /\ index' = [index EXCEPT ![t] = @ - 1]
  /\ CallProcessMessages(t, "join")
  /\ UNCHANGED <<qthread, isTerminated, childThreads, mailVars, app>>

(* The child has finished: the last processMessages() of                   *)
(* terminateChildThread(), then the child before it in the list.           *)
JoinFinished(t) ==
  /\ JoinTurn(t) \/ At(t, "joinWait")
  /\ IsFinished(JoinedChild(t))
  /\ index' = [index EXCEPT ![t] = @ - 1]
  /\ CallProcessMessages(t, "join")
  /\ UNCHANGED <<qthread, isTerminated, childThreads, mailVars, app>>

(* Mutant: the second loop is missing.                                     *)
JoinWithoutDelete(t) ==
  /\ At(t, "join") /\ index[t] = 0
  /\ Goto(t, "delete")
  /\ UNCHANGED <<qthread, ret, index, isTerminated, childThreads, mailVars, app>>

JoinDone(t) ==
  /\ At(t, "join") /\ index[t] = 0
  /\ Goto(t, "delete")
  /\ index' = [index EXCEPT ![t] = Len(childThreads[t])]
  /\ UNCHANGED <<qthread, ret, isTerminated, childThreads, mailVars, app>>

(* The second loop: delete.  The pointers stay in the list.                *)
DeleteChild(t) ==
  /\ At(t, "delete") /\ index[t] > 0
  /\ DeleteThread(childThreads[t][index[t]])
  /\ index' = [index EXCEPT ![t] = @ - 1]
  /\ UNCHANGED <<pc, ret, isTerminated, childThreads, batch, signalTo, posted, handled, app>>

(* Mutant: run() ends without the last processMessages().                  *)
DeleteDoneUndrained(t) ==
  /\ At(t, "delete") /\ index[t] = 0
  /\ Goto(t, "drained")
  /\ UNCHANGED <<qthread, ret, index, isTerminated, childThreads, mailVars, app>>

(* run() handles what is left in the queue once the children are gone.     *)
DeleteDone(t) ==
  /\ At(t, "delete") /\ index[t] = 0
  /\ CallProcessMessages(t, "drained")
  /\ UNCHANGED <<qthread, index, isTerminated, childThreads, mailVars, app>>

(* finalizeThread() and the parent's postEventChildThreadTerminated().     *)
NotifyParent(t) ==
  /\ At(t, "drained")
  /\ IF ParentOf[t] = Nobody
     THEN UNCHANGED pipe
     ELSE SendSignal(ParentOf[t], SignalTerminateChildThreads)
  /\ Goto(t, "exit")
  /\ UNCHANGED <<qthread, ret, index, isTerminated, childThreads, queue, batch, signalTo, posted, handled, app>>

(* run() returns to QThread, and only now isFinished() becomes true.       *)
RunReturn(t) ==
  /\ At(t, "exit")
  /\ qthread' = [qthread EXCEPT ![t] = "finished"]
  /\ Goto(t, "off")
  /\ UNCHANGED <<ret, index, isTerminated, childThreads, mailVars, app>>

-----------------------------------------------------------------------------
(* AppMain / Service: start the main thread; on stop, if it is running,    *)
(* post terminate events until it has finished.                            *)

AppStart ==
  /\ app = "boot"
  /\ StartThread(Root)
  /\ app' = "serving"
  /\ UNCHANGED <<ret, index, isTerminated, childThreads, mailVars>>

AppStop ==
  /\ app = "serving"
  /\ app' = IF qthread[Root] = "running" THEN "stopping" ELSE "stopped"
  /\ UNCHANGED <<threadVars, mailVars>>

AppPostTerminate ==
  /\ app = "stopping" /\ ~IsFinished(Root)
  /\ SendSignal(Root, SignalTerminate)
  /\ UNCHANGED <<threadVars, queue, batch, signalTo, posted, handled, app>>

AppStopped ==
  /\ app = "stopping" /\ IsFinished(Root)
  /\ app' = "stopped"
  /\ UNCHANGED <<threadVars, mailVars>>

(* The process has nothing left to do.                                     *)
Done == app = "stopped" /\ UNCHANGED vars

-----------------------------------------------------------------------------
(* The code of ThreadBase that a running thread executes without waiting   *)
(* for the application's decisions.                                        *)
Step(t) ==
  \/ SignalEventWakeUp(t)
  \/ StartedReturn(t) \/ ProcessMessageReturn(t)
  \/ CollectNotDue(t) \/ CollectDue(t)
  \/ SlotTerminateThread(t) \/ SlotWakeUpThread(t) \/ SlotTerminateChildThreads(t)
  \/ PollOther(t)
  \/ CollectChild(t) \/ CollectReturn(t)
  \/ DequeueAll(t) \/ ProcessMessage(t) \/ ProcessMessagesReturn(t)
  \/ JoinChild(t) \/ JoinBusyWait(t) \/ JoinFinished(t) \/ JoinDone(t)
  \/ DeleteChild(t) \/ DeleteDone(t)
  \/ NotifyParent(t) \/ RunReturn(t)

Callback(t) ==
  \/ \E target \in Threads : PostMessage(t, target)
  \/ \E c \in Threads : StopChild(t, c)
  \/ TerminateThread(t)
  \/ \E c \in Threads : RegisterAndStartChildThread(t, c)

App == AppStart \/ AppStop \/ AppPostTerminate \/ AppStopped

Next ==
  \/ \E t \in Threads : Step(t) \/ Callback(t)
  \/ App
  \/ Done

Spec == Init /\ [][Next]_vars

(* The scheduler runs every thread that can run and every callback         *)
(* returns; the application's stop loop runs; and a thread that keeps      *)
(* going round its loop finds, again and again, that a second has passed.  *)
Fairness ==
  /\ \A t \in Threads : WF_vars(Step(t)) /\ SF_vars(CollectDue(t))
  /\ WF_vars(AppStart) /\ WF_vars(AppPostTerminate) /\ WF_vars(AppStopped)

FairSpec == Spec /\ Fairness

-----------------------------------------------------------------------------
(* Properties.                                                             *)

(* Every variable has its type, and no pipe holds more than its capacity.  *)
TypeOK ==
  /\ qthread \in [Threads -> {"new", "running", "finished", "deleted"}]
  /\ pc \in [Threads -> Locs]
  /\ ret \in [Threads -> ReturnLocs]
  /\ index \in [Threads -> Int]
  /\ isTerminated \in [Threads -> BOOLEAN]
  /\ childThreads \in [Threads -> Seq(Threads)]
  /\ queue \in [Threads -> Seq(Message)]
  /\ pipe \in [Threads -> Seq(ThreadSignals)]
  /\ \A t \in Threads : Len(pipe[t]) <= PipeCapacity
  /\ batch \in [Threads -> Seq(Message)]
  /\ signalTo \in [Threads -> Threads \cup {Nobody}]
  /\ posted \in [Threads -> Nat]
  /\ handled \in [Threads -> Seq(Message)]
  /\ app \in {"boot", "serving", "stopping", "stopped"}

(* A child never outlives the thread that started it: run() does not       *)
(* return before terminateChildThreads() has seen every child finished.    *)
ShutdownOrder ==
  \A c \in Threads \ {Root} : qthread[c] = "running" => qthread[ParentOf[c]] = "running"

(* No object is used after its delete: the target of the second half of a  *)
(* postMessage, and the child that a loop over _childThreadsList is about  *)
(* to look at, still exist.                                                *)
NoUseAfterDelete ==
  /\ \A t \in Threads :
       qthread[t] = "running" /\ signalTo[t] # Nobody => qthread[signalTo[t]] # "deleted"
  /\ \A t \in Threads :
       qthread[t] = "running" /\ pc[t] \in {"collect", "join", "joinWait", "delete"} /\ index[t] > 0
          => index[t] <= Len(childThreads[t]) /\ qthread[JoinedChild(t)] # "deleted"

(* A thread that waits in poll() with a message in its queue will be       *)
(* woken: a wake-up or a terminate byte is in its pipe, or a poster is     *)
(* between enqueue() and signalEventWakeUp().  It needs room in the pipe   *)
(* for a byte of each child, and one more if anybody else posts to it.     *)
NoLostWakeUp ==
  \A t \in Threads :
    At(t, "waiting") /\ queue[t] # <<>> =>
      \/ isTerminated[t]
      \/ Contains(pipe[t], SignalWakeUp) \/ Contains(pipe[t], SignalTerminate)
      \/ \E s \in Threads : qthread[s] = "running" /\ signalTo[s] = t

(* terminateChildThreads() stops the children before it deletes them: no   *)
(* object is deleted while its thread runs.                                *)
StoppedBeforeDelete ==
  [][\A c \in Threads :
       qthread[c] = "running" => qthread'[c] # "deleted"]_qthread

(* Refinement: the life of the threads is that of ThreadTree.              *)
Tree == INSTANCE ThreadTree WITH life <- qthread
ImplementsThreadTree == Tree!TreeSpec

(* Refinement: queue, pipe and batch implement Mailbox, where a message is *)
(* pending from its enqueue() to its processMessage().                     *)
Mail == INSTANCE Mailbox WITH
          pending  <- [t \in Threads |-> batch[t] \o queue[t]],
          consumed <- handled,
          sent     <- posted,
          open     <- [t \in Threads |-> ~IsFinished(t)]
ImplementsMailbox == Mail!MailboxSpec

(* Once AppMain / Service has begun to stop the main thread, it gets past  *)
(* its wait for isFinished().                                              *)
StopCompletes == app = "stopping" ~> app = "stopped"

(* A child that has finished is eventually deleted, by the collection once *)
(* a second or at the end of its parent.                                   *)
FinishedCollected ==
  \A c \in Threads \ {Root} : qthread[c] = "finished" ~> qthread[c] = "deleted"

(* A message in the queue of a thread is eventually taken out, unless the  *)
(* thread finishes first.                                                  *)
QueueServed ==
  \A t \in Threads : queue[t] # <<>> ~> (queue[t] = <<>> \/ IsFinished(t))
-----------------------------------------------------------------------------
(* The inductive invariant behind ShutdownOrder, NoUseAfterDelete and      *)
(* ImplementsThreadTree (when LateCallbacks = FALSE), for one thread t.    *)

HandlesMessages(t) == pc[t] \in {"processMessages", "batch", "handling"}

Joining(t) ==
  \/ pc[t] \in {"join", "joinWait"}
  \/ HandlesMessages(t) /\ ret[t] \in {"join", "joinWait"}

Deleting(t) == pc[t] = "delete"

(* Its children are gone.                                                  *)
Drained(t) ==
  \/ pc[t] \in {"drained", "exit"}
  \/ HandlesMessages(t) /\ ret[t] = "drained"

(* The loops over _childThreadsList start inside the list and stay there.  *)
IndexOK(t) ==
  pc[t] = "collect" \/ Joining(t) \/ Deleting(t) => index[t] <= Len(childThreads[t])

(* Where the thread is, agrees with what QThread says of it and with where *)
(* the function it is in returns to.                                       *)
ControlOK(t) ==
  /\ qthread[t] = "running" <=> pc[t] # "off"
  /\ pc[t] = "collect" => ret[t] \in {"events", "loop"}
  /\ HandlesMessages(t) => ret[t] \in {"events", "join", "joinWait", "drained"}
  /\ pc[t] = "joinWait" \/ (HandlesMessages(t) /\ ret[t] = "joinWait") => index[t] > 0

(* _childThreadsList has the thread's own children, each once.             *)
ListOK(t) ==
  /\ qthread[t] = "new" => childThreads[t] = <<>>
  /\ \A i \in 1 .. Len(childThreads[t]) :
       ParentOf[childThreads[t][i]] = t /\ qthread[childThreads[t][i]] # "new"
  /\ \A i, j \in 1 .. Len(childThreads[t]) : childThreads[t][i] = childThreads[t][j] => i = j

(* A child that has been started and not deleted is in its parent's list.  *)
Registered(c) ==
  c # Root /\ qthread[c] \in {"running", "finished"} =>
    \E i \in 1 .. Len(childThreads[ParentOf[c]]) : childThreads[ParentOf[c]][i] = c

(* What is known of the children at each stage of the thread's life.       *)
StageOK(t) ==
  \A i \in 1 .. Len(childThreads[t]) :
    LET child == qthread[childThreads[t][i]]
    IN /\ ~Deleting(t) /\ ~Drained(t) /\ ~IsFinished(t) => child # "deleted"
       /\ Joining(t) /\ i > index[t] => child = "finished"
       /\ Deleting(t) => child = (IF i > index[t] THEN "deleted" ELSE "finished")
       /\ Drained(t) \/ IsFinished(t) => child = "deleted"

(* A thread between enqueue() and signalEventWakeUp() is in a callback,    *)
(* and it signals itself, its parent, or a child it has not deleted.       *)
SignalOK(t) ==
  signalTo[t] # Nobody =>
    /\ pc[t] \in CallbackLocs
    /\ \/ signalTo[t] = t
       \/ signalTo[t] = ParentOf[t]
       \/ /\ ~Drained(t)
          /\ \E i \in 1 .. Len(childThreads[t]) : childThreads[t][i] = signalTo[t]

IndexInv == \A t \in Threads : IndexOK(t)

ThreadOK(t) ==
  IndexOK(t) /\ ControlOK(t) /\ ListOK(t) /\ Registered(t) /\ StageOK(t) /\ SignalOK(t)

LifeInv == \A t \in Threads : ThreadOK(t)

(* Root is started once.                                                   *)
BootOK == app = "boot" => qthread[Root] = "new"

(* The lives of the threads and what they need, for the proofs.            *)
LifeIInv == TypeOK /\ LifeInv /\ BootOK

-----------------------------------------------------------------------------
(* The inductive invariant behind ImplementsMailbox and NoLostWakeUp.      *)

(* Messages that were dequeued and not handled are processMessages()'s.    *)
BatchOK(t) == batch[t] # <<>> => pc[t] \in {"batch", "handling"}

(* The last dequeueAll() of run() is behind it.                            *)
LastDequeueDone(t) ==
  \/ pc[t] \in {"drained", "exit"}
  \/ pc[t] \in {"batch", "handling"} /\ ret[t] = "drained"

(* Nobody is left then whose message would have to be handled.             *)
NoChildMail(t) ==
  LastDequeueDone(t) => \A i \in 1 .. Len(queue[t]) : ParentOf[queue[t][i].from] # t

(* run() is past postEventChildThreadTerminated().                         *)
Notified(c) == pc[c] = "exit" \/ IsFinished(c)

(* Every SignalTerminateChildThreads in the pipe is that of another child. *)
OneByteEach(t) ==
  \E sender \in [1 .. Len(pipe[t]) -> Threads] :
    /\ \A i \in 1 .. Len(pipe[t]) :
         pipe[t][i] = SignalTerminateChildThreads =>
           ParentOf[sender[i]] = t /\ Notified(sender[i])
    /\ \A i, j \in 1 .. Len(pipe[t]) :
         /\ pipe[t][i] = SignalTerminateChildThreads
         /\ pipe[t][j] = SignalTerminateChildThreads
         /\ sender[i] = sender[j]
         => i = j

(* Something will bring the thread to its queue: see NoLostWakeUp.         *)
WillLook(t) ==
  \/ pc[t] = "processMessages"
  \/ isTerminated[t]
  \/ Contains(pipe[t], SignalWakeUp) \/ Contains(pipe[t], SignalTerminate)
  \/ \E s \in Threads : qthread[s] = "running" /\ signalTo[s] = t

WakeOK(t) == queue[t] # <<>> /\ ~IsFinished(t) => WillLook(t)

DeliveryInv == \A t \in Threads : BatchOK(t) /\ NoChildMail(t)

WakeInv == \A t \in Threads : OneByteEach(t) /\ WakeOK(t)

(* The pipe has room for the byte of every child, and for one more.        *)
PipeRoom ==
  \A t \in Threads :
    LET children == {c \in Threads : ParentOf[c] = t}
    IN IsFiniteSet(children) /\ Cardinality(children) < PipeCapacity

(* The inductive invariant: types, with no pipe beyond its capacity; the   *)
(* lives of the threads, with every loop over the children inside its list *)
(* and every child where its parent's stage says; one start of the root;   *)
(* and a queue that its thread will come to, and that has no message of a  *)
(* child once the thread has come to it for the last time.                 *)
IInv == LifeIInv /\ DeliveryInv /\ WakeInv

=============================================================================
