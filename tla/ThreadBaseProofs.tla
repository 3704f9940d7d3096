-------------------------- MODULE ThreadBaseProofs --------------------------
(***************************************************************************)
(* Theorems about ThreadBase, for every tree of threads, every pipe        *)
(* capacity and any number of messages: its types, and the life of its     *)
(* threads with the refinement of ThreadTree; then the messages.           *)
(***************************************************************************)
EXTENDS ThreadBase, FiniteSetTheorems, TLAPS

(* What QList::removeAt returns: the elements after i move one place down. *)
LEMMA RemoveAtFacts ==
  ASSUME NEW S, NEW s \in Seq(S), NEW i \in 1 .. Len(s)
  PROVE  /\ RemoveAt(s, i) \in Seq(S)
         /\ Len(RemoveAt(s, i)) = Len(s) - 1
         /\ \A j \in 1 .. Len(s) - 1 :
              RemoveAt(s, i)[j] = IF j < i THEN s[j] ELSE s[j + 1]
<1> DEFINE front == SubSeq(s, 1, i - 1)
           back  == SubSeq(s, i + 1, Len(s))
<1>1. front \in Seq(S) /\ Len(front) = i - 1 /\ \A j \in 1 .. i - 1 : front[j] = s[j]
  OBVIOUS
<1>2. back \in Seq(S) /\ Len(back) = Len(s) - i /\ \A j \in 1 .. Len(s) - i : back[j] = s[j + i]
  OBVIOUS
<1>3. RemoveAt(s, i) = front \o back
  BY DEF RemoveAt
<1> HIDE DEF front, back
<1>4. front \o back \in Seq(S) /\ Len(front \o back) = Len(s) - 1
  BY <1>1, <1>2
<1>5. ASSUME NEW j \in 1 .. Len(s) - 1
      PROVE  (front \o back)[j] = IF j < i THEN s[j] ELSE s[j + 1]
  <2>1. CASE j < i
    BY <1>1, <1>2, <2>1
  <2>2. CASE ~(j < i)
    <3>1. (front \o back)[j] = back[j - (i - 1)]
      BY <1>1, <1>2, <2>2
    <3>2. j - (i - 1) \in 1 .. Len(s) - i /\ j - (i - 1) + i = j + 1
      BY <2>2
    <3>3. QED
      BY <3>1, <3>2, <1>2, <2>2
  <2>3. QED
    BY <2>1, <2>2
<1>6. QED
  BY <1>3, <1>4, <1>5

(* A signal keeps every pipe a sequence of signals within its capacity.    *)
LEMMA SendSignalType ==
  ASSUME TypeOK, NEW t \in Threads, NEW signal \in ThreadSignals, SendSignal(t, signal)
  PROVE  /\ pipe' \in [Threads -> Seq(ThreadSignals)]
         /\ \A u \in Threads : Len(pipe'[u]) <= PipeCapacity
BY BoundAssumption DEF TypeOK, SendSignal

(* The places of the code, as members of their types.                      *)
LEMMA LocTypes ==
  /\ \A loc \in ReturnLocs : loc \in Locs
  /\ "started" \in Locs /\ "waiting" \in Locs /\ "events" \in Locs /\ "handling" \in Locs
  /\ "off" \in Locs /\ "collect" \in Locs /\ "processMessages" \in Locs /\ "batch" \in Locs
  /\ "delete" \in Locs /\ "exit" \in Locs
  /\ "none" \in ReturnLocs /\ "events" \in ReturnLocs /\ "loop" \in ReturnLocs
  /\ "join" \in ReturnLocs /\ "joinWait" \in ReturnLocs /\ "drained" \in ReturnLocs
BY DEF Locs, CallbackLocs, ReturnLocs

LEMMA InitTypeOK == Init => TypeOK
BY BoundAssumption DEF Init, TypeOK, Locs, CallbackLocs, ReturnLocs

(* The loop test of run() goes to a known place and sets a known index.    *)
LEMMA LoopTestType ==
  ASSUME TypeOK, NEW t \in Threads, LoopTest(t)
  PROVE  pc' \in [Threads -> Locs] /\ index' \in [Threads -> Int]
<1>1. Len(childThreads[t]) \in Int
  BY DEF TypeOK
<1>2. CASE isTerminated[t]
  <2>1. /\ pc' = [pc EXCEPT ![t] = "join"]
        /\ index' = [index EXCEPT ![t] = Len(childThreads[t])]
    BY <1>2, Zenon DEF LoopTest, Goto
  <2>2. QED
    BY <1>1, <2>1, LocTypes DEF TypeOK
<1>3. CASE ~isTerminated[t]
  <2>1. pc' = [pc EXCEPT ![t] = "waiting"] /\ index' = index
    BY <1>3, Zenon DEF LoopTest, Goto
  <2>2. QED
    BY <2>1, LocTypes DEF TypeOK
<1>4. QED
  BY <1>2, <1>3

(* Reading a byte shortens the pipe.                                       *)
LEMMA ReceiveSignalType ==
  ASSUME TypeOK, NEW t \in Threads, NEW signal, ReceiveSignal(t, signal)
  PROVE  /\ pipe' \in [Threads -> Seq(ThreadSignals)]
         /\ \A u \in Threads : Len(pipe'[u]) <= PipeCapacity
<1>1. Tail(pipe[t]) \in Seq(ThreadSignals) /\ Len(Tail(pipe[t])) = Len(pipe[t]) - 1
  BY DEF ReceiveSignal, TypeOK
<1>2. Len(Tail(pipe[t])) <= PipeCapacity
  BY <1>1, BoundAssumption DEF TypeOK
<1>3. QED
  BY <1>1, <1>2 DEF ReceiveSignal, TypeOK

(* Deleting a thread empties its pipe and its queue.                       *)
LEMMA DeleteThreadType ==
  ASSUME TypeOK, NEW c, DeleteThread(c)
  PROVE  /\ qthread' \in [Threads -> {"new", "running", "finished", "deleted"}]
         /\ pipe' \in [Threads -> Seq(ThreadSignals)]
         /\ \A u \in Threads : Len(pipe'[u]) <= PipeCapacity
         /\ queue' \in [Threads -> Seq(Message)]
<1>1. qthread' \in [Threads -> {"new", "running", "finished", "deleted"}]
  BY DEF DeleteThread, TypeOK
<1>2. pipe' \in [Threads -> Seq(ThreadSignals)]
  <2>1. <<>> \in Seq(ThreadSignals)
    OBVIOUS
  <2>2. QED
    BY <2>1 DEF DeleteThread, TypeOK
<1>3. \A u \in Threads : Len(pipe'[u]) <= PipeCapacity
  BY BoundAssumption DEF DeleteThread, TypeOK
<1>4. queue' \in [Threads -> Seq(Message)]
  <2>1. <<>> \in Seq(Message)
    OBVIOUS
  <2>2. queue' = [queue EXCEPT ![c] = <<>>] /\ queue \in [Threads -> Seq(Message)]
    BY DEF DeleteThread, TypeOK
  <2>3. QED
    BY <2>1, <2>2
<1>5. QED
  BY <1>1, <1>2, <1>3, <1>4

(* One step per action.                                                    *)
LEMMA StepTypeOK == TypeOK /\ IndexInv /\ [Next]_vars => TypeOK'
<1> SUFFICES ASSUME TypeOK, IndexInv, [Next]_vars
             PROVE  TypeOK'
  OBVIOUS
<1> USE LocTypes DEF At, Goto, InCallback, threadVars, mailVars
<1>1. ASSUME NEW t \in Threads, NEW target \in Threads, PostMessage(t, target)
      PROVE  TypeOK'
  <2>1. [from |-> t, no |-> posted[t] + 1] \in Message
    <3>1. posted[t] \in Nat
      BY DEF TypeOK
    <3>2. posted[t] + 1 \in Nat \ {0}
      BY <3>1
    <3>3. QED
      BY <3>2 DEF Message
  <2>2. queue' \in [Threads -> Seq(Message)]
    <3>1. queue \in [Threads -> Seq(Message)]
      BY DEF TypeOK
    <3>2. queue' = [queue EXCEPT ![target] = Append(queue[target], [from |-> t, no |-> posted[t] + 1])]
      BY <1>1 DEF PostMessage
    <3>3. QED
      BY <2>1, <3>1, <3>2
  <2>3. posted' \in [Threads -> Nat] /\ signalTo' \in [Threads -> Threads \cup {Nobody}]
    <3>1. posted' = [posted EXCEPT ![t] = posted[t] + 1] /\ signalTo' = [signalTo EXCEPT ![t] = target]
      BY <1>1 DEF PostMessage
    <3>2. posted \in [Threads -> Nat] /\ signalTo \in [Threads -> Threads \cup {Nobody}]
      BY DEF TypeOK
    <3>3. QED
      BY <3>1, <3>2
  <2>4. QED
    BY <1>1, <2>2, <2>3 DEF PostMessage, TypeOK
<1>2. ASSUME NEW t \in Threads, SignalEventWakeUp(t)
      PROVE  TypeOK'
  <2>1. signalTo[t] \in Threads
    BY <1>2 DEF SignalEventWakeUp, TypeOK
  <2>2. pipe' \in [Threads -> Seq(ThreadSignals)] /\ \A u \in Threads : Len(pipe'[u]) <= PipeCapacity
    BY <1>2, <2>1, SendSignalType DEF SignalEventWakeUp, ThreadSignals
  <2>3. QED
    BY <1>2, <2>1, <2>2 DEF SignalEventWakeUp, TypeOK
<1>3. ASSUME NEW t \in Threads, NEW c \in Threads, StopChild(t, c)
      PROVE  TypeOK'
  <2>1. pipe' \in [Threads -> Seq(ThreadSignals)] /\ \A u \in Threads : Len(pipe'[u]) <= PipeCapacity
    BY <1>3, SendSignalType DEF StopChild, ThreadSignals
  <2>2. QED
    BY <1>3, <2>1 DEF StopChild, TypeOK
<1>4. ASSUME NEW t \in Threads, TerminateThread(t)
      PROVE  TypeOK'
  BY <1>4 DEF TerminateThread, TypeOK
<1>5. ASSUME NEW t \in Threads, NEW c \in Threads, RegisterAndStartChildThread(t, c)
      PROVE  TypeOK'
  <2>1. childThreads' \in [Threads -> Seq(Threads)]
    BY <1>5 DEF RegisterAndStartChildThread, TypeOK
  <2>2. QED
    BY <1>5, <2>1 DEF RegisterAndStartChildThread, StartThread, TypeOK
<1>6. ASSUME NEW t \in Threads, StartedReturn(t)
      PROVE  TypeOK'
  <2>1. pc' \in [Threads -> Locs] /\ index' \in [Threads -> Int]
    BY <1>6, LoopTestType DEF StartedReturn
  <2>2. QED
    BY <1>6, <2>1 DEF StartedReturn, TypeOK
<1>7. ASSUME NEW t \in Threads, ProcessMessageReturn(t)
      PROVE  TypeOK'
  BY <1>7 DEF ProcessMessageReturn, TypeOK
<1>8. ASSUME NEW t \in Threads, CollectNotDue(t)
      PROVE  TypeOK'
  <2>1. pc' \in [Threads -> Locs] /\ index' \in [Threads -> Int]
    BY <1>8, LoopTestType DEF CollectNotDue
  <2>2. QED
    BY <1>8, <2>1 DEF CollectNotDue, TypeOK
<1>9. ASSUME NEW t \in Threads, CollectDue(t)
      PROVE  TypeOK'
  BY <1>9 DEF CollectDue, CallDestroyTerminatedChildThreads, TypeOK
<1>10. ASSUME NEW t \in Threads, SlotTerminateThread(t)
      PROVE  TypeOK'
  <2>1. pipe' \in [Threads -> Seq(ThreadSignals)] /\ \A u \in Threads : Len(pipe'[u]) <= PipeCapacity
    BY <1>10, ReceiveSignalType DEF SlotTerminateThread
  <2>2. QED
    BY <1>10, <2>1 DEF SlotTerminateThread, TypeOK
<1>11. ASSUME NEW t \in Threads, SlotWakeUpThread(t)
      PROVE  TypeOK'
  <2>1. pipe' \in [Threads -> Seq(ThreadSignals)] /\ \A u \in Threads : Len(pipe'[u]) <= PipeCapacity
    BY <1>11, ReceiveSignalType DEF SlotWakeUpThread
  <2>2. QED
    BY <1>11, <2>1 DEF SlotWakeUpThread, CallProcessMessages, TypeOK
<1>12. ASSUME NEW t \in Threads, SlotTerminateChildThreads(t)
      PROVE  TypeOK'
  <2>1. pipe' \in [Threads -> Seq(ThreadSignals)] /\ \A u \in Threads : Len(pipe'[u]) <= PipeCapacity
    BY <1>12, ReceiveSignalType DEF SlotTerminateChildThreads
  <2>2. /\ pc' \in [Threads -> Locs] /\ ret' \in [Threads -> ReturnLocs]
        /\ index' \in [Threads -> Int]
    BY <1>12 DEF SlotTerminateChildThreads, CallDestroyTerminatedChildThreads, TypeOK
  <2>3. QED
    BY <1>12, <2>1, <2>2 DEF SlotTerminateChildThreads, TypeOK
<1>13. ASSUME NEW t \in Threads, PollOther(t)
      PROVE  TypeOK'
  BY <1>13 DEF PollOther, TypeOK
<1>14. ASSUME NEW t \in Threads, CollectChild(t)
      PROVE  TypeOK'
  <2>1. index' = [index EXCEPT ![t] = index[t] - 1]
    BY <1>14, Zenon DEF CollectChild
  <2>2. index' \in [Threads -> Int]
    BY <2>1 DEF TypeOK
  <2>3. CASE IsFinished(JoinedChild(t))
    <3>1. /\ childThreads' = [childThreads EXCEPT ![t] = RemoveAt(childThreads[t], index[t])]
          /\ DeleteThread(JoinedChild(t))
      BY <1>14, <2>3, Zenon DEF CollectChild, JoinedChild
    <3>2. index[t] \in 1 .. Len(childThreads[t])
      BY <1>14 DEF CollectChild, IndexInv, IndexOK, TypeOK
    <3>3. RemoveAt(childThreads[t], index[t]) \in Seq(Threads)
      BY <3>2, RemoveAtFacts DEF TypeOK
    <3>4. childThreads' \in [Threads -> Seq(Threads)]
      BY <3>1, <3>3 DEF TypeOK
    <3>5. QED
      BY <1>14, <2>2, <3>1, <3>4, DeleteThreadType DEF CollectChild, TypeOK
  <2>4. CASE ~IsFinished(JoinedChild(t))
    <3>1. UNCHANGED <<qthread, childThreads, pipe, queue>>
      BY <1>14, <2>4, Zenon DEF CollectChild, JoinedChild
    <3>2. QED
      BY <1>14, <2>2, <3>1 DEF CollectChild, TypeOK
  <2>5. QED
    BY <2>3, <2>4
<1>15. ASSUME NEW t \in Threads, CollectReturn(t)
      PROVE  TypeOK'
  <2>1. LoopTest(t) \/ (pc' = [pc EXCEPT ![t] = ret[t]] /\ index' = index)
    BY <1>15, Zenon DEF CollectReturn
  <2>2. pc' \in [Threads -> Locs] /\ index' \in [Threads -> Int]
    BY <2>1, LoopTestType DEF TypeOK
  <2>3. QED
    BY <1>15, <2>2 DEF CollectReturn, TypeOK
<1>16. ASSUME NEW t \in Threads, DequeueAll(t)
      PROVE  TypeOK'
  <2>1. queue' \in [Threads -> Seq(Message)] /\ batch' \in [Threads -> Seq(Message)]
    BY <1>16 DEF DequeueAll, TypeOK
  <2>2. QED
    BY <1>16, <2>1 DEF DequeueAll, TypeOK
<1>17. ASSUME NEW t \in Threads, ProcessMessage(t)
      PROVE  TypeOK'
  <2>1. Head(batch[t]) \in Message /\ Tail(batch[t]) \in Seq(Message)
    BY <1>17 DEF ProcessMessage, TypeOK
  <2>2. QED
    BY <1>17, <2>1 DEF ProcessMessage, TypeOK
<1>18. ASSUME NEW t \in Threads, ProcessMessagesReturn(t)
      PROVE  TypeOK'
  BY <1>18 DEF ProcessMessagesReturn, TypeOK
<1>19. ASSUME NEW t \in Threads, JoinChild(t)
      PROVE  TypeOK'
  <2>1. JoinedChild(t) \in Threads
    <3>1. index[t] \in 1 .. Len(childThreads[t])
      BY <1>19 DEF JoinChild, JoinTurn, IndexInv, IndexOK, Joining, TypeOK
    <3>2. QED
      BY <3>1 DEF JoinedChild, TypeOK
  <2>2. pipe' \in [Threads -> Seq(ThreadSignals)] /\ \A u \in Threads : Len(pipe'[u]) <= PipeCapacity
    BY <1>19, <2>1, SendSignalType DEF JoinChild, ThreadSignals
  <2>3. QED
    BY <1>19, <2>1, <2>2 DEF JoinChild, TypeOK
<1>20. ASSUME NEW t \in Threads, JoinBusyWait(t)
      PROVE  TypeOK'
  BY <1>20 DEF JoinBusyWait, CallProcessMessages, TypeOK
<1>21. ASSUME NEW t \in Threads, JoinFinished(t)
      PROVE  TypeOK'
  BY <1>21 DEF JoinFinished, CallProcessMessages, TypeOK
<1>22. ASSUME NEW t \in Threads, JoinDone(t)
      PROVE  TypeOK'
  BY <1>22 DEF JoinDone, TypeOK
<1>23. ASSUME NEW t \in Threads, DeleteChild(t)
      PROVE  TypeOK'
  <2>1. DeleteThread(JoinedChild(t))
    BY <1>23 DEF DeleteChild, JoinedChild
  <2>2. /\ qthread' \in [Threads -> {"new", "running", "finished", "deleted"}]
        /\ pipe' \in [Threads -> Seq(ThreadSignals)]
        /\ \A u \in Threads : Len(pipe'[u]) <= PipeCapacity
        /\ queue' \in [Threads -> Seq(Message)]
    BY <2>1, DeleteThreadType
  <2>3. index' \in [Threads -> Int]
    <3>1. index' = [index EXCEPT ![t] = index[t] - 1]
      BY <1>23, Zenon DEF DeleteChild
    <3>2. QED
      BY <3>1 DEF TypeOK
  <2>4. QED
    BY <1>23, <2>2, <2>3 DEF DeleteChild, TypeOK
<1>24. ASSUME NEW t \in Threads, DeleteDone(t)
      PROVE  TypeOK'
  BY <1>24 DEF DeleteDone, CallProcessMessages, TypeOK
<1>25. ASSUME NEW t \in Threads, NotifyParent(t)
      PROVE  TypeOK'
  <2>1. pipe' \in [Threads -> Seq(ThreadSignals)] /\ \A u \in Threads : Len(pipe'[u]) <= PipeCapacity
    BY <1>25, SendSignalType, TreeAssumption DEF NotifyParent, ThreadSignals, TypeOK
  <2>2. QED
    BY <1>25, <2>1 DEF NotifyParent, TypeOK
<1>26. ASSUME NEW t \in Threads, RunReturn(t)
      PROVE  TypeOK'
  BY <1>26 DEF RunReturn, TypeOK
<1>27. ASSUME App
      PROVE  TypeOK'
  <2>1. ASSUME AppPostTerminate
        PROVE  TypeOK'
    <3>1. pipe' \in [Threads -> Seq(ThreadSignals)] /\ \A u \in Threads : Len(pipe'[u]) <= PipeCapacity
      BY <2>1, SendSignalType, TreeAssumption DEF AppPostTerminate, ThreadSignals
    <3>2. QED
      BY <2>1, <3>1 DEF AppPostTerminate, TypeOK
  <2>2. CASE AppStart
    BY <2>2, TreeAssumption DEF AppStart, StartThread, TypeOK
  <2>3. CASE AppStop
    <3>1. app' \in {"stopping", "stopped"}
      BY <2>3, Zenon DEF AppStop
    <3>2. QED
      BY <2>3, <3>1 DEF AppStop, TypeOK
  <2>4. CASE AppStopped
    BY <2>4 DEF AppStopped, TypeOK
  <2>5. QED
    BY <1>27, <2>1, <2>2, <2>3, <2>4 DEF App
<1>28. CASE UNCHANGED vars
  BY <1>28 DEF vars, TypeOK
<1>29. QED
  BY <1>1, <1>2, <1>3, <1>4, <1>5, <1>6, <1>7, <1>8, <1>9, <1>10, <1>11, <1>12, <1>13, <1>14,
     <1>15, <1>16, <1>17, <1>18, <1>19, <1>20, <1>21, <1>22, <1>23, <1>24, <1>25, <1>26, <1>27,
     <1>28
     DEF Next, Step, Callback, Done

(* A step that changes only where t is, and leaves the lists alone, keeps  *)
(* every index that is in use inside its list, if it keeps t's.            *)
LEMMA IndexStep ==
  ASSUME TypeOK, IndexInv, NEW t \in Threads, childThreads' = childThreads,
         \A u \in Threads : u # t => pc'[u] = pc[u] /\ ret'[u] = ret[u] /\ index'[u] = index[u],
         IndexOK(t)'
  PROVE  IndexInv'
BY DEF IndexInv, IndexOK, Joining, Deleting, HandlesMessages

LEMMA LoopTestIndex ==
  ASSUME TypeOK, IndexInv, NEW t \in Threads, LoopTest(t), childThreads' = childThreads,
         \A u \in Threads : u # t => ret'[u] = ret[u]
  PROVE  IndexInv'
<1>1. CASE isTerminated[t]
  <2>1. /\ pc' = [pc EXCEPT ![t] = "join"]
        /\ index' = [index EXCEPT ![t] = Len(childThreads[t])]
    BY <1>1, Zenon DEF LoopTest, Goto
  <2>2. Len(childThreads[t]) \in Nat
    BY DEF TypeOK
  <2>3. IndexOK(t)'
    BY <2>1, <2>2 DEF IndexOK, TypeOK
  <2>4. QED
    BY <2>1, <2>3, IndexStep DEF TypeOK
<1>2. CASE ~isTerminated[t]
  <2>1. pc' = [pc EXCEPT ![t] = "waiting"] /\ index' = index
    BY <1>2, Zenon DEF LoopTest, Goto
  <2>2. IndexOK(t)'
    BY <2>1 DEF IndexOK, Joining, Deleting, HandlesMessages, TypeOK
  <2>3. QED
    BY <2>1, <2>2, IndexStep DEF TypeOK
<1>3. QED
  BY <1>1, <1>2

(* An index in use stays inside its list: only the owner of a list makes   *)
(* it shorter, and it does so where its index is above the removed place.  *)
LEMMA StepIndexInv == TypeOK /\ IndexInv /\ [Next]_vars => IndexInv'
<1> SUFFICES ASSUME TypeOK, IndexInv, [Next]_vars
             PROVE  IndexInv'
  OBVIOUS
<1> USE DEF At, Goto, threadVars, mailVars
<1>a. \A t \in Threads : Len(childThreads[t]) \in Nat
  BY DEF TypeOK
<1>1. ASSUME NEW t \in Threads, ProcessMessageReturn(t)
      PROVE  IndexInv'
  <2>1. /\ childThreads' = childThreads
        /\ \A u \in Threads : u # t => pc'[u] = pc[u] /\ ret'[u] = ret[u] /\ index'[u] = index[u]
    BY <1>1 DEF ProcessMessageReturn, TypeOK
  <2>2. IndexOK(t)'
    BY <1>1, <1>a DEF ProcessMessageReturn, TypeOK, IndexInv, IndexOK, Joining, Deleting, HandlesMessages
  <2>3. QED
    BY <2>1, <2>2, IndexStep
<1>2. ASSUME NEW t \in Threads, SlotTerminateThread(t)
      PROVE  IndexInv'
  <2>1. /\ childThreads' = childThreads
        /\ \A u \in Threads : u # t => pc'[u] = pc[u] /\ ret'[u] = ret[u] /\ index'[u] = index[u]
    BY <1>2 DEF SlotTerminateThread, ReceiveSignal, TypeOK
  <2>2. IndexOK(t)'
    BY <1>2, <1>a DEF SlotTerminateThread, ReceiveSignal, TypeOK, IndexInv, IndexOK, Joining, Deleting, HandlesMessages
  <2>3. QED
    BY <2>1, <2>2, IndexStep
<1>3. ASSUME NEW t \in Threads, SlotWakeUpThread(t)
      PROVE  IndexInv'
  <2>1. /\ childThreads' = childThreads
        /\ \A u \in Threads : u # t => pc'[u] = pc[u] /\ ret'[u] = ret[u] /\ index'[u] = index[u]
    BY <1>3 DEF SlotWakeUpThread, ReceiveSignal, CallProcessMessages, TypeOK
  <2>2. IndexOK(t)'
    BY <1>3, <1>a DEF SlotWakeUpThread, ReceiveSignal, CallProcessMessages, TypeOK, IndexInv, IndexOK, Joining, Deleting, HandlesMessages
  <2>3. QED
    BY <2>1, <2>2, IndexStep
<1>4. ASSUME NEW t \in Threads, SlotTerminateChildThreads(t)
      PROVE  IndexInv'
  <2>1. /\ childThreads' = childThreads
        /\ \A u \in Threads : u # t => pc'[u] = pc[u] /\ ret'[u] = ret[u] /\ index'[u] = index[u]
    BY <1>4 DEF SlotTerminateChildThreads, ReceiveSignal, CallDestroyTerminatedChildThreads, TypeOK
  <2>2. IndexOK(t)'
    BY <1>4, <1>a DEF SlotTerminateChildThreads, ReceiveSignal, CallDestroyTerminatedChildThreads, TypeOK, IndexInv, IndexOK, Joining, Deleting, HandlesMessages
  <2>3. QED
    BY <2>1, <2>2, IndexStep
<1>5. ASSUME NEW t \in Threads, CollectDue(t)
      PROVE  IndexInv'
  <2>1. /\ childThreads' = childThreads
        /\ \A u \in Threads : u # t => pc'[u] = pc[u] /\ ret'[u] = ret[u] /\ index'[u] = index[u]
    BY <1>5 DEF CollectDue, CallDestroyTerminatedChildThreads, TypeOK
  <2>2. IndexOK(t)'
    BY <1>5, <1>a DEF CollectDue, CallDestroyTerminatedChildThreads, TypeOK, IndexInv, IndexOK, Joining, Deleting, HandlesMessages
  <2>3. QED
    BY <2>1, <2>2, IndexStep
<1>6. ASSUME NEW t \in Threads, PollOther(t)
      PROVE  IndexInv'
  <2>1. /\ childThreads' = childThreads
        /\ \A u \in Threads : u # t => pc'[u] = pc[u] /\ ret'[u] = ret[u] /\ index'[u] = index[u]
    BY <1>6 DEF PollOther, TypeOK
  <2>2. IndexOK(t)'
    BY <1>6, <1>a DEF PollOther, TypeOK, IndexInv, IndexOK, Joining, Deleting, HandlesMessages
  <2>3. QED
    BY <2>1, <2>2, IndexStep
<1>7. ASSUME NEW t \in Threads, DequeueAll(t)
      PROVE  IndexInv'
  <2>1. /\ childThreads' = childThreads
        /\ \A u \in Threads : u # t => pc'[u] = pc[u] /\ ret'[u] = ret[u] /\ index'[u] = index[u]
    BY <1>7 DEF DequeueAll, TypeOK
  <2>2. IndexOK(t)'
    BY <1>7, <1>a DEF DequeueAll, TypeOK, IndexInv, IndexOK, Joining, Deleting, HandlesMessages
  <2>3. QED
    BY <2>1, <2>2, IndexStep
<1>8. ASSUME NEW t \in Threads, ProcessMessage(t)
      PROVE  IndexInv'
  <2>1. /\ childThreads' = childThreads
        /\ \A u \in Threads : u # t => pc'[u] = pc[u] /\ ret'[u] = ret[u] /\ index'[u] = index[u]
    BY <1>8 DEF ProcessMessage, TypeOK
  <2>2. IndexOK(t)'
    BY <1>8, <1>a DEF ProcessMessage, TypeOK, IndexInv, IndexOK, Joining, Deleting, HandlesMessages
  <2>3. QED
    BY <2>1, <2>2, IndexStep
<1>9. ASSUME NEW t \in Threads, ProcessMessagesReturn(t)
      PROVE  IndexInv'
  <2>1. /\ childThreads' = childThreads
        /\ \A u \in Threads : u # t => pc'[u] = pc[u] /\ ret'[u] = ret[u] /\ index'[u] = index[u]
    BY <1>9 DEF ProcessMessagesReturn, TypeOK
  <2>2. IndexOK(t)'
    BY <1>9, <1>a DEF ProcessMessagesReturn, ReturnLocs, TypeOK, IndexInv, IndexOK, Joining, Deleting, HandlesMessages
  <2>3. QED
    BY <2>1, <2>2, IndexStep
<1>10. ASSUME NEW t \in Threads, JoinChild(t)
      PROVE  IndexInv'
  <2>1. /\ childThreads' = childThreads
        /\ \A u \in Threads : u # t => pc'[u] = pc[u] /\ ret'[u] = ret[u] /\ index'[u] = index[u]
    BY <1>10 DEF JoinChild, JoinTurn, TypeOK
  <2>2. IndexOK(t)'
    BY <1>10, <1>a DEF JoinChild, JoinTurn, TypeOK, IndexInv, IndexOK, Joining, Deleting, HandlesMessages
  <2>3. QED
    BY <2>1, <2>2, IndexStep
<1>11. ASSUME NEW t \in Threads, JoinBusyWait(t)
      PROVE  IndexInv'
  <2>1. /\ childThreads' = childThreads
        /\ \A u \in Threads : u # t => pc'[u] = pc[u] /\ ret'[u] = ret[u] /\ index'[u] = index[u]
    BY <1>11 DEF JoinBusyWait, CallProcessMessages, TypeOK
  <2>2. IndexOK(t)'
    BY <1>11, <1>a DEF JoinBusyWait, CallProcessMessages, TypeOK, IndexInv, IndexOK, Joining, Deleting, HandlesMessages
  <2>3. QED
    BY <2>1, <2>2, IndexStep
<1>12. ASSUME NEW t \in Threads, JoinFinished(t)
      PROVE  IndexInv'
  <2>1. /\ childThreads' = childThreads
        /\ \A u \in Threads : u # t => pc'[u] = pc[u] /\ ret'[u] = ret[u] /\ index'[u] = index[u]
    BY <1>12 DEF JoinFinished, JoinTurn, CallProcessMessages, TypeOK
  <2>2. IndexOK(t)'
    BY <1>12, <1>a DEF JoinFinished, JoinTurn, CallProcessMessages, TypeOK, IndexInv, IndexOK, Joining, Deleting, HandlesMessages
  <2>3. QED
    BY <2>1, <2>2, IndexStep
<1>13. ASSUME NEW t \in Threads, JoinDone(t)
      PROVE  IndexInv'
  <2>1. /\ childThreads' = childThreads
        /\ \A u \in Threads : u # t => pc'[u] = pc[u] /\ ret'[u] = ret[u] /\ index'[u] = index[u]
    BY <1>13 DEF JoinDone, TypeOK
  <2>2. IndexOK(t)'
    BY <1>13, <1>a DEF JoinDone, TypeOK, IndexInv, IndexOK, Joining, Deleting, HandlesMessages
  <2>3. QED
    BY <2>1, <2>2, IndexStep
<1>14. ASSUME NEW t \in Threads, DeleteChild(t)
      PROVE  IndexInv'
  <2>1. /\ childThreads' = childThreads
        /\ \A u \in Threads : u # t => pc'[u] = pc[u] /\ ret'[u] = ret[u] /\ index'[u] = index[u]
    BY <1>14 DEF DeleteChild, TypeOK
  <2>2. IndexOK(t)'
    BY <1>14, <1>a DEF DeleteChild, TypeOK, IndexInv, IndexOK, Joining, Deleting, HandlesMessages
  <2>3. QED
    BY <2>1, <2>2, IndexStep
<1>15. ASSUME NEW t \in Threads, DeleteDone(t)
      PROVE  IndexInv'
  <2>1. /\ childThreads' = childThreads
        /\ \A u \in Threads : u # t => pc'[u] = pc[u] /\ ret'[u] = ret[u] /\ index'[u] = index[u]
    BY <1>15 DEF DeleteDone, CallProcessMessages, TypeOK
  <2>2. IndexOK(t)'
    BY <1>15, <1>a DEF DeleteDone, CallProcessMessages, TypeOK, IndexInv, IndexOK, Joining, Deleting, HandlesMessages
  <2>3. QED
    BY <2>1, <2>2, IndexStep
<1>16. ASSUME NEW t \in Threads, NotifyParent(t)
      PROVE  IndexInv'
  <2>1. /\ childThreads' = childThreads
        /\ \A u \in Threads : u # t => pc'[u] = pc[u] /\ ret'[u] = ret[u] /\ index'[u] = index[u]
    BY <1>16 DEF NotifyParent, TypeOK
  <2>2. IndexOK(t)'
    BY <1>16, <1>a DEF NotifyParent, TypeOK, IndexInv, IndexOK, Joining, Deleting, HandlesMessages
  <2>3. QED
    BY <2>1, <2>2, IndexStep
<1>17. ASSUME NEW t \in Threads, RunReturn(t)
      PROVE  IndexInv'
  <2>1. /\ childThreads' = childThreads
        /\ \A u \in Threads : u # t => pc'[u] = pc[u] /\ ret'[u] = ret[u] /\ index'[u] = index[u]
    BY <1>17 DEF RunReturn, TypeOK
  <2>2. IndexOK(t)'
    BY <1>17, <1>a DEF RunReturn, TypeOK, IndexInv, IndexOK, Joining, Deleting, HandlesMessages
  <2>3. QED
    BY <2>1, <2>2, IndexStep
<1>18. ASSUME NEW t \in Threads, SignalEventWakeUp(t)
      PROVE  IndexInv'
  <2>1. /\ childThreads' = childThreads
        /\ \A u \in Threads : u # t => pc'[u] = pc[u] /\ ret'[u] = ret[u] /\ index'[u] = index[u]
    BY <1>18 DEF SignalEventWakeUp, TypeOK
  <2>2. IndexOK(t)'
    BY <1>18, <1>a DEF SignalEventWakeUp, TypeOK, IndexInv, IndexOK, Joining, Deleting, HandlesMessages
  <2>3. QED
    BY <2>1, <2>2, IndexStep
<1>19. ASSUME NEW t \in Threads, TerminateThread(t)
      PROVE  IndexInv'
  <2>1. /\ childThreads' = childThreads
        /\ \A u \in Threads : u # t => pc'[u] = pc[u] /\ ret'[u] = ret[u] /\ index'[u] = index[u]
    BY <1>19 DEF TerminateThread, TypeOK
  <2>2. IndexOK(t)'
    BY <1>19, <1>a DEF TerminateThread, TypeOK, IndexInv, IndexOK, Joining, Deleting, HandlesMessages
  <2>3. QED
    BY <2>1, <2>2, IndexStep
<1>20. ASSUME NEW t \in Threads, StartedReturn(t)
      PROVE  IndexInv'
  BY <1>20, LoopTestIndex DEF StartedReturn
<1>21. ASSUME NEW t \in Threads, CollectNotDue(t)
      PROVE  IndexInv'
  BY <1>21, LoopTestIndex DEF CollectNotDue
<1>22. ASSUME NEW t \in Threads, CollectReturn(t)
      PROVE  IndexInv'
  <2>1. LoopTest(t) \/ (pc' = [pc EXCEPT ![t] = ret[t]] /\ index' = index)
    BY <1>22, Zenon DEF CollectReturn
  <2>2. childThreads' = childThreads /\ index[t] = 0 /\ ret' = [ret EXCEPT ![t] = "none"]
    BY <1>22, Zenon DEF CollectReturn
  <2>3. \A u \in Threads : u # t => ret'[u] = ret[u]
    BY <2>2 DEF TypeOK
  <2>4. CASE LoopTest(t)
    BY <2>2, <2>3, <2>4, LoopTestIndex
  <2>5. CASE pc' = [pc EXCEPT ![t] = ret[t]] /\ index' = index
    <3>1. IndexOK(t)'
      BY <1>a, <2>2, <2>5 DEF IndexOK
    <3>2. QED
      BY <2>2, <2>3, <2>5, <3>1, IndexStep DEF TypeOK
  <2>6. QED
    BY <2>1, <2>4, <2>5
<1>23. ASSUME NEW t \in Threads, CollectChild(t)
      PROVE  IndexInv'
  <2>1. index' = [index EXCEPT ![t] = index[t] - 1] /\ pc' = pc /\ ret' = ret /\ index[t] > 0 /\ pc[t] = "collect"
    BY <1>23, Zenon DEF CollectChild
  <2>2. index[t] \in 1 .. Len(childThreads[t])
    BY <2>1 DEF IndexInv, IndexOK, TypeOK
  <2>3. index'[t] = index[t] - 1 /\ \A u \in Threads : u # t => index'[u] = index[u]
    BY <2>1 DEF TypeOK
  <2>4. \/ childThreads' = childThreads
        \/ childThreads' = [childThreads EXCEPT ![t] = RemoveAt(childThreads[t], index[t])]
    BY <1>23, Zenon DEF CollectChild
  <2>5. Len(RemoveAt(childThreads[t], index[t])) = Len(childThreads[t]) - 1
    <3>1. childThreads[t] \in Seq(Threads)
      BY DEF TypeOK
    <3>2. QED
      BY <2>2, <3>1, RemoveAtFacts
  <2>6. /\ \/ childThreads'[t] = childThreads[t]
           \/ childThreads'[t] = RemoveAt(childThreads[t], index[t])
        /\ \A u \in Threads : u # t => childThreads'[u] = childThreads[u]
    BY <2>4 DEF TypeOK
  <2>7. IndexOK(t)'
    <3>1. Len(childThreads'[t]) \in {Len(childThreads[t]), Len(childThreads[t]) - 1}
      BY <2>5, <2>6
    <3>2. QED
      BY <2>2, <2>3, <3>1, <1>a DEF IndexOK
  <2>8. ASSUME NEW u \in Threads, u # t
        PROVE  IndexOK(u)'
    BY <2>1, <2>3, <2>6, <2>8 DEF IndexInv, IndexOK, Joining, Deleting, HandlesMessages
  <2>9. QED
    BY <2>7, <2>8 DEF IndexInv
<1>24. ASSUME NEW t \in Threads, NEW c \in Threads, RegisterAndStartChildThread(t, c)
      PROVE  IndexInv'
  <2>1. /\ childThreads' = [childThreads EXCEPT ![t] = Append(childThreads[t], c)]
        /\ pc' = [pc EXCEPT ![c] = "started"] /\ ret' = ret /\ index' = index
    BY <1>24 DEF RegisterAndStartChildThread, StartThread
  <2>2. \A u \in Threads : Len(childThreads'[u]) \in Nat /\ Len(childThreads'[u]) >= Len(childThreads[u])
    <3>1. ASSUME NEW u \in Threads
          PROVE  Len(childThreads'[u]) \in Nat /\ Len(childThreads'[u]) >= Len(childThreads[u])
      <4>1. childThreads \in [Threads -> Seq(Threads)]
        BY DEF TypeOK
      <4>2. CASE u = t
        <5>1. childThreads'[u] = Append(childThreads[u], c)
          BY <2>1, <4>1, <4>2
        <5>2. QED
          BY <4>1, <5>1
      <4>3. CASE u # t
        BY <2>1, <4>1, <4>3
      <4>4. QED
        BY <4>2, <4>3
    <3>2. QED
      BY <3>1
  <2>3. ASSUME NEW u \in Threads
        PROVE  IndexOK(u)'
    <3>1. CASE u = c
      BY <2>1, <3>1 DEF IndexOK, Joining, Deleting, HandlesMessages, TypeOK
    <3>2. CASE u # c
      <4>1. pc'[u] = pc[u] /\ ret'[u] = ret[u] /\ index'[u] = index[u] /\ index[u] \in Int
        BY <2>1, <3>2 DEF TypeOK
      <4>2. IndexOK(u)
        BY DEF IndexInv
      <4>3. QED
        BY <1>a, <2>2, <4>1, <4>2 DEF IndexOK, Joining, Deleting, HandlesMessages
    <3>3. QED
      BY <3>1, <3>2
  <2>4. QED
    BY <2>3 DEF IndexInv
<1>25. ASSUME AppStart
      PROVE  IndexInv'
  <2>1. /\ childThreads' = childThreads
        /\ \A u \in Threads : u # Root => pc'[u] = pc[u] /\ ret'[u] = ret[u] /\ index'[u] = index[u]
    BY <1>25 DEF AppStart, StartThread, TypeOK
  <2>2. IndexOK(Root)'
    BY <1>25, TreeAssumption DEF AppStart, StartThread, IndexOK, Joining, Deleting, HandlesMessages, TypeOK
  <2>3. QED
    BY <2>1, <2>2, TreeAssumption, IndexStep
<1>26. ASSUME UNCHANGED <<pc, ret, index, childThreads>>
      PROVE  IndexInv'
  BY <1>26 DEF IndexInv, IndexOK, Joining, Deleting, HandlesMessages
<1>27. ASSUME NEW t \in Threads, NEW u \in Threads, PostMessage(t, u) \/ StopChild(t, u)
      PROVE  UNCHANGED <<pc, ret, index, childThreads>>
  BY <1>27 DEF PostMessage, StopChild
<1>28. ASSUME AppStop \/ AppPostTerminate \/ AppStopped \/ UNCHANGED vars
      PROVE  UNCHANGED <<pc, ret, index, childThreads>>
  BY <1>28 DEF AppStop, AppPostTerminate, AppStopped, vars
<1>29. QED
  BY <1>1, <1>2, <1>3, <1>4, <1>5, <1>6, <1>7, <1>8, <1>9, <1>10, <1>11, <1>12, <1>13, <1>14, <1>15, <1>16, <1>17, <1>18, <1>19, <1>20, <1>21, <1>22, <1>23, <1>24, <1>25, <1>26, <1>27, <1>28
     DEF Next, Step, Callback, App, Done

(* Every variable keeps its type, in every tree, and the loops over        *)
(* _childThreadsList never leave it.                                       *)
THEOREM TypeCorrect == Spec => [](TypeOK /\ IndexInv)
<1>1. Init => TypeOK /\ IndexInv
  <2>1. Init => IndexInv
    BY DEF Init, IndexInv, IndexOK, Joining, Deleting, HandlesMessages
  <2>2. QED
    BY <2>1, InitTypeOK
<1>2. (TypeOK /\ IndexInv) /\ [Next]_vars => (TypeOK /\ IndexInv)'
  BY StepTypeOK, StepIndexInv
<1>3. QED
  BY <1>1, <1>2, PTL DEF Spec

(***************************************************************************)
(* The life of the threads: the inductive invariant LifeInv, and from it   *)
(* ShutdownOrder, NoUseAfterDelete and the refinement of ThreadTree.       *)
(***************************************************************************)
USE DEF Goto, At, mailVars, threadVars

(* A step of t that changes only where t is.                               *)
MovesTo(t, loc, r, i) ==
  /\ pc' = [pc EXCEPT ![t] = loc]
  /\ ret' = [ret EXCEPT ![t] = r]
  /\ index' = [index EXCEPT ![t] = i]
  /\ UNCHANGED <<qthread, childThreads, signalTo>>

(* It does not concern the other threads, and of t's own invariant three   *)
(* parts are left to show.                                                 *)
LEMMA LocalStep ==
  ASSUME TypeOK, LifeInv, NEW t \in Threads, NEW loc, NEW r, NEW i,
         MovesTo(t, loc, r, i), signalTo[t] = Nobody,
         IndexOK(t)', ControlOK(t)', StageOK(t)'
  PROVE  LifeInv'
<1>1. ASSUME NEW u \in Threads, u # t
      PROVE  ThreadOK(u)'
  <2>1. /\ pc'[u] = pc[u] /\ ret'[u] = ret[u] /\ index'[u] = index[u]
        /\ qthread' = qthread /\ childThreads' = childThreads /\ signalTo' = signalTo
    BY <1>1 DEF TypeOK, MovesTo
  <2>2. ThreadOK(u)
    BY DEF LifeInv
  <2>3. IndexOK(u)' /\ ControlOK(u)' /\ ListOK(u)' /\ Registered(u)' 
    BY <2>1, <2>2 DEF ThreadOK, IndexOK, ControlOK, ListOK, Registered, HandlesMessages, Joining, Deleting
  <2>4. StageOK(u)'
    BY <2>1, <2>2 DEF ThreadOK, StageOK, HandlesMessages, Joining, Deleting, Drained, IsFinished
  <2>5. SignalOK(u)'
    BY <2>1, <2>2 DEF ThreadOK, SignalOK, HandlesMessages, Drained
  <2>6. QED
    BY <2>3, <2>4, <2>5 DEF ThreadOK
<1>2. ThreadOK(t)'
  <2>1. ThreadOK(t) /\ qthread' = qthread /\ childThreads' = childThreads /\ signalTo' = signalTo
    BY DEF LifeInv, MovesTo
  <2>2. ListOK(t)'
    BY <2>1 DEF ThreadOK, ListOK
  <2>3. Registered(t)'
    BY <2>1 DEF ThreadOK, Registered
  <2>4. SignalOK(t)'
    BY <2>1 DEF SignalOK
  <2>5. QED
    BY <2>2, <2>3, <2>4 DEF ThreadOK
<1>3. QED
  BY <1>1, <1>2 DEF LifeInv

(* The loop test is such a step, to one of two places.                     *)
LEMMA LoopTestMoves ==
  ASSUME TypeOK, NEW t \in Threads, LoopTest(t), UNCHANGED <<qthread, childThreads, signalTo>>,
         NEW r, ret' = [ret EXCEPT ![t] = r]
  PROVE  \/ MovesTo(t, "waiting", r, index[t])
         \/ MovesTo(t, "join", r, Len(childThreads[t]))
<1>1. CASE isTerminated[t]
  <2>1. pc' = [pc EXCEPT ![t] = "join"] /\ index' = [index EXCEPT ![t] = Len(childThreads[t])]
    BY <1>1, Zenon DEF LoopTest, Goto
  <2>2. QED
    BY <2>1 DEF MovesTo
<1>2. CASE ~isTerminated[t]
  <2>1. pc' = [pc EXCEPT ![t] = "waiting"] /\ index' = index
    BY <1>2, Zenon DEF LoopTest, Goto
  <2>2. index = [index EXCEPT ![t] = index[t]]
    BY DEF TypeOK
  <2>3. QED
    BY <2>1, <2>2, Zenon DEF MovesTo
<1>3. QED
  BY <1>1, <1>2

(* Where it is made, it keeps the invariant.                               *)
LEMMA LoopTestOK ==
  ASSUME TypeOK, LifeInv, NEW t \in Threads, LoopTest(t),
         UNCHANGED <<qthread, childThreads, signalTo>>, signalTo[t] = Nobody,
         NEW r, ret' = [ret EXCEPT ![t] = r],
         pc[t] \in {"started", "events", "collect"}
  PROVE  LifeInv'
<1>1. CASE MovesTo(t, "waiting", r, index[t])
  <2>1. /\ pc'[t] = "waiting" /\ ret'[t] = r /\ index'[t] = index[t]
        /\ qthread' = qthread /\ childThreads' = childThreads
    BY <1>1 DEF MovesTo, TypeOK
  <2>2. ThreadOK(t)
    BY DEF LifeInv
  <2>3. IndexOK(t)' /\ ControlOK(t)'
    BY <2>1, <2>2 DEF ThreadOK, IndexOK, ControlOK, HandlesMessages, Joining, Deleting
  <2>4. StageOK(t)'
    BY <2>1, <2>2 DEF ThreadOK, StageOK, HandlesMessages, Joining, Deleting, Drained, IsFinished
  <2>5. QED
    BY <1>1, <2>3, <2>4, LocalStep
<1>2. CASE MovesTo(t, "join", r, Len(childThreads[t]))
  <2>1. /\ pc'[t] = "join" /\ ret'[t] = r /\ index'[t] = Len(childThreads[t])
        /\ qthread' = qthread /\ childThreads' = childThreads
    BY <1>2 DEF MovesTo, TypeOK
  <2>2. ThreadOK(t)
    BY DEF LifeInv
  <2>3. Len(childThreads[t]) \in Nat
    BY DEF TypeOK
  <2>4. IndexOK(t)' /\ ControlOK(t)'
    BY <2>1, <2>2, <2>3 DEF ThreadOK, IndexOK, ControlOK, HandlesMessages, Joining, Deleting
  <2>5. StageOK(t)'
    BY <2>1, <2>2, <2>3 DEF ThreadOK, StageOK, HandlesMessages, Joining, Deleting, Drained, IsFinished
  <2>6. QED
    BY <1>2, <2>4, <2>5, LocalStep
<1>3. QED
  BY <1>1, <1>2, LoopTestMoves

(* A place that a step does not change, as an update.                      *)
LEMMA KeepsPlace ==
  ASSUME TypeOK, NEW t \in Threads
  PROVE  /\ pc = [pc EXCEPT ![t] = pc[t]]
         /\ ret = [ret EXCEPT ![t] = ret[t]]
         /\ index = [index EXCEPT ![t] = index[t]]
BY DEF TypeOK

(* Outside a callback nothing is left to signal.                           *)
LEMMA NothingToSignal ==
  ASSUME LifeInv, NEW t \in Threads,
         pc[t] \notin {"started", "waiting", "events", "handling"}
  PROVE  signalTo[t] = Nobody
BY DEF LifeInv, ThreadOK, SignalOK, CallbackLocs

(* The steps of a thread that change only where it is, one by one.         *)
LEMMA LocalSteps ==
  ASSUME TypeOK, LifeInv, NEW t \in Threads,
         \/ StartedReturn(t) \/ ProcessMessageReturn(t) \/ CollectNotDue(t) \/ CollectDue(t)
         \/ SlotTerminateThread(t) \/ SlotWakeUpThread(t) \/ SlotTerminateChildThreads(t)
         \/ PollOther(t) \/ CollectReturn(t)
         \/ DequeueAll(t) \/ ProcessMessage(t) \/ ProcessMessagesReturn(t)
         \/ JoinChild(t) \/ JoinBusyWait(t) \/ JoinFinished(t) \/ JoinDone(t)
         \/ DeleteDone(t) \/ NotifyParent(t)
  PROVE  LifeInv'
<1>a. Len(childThreads[t]) \in Nat /\ index[t] \in Int
  BY DEF TypeOK
<1>b. ThreadOK(t)
  BY DEF LifeInv
<1>1. ASSUME StartedReturn(t)
       PROVE  LifeInv'
  BY <1>1, LoopTestOK, KeepsPlace DEF StartedReturn, InCallback
<1>2. ASSUME ProcessMessageReturn(t)
       PROVE  LifeInv'
  <2>1. MovesTo(t, "batch", ret[t], index[t])
    BY <1>2, KeepsPlace DEF ProcessMessageReturn, MovesTo
  <2>2. signalTo[t] = Nobody
    BY <1>2 DEF ProcessMessageReturn, InCallback
  <2>3. /\ pc'[t] = "batch" /\ ret'[t] = ret[t] /\ index'[t] = index[t]
        /\ qthread' = qthread /\ childThreads' = childThreads
    BY <2>1 DEF MovesTo, TypeOK
  <2>4. IndexOK(t)' /\ ControlOK(t)'
    BY <1>2, <2>3, <1>a, <1>b DEF ProcessMessageReturn, ThreadOK, IndexOK, ControlOK, HandlesMessages, Joining, Deleting
  <2>5. StageOK(t)'
    BY <1>2, <2>3, <1>a, <1>b
    DEF ProcessMessageReturn, ThreadOK, ControlOK, StageOK, HandlesMessages, Joining, Deleting, Drained, IsFinished
  <2>6. QED
    BY <2>1, <2>2, <2>4, <2>5, LocalStep
<1>3. ASSUME CollectNotDue(t)
       PROVE  LifeInv'
  BY <1>3, LoopTestOK, KeepsPlace DEF CollectNotDue, InCallback
<1>4. ASSUME CollectDue(t)
       PROVE  LifeInv'
  <2>1. MovesTo(t, "collect", "loop", Len(childThreads[t]))
    BY <1>4, KeepsPlace DEF CollectDue, CallDestroyTerminatedChildThreads, MovesTo
  <2>2. signalTo[t] = Nobody
    BY <1>4 DEF CollectDue, CallDestroyTerminatedChildThreads, InCallback
  <2>3. /\ pc'[t] = "collect" /\ ret'[t] = "loop" /\ index'[t] = Len(childThreads[t])
        /\ qthread' = qthread /\ childThreads' = childThreads
    BY <2>1 DEF MovesTo, TypeOK
  <2>4. IndexOK(t)' /\ ControlOK(t)'
    BY <1>4, <2>3, <1>a, <1>b DEF CollectDue, CallDestroyTerminatedChildThreads, ThreadOK, IndexOK, ControlOK, HandlesMessages, Joining, Deleting
  <2>5. StageOK(t)'
    BY <1>4, <2>3, <1>a, <1>b
    DEF CollectDue, CallDestroyTerminatedChildThreads, ThreadOK, ControlOK, StageOK, HandlesMessages, Joining, Deleting, Drained, IsFinished
  <2>6. QED
    BY <2>1, <2>2, <2>4, <2>5, LocalStep
<1>5. ASSUME SlotTerminateThread(t)
       PROVE  LifeInv'
  <2>1. MovesTo(t, "events", ret[t], index[t])
    BY <1>5, KeepsPlace DEF SlotTerminateThread, ReceiveSignal, MovesTo
  <2>2. signalTo[t] = Nobody
    BY <1>5 DEF SlotTerminateThread, ReceiveSignal, InCallback
  <2>3. /\ pc'[t] = "events" /\ ret'[t] = ret[t] /\ index'[t] = index[t]
        /\ qthread' = qthread /\ childThreads' = childThreads
    BY <2>1 DEF MovesTo, TypeOK
  <2>4. IndexOK(t)' /\ ControlOK(t)'
    BY <1>5, <2>3, <1>a, <1>b DEF SlotTerminateThread, ReceiveSignal, ThreadOK, IndexOK, ControlOK, HandlesMessages, Joining, Deleting
  <2>5. StageOK(t)'
    BY <1>5, <2>3, <1>a, <1>b
    DEF SlotTerminateThread, ReceiveSignal, ThreadOK, ControlOK, StageOK, HandlesMessages, Joining, Deleting, Drained, IsFinished
  <2>6. QED
    BY <2>1, <2>2, <2>4, <2>5, LocalStep
<1>6. ASSUME SlotWakeUpThread(t)
       PROVE  LifeInv'
  <2>1. MovesTo(t, "processMessages", "events", index[t])
    BY <1>6, KeepsPlace DEF SlotWakeUpThread, ReceiveSignal, CallProcessMessages, MovesTo
  <2>2. signalTo[t] = Nobody
    BY <1>6 DEF SlotWakeUpThread, ReceiveSignal, CallProcessMessages, InCallback
  <2>3. /\ pc'[t] = "processMessages" /\ ret'[t] = "events" /\ index'[t] = index[t]
        /\ qthread' = qthread /\ childThreads' = childThreads
    BY <2>1 DEF MovesTo, TypeOK
  <2>4. IndexOK(t)' /\ ControlOK(t)'
    BY <1>6, <2>3, <1>a, <1>b DEF SlotWakeUpThread, ReceiveSignal, CallProcessMessages, ThreadOK, IndexOK, ControlOK, HandlesMessages, Joining, Deleting
  <2>5. StageOK(t)'
    BY <1>6, <2>3, <1>a, <1>b
    DEF SlotWakeUpThread, ReceiveSignal, CallProcessMessages, ThreadOK, ControlOK, StageOK, HandlesMessages, Joining, Deleting, Drained, IsFinished
  <2>6. QED
    BY <2>1, <2>2, <2>4, <2>5, LocalStep
<1>7. ASSUME SlotTerminateChildThreads(t)
       PROVE  LifeInv'
  <2>1. MovesTo(t, "collect", "events", Len(childThreads[t]))
    BY <1>7, KeepsPlace DEF SlotTerminateChildThreads, ReceiveSignal, CallDestroyTerminatedChildThreads, MovesTo
  <2>2. signalTo[t] = Nobody
    BY <1>7 DEF SlotTerminateChildThreads, ReceiveSignal, CallDestroyTerminatedChildThreads, InCallback
  <2>3. /\ pc'[t] = "collect" /\ ret'[t] = "events" /\ index'[t] = Len(childThreads[t])
        /\ qthread' = qthread /\ childThreads' = childThreads
    BY <2>1 DEF MovesTo, TypeOK
  <2>4. IndexOK(t)' /\ ControlOK(t)'
    BY <1>7, <2>3, <1>a, <1>b DEF SlotTerminateChildThreads, ReceiveSignal, CallDestroyTerminatedChildThreads, ThreadOK, IndexOK, ControlOK, HandlesMessages, Joining, Deleting
  <2>5. StageOK(t)'
    BY <1>7, <2>3, <1>a, <1>b
    DEF SlotTerminateChildThreads, ReceiveSignal, CallDestroyTerminatedChildThreads, ThreadOK, ControlOK, StageOK, HandlesMessages, Joining, Deleting, Drained, IsFinished
  <2>6. QED
    BY <2>1, <2>2, <2>4, <2>5, LocalStep
<1>8. ASSUME PollOther(t)
       PROVE  LifeInv'
  <2>1. MovesTo(t, "events", ret[t], index[t])
    BY <1>8, KeepsPlace DEF PollOther, MovesTo
  <2>2. signalTo[t] = Nobody
    BY <1>8 DEF PollOther, InCallback
  <2>3. /\ pc'[t] = "events" /\ ret'[t] = ret[t] /\ index'[t] = index[t]
        /\ qthread' = qthread /\ childThreads' = childThreads
    BY <2>1 DEF MovesTo, TypeOK
  <2>4. IndexOK(t)' /\ ControlOK(t)'
    BY <1>8, <2>3, <1>a, <1>b DEF PollOther, ThreadOK, IndexOK, ControlOK, HandlesMessages, Joining, Deleting
  <2>5. StageOK(t)'
    BY <1>8, <2>3, <1>a, <1>b
    DEF PollOther, ThreadOK, ControlOK, StageOK, HandlesMessages, Joining, Deleting, Drained, IsFinished
  <2>6. QED
    BY <2>1, <2>2, <2>4, <2>5, LocalStep
<1>9. ASSUME CollectReturn(t)
       PROVE  LifeInv'
  <2>1. /\ pc[t] = "collect" /\ qthread[t] = "running" /\ ret' = [ret EXCEPT ![t] = "none"]
        /\ UNCHANGED <<qthread, childThreads, signalTo>>
        /\ LoopTest(t) \/ (ret[t] # "loop" /\ pc' = [pc EXCEPT ![t] = ret[t]] /\ index' = index)
    BY <1>9, Zenon DEF CollectReturn
  <2>2. signalTo[t] = Nobody
    BY <2>1, NothingToSignal
  <2>3. CASE LoopTest(t)
    BY <2>1, <2>2, <2>3, LoopTestOK
  <2>4. CASE ~LoopTest(t)
    <3>1. ret[t] = "events"
      BY <1>b, <2>1, <2>4 DEF ThreadOK, ControlOK
    <3>2. MovesTo(t, "events", "none", index[t])
      BY <2>1, <2>4, <3>1, KeepsPlace DEF MovesTo
    <3>3. /\ pc'[t] = "events" /\ ret'[t] = "none" /\ index'[t] = index[t]
          /\ qthread' = qthread /\ childThreads' = childThreads
      BY <3>2 DEF MovesTo, TypeOK
    <3>4. IndexOK(t)' /\ ControlOK(t)'
      BY <2>1, <3>3, <1>b DEF ThreadOK, IndexOK, ControlOK, HandlesMessages, Joining, Deleting
    <3>5. StageOK(t)'
      BY <2>1, <3>3, <1>b DEF ThreadOK, StageOK, HandlesMessages, Joining, Deleting, Drained, IsFinished
    <3>6. QED
      BY <2>2, <3>2, <3>4, <3>5, LocalStep
  <2>5. QED
    BY <2>3, <2>4
<1>10. ASSUME DequeueAll(t)
       PROVE  LifeInv'
  <2>1. MovesTo(t, "batch", ret[t], index[t])
    BY <1>10, KeepsPlace DEF DequeueAll, MovesTo
  <2>2. signalTo[t] = Nobody
    BY <1>10, NothingToSignal DEF DequeueAll
  <2>3. /\ pc'[t] = "batch" /\ ret'[t] = ret[t] /\ index'[t] = index[t]
        /\ qthread' = qthread /\ childThreads' = childThreads
    BY <2>1 DEF MovesTo, TypeOK
  <2>4. IndexOK(t)' /\ ControlOK(t)'
    BY <1>10, <2>3, <1>a, <1>b DEF DequeueAll, ThreadOK, IndexOK, ControlOK, HandlesMessages, Joining, Deleting
  <2>5. StageOK(t)'
    BY <1>10, <2>3, <1>a, <1>b
    DEF DequeueAll, ThreadOK, ControlOK, StageOK, HandlesMessages, Joining, Deleting, Drained, IsFinished
  <2>6. QED
    BY <2>1, <2>2, <2>4, <2>5, LocalStep
<1>11. ASSUME ProcessMessage(t)
       PROVE  LifeInv'
  <2>1. MovesTo(t, "handling", ret[t], index[t])
    BY <1>11, KeepsPlace DEF ProcessMessage, MovesTo
  <2>2. signalTo[t] = Nobody
    BY <1>11, NothingToSignal DEF ProcessMessage
  <2>3. /\ pc'[t] = "handling" /\ ret'[t] = ret[t] /\ index'[t] = index[t]
        /\ qthread' = qthread /\ childThreads' = childThreads
    BY <2>1 DEF MovesTo, TypeOK
  <2>4. IndexOK(t)' /\ ControlOK(t)'
    BY <1>11, <2>3, <1>a, <1>b DEF ProcessMessage, ThreadOK, IndexOK, ControlOK, HandlesMessages, Joining, Deleting
  <2>5. StageOK(t)'
    BY <1>11, <2>3, <1>a, <1>b
    DEF ProcessMessage, ThreadOK, ControlOK, StageOK, HandlesMessages, Joining, Deleting, Drained, IsFinished
  <2>6. QED
    BY <2>1, <2>2, <2>4, <2>5, LocalStep
<1>12. ASSUME ProcessMessagesReturn(t)
       PROVE  LifeInv'
  <2>1. MovesTo(t, ret[t], "none", index[t])
    BY <1>12, KeepsPlace DEF ProcessMessagesReturn, MovesTo
  <2>2. signalTo[t] = Nobody
    BY <1>12, NothingToSignal DEF ProcessMessagesReturn
  <2>3. /\ pc'[t] = ret[t] /\ ret'[t] = "none" /\ index'[t] = index[t]
        /\ qthread' = qthread /\ childThreads' = childThreads
    BY <2>1 DEF MovesTo, TypeOK
  <2>4. ret[t] \in {"events", "join", "joinWait", "drained"}
    BY <1>12, <1>b DEF ProcessMessagesReturn, ThreadOK, ControlOK, HandlesMessages
  <2>5. IndexOK(t)' /\ ControlOK(t)'
    BY <1>12, <2>3, <2>4, <1>a, <1>b DEF ProcessMessagesReturn, ThreadOK, IndexOK, ControlOK, HandlesMessages, Joining, Deleting
  <2>6. StageOK(t)'
    BY <1>12, <2>3, <2>4, <1>a, <1>b
    DEF ProcessMessagesReturn, ThreadOK, ControlOK, StageOK, HandlesMessages, Joining, Deleting, Drained, IsFinished
  <2>7. QED
    BY <2>1, <2>2, <2>5, <2>6, LocalStep
<1>13. ASSUME JoinChild(t)
       PROVE  LifeInv'
  <2>1. MovesTo(t, "joinWait", ret[t], index[t])
    BY <1>13, KeepsPlace DEF JoinChild, JoinTurn, MovesTo
  <2>2. signalTo[t] = Nobody
    BY <1>13, NothingToSignal DEF JoinChild, JoinTurn
  <2>3. /\ pc'[t] = "joinWait" /\ ret'[t] = ret[t] /\ index'[t] = index[t]
        /\ qthread' = qthread /\ childThreads' = childThreads
    BY <2>1 DEF MovesTo, TypeOK
  <2>4. IndexOK(t)' /\ ControlOK(t)'
    BY <1>13, <2>3, <1>a, <1>b DEF JoinChild, JoinTurn, ThreadOK, IndexOK, ControlOK, HandlesMessages, Joining, Deleting
  <2>5. StageOK(t)'
    BY <1>13, <2>3, <1>a, <1>b
    DEF JoinChild, JoinTurn, ThreadOK, ControlOK, StageOK, HandlesMessages, Joining, Deleting, Drained, IsFinished
  <2>6. QED
    BY <2>1, <2>2, <2>4, <2>5, LocalStep
<1>14. ASSUME JoinBusyWait(t)
       PROVE  LifeInv'
  <2>1. MovesTo(t, "processMessages", "joinWait", index[t])
    BY <1>14, KeepsPlace DEF JoinBusyWait, CallProcessMessages, MovesTo
  <2>2. signalTo[t] = Nobody
    BY <1>14, NothingToSignal DEF JoinBusyWait, CallProcessMessages
  <2>3. /\ pc'[t] = "processMessages" /\ ret'[t] = "joinWait" /\ index'[t] = index[t]
        /\ qthread' = qthread /\ childThreads' = childThreads
    BY <2>1 DEF MovesTo, TypeOK
  <2>4. IndexOK(t)' /\ ControlOK(t)'
    BY <1>14, <2>3, <1>a, <1>b DEF JoinBusyWait, CallProcessMessages, ThreadOK, IndexOK, ControlOK, HandlesMessages, Joining, Deleting
  <2>5. StageOK(t)'
    BY <1>14, <2>3, <1>a, <1>b
    DEF JoinBusyWait, CallProcessMessages, ThreadOK, ControlOK, StageOK, HandlesMessages, Joining, Deleting, Drained, IsFinished
  <2>6. QED
    BY <2>1, <2>2, <2>4, <2>5, LocalStep
<1>15. ASSUME JoinFinished(t)
       PROVE  LifeInv'
  <2>1. MovesTo(t, "processMessages", "join", index[t] - 1)
    BY <1>15, KeepsPlace DEF JoinFinished, CallProcessMessages, JoinTurn, MovesTo
  <2>2. signalTo[t] = Nobody
    BY <1>15, NothingToSignal DEF JoinFinished, CallProcessMessages, JoinTurn
  <2>3. /\ pc'[t] = "processMessages" /\ ret'[t] = "join" /\ index'[t] = index[t] - 1
        /\ qthread' = qthread /\ childThreads' = childThreads
    BY <2>1 DEF MovesTo, TypeOK
  <2>4. index[t] \in 1 .. Len(childThreads[t]) /\ qthread[childThreads[t][index[t]]] = "finished"
    <3>1. index[t] \in 1 .. Len(childThreads[t])
      BY <1>15, <1>a, <1>b DEF JoinFinished, JoinTurn, ThreadOK, IndexOK, ControlOK, Joining
    <3>2. QED
      BY <1>15, <3>1, <1>b DEF JoinFinished, JoinTurn, JoinedChild, ThreadOK, StageOK, Deleting, Drained, HandlesMessages, IsFinished
  <2>5. IndexOK(t)' /\ ControlOK(t)'
    BY <1>15, <2>3, <2>4, <1>a, <1>b DEF JoinFinished, CallProcessMessages, JoinTurn, ThreadOK, IndexOK, ControlOK, HandlesMessages, Joining, Deleting
  <2>6. StageOK(t)'
    BY <1>15, <2>3, <2>4, <1>a, <1>b
    DEF JoinFinished, CallProcessMessages, JoinTurn, ThreadOK, ControlOK, StageOK, HandlesMessages, Joining, Deleting, Drained, IsFinished
  <2>7. QED
    BY <2>1, <2>2, <2>5, <2>6, LocalStep
<1>16. ASSUME JoinDone(t)
       PROVE  LifeInv'
  <2>1. MovesTo(t, "delete", ret[t], Len(childThreads[t]))
    BY <1>16, KeepsPlace DEF JoinDone, MovesTo
  <2>2. signalTo[t] = Nobody
    BY <1>16, NothingToSignal DEF JoinDone
  <2>3. /\ pc'[t] = "delete" /\ ret'[t] = ret[t] /\ index'[t] = Len(childThreads[t])
        /\ qthread' = qthread /\ childThreads' = childThreads
    BY <2>1 DEF MovesTo, TypeOK
  <2>4. IndexOK(t)' /\ ControlOK(t)'
    BY <1>16, <2>3, <1>a, <1>b DEF JoinDone, ThreadOK, IndexOK, ControlOK, HandlesMessages, Joining, Deleting
  <2>5. StageOK(t)'
    BY <1>16, <2>3, <1>a, <1>b
    DEF JoinDone, ThreadOK, ControlOK, StageOK, HandlesMessages, Joining, Deleting, Drained, IsFinished
  <2>6. QED
    BY <2>1, <2>2, <2>4, <2>5, LocalStep
<1>17. ASSUME DeleteDone(t)
       PROVE  LifeInv'
  <2>1. MovesTo(t, "processMessages", "drained", index[t])
    BY <1>17, KeepsPlace DEF DeleteDone, CallProcessMessages, MovesTo
  <2>2. signalTo[t] = Nobody
    BY <1>17, NothingToSignal DEF DeleteDone, CallProcessMessages
  <2>3. /\ pc'[t] = "processMessages" /\ ret'[t] = "drained" /\ index'[t] = index[t]
        /\ qthread' = qthread /\ childThreads' = childThreads
    BY <2>1 DEF MovesTo, TypeOK
  <2>4. IndexOK(t)' /\ ControlOK(t)'
    BY <1>17, <2>3, <1>a, <1>b DEF DeleteDone, CallProcessMessages, ThreadOK, IndexOK, ControlOK, HandlesMessages, Joining, Deleting
  <2>5. StageOK(t)'
    BY <1>17, <2>3, <1>a, <1>b
    DEF DeleteDone, CallProcessMessages, ThreadOK, ControlOK, StageOK, HandlesMessages, Joining, Deleting, Drained, IsFinished
  <2>6. QED
    BY <2>1, <2>2, <2>4, <2>5, LocalStep
<1>18. ASSUME NotifyParent(t)
       PROVE  LifeInv'
  <2>1. MovesTo(t, "exit", ret[t], index[t])
    BY <1>18, KeepsPlace DEF NotifyParent, MovesTo
  <2>2. signalTo[t] = Nobody
    BY <1>18, NothingToSignal DEF NotifyParent
  <2>3. /\ pc'[t] = "exit" /\ ret'[t] = ret[t] /\ index'[t] = index[t]
        /\ qthread' = qthread /\ childThreads' = childThreads
    BY <2>1 DEF MovesTo, TypeOK
  <2>4. IndexOK(t)' /\ ControlOK(t)'
    BY <1>18, <2>3, <1>a, <1>b DEF NotifyParent, ThreadOK, IndexOK, ControlOK, HandlesMessages, Joining, Deleting
  <2>5. StageOK(t)'
    BY <1>18, <2>3, <1>a, <1>b
    DEF NotifyParent, ThreadOK, ControlOK, StageOK, HandlesMessages, Joining, Deleting, Drained, IsFinished
  <2>6. QED
    BY <2>1, <2>2, <2>4, <2>5, LocalStep
<1>19. QED
  BY <1>1, <1>2, <1>3, <1>4, <1>5, <1>6, <1>7, <1>8, <1>9, <1>10, <1>11, <1>12, <1>13, <1>14, <1>15, <1>16, <1>17, <1>18

(* Steps that touch nothing the invariant speaks of.                       *)
LEMMA LifeUnchanged ==
  ASSUME LifeInv, UNCHANGED <<qthread, pc, ret, index, childThreads, signalTo>>
  PROVE  LifeInv'
BY DEF LifeInv, ThreadOK, IndexOK, ControlOK, ListOK, Registered, StageOK, SignalOK,
       HandlesMessages, Joining, Deleting, Drained, IsFinished

(* The two halves of postMessage() change only signalTo[t].                *)
LEMMA SignalStep ==
  ASSUME TypeOK, LifeInv, NEW t \in Threads, NEW target,
         UNCHANGED <<qthread, pc, ret, index, childThreads>>,
         signalTo' = [signalTo EXCEPT ![t] = target], SignalOK(t)'
  PROVE  LifeInv'
<1>1. ASSUME NEW u \in Threads
      PROVE  ThreadOK(u)'
  <2>1. ThreadOK(u)
    BY DEF LifeInv
  <2>2. IndexOK(u)' /\ ControlOK(u)' /\ ListOK(u)' /\ Registered(u)' /\ StageOK(u)'
    BY <2>1 DEF ThreadOK, IndexOK, ControlOK, ListOK, Registered, StageOK,
                HandlesMessages, Joining, Deleting, Drained, IsFinished
  <2>3. SignalOK(u)'
    <3>1. CASE u = t
      BY <3>1
    <3>2. CASE u # t
      BY <2>1, <3>2 DEF ThreadOK, SignalOK, Drained, HandlesMessages, TypeOK
    <3>3. QED
      BY <3>1, <3>2
  <2>4. QED
    BY <2>2, <2>3 DEF ThreadOK
<1>2. QED
  BY <1>1 DEF LifeInv

LEMMA PostMessageLife ==
  ASSUME TypeOK, LifeInv, ~LateCallbacks, NEW t \in Threads, NEW target \in Threads,
         PostMessage(t, target)
  PROVE  LifeInv'
<1>1. /\ UNCHANGED <<qthread, pc, ret, index, childThreads>>
      /\ signalTo' = [signalTo EXCEPT ![t] = target] /\ signalTo'[t] = target
      /\ InCallback(t) /\ target \in Subscribers(t)
  BY DEF PostMessage, TypeOK
<1>2. \/ target = t
      \/ target = ParentOf[t]
      \/ ~StoppingChildren(t) /\ \E i \in 1 .. Len(childThreads[t]) : childThreads[t][i] = target
  <2>1. CASE target = t \/ target = ParentOf[t]
    BY <2>1
  <2>2. CASE MayUseChildren(t) /\ target \in ToSet(childThreads[t])
    <3>1. childThreads[t] \in Seq(Threads)
      BY DEF TypeOK
    <3>2. \E i \in 1 .. Len(childThreads[t]) : childThreads[t][i] = target
      BY <2>2, <3>1 DEF ToSet
    <3>3. ~StoppingChildren(t)
      BY <2>2 DEF MayUseChildren
    <3>4. QED
      BY <3>2, <3>3
  <2>3. QED
    BY <1>1, <2>1, <2>2 DEF Subscribers
<1>3. SignalOK(t)'
  BY <1>1, <1>2 DEF SignalOK, InCallback, StoppingChildren, Drained, HandlesMessages, CallbackLocs
<1>4. QED
  BY <1>1, <1>3, SignalStep

LEMMA SignalEventWakeUpLife ==
  ASSUME TypeOK, LifeInv, NEW t \in Threads, SignalEventWakeUp(t)
  PROVE  LifeInv'
<1>1. /\ UNCHANGED <<qthread, pc, ret, index, childThreads>>
      /\ signalTo' = [signalTo EXCEPT ![t] = Nobody]
      /\ signalTo'[t] = Nobody
  BY DEF SignalEventWakeUp, TypeOK
<1>2. QED
  BY <1>1, SignalStep DEF SignalOK

(* registerAndStartChildThread(): t's list grows by a child that runs.     *)
LEMMA RegisterLife ==
  ASSUME TypeOK, LifeInv, ~LateCallbacks, NEW t \in Threads, NEW c \in Threads,
         RegisterAndStartChildThread(t, c)
  PROVE  LifeInv'
<1> DEFINE n == Len(childThreads[t])
<1>1. /\ qthread' = [qthread EXCEPT ![c] = "running"] /\ pc' = [pc EXCEPT ![c] = "started"]
      /\ ret' = ret /\ index' = index /\ signalTo' = signalTo
      /\ childThreads' = [childThreads EXCEPT ![t] = Append(childThreads[t], c)]
  BY DEF RegisterAndStartChildThread, StartThread
<1>2. /\ qthread[c] = "new" /\ qthread[t] = "running" /\ pc[t] \in CallbackLocs
      /\ ParentOf[c] = t /\ ~StoppingChildren(t) /\ c # t
  BY DEF RegisterAndStartChildThread, MayUseChildren, InCallback
<1>3. /\ n \in Nat /\ Len(childThreads'[t]) = n + 1
      /\ \A i \in 1 .. n : childThreads'[t][i] = childThreads[t][i]
      /\ childThreads'[t][n + 1] = c
  <2>1. childThreads[t] \in Seq(Threads)
    BY DEF TypeOK
  <2>2. childThreads'[t] = Append(childThreads[t], c)
    BY <1>1 DEF TypeOK
  <2>3. QED
    BY <2>1, <2>2
<1>4. \A u \in Threads : u # t => childThreads'[u] = childThreads[u]
  BY <1>1 DEF TypeOK
<1>5. /\ \A u \in Threads : u # c => qthread'[u] = qthread[u] /\ pc'[u] = pc[u]
      /\ qthread'[c] = "running" /\ pc'[c] = "started"
  BY <1>1 DEF TypeOK
<1> HIDE DEF n
<1>6. \A u \in Threads : \A i \in 1 .. Len(childThreads[u]) :
        /\ childThreads[u][i] \in Threads /\ childThreads[u][i] # c
        /\ qthread'[childThreads[u][i]] = qthread[childThreads[u][i]]
  <2>1. ASSUME NEW u \in Threads, NEW i \in 1 .. Len(childThreads[u])
        PROVE  childThreads[u][i] \in Threads
    <3>1. childThreads[u] \in Seq(Threads)
      BY DEF TypeOK
    <3>2. QED
      BY <3>1
  <2>2. ASSUME NEW u \in Threads, NEW i \in 1 .. Len(childThreads[u])
        PROVE  qthread[childThreads[u][i]] # "new"
    <3>1. ListOK(u)
      BY DEF LifeInv, ThreadOK
    <3>2. QED
      BY <3>1 DEF ListOK
  <2>3. QED
    BY <2>1, <2>2, <1>2, <1>5
<1>7. ASSUME NEW u \in Threads, u # t, u # c
      PROVE  ThreadOK(u)'
  <2>1. ThreadOK(u)
    BY DEF LifeInv
  <2>2. /\ qthread'[u] = qthread[u] /\ pc'[u] = pc[u] /\ ret'[u] = ret[u] /\ index'[u] = index[u]
        /\ childThreads'[u] = childThreads[u] /\ signalTo'[u] = signalTo[u]
    BY <1>1, <1>4, <1>5, <1>7
  <2>3. IndexOK(u)' /\ ControlOK(u)' /\ SignalOK(u)'
    BY <2>1, <2>2 DEF ThreadOK, IndexOK, ControlOK, SignalOK, HandlesMessages, Joining, Deleting, Drained
  <2>4. ListOK(u)'
    BY <2>1, <2>2, <1>6 DEF ThreadOK, ListOK
  <2>5. StageOK(u)'
    BY <2>1, <2>2, <1>6 DEF ThreadOK, StageOK, HandlesMessages, Joining, Deleting, Drained, IsFinished
  <2>6. Registered(u)'
    <3>1. ASSUME u # Root, qthread[u] \in {"running", "finished"}
          PROVE  \E i \in 1 .. Len(childThreads'[ParentOf[u]]) : childThreads'[ParentOf[u]][i] = u
      <4>1. PICK i \in 1 .. Len(childThreads[ParentOf[u]]) : childThreads[ParentOf[u]][i] = u
        BY <2>1, <3>1 DEF ThreadOK, Registered
      <4>2. CASE ParentOf[u] = t
        BY <4>1, <4>2, <1>3 DEF n
      <4>3. CASE ParentOf[u] # t
        BY <3>1, <4>1, <4>3, <1>4, TreeAssumption
      <4>4. QED
        BY <4>2, <4>3
    <3>2. QED
      BY <2>2, <3>1 DEF Registered
  <2>7. QED
    BY <2>3, <2>4, <2>5, <2>6 DEF ThreadOK
<1>8. ThreadOK(c)'
  <2>1. ThreadOK(c)
    BY DEF LifeInv
  <2>2. childThreads'[c] = <<>> /\ signalTo'[c] = Nobody
    <3>1. childThreads[c] = <<>>
      BY <2>1, <1>2 DEF ThreadOK, ListOK
    <3>2. pc[c] = "off"
      BY <2>1, <1>2 DEF ThreadOK, ControlOK
    <3>3. signalTo[c] = Nobody
      BY <3>2, NothingToSignal
    <3>4. QED
      BY <3>1, <3>3, <1>1, <1>2, <1>4
  <2>3. \E i \in 1 .. Len(childThreads'[t]) : childThreads'[t][i] = c
    BY <1>3
  <2>4. IndexOK(c)' /\ ControlOK(c)' /\ SignalOK(c)'
    BY <2>2, <1>5 DEF IndexOK, ControlOK, SignalOK, HandlesMessages, Joining, Deleting
  <2>5. ListOK(c)' /\ StageOK(c)'
    BY <2>2, <1>5 DEF ListOK, StageOK
  <2>6. Registered(c)'
    BY <2>3, <1>2 DEF Registered
  <2>7. QED
    BY <2>4, <2>5, <2>6 DEF ThreadOK
<1>9. ThreadOK(t)'
  <2>1. ThreadOK(t)
    BY DEF LifeInv
  <2>2. /\ qthread'[t] = qthread[t] /\ pc'[t] = pc[t] /\ ret'[t] = ret[t] /\ index'[t] = index[t]
        /\ signalTo'[t] = signalTo[t]
    BY <1>1, <1>2, <1>5
  <2>3. ~Deleting(t)' /\ ~Drained(t)' /\ ~Joining(t)' /\ ~IsFinished(t)' /\ pc[t] # "collect"
    BY <2>2, <1>2 DEF Deleting, Drained, Joining, IsFinished, HandlesMessages, StoppingChildren, CallbackLocs
  <2>4. ~Deleting(t) /\ ~Drained(t) /\ ~IsFinished(t)
    BY <1>2 DEF Deleting, Drained, IsFinished, HandlesMessages, StoppingChildren, CallbackLocs
  <2>5. IndexOK(t)' /\ ControlOK(t)'
    BY <2>1, <2>2, <2>3 DEF ThreadOK, IndexOK, ControlOK, HandlesMessages
  <2>6. SignalOK(t)'
    <3>1. SignalOK(t)
      BY <2>1 DEF ThreadOK
    <3>2. ASSUME NEW i \in 1 .. Len(childThreads[t])
          PROVE  i \in 1 .. Len(childThreads'[t]) /\ childThreads'[t][i] = childThreads[t][i]
      BY <1>3 DEF n
    <3>3. QED
      BY <2>2, <2>3, <3>1, <3>2 DEF SignalOK
  <2>7. ListOK(t)'
    <3>1. ListOK(t)
      BY <2>1 DEF ThreadOK
    <3>2. \A i \in 1 .. n : childThreads[t][i] # c /\ ParentOf[childThreads[t][i]] = t
      BY <3>1, <1>6 DEF ListOK, n
    <3>3. ASSUME NEW i \in 1 .. n + 1
          PROVE  ParentOf[childThreads'[t][i]] = t /\ qthread'[childThreads'[t][i]] # "new"
      <4>1. CASE i = n + 1
        <5>1. childThreads'[t][i] = c /\ ParentOf[c] = t
          BY <4>1, <1>2, <1>3
        <5>2. qthread'[c] # "new"
          BY <1>5
        <5>3. QED
          BY <5>1, <5>2
      <4>2. CASE i \in 1 .. n
        <5>1. childThreads'[t][i] = childThreads[t][i]
          BY <4>2, <1>3
        <5>2. ParentOf[childThreads[t][i]] = t /\ qthread[childThreads[t][i]] # "new"
          BY <4>2, <3>1 DEF ListOK, n
        <5>3. qthread'[childThreads[t][i]] = qthread[childThreads[t][i]]
          BY <4>2, <1>6 DEF n
        <5>4. QED
          BY <5>1, <5>2, <5>3
      <4>3. QED
        BY <4>1, <4>2, <1>3
    <3>4. ASSUME NEW i \in 1 .. n + 1, NEW j \in 1 .. n + 1, childThreads'[t][i] = childThreads'[t][j]
          PROVE  i = j
      <4>1. CASE i \in 1 .. n /\ j \in 1 .. n
        BY <4>1, <3>1, <3>4, <1>3 DEF ListOK, n
      <4>2. \A k \in 1 .. n : childThreads'[t][k] # c
        BY <3>2, <1>3
      <4>3. CASE i = n + 1
        BY <4>2, <4>3, <3>4, <1>3
      <4>4. CASE j = n + 1
        BY <4>2, <4>4, <3>4, <1>3
      <4>5. QED
        BY <4>1, <4>3, <4>4, <1>3
    <3>5. QED
      BY <2>2, <3>3, <3>4, <1>2, <1>3 DEF ListOK
  <2>8. StageOK(t)'
    <3>1. \A i \in 1 .. Len(childThreads[t]) : qthread[childThreads[t][i]] # "deleted"
      BY <2>1, <2>4 DEF ThreadOK, StageOK
    <3>2. ASSUME NEW i \in 1 .. Len(childThreads'[t])
          PROVE  qthread'[childThreads'[t][i]] # "deleted"
      <4>1. CASE i = n + 1
        BY <4>1, <1>3, <1>5
      <4>2. CASE i \in 1 .. n
        <5>1. childThreads'[t][i] = childThreads[t][i]
          BY <4>2, <1>3
        <5>2. qthread'[childThreads[t][i]] = qthread[childThreads[t][i]]
          BY <4>2, <1>6 DEF n
        <5>3. qthread[childThreads[t][i]] # "deleted"
          BY <4>2, <3>1 DEF n
        <5>4. QED
          BY <5>1, <5>2, <5>3
      <4>3. QED
        BY <4>1, <4>2, <1>3
    <3>3. QED
      BY <3>2, <2>3 DEF StageOK
  <2>9. Registered(t)'
    <3>1. ASSUME t # Root
          PROVE  \E i \in 1 .. Len(childThreads'[ParentOf[t]]) : childThreads'[ParentOf[t]][i] = t
      <4>1. PICK i \in 1 .. Len(childThreads[ParentOf[t]]) : childThreads[ParentOf[t]][i] = t
        BY <2>1, <1>2, <3>1 DEF ThreadOK, Registered
      <4>2. CASE ParentOf[t] = t
        BY <4>1, <4>2, <1>3 DEF n
      <4>3. CASE ParentOf[t] # t
        BY <3>1, <4>1, <4>3, <1>4, TreeAssumption
      <4>4. QED
        BY <4>2, <4>3
    <3>2. QED
      BY <3>1 DEF Registered
  <2>10. QED
    BY <2>5, <2>6, <2>7, <2>8, <2>9 DEF ThreadOK
<1>10. QED
  BY <1>7, <1>8, <1>9 DEF LifeInv

(* A thread that keeps its state, and whose children keep theirs.          *)
LEMMA KeptThread ==
  ASSUME LifeInv, NEW u \in Threads,
         pc'[u] = pc[u], ret'[u] = ret[u], index'[u] = index[u], signalTo'[u] = signalTo[u],
         qthread'[u] = qthread[u], childThreads'[u] = childThreads[u],
         \A i \in 1 .. Len(childThreads[u]) :
           qthread'[childThreads[u][i]] = qthread[childThreads[u][i]],
         Registered(u)'
  PROVE  ThreadOK(u)'
<1>1. ThreadOK(u)
  BY DEF LifeInv
<1>2. IndexOK(u)' /\ ControlOK(u)' /\ SignalOK(u)'
  BY <1>1 DEF ThreadOK, IndexOK, ControlOK, SignalOK, HandlesMessages, Joining, Deleting, Drained
<1>3. ListOK(u)'
  BY <1>1 DEF ThreadOK, ListOK
<1>4. StageOK(u)'
  BY <1>1 DEF ThreadOK, StageOK, HandlesMessages, Joining, Deleting, Drained, IsFinished
<1>5. QED
  BY <1>2, <1>3, <1>4 DEF ThreadOK

(* A finished child is deleted by its parent t: the child and every other  *)
(* thread keep their part of the invariant.                                *)
LEMMA DeletedOthers ==
  ASSUME TypeOK, LifeInv, NEW t \in Threads, NEW c \in Threads,
         qthread[c] = "finished", ParentOf[c] = t, c # t,
         qthread' = [qthread EXCEPT ![c] = "deleted"],
         UNCHANGED <<pc, ret, signalTo>>,
         \A u \in Threads : u # t => index'[u] = index[u] /\ childThreads'[u] = childThreads[u],
         NEW u \in Threads, u # t,
         u # c => Registered(u)'
  PROVE  ThreadOK(u)'
<1>1. ThreadOK(u)
  BY DEF LifeInv
<1>2. qthread'[c] = "deleted" /\ \A v \in Threads : v # c => qthread'[v] = qthread[v]
  BY DEF TypeOK
<1>3. ASSUME NEW i \in 1 .. Len(childThreads[u])
      PROVE  qthread'[childThreads[u][i]] = qthread[childThreads[u][i]]
  <2>1. childThreads[u] \in Seq(Threads)
    BY DEF TypeOK
  <2>2. childThreads[u][i] \in Threads
    BY <2>1
  <2>3. ParentOf[childThreads[u][i]] = u
    BY <1>1 DEF ThreadOK, ListOK
  <2>4. QED
    BY <1>2, <2>2, <2>3
<1>4. CASE u # c
  BY <1>2, <1>3, <1>4, KeptThread
<1>5. CASE u = c
  <2>1. /\ pc'[u] = pc[u] /\ ret'[u] = ret[u] /\ index'[u] = index[u]
        /\ childThreads'[u] = childThreads[u] /\ signalTo'[u] = signalTo[u]
        /\ qthread[u] = "finished" /\ qthread'[u] = "deleted"
    BY <1>2, <1>5
  <2>2. pc[u] = "off"
    BY <1>1, <2>1 DEF ThreadOK, ControlOK
  <2>3. IndexOK(u)' /\ ControlOK(u)' /\ Registered(u)'
    BY <2>1, <2>2 DEF IndexOK, ControlOK, Registered, HandlesMessages, Joining, Deleting
  <2>4. SignalOK(u)'
    BY <1>1, <2>1, <2>2 DEF ThreadOK, SignalOK, CallbackLocs
  <2>5. ListOK(u)'
    BY <1>1, <1>3, <2>1 DEF ThreadOK, ListOK
  <2>6. StageOK(u)'
    BY <1>1, <1>3, <2>1, <2>2 DEF ThreadOK, StageOK, HandlesMessages, Joining, Deleting, Drained, IsFinished
  <2>7. QED
    BY <2>3, <2>4, <2>5, <2>6 DEF ThreadOK
<1>6. QED
  BY <1>4, <1>5

(* One turn of destroyTerminatedChildThreads().                            *)
LEMMA CollectChildLife ==
  ASSUME TypeOK, LifeInv, NEW t \in Threads, CollectChild(t)
  PROVE  LifeInv'
<1> DEFINE list == childThreads[t]
           i0   == index[t]
           c    == list[i0]
<1>1. /\ qthread[t] = "running" /\ pc[t] = "collect" /\ pc' = pc /\ ret' = ret /\ signalTo' = signalTo
      /\ index' = [index EXCEPT ![t] = i0 - 1]
      /\ signalTo[t] = Nobody
  BY Zenon, NothingToSignal DEF CollectChild
<1>2. ThreadOK(t)
  BY DEF LifeInv
<1>3. list \in Seq(Threads) /\ i0 \in 1 .. Len(list) /\ c \in Threads
  <2>1. list \in Seq(Threads) /\ i0 \in Int
    BY DEF TypeOK
  <2>2. i0 > 0
    BY DEF CollectChild
  <2>3. i0 <= Len(list)
    BY <1>1, <1>2 DEF ThreadOK, IndexOK
  <2>4. QED
    BY <2>1, <2>2, <2>3
<1>4. /\ index'[t] = i0 - 1
      /\ \A u \in Threads : u # t => index'[u] = index[u]
  BY <1>1 DEF TypeOK
<1>5. CASE ~IsFinished(c)
  <2>1. qthread' = qthread /\ childThreads' = childThreads
    BY <1>5, Zenon DEF CollectChild
  <2>2. MovesTo(t, "collect", ret[t], i0 - 1)
    BY <1>1, <2>1 DEF MovesTo, TypeOK
  <2>3. IndexOK(t)' /\ ControlOK(t)'
    BY <1>1, <1>2, <1>3, <1>4, <2>1
    DEF ThreadOK, IndexOK, ControlOK, HandlesMessages, Joining, Deleting
  <2>4. StageOK(t)'
    BY <1>1, <1>2, <2>1 DEF ThreadOK, StageOK, HandlesMessages, Joining, Deleting, Drained, IsFinished
  <2>5. QED
    BY <1>1, <2>2, <2>3, <2>4, LocalStep
<1>6. CASE IsFinished(c)
  <2> DEFINE rest == RemoveAt(list, i0)
  <2>1. /\ qthread' = [qthread EXCEPT ![c] = "deleted"]
        /\ childThreads' = [childThreads EXCEPT ![t] = rest]
    BY <1>6, Zenon DEF CollectChild, DeleteThread
  <2>2. qthread[c] = "finished" /\ ParentOf[c] = t /\ c # t
    <3>1. qthread[c] # "deleted"
      BY <1>1, <1>2, <1>3 DEF ThreadOK, StageOK, HandlesMessages, Deleting, Drained, IsFinished
    <3>2. ParentOf[c] = t
      BY <1>2, <1>3 DEF ThreadOK, ListOK
    <3>3. QED
      BY <3>1, <3>2, <1>1, <1>6 DEF IsFinished
  <2>3. /\ rest \in Seq(Threads) /\ Len(rest) = Len(list) - 1
        /\ \A j \in 1 .. Len(list) - 1 : rest[j] = IF j < i0 THEN list[j] ELSE list[j + 1]
    BY <1>3, RemoveAtFacts
  <2>4. /\ childThreads'[t] = rest
        /\ \A u \in Threads : u # t => childThreads'[u] = childThreads[u]
    BY <2>1 DEF TypeOK
  <2>5. qthread'[c] = "deleted" /\ \A v \in Threads : v # c => qthread'[v] = qthread[v]
    BY <2>1, <1>3 DEF TypeOK
  <2>6. ASSUME NEW u \in Threads, u # c
        PROVE  Registered(u)'
    <3>1. ASSUME u # Root, qthread[u] \in {"running", "finished"}
          PROVE  \E i \in 1 .. Len(childThreads'[ParentOf[u]]) : childThreads'[ParentOf[u]][i] = u
      <4>1. PICK i \in 1 .. Len(childThreads[ParentOf[u]]) : childThreads[ParentOf[u]][i] = u
        BY <3>1 DEF LifeInv, ThreadOK, Registered
      <4>2. CASE ParentOf[u] # t
        BY <3>1, <4>1, <4>2, <2>4, TreeAssumption
      <4>3. CASE ParentOf[u] = t
        <5>1. i \in 1 .. Len(list) /\ list[i] = u /\ i # i0
          BY <4>1, <4>3, <2>6
        <5>2. CASE i < i0
          <6>1. i \in 1 .. Len(list) - 1 /\ rest[i] = u
            BY <5>1, <5>2, <1>3, <2>3
          <6>2. QED
            BY <6>1, <2>3, <2>4, <4>3
        <5>3. CASE i > i0
          <6>1. i - 1 \in 1 .. Len(list) - 1 /\ ~(i - 1 < i0) /\ (i - 1) + 1 = i
            BY <5>1, <5>3, <1>3
          <6>2. rest[i - 1] = u
            BY <5>1, <6>1, <2>3
          <6>3. QED
            BY <6>1, <6>2, <2>3, <2>4, <4>3
        <5>4. QED
          BY <5>1, <5>2, <5>3, <1>3
      <4>4. QED
        BY <4>2, <4>3
    <3>2. QED
      BY <3>1, <2>5, <2>6 DEF Registered
  <2>7. ASSUME NEW u \in Threads, u # t
        PROVE  ThreadOK(u)'
    BY <1>1, <1>3, <1>4, <2>1, <2>2, <2>4, <2>6, <2>7, DeletedOthers
  <2>8. ThreadOK(t)'
    <3>1. ListOK(t) /\ StageOK(t) /\ ControlOK(t)
      BY <1>2 DEF ThreadOK
    <3> HIDE DEF rest, list, i0, c
    <3>2. ASSUME NEW j \in 1 .. Len(rest)
          PROVE  \E i \in 1 .. Len(list) : i # i0 /\ rest[j] = list[i] /\ i = (IF j < i0 THEN j ELSE j + 1)
      <4>1. CASE j < i0
        BY <4>1, <1>3, <2>3
      <4>2. CASE ~(j < i0)
        <5>1. j + 1 \in 1 .. Len(list) /\ j + 1 # i0 /\ rest[j] = list[j + 1]
          BY <4>2, <1>3, <2>3
        <5>2. QED
          BY <4>2, <5>1
      <4>3. QED
        BY <4>1, <4>2
    <3>3. ASSUME NEW i \in 1 .. Len(list), i # i0
          PROVE  /\ ParentOf[list[i]] = t /\ qthread'[list[i]] = qthread[list[i]]
                 /\ qthread[list[i]] \notin {"new", "deleted"}
      <4>1. list[i] \in Threads
        BY <1>3
      <4>2. list[i] # c
        BY <3>1, <3>3, <1>3 DEF ListOK, list, c, i0
      <4>3. ParentOf[list[i]] = t /\ qthread[list[i]] # "new"
        BY <3>1 DEF ListOK, list
      <4>4. qthread[list[i]] # "deleted"
        BY <3>1, <1>1 DEF StageOK, HandlesMessages, Deleting, Drained, IsFinished, list
      <4>5. QED
        BY <4>1, <4>2, <4>3, <4>4, <2>5
    <3>4. /\ pc'[t] = "collect" /\ ret'[t] = ret[t] /\ signalTo'[t] = Nobody
          /\ qthread'[t] = "running" /\ childThreads'[t] = rest
      BY <1>1, <2>2, <2>4, <2>5
    <3>5. IndexOK(t)'
      BY <3>4, <1>3, <1>4, <2>3 DEF IndexOK
    <3>6. ControlOK(t)' /\ SignalOK(t)'
      BY <3>1, <3>4, <1>1 DEF ControlOK, SignalOK, HandlesMessages
    <3>7. ListOK(t)'
      <4>1. ASSUME NEW i \in 1 .. Len(rest), NEW j \in 1 .. Len(rest), rest[i] = rest[j]
            PROVE  i = j
        <5>1. PICK k \in 1 .. Len(list) : rest[i] = list[k] /\ k = (IF i < i0 THEN i ELSE i + 1)
          BY <3>2
        <5>2. PICK m \in 1 .. Len(list) : rest[j] = list[m] /\ m = (IF j < i0 THEN j ELSE j + 1)
          BY <3>2
        <5>3. k = m
          BY <3>1, <4>1, <5>1, <5>2 DEF ListOK, list
        <5>4. QED
          BY <5>1, <5>2, <5>3, <1>3, <2>3
      <4>2. ASSUME NEW i \in 1 .. Len(rest)
            PROVE  ParentOf[rest[i]] = t /\ qthread'[rest[i]] # "new"
        <5>1. PICK k \in 1 .. Len(list) : k # i0 /\ rest[i] = list[k]
          BY <3>2
        <5>2. QED
          BY <5>1, <3>3
      <4>3. QED
        BY <3>4, <4>1, <4>2 DEF ListOK
    <3>8. StageOK(t)'
      <4>1. \A i \in 1 .. Len(rest) : qthread'[rest[i]] # "deleted"
        BY <3>2, <3>3
      <4>2. QED
        BY <3>4, <4>1 DEF StageOK, HandlesMessages, Joining, Deleting, Drained, IsFinished
    <3>9. Registered(t)'
      BY <2>2, <2>6
    <3>10. QED
      BY <3>5, <3>6, <3>7, <3>8, <3>9 DEF ThreadOK
  <2>9. QED
    BY <2>7, <2>8 DEF LifeInv
<1>7. QED
  BY <1>5, <1>6

(* One delete of the second loop of terminateChildThreads().               *)
LEMMA DeleteChildLife ==
  ASSUME TypeOK, LifeInv, NEW t \in Threads, DeleteChild(t)
  PROVE  LifeInv'
<1> DEFINE list == childThreads[t]
           i0   == index[t]
           c    == list[i0]
<1>1. /\ qthread[t] = "running" /\ pc[t] = "delete" /\ pc' = pc /\ ret' = ret /\ signalTo' = signalTo
      /\ index' = [index EXCEPT ![t] = i0 - 1] /\ childThreads' = childThreads
      /\ qthread' = [qthread EXCEPT ![c] = "deleted"]
      /\ signalTo[t] = Nobody
  BY Zenon, NothingToSignal DEF DeleteChild, DeleteThread
<1>2. ThreadOK(t)
  BY DEF LifeInv
<1>3. list \in Seq(Threads) /\ i0 \in 1 .. Len(list) /\ c \in Threads
  <2>1. list \in Seq(Threads) /\ i0 \in Int
    BY DEF TypeOK
  <2>2. i0 > 0
    BY DEF DeleteChild
  <2>3. i0 <= Len(list)
    BY <1>1, <1>2 DEF ThreadOK, IndexOK, Deleting
  <2>4. QED
    BY <2>1, <2>2, <2>3
<1>4. index'[t] = i0 - 1 /\ \A u \in Threads : u # t => index'[u] = index[u]
  BY <1>1 DEF TypeOK
<1>5. qthread[c] = "finished" /\ ParentOf[c] = t /\ c # t
  <2>1. qthread[c] = "finished"
    BY <1>1, <1>2, <1>3 DEF ThreadOK, StageOK, Deleting
  <2>2. ParentOf[c] = t
    BY <1>2, <1>3 DEF ThreadOK, ListOK
  <2>3. QED
    BY <2>1, <2>2, <1>1
<1>6. qthread'[c] = "deleted" /\ \A v \in Threads : v # c => qthread'[v] = qthread[v]
  BY <1>1, <1>3 DEF TypeOK
<1>7. ASSUME NEW u \in Threads, u # c
      PROVE  Registered(u)'
  BY <1>1, <1>6, <1>7 DEF LifeInv, ThreadOK, Registered
<1>8. ASSUME NEW u \in Threads, u # t
      PROVE  ThreadOK(u)'
  BY <1>1, <1>3, <1>4, <1>5, <1>7, <1>8, DeletedOthers
<1>9. ThreadOK(t)'
  <2>1. ListOK(t) /\ StageOK(t) /\ ControlOK(t)
    BY <1>2 DEF ThreadOK
  <2>2. /\ pc'[t] = "delete" /\ ret'[t] = ret[t] /\ signalTo'[t] = Nobody
        /\ qthread'[t] = "running" /\ childThreads'[t] = list
    BY <1>1, <1>5, <1>6
  <2>3. IndexOK(t)'
    BY <2>2, <1>3, <1>4 DEF IndexOK
  <2>4. ControlOK(t)' /\ SignalOK(t)'
    BY <2>1, <2>2, <1>1 DEF ControlOK, SignalOK, HandlesMessages
  <2> HIDE DEF list, i0, c
  <2>5. ASSUME NEW i \in 1 .. Len(list)
        PROVE  /\ qthread'[list[i]] = (IF i > i0 - 1 THEN "deleted" ELSE "finished")
               /\ ParentOf[list[i]] = t
    <3>1. list[i] \in Threads /\ ParentOf[list[i]] = t
      BY <2>1, <1>3 DEF ListOK, list
    <3>2. CASE i = i0
      BY <3>1, <3>2, <1>3, <1>6 DEF c
    <3>3. CASE i # i0
      <4>1. list[i] # c
        BY <2>1, <3>3, <1>3 DEF ListOK, list, c
      <4>2. qthread'[list[i]] = qthread[list[i]]
        BY <3>1, <4>1, <1>6
      <4>3. qthread[list[i]] = (IF i > i0 THEN "deleted" ELSE "finished")
        BY <2>1, <1>1 DEF StageOK, Deleting, list, i0
      <4>4. QED
        BY <3>1, <3>3, <4>2, <4>3, <1>3
    <3>4. QED
      BY <3>2, <3>3
  <2>6. ListOK(t)'
    BY <2>1, <2>2, <2>5 DEF ListOK, list
  <2>7. StageOK(t)'
    BY <2>2, <2>5, <1>4 DEF StageOK, HandlesMessages, Joining, Deleting, Drained, IsFinished
  <2>8. Registered(t)'
    BY <1>5, <1>7
  <2>9. QED
    BY <2>3, <2>4, <2>6, <2>7, <2>8 DEF ThreadOK
<1>10. QED
  BY <1>8, <1>9 DEF LifeInv

(* run() returns: isFinished() of t becomes true.                          *)
LEMMA RunReturnLife ==
  ASSUME TypeOK, LifeInv, NEW t \in Threads, RunReturn(t)
  PROVE  LifeInv'
<1>1. /\ qthread[t] = "running" /\ pc[t] = "exit" /\ ret' = ret /\ signalTo' = signalTo
      /\ index' = index /\ childThreads' = childThreads
      /\ qthread' = [qthread EXCEPT ![t] = "finished"] /\ pc' = [pc EXCEPT ![t] = "off"]
      /\ signalTo[t] = Nobody
  BY Zenon, NothingToSignal DEF RunReturn
<1>2. /\ qthread'[t] = "finished" /\ pc'[t] = "off"
      /\ \A v \in Threads : v # t => qthread'[v] = qthread[v] /\ pc'[v] = pc[v]
  BY <1>1 DEF TypeOK
<1>3. ASSUME NEW u \in Threads
      PROVE  Registered(u)'
  BY <1>1, <1>2 DEF LifeInv, ThreadOK, Registered
<1>4. ASSUME NEW u \in Threads, NEW i \in 1 .. Len(childThreads[u])
      PROVE  /\ childThreads[u][i] # t => qthread'[childThreads[u][i]] = qthread[childThreads[u][i]]
             /\ ParentOf[childThreads[u][i]] = u /\ qthread'[childThreads[u][i]] # "new"
  <2>1. childThreads[u] \in Seq(Threads)
    BY DEF TypeOK
  <2>2. ListOK(u)
    BY DEF LifeInv, ThreadOK
  <2>3. ParentOf[childThreads[u][i]] = u /\ qthread[childThreads[u][i]] # "new"
    BY <2>2 DEF ListOK
  <2>4. childThreads[u][i] \in Threads
    BY <2>1
  <2>5. QED
    BY <2>3, <2>4, <1>2
<1>5. ASSUME NEW u \in Threads, u # t
      PROVE  ThreadOK(u)'
  <2>1. ThreadOK(u)
    BY DEF LifeInv
  <2>2. /\ qthread'[u] = qthread[u] /\ pc'[u] = pc[u] /\ ret'[u] = ret[u] /\ index'[u] = index[u]
        /\ childThreads'[u] = childThreads[u] /\ signalTo'[u] = signalTo[u]
    BY <1>1, <1>2, <1>5
  <2>3. IndexOK(u)' /\ ControlOK(u)' /\ SignalOK(u)'
    BY <2>1, <2>2 DEF ThreadOK, IndexOK, ControlOK, SignalOK, HandlesMessages, Joining, Deleting, Drained
  <2>4. ListOK(u)'
    BY <2>1, <2>2, <1>4 DEF ThreadOK, ListOK
  <2>5. StageOK(u)'
    <3>1. ASSUME NEW i \in 1 .. Len(childThreads[u]), childThreads[u][i] = t
          PROVE  ~(Joining(u) /\ i > index[u]) /\ ~Deleting(u) /\ ~Drained(u) /\ ~IsFinished(u)
      BY <2>1, <3>1, <1>1 DEF ThreadOK, StageOK
    <3>2. /\ Joining(u)' <=> Joining(u)
          /\ Deleting(u)' <=> Deleting(u)
          /\ Drained(u)' <=> Drained(u)
          /\ IsFinished(u)' <=> IsFinished(u)
      BY <2>2 DEF Joining, Deleting, Drained, HandlesMessages, IsFinished
    <3>3. QED
      BY <2>1, <2>2, <3>1, <3>2, <1>2, <1>4 DEF ThreadOK, StageOK
  <2>6. QED
    BY <2>3, <2>4, <2>5, <1>3 DEF ThreadOK
<1>6. ThreadOK(t)'
  <2>1. ThreadOK(t)
    BY DEF LifeInv
  <2>2. /\ qthread'[t] = "finished" /\ pc'[t] = "off" /\ ret'[t] = ret[t] /\ index'[t] = index[t]
        /\ childThreads'[t] = childThreads[t] /\ signalTo'[t] = Nobody
    BY <1>1, <1>2
  <2>3. IndexOK(t)' /\ ControlOK(t)' /\ SignalOK(t)'
    BY <2>2 DEF IndexOK, ControlOK, SignalOK, HandlesMessages, Joining, Deleting
  <2>4. ListOK(t)'
    BY <2>1, <2>2, <1>4 DEF ThreadOK, ListOK
  <2>5. \A i \in 1 .. Len(childThreads[t]) : qthread[childThreads[t][i]] = "deleted"
    BY <2>1, <1>1 DEF ThreadOK, StageOK, Drained
  <2>6. \A i \in 1 .. Len(childThreads[t]) : qthread'[childThreads[t][i]] = "deleted"
    BY <2>5, <1>1, <1>4
  <2>7. StageOK(t)'
    BY <2>2, <2>6 DEF StageOK, HandlesMessages, Joining, Deleting, Drained, IsFinished
  <2>8. QED
    BY <2>3, <2>4, <2>7, <1>3 DEF ThreadOK
<1>7. QED
  BY <1>5, <1>6 DEF LifeInv

(* AppMain / Service starts the main thread.                               *)
LEMMA AppStartLife ==
  ASSUME LifeIInv, AppStart
  PROVE  LifeInv'
<1> USE DEF LifeIInv
<1>1. /\ qthread[Root] = "new" /\ qthread' = [qthread EXCEPT ![Root] = "running"]
      /\ pc' = [pc EXCEPT ![Root] = "started"] /\ ret' = ret /\ index' = index
      /\ signalTo' = signalTo /\ childThreads' = childThreads
  BY DEF AppStart, StartThread, BootOK
<1>2. /\ qthread'[Root] = "running" /\ pc'[Root] = "started"
      /\ \A u \in Threads : u # Root => qthread'[u] = qthread[u] /\ pc'[u] = pc[u]
  BY <1>1, TreeAssumption DEF TypeOK
<1>3. ASSUME NEW u \in Threads
      PROVE  Registered(u)'
  BY <1>1, <1>2 DEF LifeInv, ThreadOK, Registered
<1>4. ASSUME NEW u \in Threads, u # Root
      PROVE  ThreadOK(u)'
  <2>1. ASSUME NEW i \in 1 .. Len(childThreads[u])
        PROVE  qthread'[childThreads[u][i]] = qthread[childThreads[u][i]]
    <3>1. childThreads[u] \in Seq(Threads)
      BY DEF TypeOK
    <3>2. childThreads[u][i] \in Threads
      BY <3>1
    <3>3. ListOK(u)
      BY DEF LifeInv, ThreadOK
    <3>4. qthread[childThreads[u][i]] # "new"
      BY <3>3 DEF ListOK
    <3>5. QED
      BY <3>2, <3>4, <1>1, <1>2
  <2>2. QED
    BY <1>1, <1>2, <1>3, <1>4, <2>1, KeptThread
<1>5. ThreadOK(Root)'
  <2>1. ThreadOK(Root)
    BY TreeAssumption DEF LifeInv
  <2>2. childThreads'[Root] = <<>> /\ signalTo'[Root] = Nobody
    <3>1. childThreads[Root] = <<>> /\ pc[Root] = "off"
      BY <2>1, <1>1, TreeAssumption DEF ThreadOK, ListOK, ControlOK, TypeOK
    <3>2. signalTo[Root] = Nobody
      BY <3>1, TreeAssumption, NothingToSignal
    <3>3. QED
      BY <3>1, <3>2, <1>1
  <2>3. IndexOK(Root)' /\ ControlOK(Root)' /\ SignalOK(Root)'
    BY <2>2, <1>2 DEF IndexOK, ControlOK, SignalOK, HandlesMessages, Joining, Deleting
  <2>4. ListOK(Root)' /\ StageOK(Root)' /\ Registered(Root)'
    BY <2>2, <1>2 DEF ListOK, StageOK, Registered
  <2>5. QED
    BY <2>3, <2>4 DEF ThreadOK
<1>6. QED
  BY <1>4, <1>5 DEF LifeInv

(* Every step keeps LifeInv, one lemma per kind of step.                   *)
LEMMA StepLifeInv == ~LateCallbacks /\ LifeIInv /\ [Next]_vars => LifeInv'
<1> SUFFICES ASSUME ~LateCallbacks, LifeIInv, [Next]_vars
             PROVE  LifeInv'
  OBVIOUS
<1>1. TypeOK /\ LifeInv
  BY DEF LifeIInv
<1>2. ASSUME NEW t \in Threads, Step(t)
      PROVE  LifeInv'
  BY <1>1, <1>2, LocalSteps, SignalEventWakeUpLife, CollectChildLife, DeleteChildLife, RunReturnLife
     DEF Step
<1>3. ASSUME NEW t \in Threads, Callback(t)
      PROVE  LifeInv'
  <2>1. ASSUME NEW c \in Threads, StopChild(t, c)
        PROVE  LifeInv'
    BY <1>1, <2>1, LifeUnchanged DEF StopChild
  <2>2. CASE TerminateThread(t)
    BY <1>1, <2>2, LifeUnchanged DEF TerminateThread
  <2>3. QED
    BY <1>1, <1>3, <2>1, <2>2, PostMessageLife, RegisterLife DEF Callback
<1>4. CASE AppStart
  BY <1>4, AppStartLife
<1>5. CASE AppStop \/ AppPostTerminate \/ AppStopped \/ UNCHANGED vars
  BY <1>1, <1>5, LifeUnchanged DEF AppStop, AppPostTerminate, AppStopped, vars
<1>6. QED
  BY <1>2, <1>3, <1>4, <1>5 DEF Next, App, Done

(* In the eyes of ThreadTree a step of a thread changes nothing, or begins *)
(* a child, finishes the thread, or deletes a child of the thread.         *)
LEMMA TreeStep ==
  ASSUME LifeIInv, NEW t \in Threads, Step(t) \/ Callback(t)
  PROVE  \/ qthread' = qthread
         \/ \E c \in Threads : c # Root /\ Tree!Begin(c)
         \/ Tree!Finish(t)
         \/ \E c \in Threads : Tree!Delete(c)
<1> USE DEF LifeIInv
<1>1. ASSUME NEW c \in Threads, RegisterAndStartChildThread(t, c)
      PROVE  c # Root /\ Tree!Begin(c)
  BY <1>1, TreeAssumption
     DEF RegisterAndStartChildThread, StartThread, MayUseChildren, InCallback, Tree!Begin
<1>2. ASSUME RunReturn(t)
      PROVE  Tree!Finish(t)
  <2>1. qthread[t] = "running" /\ pc[t] = "exit" /\ qthread' = [qthread EXCEPT ![t] = "finished"]
    BY <1>2 DEF RunReturn
  <2>2. ASSUME NEW c \in Threads, ParentOf[c] = t, qthread[c] = "running"
        PROVE  FALSE
    <3>1. PICK i \in 1 .. Len(childThreads[t]) : childThreads[t][i] = c
      BY <2>2, TreeAssumption DEF LifeInv, ThreadOK, Registered
    <3>2. qthread[c] = "deleted"
      BY <2>1, <3>1 DEF LifeInv, ThreadOK, StageOK, Drained
    <3>3. QED
      BY <2>2, <3>2
  <2>3. QED
    BY <2>1, <2>2 DEF Tree!Finish
<1>3. ASSUME CollectChild(t), qthread' # qthread
      PROVE  \E c \in Threads : Tree!Delete(c)
  <2> DEFINE c == childThreads[t][index[t]]
  <2>1. /\ qthread[t] = "running" /\ pc[t] = "collect" /\ index[t] > 0
        /\ IsFinished(c) /\ qthread' = [qthread EXCEPT ![c] = "deleted"]
    BY <1>3, Zenon DEF CollectChild, DeleteThread
  <2>2. ThreadOK(t)
    BY DEF LifeInv
  <2>3. index[t] \in 1 .. Len(childThreads[t])
    BY <2>1, <2>2 DEF ThreadOK, IndexOK, TypeOK
  <2>4. c \in Threads
    <3>1. childThreads[t] \in Seq(Threads)
      BY DEF TypeOK
    <3>2. QED
      BY <2>3, <3>1
  <2>5. ParentOf[c] = t /\ qthread[c] # "deleted"
    BY <2>1, <2>2, <2>3
       DEF ThreadOK, ListOK, StageOK, HandlesMessages, Deleting, Drained, IsFinished
  <2>6. Tree!Delete(c)
    BY <2>1, <2>4, <2>5, TreeAssumption DEF Tree!Delete, IsFinished
  <2>7. QED
    BY <2>4, <2>6
<1>4. ASSUME DeleteChild(t)
      PROVE  \E c \in Threads : Tree!Delete(c)
  <2> DEFINE c == childThreads[t][index[t]]
  <2>1. /\ qthread[t] = "running" /\ pc[t] = "delete" /\ index[t] > 0
        /\ qthread' = [qthread EXCEPT ![c] = "deleted"]
    BY <1>4, Zenon DEF DeleteChild, DeleteThread
  <2>2. ThreadOK(t)
    BY DEF LifeInv
  <2>3. index[t] \in 1 .. Len(childThreads[t])
    BY <2>1, <2>2 DEF ThreadOK, IndexOK, Deleting, TypeOK
  <2>4. c \in Threads
    <3>1. childThreads[t] \in Seq(Threads)
      BY DEF TypeOK
    <3>2. QED
      BY <2>3, <3>1
  <2>5. ParentOf[c] = t /\ qthread[c] = "finished"
    BY <2>1, <2>2, <2>3 DEF ThreadOK, ListOK, StageOK, Deleting
  <2>6. Tree!Delete(c)
    BY <2>1, <2>4, <2>5, TreeAssumption DEF Tree!Delete
  <2>7. QED
    BY <2>4, <2>6
<1>5. ASSUME Step(t), ~RunReturn(t), ~CollectChild(t), ~DeleteChild(t)
      PROVE  qthread' = qthread
  BY <1>5
     DEF Step, SignalEventWakeUp, StartedReturn, ProcessMessageReturn, CollectNotDue, CollectDue,
         SlotTerminateThread, SlotWakeUpThread, SlotTerminateChildThreads, PollOther,
         CollectReturn, DequeueAll, ProcessMessage, ProcessMessagesReturn,
         JoinChild, JoinBusyWait, JoinFinished, JoinDone, DeleteDone, NotifyParent
<1>6. ASSUME Callback(t), \A c \in Threads : ~RegisterAndStartChildThread(t, c)
      PROVE  qthread' = qthread
  BY <1>6 DEF Callback, PostMessage, StopChild, TerminateThread
<1>7. CASE Step(t)
  BY <1>2, <1>3, <1>4, <1>5, <1>7
<1>8. CASE Callback(t)
  BY <1>1, <1>6, <1>8
<1>9. QED
  BY <1>7, <1>8

LEMMA InitLifeIInv == Init => LifeIInv
<1> SUFFICES ASSUME Init
             PROVE  LifeIInv
  OBVIOUS
<1>1. LifeInv
  BY DEF Init, LifeInv, ThreadOK, IndexOK, ControlOK, ListOK, Registered, StageOK, SignalOK,
         HandlesMessages, Joining, Deleting
<1>2. BootOK
  BY TreeAssumption DEF Init, BootOK
<1>3. QED
  BY <1>1, <1>2, InitTypeOK DEF LifeIInv

LEMMA StepLifeIInv == ~LateCallbacks /\ LifeIInv /\ [Next]_vars => LifeIInv'
<1> SUFFICES ASSUME ~LateCallbacks, LifeIInv, [Next]_vars
             PROVE  LifeIInv'
  OBVIOUS
<1>1. LifeInv'
  BY StepLifeInv
<1>2. TypeOK'
  BY StepTypeOK DEF LifeIInv, LifeInv, ThreadOK, IndexInv
<1>3. BootOK'
  <2>1. ASSUME NEW t \in Threads, Step(t) \/ Callback(t)
        PROVE  app' = app
    BY <2>1
       DEF Step, SignalEventWakeUp, StartedReturn, ProcessMessageReturn, CollectNotDue, CollectDue,
           SlotTerminateThread, SlotWakeUpThread, SlotTerminateChildThreads, PollOther,
           CollectChild, CollectReturn, DequeueAll, ProcessMessage, ProcessMessagesReturn,
           JoinChild, JoinBusyWait, JoinFinished, JoinDone, DeleteChild, DeleteDone,
           NotifyParent, RunReturn,
           Callback, PostMessage, StopChild, TerminateThread, RegisterAndStartChildThread
  <2>2. ASSUME NEW t \in Threads, Step(t) \/ Callback(t), qthread[Root] = "new"
        PROVE  qthread'[Root] = "new"
    BY <2>2, TreeStep, TreeAssumption DEF Tree!Begin, Tree!Finish, Tree!Delete, LifeIInv, TypeOK
  <2>3. CASE AppStart
    BY <2>3 DEF AppStart, BootOK
  <2>4. CASE AppStop
    <3>1. app' \in {"stopping", "stopped"}
      BY <2>4, Zenon DEF AppStop
    <3>2. QED
      BY <3>1 DEF BootOK
  <2>5. CASE AppPostTerminate \/ AppStopped \/ UNCHANGED vars
    BY <2>5 DEF AppPostTerminate, AppStopped, BootOK, vars, LifeIInv
  <2>6. QED
    BY <2>1, <2>2, <2>3, <2>4, <2>5 DEF Next, App, Done, BootOK, LifeIInv
<1>4. QED
  BY <1>1, <1>2, <1>3 DEF LifeIInv

(* The threads keep to the inductive invariant of their lives, in every    *)
(* tree, when message handlers leave the child list alone once its thread  *)
(* stops its children.                                                     *)
THEOREM LifeCorrect ==
  ASSUME ~LateCallbacks
  PROVE  Spec => []LifeIInv
<1>1. LifeIInv /\ [Next]_vars => LifeIInv'
  BY StepLifeIInv
<1>2. QED
  BY <1>1, InitLifeIInv, PTL DEF Spec

(* No child outlives its parent.                                           *)
THEOREM ShutdownOrderHolds ==
  ASSUME ~LateCallbacks
  PROVE  Spec => []ShutdownOrder
<1>1. LifeIInv /\ [Next]_vars => LifeIInv'
  BY StepLifeIInv
<1>2. LifeIInv => ShutdownOrder
  <2> SUFFICES ASSUME LifeIInv, NEW c \in Threads \ {Root}, qthread[c] = "running"
               PROVE  qthread[ParentOf[c]] = "running"
    BY DEF ShutdownOrder
  <2> DEFINE p == ParentOf[c]
  <2>1. p \in Threads
    BY TreeAssumption
  <2>2. PICK i \in 1 .. Len(childThreads[p]) : childThreads[p][i] = c
    BY DEF LifeIInv, LifeInv, ThreadOK, Registered
  <2>3. ThreadOK(p)
    BY <2>1 DEF LifeIInv, LifeInv
  <2>4. qthread[p] # "new"
    <3>1. childThreads[p] # <<>>
      BY <2>2
    <3>2. QED
      BY <2>3, <3>1 DEF ThreadOK, ListOK
  <2>5. ~IsFinished(p)
    BY <2>2, <2>3 DEF ThreadOK, StageOK
  <2>6. QED
    BY <2>1, <2>4, <2>5 DEF IsFinished, LifeIInv, TypeOK
<1>3. QED
  BY <1>1, <1>2, InitLifeIInv, PTL DEF Spec

(* Nothing is used after it was deleted: neither the target of a           *)
(* postMessage() nor a child that one of the loops looks at.               *)
THEOREM NoUseAfterDeleteHolds ==
  ASSUME ~LateCallbacks
  PROVE  Spec => []NoUseAfterDelete
<1>1. LifeIInv /\ [Next]_vars => LifeIInv'
  BY StepLifeIInv
<1>2. LifeIInv => NoUseAfterDelete
  <2> SUFFICES ASSUME LifeIInv
               PROVE  NoUseAfterDelete
    OBVIOUS
  <2>1. ASSUME NEW t \in Threads, qthread[t] = "running", signalTo[t] # Nobody
        PROVE  qthread[signalTo[t]] # "deleted"
    <3>1. ThreadOK(t)
      BY DEF LifeIInv, LifeInv
    <3>2. CASE signalTo[t] = t
      BY <2>1, <3>2
    <3>3. CASE signalTo[t] = ParentOf[t]
      <4>1. t # Root
        BY <2>1, <3>3, TreeAssumption
      <4>2. PICK i \in 1 .. Len(childThreads[ParentOf[t]]) : childThreads[ParentOf[t]][i] = t
        BY <2>1, <3>1, <4>1 DEF ThreadOK, Registered
      <4>3. ThreadOK(ParentOf[t])
        BY <4>1, TreeAssumption DEF LifeIInv, LifeInv
      <4>4. ~IsFinished(ParentOf[t])
        BY <2>1, <4>2, <4>3 DEF ThreadOK, StageOK
      <4>5. QED
        BY <3>3, <4>4 DEF IsFinished
    <3>4. CASE /\ ~Drained(t) /\ pc[t] \in CallbackLocs
               /\ \E i \in 1 .. Len(childThreads[t]) : childThreads[t][i] = signalTo[t]
      BY <2>1, <3>1, <3>4 DEF ThreadOK, StageOK, Deleting, CallbackLocs, IsFinished
    <3>5. QED
      BY <2>1, <3>1, <3>2, <3>3, <3>4 DEF ThreadOK, SignalOK
  <2>2. ASSUME NEW t \in Threads, qthread[t] = "running",
               pc[t] \in {"collect", "join", "joinWait", "delete"}, index[t] > 0
        PROVE  index[t] <= Len(childThreads[t]) /\ qthread[JoinedChild(t)] # "deleted"
    <3>1. ThreadOK(t)
      BY DEF LifeIInv, LifeInv
    <3>2. index[t] <= Len(childThreads[t])
      BY <2>2, <3>1 DEF ThreadOK, IndexOK, Joining, Deleting
    <3>3. index[t] \in 1 .. Len(childThreads[t])
      BY <2>2, <3>2 DEF LifeIInv, TypeOK
    <3>4. qthread[JoinedChild(t)] # "deleted"
      BY <2>2, <3>1, <3>3
         DEF ThreadOK, StageOK, JoinedChild, Deleting, Drained, HandlesMessages, IsFinished
    <3>5. QED
      BY <3>2, <3>4
  <2>3. QED
    BY <2>1, <2>2 DEF NoUseAfterDelete
<1>3. QED
  BY <1>1, <1>2, InitLifeIInv, PTL DEF Spec

(* terminateChildThreads() and destroyTerminatedChildThreads() delete only *)
(* threads that have finished.                                             *)
THEOREM StoppedBeforeDeleteHolds ==
  ASSUME ~LateCallbacks
  PROVE  Spec => StoppedBeforeDelete
<1>1. LifeIInv /\ [Next]_vars => LifeIInv'
  BY StepLifeIInv
<1>2. LifeIInv /\ [Next]_vars =>
        [\A c \in Threads : qthread[c] = "running" => qthread'[c] # "deleted"]_qthread
  <2> SUFFICES ASSUME LifeIInv, [Next]_vars, qthread' # qthread,
                      NEW c \in Threads, qthread[c] = "running"
               PROVE  qthread'[c] # "deleted"
    OBVIOUS
  <2>1. ASSUME NEW t \in Threads, Step(t) \/ Callback(t)
        PROVE  qthread'[c] # "deleted"
    BY <2>1, TreeStep DEF Tree!Begin, Tree!Finish, Tree!Delete, LifeIInv, TypeOK
  <2>2. CASE App
    BY <2>2, TreeAssumption
       DEF App, AppStart, StartThread, AppStop, AppPostTerminate, AppStopped, LifeIInv, TypeOK
  <2>3. CASE UNCHANGED vars
    BY <2>3 DEF vars
  <2>4. QED
    BY <2>1, <2>2, <2>3 DEF Next, Done
<1>3. QED
  BY <1>1, <1>2, InitLifeIInv, PTL DEF Spec, StoppedBeforeDelete

(* The detailed program implements the abstract life of a tree of threads. *)
THEOREM TreeRefinement ==
  ASSUME ~LateCallbacks
  PROVE  Spec => ImplementsThreadTree
<1>1. LifeIInv /\ [Next]_vars => LifeIInv'
  BY StepLifeIInv
<1>2. Init => Tree!TreeInit
  BY DEF Init, Tree!TreeInit
<1>3. LifeIInv /\ [Next]_vars => [Tree!TreeNext]_qthread
  <2> SUFFICES ASSUME LifeIInv, [Next]_vars, qthread' # qthread
               PROVE  Tree!TreeNext
    OBVIOUS
  <2>1. ASSUME NEW t \in Threads, Step(t) \/ Callback(t)
        PROVE  Tree!TreeNext
    BY <2>1, TreeStep DEF Tree!TreeNext
  <2>2. CASE App
    <3>1. AppStart
      BY <2>2 DEF App, AppStop, AppPostTerminate, AppStopped
    <3>2. Tree!Begin(Root)
      BY <3>1 DEF AppStart, StartThread, BootOK, LifeIInv, Tree!Begin
    <3>3. QED
      BY <3>2, TreeAssumption DEF Tree!TreeNext
  <2>3. CASE UNCHANGED vars
    BY <2>3 DEF vars
  <2>4. QED
    BY <2>1, <2>2, <2>3 DEF Next, Done
<1>4. QED
  BY <1>1, <1>2, <1>3, InitLifeIInv, PTL DEF Spec, ImplementsThreadTree, Tree!TreeSpec

-----------------------------------------------------------------------------
(***************************************************************************)
(* The messages: queue, pipe and batch implement Mailbox, and no wake-up   *)
(* is lost.                                                                *)
(***************************************************************************)
(* What the batch and the queue of a thread are together.                  *)
LEMMA AppendToConcat ==
  ASSUME NEW S, NEW b \in Seq(S), NEW q \in Seq(S), NEW m \in S
  PROVE  b \o Append(q, m) = Append(b \o q, m)
OBVIOUS

LEMMA TakeFromConcat ==
  ASSUME NEW S, NEW b \in Seq(S), NEW q \in Seq(S), b # <<>>
  PROVE  /\ b \o q # <<>>
         /\ Head(b \o q) = Head(b)
         /\ Tail(b \o q) = Tail(b) \o q
OBVIOUS

LEMMA ConcatEmpty ==
  ASSUME NEW S, NEW q \in Seq(S)
  PROVE  <<>> \o q = q /\ q \o <<>> = q
OBVIOUS

-----------------------------------------------------------------------------
(* DeliveryInv, for a step that leaves the messages where they are: only   *)
(* the place of t matters.                                                 *)
LEMMA DeliveryKept ==
  ASSUME DeliveryInv, NEW t \in Threads, UNCHANGED <<queue, batch>>,
         \A u \in Threads : u # t => pc'[u] = pc[u] /\ ret'[u] = ret[u],
         pc[t] \in {"batch", "handling"} /\ batch[t] # <<>> => pc'[t] \in {"batch", "handling"},
         LastDequeueDone(t)' => LastDequeueDone(t)
  PROVE  DeliveryInv'
<1>1. ASSUME NEW u \in Threads
      PROVE  BatchOK(u)' /\ NoChildMail(u)'
  <2>1. BatchOK(u) /\ NoChildMail(u) /\ queue' = queue /\ batch' = batch
    BY DEF DeliveryInv
  <2>2. CASE u = t
    BY <2>1, <2>2 DEF BatchOK, NoChildMail
  <2>3. CASE u # t
    BY <2>1, <2>3 DEF BatchOK, NoChildMail, LastDequeueDone
  <2>4. QED
    BY <2>2, <2>3
<1>2. QED
  BY <1>1 DEF DeliveryInv

(* No child of a thread runs once the thread has deleted its children.     *)
LEMMA NoChildRuns ==
  ASSUME LifeIInv, NEW t \in Threads, Drained(t), NEW c \in Threads, ParentOf[c] = t
  PROVE  qthread[c] # "running"
<1> SUFFICES ASSUME qthread[c] = "running"
             PROVE  FALSE
  OBVIOUS
<1>1. PICK i \in 1 .. Len(childThreads[t]) : childThreads[t][i] = c
  BY TreeAssumption DEF LifeIInv, LifeInv, ThreadOK, Registered
<1>2. QED
  BY <1>1 DEF LifeIInv, LifeInv, ThreadOK, StageOK

(* The steps that leave the messages where they are, one by one.           *)
LEMMA DeliveryLocalSteps ==
  ASSUME LifeIInv, DeliveryInv, NEW t \in Threads,
         \/ SignalEventWakeUp(t)
         \/ StartedReturn(t) \/ ProcessMessageReturn(t) \/ CollectNotDue(t) \/ CollectDue(t)
         \/ SlotTerminateThread(t) \/ SlotWakeUpThread(t) \/ SlotTerminateChildThreads(t)
         \/ PollOther(t) \/ CollectReturn(t) \/ ProcessMessagesReturn(t)
         \/ JoinChild(t) \/ JoinBusyWait(t) \/ JoinFinished(t) \/ JoinDone(t)
         \/ DeleteDone(t) \/ NotifyParent(t) \/ RunReturn(t)
  PROVE  DeliveryInv'
<1>a. TypeOK /\ BatchOK(t) /\ ThreadOK(t)
  BY DEF LifeIInv, LifeInv, DeliveryInv
<1> USE <1>a DEF TypeOK, LastDequeueDone
<1>1. ASSUME SignalEventWakeUp(t)
      PROVE  DeliveryInv'
  BY <1>1, DeliveryKept DEF SignalEventWakeUp
<1>2. ASSUME LoopTest(t), UNCHANGED <<queue, batch>>, pc[t] \in {"started", "events", "collect"},
             \A u \in Threads : u # t => ret'[u] = ret[u]
      PROVE  DeliveryInv'
  <2>1. pc' = [pc EXCEPT ![t] = "join"] \/ pc' = [pc EXCEPT ![t] = "waiting"]
    BY <1>2, Zenon DEF LoopTest, Goto
  <2>2. QED
    BY <1>2, <2>1, DeliveryKept
<1>3. ASSUME StartedReturn(t) \/ CollectNotDue(t)
      PROVE  DeliveryInv'
  BY <1>2, <1>3 DEF StartedReturn, CollectNotDue
<1>4. ASSUME ProcessMessageReturn(t)
      PROVE  DeliveryInv'
  BY <1>4, DeliveryKept DEF ProcessMessageReturn
<1>5. ASSUME CollectDue(t)
      PROVE  DeliveryInv'
  BY <1>5, DeliveryKept DEF CollectDue, CallDestroyTerminatedChildThreads
<1>6. ASSUME SlotTerminateThread(t) \/ SlotWakeUpThread(t) \/ SlotTerminateChildThreads(t)
      PROVE  DeliveryInv'
  BY <1>6, DeliveryKept
     DEF SlotTerminateThread, SlotWakeUpThread, SlotTerminateChildThreads, ReceiveSignal,
         CallProcessMessages, CallDestroyTerminatedChildThreads
<1>7. ASSUME PollOther(t)
      PROVE  DeliveryInv'
  BY <1>7, DeliveryKept DEF PollOther
<1>8. ASSUME CollectReturn(t)
      PROVE  DeliveryInv'
  <2>1. /\ pc[t] = "collect" /\ ret' = [ret EXCEPT ![t] = "none"]
        /\ UNCHANGED <<queue, batch>>
        /\ LoopTest(t) \/ pc' = [pc EXCEPT ![t] = ret[t]]
    BY <1>8, Zenon DEF CollectReturn
  <2>2. CASE LoopTest(t)
    BY <1>2, <2>1, <2>2
  <2>3. CASE pc' = [pc EXCEPT ![t] = ret[t]]
    <3>1. ret[t] \in {"events", "loop"}
      BY <2>1 DEF ThreadOK, ControlOK
    <3>2. QED
      BY <2>1, <2>3, <3>1, DeliveryKept
  <2>4. QED
    BY <2>1, <2>2, <2>3
<1>9. ASSUME ProcessMessagesReturn(t)
      PROVE  DeliveryInv'
  <2>1. ret[t] \in {"events", "join", "joinWait", "drained"}
    BY <1>9 DEF ProcessMessagesReturn, ThreadOK, ControlOK, HandlesMessages
  <2>2. QED
    BY <1>9, <2>1, DeliveryKept DEF ProcessMessagesReturn
<1>10. ASSUME JoinChild(t) \/ JoinBusyWait(t) \/ JoinFinished(t) \/ JoinDone(t) \/ DeleteDone(t)
      PROVE  DeliveryInv'
  BY <1>10, DeliveryKept
     DEF JoinChild, JoinTurn, JoinBusyWait, JoinFinished, JoinDone, DeleteDone, CallProcessMessages
<1>11. ASSUME NotifyParent(t)
      PROVE  DeliveryInv'
  BY <1>11, DeliveryKept DEF NotifyParent
<1>12. ASSUME RunReturn(t)
      PROVE  DeliveryInv'
  BY <1>12, DeliveryKept DEF RunReturn
<1>13. QED
  BY <1>1, <1>3, <1>4, <1>5, <1>6, <1>7, <1>8, <1>9, <1>10, <1>11, <1>12

(* The steps that move messages.                                           *)
LEMMA PostMessageDelivery ==
  ASSUME LifeIInv, DeliveryInv, NEW t \in Threads, NEW target \in Threads, PostMessage(t, target)
  PROVE  DeliveryInv'
<1> DEFINE m == [from |-> t, no |-> posted[t] + 1]
<1>1. /\ queue' = [queue EXCEPT ![target] = Append(queue[target], m)]
      /\ UNCHANGED <<pc, ret, batch>> /\ qthread[t] = "running" /\ m.from = t
  BY DEF PostMessage, InCallback
<1> HIDE DEF m
<1>2. \A u \in Threads : u # target => queue'[u] = queue[u]
  BY <1>1 DEF LifeIInv, TypeOK
<1>3. NoChildMail(target)'
  <2> SUFFICES ASSUME LastDequeueDone(target)', NEW i \in 1 .. Len(queue'[target])
               PROVE  ParentOf[queue'[target][i].from] # target
    BY DEF NoChildMail
  <2>1. LastDequeueDone(target)
    BY <1>1 DEF LastDequeueDone
  <2>2. Drained(target)
    BY <2>1 DEF LastDequeueDone, Drained, HandlesMessages
  <2>3. ParentOf[m.from] # target
    BY <1>1, <2>2, NoChildRuns
  <2>4. queue'[target] = Append(queue[target], m) /\ queue[target] \in Seq(Message)
    BY <1>1 DEF LifeIInv, TypeOK
  <2>5. queue'[target][i] = m \/ (i \in 1 .. Len(queue[target]) /\ queue'[target][i] = queue[target][i])
    BY <2>4
  <2>6. QED
    BY <2>1, <2>3, <2>5 DEF DeliveryInv, NoChildMail
<1>4. \A u \in Threads : BatchOK(u)' /\ (u # target => NoChildMail(u)')
  BY <1>1, <1>2 DEF DeliveryInv, BatchOK, NoChildMail, LastDequeueDone
<1>5. QED
  BY <1>3, <1>4 DEF DeliveryInv

LEMMA DequeueAllDelivery ==
  ASSUME LifeIInv, DeliveryInv, NEW t \in Threads, DequeueAll(t)
  PROVE  DeliveryInv'
<1>1. /\ pc'[t] = "batch" /\ queue'[t] = <<>>
      /\ \A u \in Threads : u # t => /\ pc'[u] = pc[u] /\ ret'[u] = ret[u]
                                     /\ queue'[u] = queue[u] /\ batch'[u] = batch[u]
  BY DEF DequeueAll, LifeIInv, TypeOK
<1>2. BatchOK(t)' /\ NoChildMail(t)'
  BY <1>1 DEF BatchOK, NoChildMail
<1>3. ASSUME NEW u \in Threads, u # t
      PROVE  BatchOK(u)' /\ NoChildMail(u)'
  BY <1>1, <1>3 DEF DeliveryInv, BatchOK, NoChildMail, LastDequeueDone
<1>4. QED
  BY <1>2, <1>3 DEF DeliveryInv

LEMMA ProcessMessageDelivery ==
  ASSUME LifeIInv, DeliveryInv, NEW t \in Threads, ProcessMessage(t)
  PROVE  DeliveryInv'
<1>1. /\ pc[t] = "batch" /\ pc'[t] = "handling" /\ ret' = ret /\ queue' = queue
      /\ \A u \in Threads : u # t => pc'[u] = pc[u] /\ batch'[u] = batch[u]
  BY DEF ProcessMessage, LifeIInv, TypeOK
<1>2. BatchOK(t)' /\ NoChildMail(t)'
  BY <1>1 DEF DeliveryInv, BatchOK, NoChildMail, LastDequeueDone
<1>3. ASSUME NEW u \in Threads, u # t
      PROVE  BatchOK(u)' /\ NoChildMail(u)'
  BY <1>1, <1>3 DEF DeliveryInv, BatchOK, NoChildMail, LastDequeueDone
<1>4. QED
  BY <1>2, <1>3 DEF DeliveryInv

(* delete takes the queue of the child with it.                            *)
LEMMA DeleteDelivery ==
  ASSUME LifeIInv, DeliveryInv, NEW c \in Threads, UNCHANGED <<pc, ret, batch>>,
         queue' = queue \/ DeleteThread(c)
  PROVE  DeliveryInv'
<1>1. \A u \in Threads : queue'[u] = queue[u] \/ queue'[u] = <<>>
  BY DEF DeleteThread, LifeIInv, TypeOK
<1>2. ASSUME NEW u \in Threads
      PROVE  BatchOK(u)' /\ NoChildMail(u)'
  BY <1>1 DEF DeliveryInv, BatchOK, NoChildMail, LastDequeueDone
<1>3. QED
  BY <1>2 DEF DeliveryInv

(* What CollectChild and DeleteChild delete is a thread, and it has        *)
(* finished.                                                               *)
LEMMA CollectChildEffect ==
  ASSUME LifeIInv, NEW t \in Threads, CollectChild(t)
  PROVE  /\ UNCHANGED <<pc, ret, batch, isTerminated, signalTo, posted, handled>>
         /\ \/ UNCHANGED <<qthread, pipe, queue>>
            \/ \E c \in Threads : IsFinished(c) /\ DeleteThread(c)
<1> DEFINE c == childThreads[t][index[t]]
<1>1. c \in Threads
  <2>1. index[t] \in 1 .. Len(childThreads[t]) /\ childThreads[t] \in Seq(Threads)
    BY DEF CollectChild, LifeIInv, LifeInv, ThreadOK, IndexOK, TypeOK
  <2>2. QED
    BY <2>1
<1>2. UNCHANGED <<qthread, pipe, queue>> \/ (IsFinished(c) /\ DeleteThread(c))
  BY Zenon DEF CollectChild
<1>3. UNCHANGED <<pc, ret, batch, isTerminated, signalTo, posted, handled>>
  BY DEF CollectChild
<1> HIDE DEF c
<1>4. QED
  BY <1>1, <1>2, <1>3

LEMMA DeleteChildEffect ==
  ASSUME LifeIInv, NEW t \in Threads, DeleteChild(t)
  PROVE  /\ UNCHANGED <<pc, ret, batch, isTerminated, signalTo, posted, handled>>
         /\ \E c \in Threads : IsFinished(c) /\ DeleteThread(c)
<1> DEFINE c == childThreads[t][index[t]]
<1>1. index[t] \in 1 .. Len(childThreads[t]) /\ childThreads[t] \in Seq(Threads)
  BY DEF DeleteChild, LifeIInv, LifeInv, ThreadOK, IndexOK, Deleting, TypeOK
<1>2. c \in Threads
  BY <1>1
<1>3. IsFinished(c)
  BY <1>1 DEF DeleteChild, LifeIInv, LifeInv, ThreadOK, StageOK, Deleting, IsFinished
<1>4. DeleteThread(c) /\ UNCHANGED <<pc, ret, batch, isTerminated, signalTo, posted, handled>>
  BY DEF DeleteChild
<1> HIDE DEF c
<1>5. QED
  BY <1>2, <1>3, <1>4

LEMMA StartDelivery ==
  ASSUME LifeIInv, DeliveryInv, NEW c \in Threads, qthread[c] = "new", StartThread(c),
         UNCHANGED <<ret, queue, batch>>
  PROVE  DeliveryInv'
<1>1. pc[c] = "off" /\ pc'[c] = "started" /\ \A u \in Threads : u # c => pc'[u] = pc[u]
  BY DEF StartThread, LifeIInv, TypeOK, LifeInv, ThreadOK, ControlOK
<1>2. QED
  BY <1>1, DeliveryKept DEF LastDequeueDone

LEMMA StepDeliveryInv == LifeIInv /\ DeliveryInv /\ [Next]_vars => DeliveryInv'
<1> SUFFICES ASSUME LifeIInv, DeliveryInv, [Next]_vars
             PROVE  DeliveryInv'
  OBVIOUS
<1>1. ASSUME NEW t \in Threads, Step(t)
      PROVE  DeliveryInv'
  <2>1. CASE CollectChild(t)
    BY <2>1, CollectChildEffect, DeleteDelivery
  <2>2. CASE DeleteChild(t)
    BY <2>2, DeleteChildEffect, DeleteDelivery
  <2>3. QED
    BY <1>1, <2>1, <2>2, DeliveryLocalSteps, DequeueAllDelivery, ProcessMessageDelivery DEF Step
<1>2. ASSUME UNCHANGED <<pc, ret, queue, batch>>
      PROVE  DeliveryInv'
  BY <1>2, TreeAssumption, DeliveryKept DEF LastDequeueDone
<1>3. ASSUME NEW t \in Threads, Callback(t)
      PROVE  DeliveryInv'
  <2>1. ASSUME NEW c \in Threads, StopChild(t, c)
        PROVE  DeliveryInv'
    BY <1>2, <2>1 DEF StopChild
  <2>2. CASE TerminateThread(t)
    BY <1>2, <2>2 DEF TerminateThread
  <2>3. ASSUME NEW c \in Threads, RegisterAndStartChildThread(t, c)
        PROVE  DeliveryInv'
    BY <2>3, StartDelivery DEF RegisterAndStartChildThread
  <2>4. QED
    BY <1>3, <2>1, <2>2, <2>3, PostMessageDelivery DEF Callback
<1>4. CASE AppStart
  BY <1>4, TreeAssumption, StartDelivery DEF AppStart, LifeIInv, BootOK
<1>5. CASE AppStop \/ AppPostTerminate \/ AppStopped \/ UNCHANGED vars
  BY <1>2, <1>5 DEF AppStop, AppPostTerminate, AppStopped, vars
<1>6. QED
  BY <1>1, <1>3, <1>4, <1>5 DEF Next, App, Done

LEMMA InitDeliveryInv == Init => DeliveryInv
BY DEF Init, DeliveryInv, BatchOK, NoChildMail, LastDequeueDone

-----------------------------------------------------------------------------
(* In the eyes of Mailbox.                                                 *)
Pending == [t \in Threads |-> batch[t] \o queue[t]]
Open    == [t \in Threads |-> ~IsFinished(t)]

MailUnchanged == UNCHANGED <<Pending, handled, posted, Open>>

(* Messages that do not move and threads that do not finish are a stutter. *)
LEMMA MailKept ==
  ASSUME UNCHANGED <<queue, batch, handled, posted>>,
         \A u \in Threads : IsFinished(u)' = IsFinished(u)
  PROVE  MailUnchanged
<1>1. Pending' = Pending
  BY DEF Pending
<1>2. Open' = Open
  BY Zenon DEF Open
<1>3. QED
  BY <1>1, <1>2 DEF MailUnchanged

LEMMA PendingUpdate ==
  ASSUME NEW t \in Threads, NEW x, batch'[t] \o queue'[t] = x,
         \A u \in Threads : u # t => batch'[u] = batch[u] /\ queue'[u] = queue[u]
  PROVE  Pending' = [Pending EXCEPT ![t] = x]
BY DEF Pending

LEMMA OpenKept ==
  ASSUME qthread' = qthread
  PROVE  Open' = Open /\ \A t \in Threads : qthread[t] = "running" => Open[t]
<1>1. \A t \in Threads : IsFinished(t)' = IsFinished(t)
  BY DEF IsFinished
<1>2. \A t \in Threads : qthread[t] = "running" => ~IsFinished(t)
  BY DEF IsFinished
<1>3. QED
  BY <1>1, <1>2, Zenon DEF Open

LEMMA PostMessageRefines ==
  ASSUME LifeIInv, NEW s \in Threads, NEW t \in Threads, PostMessage(s, t)
  PROVE  Mail!Post(s, t)
<1> DEFINE m == [from |-> s, no |-> posted[s] + 1]
<1>1. /\ queue' = [queue EXCEPT ![t] = Append(queue[t], m)]
      /\ posted' = [posted EXCEPT ![s] = posted[s] + 1]
      /\ UNCHANGED <<qthread, batch, handled>> /\ qthread[s] = "running"
  BY DEF PostMessage, InCallback
<1>2. m \in Message
  BY DEF LifeIInv, TypeOK, Message
<1> HIDE DEF m
<1>3. Pending' = [Pending EXCEPT ![t] = Append(Pending[t], m)]
  <2>1. batch[t] \in Seq(Message) /\ queue[t] \in Seq(Message)
    BY DEF LifeIInv, TypeOK
  <2>2. batch[t] \o queue'[t] = Append(batch[t] \o queue[t], m)
    <3>1. queue'[t] = Append(queue[t], m)
      BY <1>1 DEF LifeIInv, TypeOK
    <3>2. \A b, q \in Seq(Message) : b \o Append(q, m) = Append(b \o q, m)
      BY <1>2, AppendToConcat
    <3>3. QED
      BY <2>1, <3>1, <3>2, Zenon
  <2>3. \A u \in Threads : u # t => queue'[u] = queue[u]
    BY <1>1 DEF LifeIInv, TypeOK
  <2>4. batch'[t] \o queue'[t] = Append(Pending[t], m)
    BY <1>1, <2>2 DEF Pending
  <2>5. QED
    BY <1>1, <2>3, <2>4, PendingUpdate
<1>4. Open' = Open /\ Open[s]
  BY <1>1, OpenKept
<1>5. QED
  BY <1>1, <1>3, <1>4 DEF Mail!Post, Pending, Open, m

LEMMA ProcessMessageRefines ==
  ASSUME LifeIInv, NEW t \in Threads, ProcessMessage(t)
  PROVE  Mail!Consume(t)
<1>1. /\ batch[t] # <<>> /\ qthread[t] = "running"
      /\ handled' = [handled EXCEPT ![t] = Append(handled[t], Head(batch[t]))]
      /\ batch' = [batch EXCEPT ![t] = Tail(batch[t])]
      /\ UNCHANGED <<qthread, queue, posted>>
  BY DEF ProcessMessage
<1>2. batch[t] \in Seq(Message) /\ queue[t] \in Seq(Message)
  BY DEF LifeIInv, TypeOK
<1>3. /\ Pending[t] # <<>>
      /\ Head(Pending[t]) = Head(batch[t])
      /\ Tail(Pending[t]) = Tail(batch[t]) \o queue[t]
  BY <1>1, <1>2, TakeFromConcat DEF Pending
<1>4. Pending' = [Pending EXCEPT ![t] = Tail(Pending[t])]
  <2>1. batch'[t] = Tail(batch[t]) /\ \A u \in Threads : u # t => batch'[u] = batch[u]
    BY <1>1 DEF LifeIInv, TypeOK
  <2>2. batch'[t] \o queue'[t] = Tail(Pending[t])
    BY <1>1, <1>3, <2>1
  <2>3. QED
    BY <1>1, <2>1, <2>2, PendingUpdate
<1>5. Open' = Open /\ Open[t]
  BY <1>1, OpenKept
<1>6. QED
  BY <1>1, <1>3, <1>4, <1>5 DEF Mail!Consume, Pending, Open

LEMMA DequeueAllRefines ==
  ASSUME LifeIInv, DeliveryInv, NEW t \in Threads, DequeueAll(t)
  PROVE  MailUnchanged
<1>1. batch[t] = <<>> /\ queue[t] \in Seq(Message)
  BY DEF DequeueAll, DeliveryInv, BatchOK, LifeIInv, TypeOK
<1>2. /\ batch'[t] = queue[t] /\ queue'[t] = <<>>
      /\ \A u \in Threads : u # t => batch'[u] = batch[u] /\ queue'[u] = queue[u]
      /\ UNCHANGED <<qthread, handled, posted>>
  BY DEF DequeueAll, LifeIInv, TypeOK
<1>3. batch'[t] \o queue'[t] = batch[t] \o queue[t]
  BY <1>1, <1>2, ConcatEmpty
<1>4. Pending' = Pending
  BY <1>2, <1>3 DEF Pending
<1>5. Open' = Open
  BY <1>2, OpenKept
<1>6. QED
  BY <1>2, <1>4, <1>5 DEF MailUnchanged

(* A thread is finished when no message of a child of it is pending.       *)
LEMMA RunReturnRefines ==
  ASSUME LifeIInv, DeliveryInv, NEW t \in Threads, RunReturn(t)
  PROVE  Mail!Close(t)
<1>1. /\ qthread[t] = "running" /\ pc[t] = "exit"
      /\ qthread' = [qthread EXCEPT ![t] = "finished"]
      /\ UNCHANGED <<queue, batch, handled, posted>>
  BY DEF RunReturn
<1>2. Pending[t] = queue[t]
  <2>1. batch[t] = <<>> /\ queue[t] \in Seq(Message)
    BY <1>1 DEF DeliveryInv, BatchOK, LifeIInv, TypeOK
  <2>2. QED
    BY <2>1, ConcatEmpty DEF Pending
<1>3. \A i \in 1 .. Len(Pending[t]) : ParentOf[Pending[t][i].from] # t
  BY <1>1, <1>2 DEF DeliveryInv, NoChildMail, LastDequeueDone
<1>4. Open' = [Open EXCEPT ![t] = FALSE] /\ Open[t]
  <2>1. qthread'[t] = "finished" /\ \A u \in Threads : u # t => qthread'[u] = qthread[u]
    BY <1>1 DEF LifeIInv, TypeOK
  <2>2. IsFinished(t)' /\ ~IsFinished(t) /\ \A u \in Threads : u # t => IsFinished(u)' = IsFinished(u)
    BY <1>1, <2>1 DEF IsFinished
  <2>3. QED
    BY <2>2, Zenon DEF Open
<1>5. Pending' = Pending
  BY <1>1 DEF Pending
<1>6. QED
  BY <1>1, <1>3, <1>4, <1>5 DEF Mail!Close, Pending, Open

LEMMA DeleteRefines ==
  ASSUME LifeIInv, DeliveryInv, NEW c \in Threads, IsFinished(c), DeleteThread(c),
         UNCHANGED <<batch, handled, posted>>
  PROVE  Mail!Discard(c)
<1>1. batch[c] = <<>>
  BY DEF IsFinished, DeliveryInv, BatchOK, LifeIInv, LifeInv, ThreadOK, ControlOK
<1>2. queue'[c] = <<>> /\ \A u \in Threads : u # c => queue'[u] = queue[u] /\ qthread'[u] = qthread[u]
  BY DEF DeleteThread, LifeIInv, TypeOK
<1>3. Pending' = [Pending EXCEPT ![c] = <<>>]
  <2>1. batch'[c] \o queue'[c] = <<>>
    BY <1>1, <1>2
  <2>2. QED
    BY <1>2, <2>1 DEF Pending
<1>4. qthread'[c] = "deleted"
  BY DEF DeleteThread, LifeIInv, TypeOK
<1>5. \A u \in Threads : IsFinished(u)' = IsFinished(u)
  BY <1>2, <1>4 DEF IsFinished
<1>6. Open' = Open /\ ~Open[c]
  BY <1>5, Zenon DEF Open
<1>7. QED
  BY <1>3, <1>6 DEF Mail!Discard, Pending, Open

LEMMA StartRefines ==
  ASSUME LifeIInv, NEW c \in Threads, qthread[c] = "new", StartThread(c),
         UNCHANGED <<queue, batch, handled, posted>>
  PROVE  MailUnchanged
<1>1. qthread'[c] = "running" /\ \A u \in Threads : u # c => qthread'[u] = qthread[u]
  BY DEF StartThread, LifeIInv, TypeOK
<1>2. \A u \in Threads : IsFinished(u)' = IsFinished(u)
  BY <1>1 DEF IsFinished
<1>3. QED
  BY <1>2, MailKept

(* Every step of the program is a step of Mailbox, or changes nothing that *)
(* Mailbox sees.                                                           *)
LEMMA MailStep ==
  ASSUME LifeIInv, DeliveryInv, [Next]_vars
  PROVE  [Mail!MailboxNext]_<<Pending, handled, posted, Open>>
<1>1. ASSUME UNCHANGED <<qthread, queue, batch, handled, posted>>
      PROVE  MailUnchanged
  <2>1. \A u \in Threads : IsFinished(u)' = IsFinished(u)
    BY <1>1 DEF IsFinished
  <2>2. QED
    BY <1>1, <2>1, MailKept
<1>2. ASSUME NEW t \in Threads, Step(t)
      PROVE  MailUnchanged \/ Mail!MailboxNext
  <2>1. CASE CollectChild(t)
    <3>1. CASE UNCHANGED <<qthread, pipe, queue>>
      BY <1>1, <2>1, <3>1, CollectChildEffect
    <3>2. CASE \E c \in Threads : IsFinished(c) /\ DeleteThread(c)
      BY <2>1, <3>2, CollectChildEffect, DeleteRefines DEF Mail!MailboxNext
    <3>3. QED
      BY <2>1, <3>1, <3>2, CollectChildEffect
  <2>2. CASE DeleteChild(t)
    BY <2>2, DeleteChildEffect, DeleteRefines DEF Mail!MailboxNext
  <2>3. CASE DequeueAll(t)
    BY <2>3, DequeueAllRefines
  <2>4. CASE ProcessMessage(t)
    BY <2>4, ProcessMessageRefines DEF Mail!MailboxNext
  <2>5. CASE RunReturn(t)
    BY <2>5, RunReturnRefines DEF Mail!MailboxNext
  <2>6. CASE \/ SignalEventWakeUp(t)
             \/ StartedReturn(t) \/ ProcessMessageReturn(t) \/ CollectNotDue(t) \/ CollectDue(t)
             \/ SlotTerminateThread(t) \/ SlotWakeUpThread(t) \/ SlotTerminateChildThreads(t)
             \/ PollOther(t) \/ CollectReturn(t) \/ ProcessMessagesReturn(t)
    BY <1>1, <2>6
       DEF SignalEventWakeUp, StartedReturn, ProcessMessageReturn, CollectNotDue, CollectDue,
           SlotTerminateThread, SlotWakeUpThread, SlotTerminateChildThreads,
           PollOther, CollectReturn, ProcessMessagesReturn
  <2>7. CASE \/ JoinChild(t) \/ JoinBusyWait(t) \/ JoinFinished(t) \/ JoinDone(t)
             \/ DeleteDone(t) \/ NotifyParent(t)
    BY <1>1, <2>7 DEF JoinChild, JoinBusyWait, JoinFinished, JoinDone, DeleteDone, NotifyParent
  <2>8. QED
    BY <1>2, <2>1, <2>2, <2>3, <2>4, <2>5, <2>6, <2>7 DEF Step
<1>3. ASSUME NEW t \in Threads, Callback(t)
      PROVE  MailUnchanged \/ Mail!MailboxNext
  <2>1. ASSUME NEW u \in Threads, PostMessage(t, u)
        PROVE  Mail!MailboxNext
    BY <2>1, PostMessageRefines DEF Mail!MailboxNext
  <2>2. ASSUME NEW c \in Threads, RegisterAndStartChildThread(t, c)
        PROVE  MailUnchanged
    BY <2>2, StartRefines DEF RegisterAndStartChildThread
  <2>3. ASSUME TerminateThread(t) \/ \E c \in Threads : StopChild(t, c)
        PROVE  MailUnchanged
    BY <1>1, <2>3 DEF TerminateThread, StopChild
  <2>4. QED
    BY <1>3, <2>1, <2>2, <2>3 DEF Callback
<1>4. CASE AppStart
  <2>1. MailUnchanged
    BY <1>4, TreeAssumption, StartRefines DEF AppStart, LifeIInv, BootOK
  <2>2. QED
    BY <2>1 DEF MailUnchanged
<1>5. CASE AppStop \/ AppPostTerminate \/ AppStopped \/ UNCHANGED vars
  <2>1. MailUnchanged
    BY <1>1, <1>5 DEF AppStop, AppPostTerminate, AppStopped, vars
  <2>2. QED
    BY <2>1 DEF MailUnchanged
<1>6. QED
  BY <1>2, <1>3, <1>4, <1>5 DEF Next, App, Done, MailUnchanged

(* Queue, pipe and batch implement Mailbox: messages reach their thread in *)
(* the order in which they were posted, each at most once, and no thread   *)
(* finishes before the messages of its children are handled.               *)
THEOREM MailboxRefinement ==
  ASSUME ~LateCallbacks
  PROVE  Spec => ImplementsMailbox
<1>1. LifeIInv /\ [Next]_vars => LifeIInv'
  BY StepLifeIInv
<1>2. LifeIInv /\ DeliveryInv /\ [Next]_vars => DeliveryInv'
  BY StepDeliveryInv
<1>3. Init => Mail!MailboxInit
  <2> SUFFICES ASSUME Init
               PROVE  Mail!MailboxInit
    OBVIOUS
  <2>1. Pending = [t \in Threads |-> <<>>]
    BY DEF Init, Pending
  <2>2. Open = [t \in Threads |-> TRUE]
    BY DEF Init, Open, IsFinished
  <2>3. QED
    BY <2>1, <2>2 DEF Init, Mail!MailboxInit, Pending, Open
<1>4. LifeIInv /\ DeliveryInv /\ [Next]_vars => [Mail!MailboxNext]_(Mail!mailboxVars)
  BY MailStep DEF Mail!mailboxVars, Pending, Open
<1>5. QED
  BY <1>1, <1>2, <1>3, <1>4, InitLifeIInv, InitDeliveryInv, PTL
     DEF Spec, ImplementsMailbox, Mail!MailboxSpec

-----------------------------------------------------------------------------
(* WakeInv.  What a step of a thread may change of the threads.            *)

LEMMA OnlyRunReturnFinishes ==
  ASSUME LifeIInv, NEW t \in Threads, Step(t) \/ Callback(t),
         NEW s \in Threads, qthread[s] = "running", qthread'[s] # "running"
  PROVE  RunReturn(t) /\ s = t
<1>1. ASSUME NEW c \in Threads, IsFinished(c), DeleteThread(c)
      PROVE  FALSE
  BY <1>1 DEF IsFinished, DeleteThread, LifeIInv, TypeOK
<1>2. ~CollectChild(t)
  BY <1>1, CollectChildEffect
<1>3. ~DeleteChild(t)
  BY <1>1, DeleteChildEffect
<1>4. ASSUME NEW c \in Threads, RegisterAndStartChildThread(t, c)
      PROVE  FALSE
  BY <1>4 DEF RegisterAndStartChildThread, StartThread, LifeIInv, TypeOK
<1>5. ASSUME RunReturn(t)
      PROVE  s = t
  BY <1>5 DEF RunReturn, LifeIInv, TypeOK
<1>6. ASSUME Step(t), ~RunReturn(t), ~CollectChild(t), ~DeleteChild(t)
      PROVE  FALSE
  BY <1>6
     DEF Step, SignalEventWakeUp, StartedReturn, ProcessMessageReturn, CollectNotDue, CollectDue,
         SlotTerminateThread, SlotWakeUpThread, SlotTerminateChildThreads, PollOther,
         CollectReturn, DequeueAll, ProcessMessage, ProcessMessagesReturn,
         JoinChild, JoinBusyWait, JoinFinished, JoinDone, DeleteDone, NotifyParent
<1>7. ASSUME Callback(t), \A c \in Threads : ~RegisterAndStartChildThread(t, c)
      PROVE  FALSE
  BY <1>7 DEF Callback, PostMessage, StopChild, TerminateThread
<1>8. QED
  BY <1>2, <1>3, <1>4, <1>5, <1>6, <1>7

LEMMA FinishedForGood ==
  ASSUME LifeIInv, NEW t \in Threads, Step(t) \/ Callback(t), NEW s \in Threads, IsFinished(s)
  PROVE  IsFinished(s)'
BY TreeStep DEF Tree!Begin, Tree!Finish, Tree!Delete, IsFinished, LifeIInv, TypeOK

(* A thread that has a signal to send goes on running until it has sent it.*)
LEMMA PosterKept ==
  ASSUME LifeIInv, NEW t \in Threads, Step(t) \/ Callback(t),
         NEW s \in Threads, qthread[s] = "running", signalTo[s] # Nobody,
         ~(SignalEventWakeUp(t) /\ s = t)
  PROVE  qthread'[s] = "running" /\ signalTo'[s] = signalTo[s]
<1>1. qthread'[s] = "running"
  <2>1. pc[s] # "exit"
    BY DEF LifeIInv, LifeInv, ThreadOK, SignalOK, CallbackLocs
  <2>2. QED
    BY <2>1, OnlyRunReturnFinishes DEF RunReturn
<1>2. CASE SignalEventWakeUp(t)
  BY <1>1, <1>2 DEF SignalEventWakeUp, LifeIInv, TypeOK
<1>3. ASSUME NEW c \in Threads, PostMessage(t, c)
      PROVE  signalTo'[s] = signalTo[s]
  BY <1>3 DEF PostMessage, InCallback, LifeIInv, TypeOK
<1>4. ASSUME Step(t), ~SignalEventWakeUp(t)
      PROVE  signalTo'[s] = signalTo[s]
  BY <1>4
     DEF Step, StartedReturn, ProcessMessageReturn, CollectNotDue, CollectDue,
         SlotTerminateThread, SlotWakeUpThread, SlotTerminateChildThreads, PollOther,
         CollectChild, CollectReturn, DequeueAll, ProcessMessage, ProcessMessagesReturn,
         JoinChild, JoinBusyWait, JoinFinished, JoinDone, DeleteChild, DeleteDone,
         NotifyParent, RunReturn
<1>5. ASSUME Callback(t), \A c \in Threads : ~PostMessage(t, c)
      PROVE  signalTo'[s] = signalTo[s]
  BY <1>5 DEF Callback, StopChild, TerminateThread, RegisterAndStartChildThread
<1>6. QED
  BY <1>1, <1>2, <1>3, <1>4, <1>5

(* Only a thread's own steps move it; the one exception starts it.         *)
LEMMA PlaceOfOthers ==
  ASSUME LifeIInv, NEW t \in Threads, Step(t) \/ Callback(t), NEW u \in Threads, u # t
  PROVE  pc'[u] = pc[u] \/ pc[u] = "off"
<1>1. ASSUME NEW c \in Threads, RegisterAndStartChildThread(t, c)
      PROVE  pc'[u] = pc[u] \/ pc[u] = "off"
  <2>1. pc[c] = "off" /\ pc' = [pc EXCEPT ![c] = "started"]
    BY <1>1 DEF RegisterAndStartChildThread, StartThread, LifeIInv, LifeInv, ThreadOK, ControlOK
  <2>2. QED
    BY <2>1 DEF LifeIInv, TypeOK
<1>2. ASSUME Callback(t), \A c \in Threads : ~RegisterAndStartChildThread(t, c)
      PROVE  pc' = pc
  BY <1>2 DEF Callback, PostMessage, StopChild, TerminateThread
<1>3. ASSUME LoopTest(t)
      PROVE  pc'[u] = pc[u]
  <2>1. pc' = [pc EXCEPT ![t] = "join"] \/ pc' = [pc EXCEPT ![t] = "waiting"]
    BY <1>3, Zenon DEF LoopTest, Goto
  <2>2. QED
    BY <2>1 DEF LifeIInv, TypeOK
<1>4. ASSUME CollectReturn(t)
      PROVE  pc'[u] = pc[u]
  <2>1. LoopTest(t) \/ pc' = [pc EXCEPT ![t] = ret[t]]
    BY <1>4, Zenon DEF CollectReturn
  <2>2. QED
    BY <1>3, <2>1 DEF LifeIInv, TypeOK
<1>5. ASSUME Step(t), ~LoopTest(t), ~CollectReturn(t)
      PROVE  pc'[u] = pc[u]
  BY <1>5
     DEF Step, SignalEventWakeUp, StartedReturn, ProcessMessageReturn, CollectNotDue, CollectDue,
         SlotTerminateThread, SlotWakeUpThread, SlotTerminateChildThreads, PollOther,
         CollectChild, DequeueAll, ProcessMessage, ProcessMessagesReturn,
         JoinChild, JoinBusyWait, JoinFinished, JoinDone, DeleteChild, DeleteDone,
         NotifyParent, RunReturn, CallProcessMessages, CallDestroyTerminatedChildThreads,
         LifeIInv, TypeOK
<1>6. QED
  BY <1>1, <1>2, <1>3, <1>4, <1>5

(* From its notification on, a thread can only return from run().          *)
LEMMA AtExit ==
  ASSUME LifeIInv, NEW t \in Threads, Step(t) \/ Callback(t), pc[t] = "exit"
  PROVE  RunReturn(t)
<1>1. signalTo[t] = Nobody
  BY NothingToSignal DEF LifeIInv
<1>2. ~Callback(t)
  BY DEF Callback, PostMessage, StopChild, TerminateThread, RegisterAndStartChildThread,
         MayUseChildren, InCallback, CallbackLocs
<1>3. Step(t)
  BY <1>2
<1>4. QED
  BY <1>1, <1>3
     DEF Step, SignalEventWakeUp, StartedReturn, ProcessMessageReturn, CollectNotDue, CollectDue,
         SlotTerminateThread, SlotWakeUpThread, SlotTerminateChildThreads, ReceiveSignal,
         PollOther, CollectChild, CollectReturn, DequeueAll, ProcessMessage,
         ProcessMessagesReturn, JoinChild, JoinTurn, JoinBusyWait, JoinFinished, JoinDone,
         DeleteChild, DeleteDone, NotifyParent

LEMMA NotifiedForGood ==
  ASSUME LifeIInv, NEW t \in Threads, Step(t) \/ Callback(t), NEW s \in Threads, Notified(s)
  PROVE  Notified(s)'
<1>1. CASE IsFinished(s)
  BY <1>1, FinishedForGood DEF Notified
<1>2. CASE pc[s] = "exit" /\ s # t
  BY <1>2, PlaceOfOthers DEF Notified
<1>3. CASE pc[s] = "exit" /\ s = t
  BY <1>3, AtExit DEF RunReturn, Notified, IsFinished, LifeIInv, TypeOK
<1>4. QED
  BY <1>1, <1>2, <1>3 DEF Notified

-----------------------------------------------------------------------------
(* WakeInv.  The pipe.                                                     *)

(* A full pipe holds a byte that brings the thread to its queue: there are *)
(* fewer children than bytes.                                              *)
LEMMA FullPipe ==
  ASSUME TypeOK, PipeRoom, NEW t \in Threads, OneByteEach(t), Len(pipe[t]) >= PipeCapacity
  PROVE  Contains(pipe[t], SignalWakeUp) \/ Contains(pipe[t], SignalTerminate)
<1> SUFFICES ASSUME ~Contains(pipe[t], SignalWakeUp), ~Contains(pipe[t], SignalTerminate)
             PROVE  FALSE
  OBVIOUS
<1> DEFINE n == Len(pipe[t])
           children == {c \in Threads : ParentOf[c] = t}
<1>1. pipe[t] \in Seq(ThreadSignals) /\ n \in Nat
  BY DEF TypeOK
<1>2. \A i \in 1 .. n : pipe[t][i] = SignalTerminateChildThreads
  <2>1. \A i \in 1 .. n : pipe[t][i] \in ThreadSignals
    BY <1>1
  <2>2. QED
    BY <2>1 DEF Contains, ThreadSignals
<1>3. PICK sender \in [1 .. n -> Threads] :
        /\ \A i \in 1 .. n : ParentOf[sender[i]] = t
        /\ \A i, j \in 1 .. n : sender[i] = sender[j] => i = j
  BY <1>2 DEF OneByteEach
<1>4. IsFiniteSet(children) /\ Cardinality(children) < PipeCapacity
  BY DEF PipeRoom
<1>5. IsFiniteSet(1 .. n) /\ Cardinality(1 .. n) = n
  BY <1>1, FS_Interval
<1>6. Cardinality(children) < Cardinality(1 .. n)
  <2>1. Cardinality(children) \in Nat
    BY <1>4, FS_CardinalityType
  <2>2. QED
    BY <1>1, <1>4, <1>5, <2>1, BoundAssumption
<1>7. sender \in [1 .. n -> children]
  BY <1>3
<1>8. \E i, j \in 1 .. n : i # j /\ sender[i] = sender[j]
  <2> HIDE DEF n, children
  <2>1. QED
    BY <1>4, <1>5, <1>6, <1>7, FS_PigeonHole
<1>9. QED
  BY <1>3, <1>8

(* A byte written.                                                         *)
LEMMA SendKeeps ==
  ASSUME TypeOK, NEW t \in Threads, NEW signal, SendSignal(t, signal)
  PROVE  /\ \A u \in Threads : u # t => pipe'[u] = pipe[u]
         /\ pipe'[t] = pipe[t] \/ pipe'[t] = Append(pipe[t], signal)
         /\ ~IsFinished(t) /\ Len(pipe[t]) < PipeCapacity => pipe'[t] = Append(pipe[t], signal)
<1>1. pipe \in [Threads -> Seq(ThreadSignals)] /\ Len(pipe[t]) \in Nat /\ PipeCapacity \in Nat
  BY BoundAssumption DEF TypeOK
<1>2. CASE IsFinished(t) \/ Len(pipe[t]) >= PipeCapacity
  <2>1. pipe' = pipe
    BY <1>2, Zenon DEF SendSignal
  <2>2. QED
    BY <1>1, <1>2, <2>1
<1>3. CASE ~(IsFinished(t) \/ Len(pipe[t]) >= PipeCapacity)
  <2>1. pipe' = [pipe EXCEPT ![t] = Append(pipe[t], signal)]
    BY <1>3, Zenon DEF SendSignal
  <2>2. QED
    BY <1>1, <2>1
<1>4. QED
  BY <1>2, <1>3

LEMMA AppendContains ==
  ASSUME NEW S, NEW s \in Seq(S), NEW x \in S
  PROVE  /\ Contains(Append(s, x), x)
         /\ \A y : Contains(s, y) => Contains(Append(s, x), y)
BY DEF Contains

LEMMA TailContains ==
  ASSUME NEW S, NEW s \in Seq(S), s # <<>>
  PROVE  \A y : Contains(s, y) /\ y # Head(s) => Contains(Tail(s), y)
<1> SUFFICES ASSUME NEW i \in 1 .. Len(s), s[i] # Head(s)
             PROVE  \E j \in 1 .. Len(Tail(s)) : Tail(s)[j] = s[i]
  BY DEF Contains
<1>1. i # 1 /\ i - 1 \in 1 .. Len(Tail(s)) /\ Tail(s)[i - 1] = s[i]
  OBVIOUS
<1>2. QED
  BY <1>1

(* OneByteEach, for a pipe that nobody touches, that is read, and that is  *)
(* written to.                                                             *)
LEMMA SamePipe ==
  ASSUME NEW t \in Threads, OneByteEach(t), pipe'[t] = pipe[t],
         \A c \in Threads : Notified(c) => Notified(c)'
  PROVE  OneByteEach(t)'
BY DEF OneByteEach

LEMMA ReadPipe ==
  ASSUME TypeOK, NEW t \in Threads, OneByteEach(t), pipe[t] # <<>>, pipe'[t] = Tail(pipe[t]),
         \A c \in Threads : Notified(c) => Notified(c)'
  PROVE  OneByteEach(t)'
<1> DEFINE p == pipe[t]
           n == Len(p)
<1>1. p \in Seq(ThreadSignals) /\ n \in Nat /\ n > 0
  BY DEF TypeOK
<1>2. Len(pipe'[t]) = n - 1 /\ \A i \in 1 .. n - 1 : pipe'[t][i] = p[i + 1]
  BY <1>1
<1>3. PICK sender \in [1 .. n -> Threads] :
        /\ \A i \in 1 .. n : p[i] = SignalTerminateChildThreads =>
             ParentOf[sender[i]] = t /\ Notified(sender[i])
        /\ \A i, j \in 1 .. n :
             /\ p[i] = SignalTerminateChildThreads /\ p[j] = SignalTerminateChildThreads
             /\ sender[i] = sender[j]
             => i = j
  BY DEF OneByteEach
<1> HIDE DEF p, n
<1>4. \A i \in 1 .. n - 1 : i + 1 \in 1 .. n
  BY <1>1
<1>5. PICK later \in [1 .. n - 1 -> Threads] : \A i \in 1 .. n - 1 : later[i] = sender[i + 1]
  <2> DEFINE f == [i \in 1 .. n - 1 |-> sender[i + 1]]
  <2>1. f \in [1 .. n - 1 -> Threads]
    BY <1>4
  <2>2. \A i \in 1 .. n - 1 : f[i] = sender[i + 1]
    OBVIOUS
  <2>3. QED
    BY <2>1, <2>2
<1>6. \A i \in 1 .. n - 1 : pipe'[t][i] = SignalTerminateChildThreads =>
             ParentOf[later[i]] = t /\ Notified(later[i])'
  BY <1>2, <1>3, <1>4, <1>5
<1>7. \A i, j \in 1 .. n - 1 :
             /\ pipe'[t][i] = SignalTerminateChildThreads
             /\ pipe'[t][j] = SignalTerminateChildThreads
             /\ later[i] = later[j]
             => i = j
  <2> SUFFICES ASSUME NEW i \in 1 .. n - 1, NEW j \in 1 .. n - 1,
                      pipe'[t][i] = SignalTerminateChildThreads,
                      pipe'[t][j] = SignalTerminateChildThreads,
                      later[i] = later[j]
               PROVE  i = j
    OBVIOUS
  <2>1. i + 1 = j + 1
    BY <1>2, <1>3, <1>4, <1>5
  <2>2. QED
    BY <1>1, <2>1
<1>8. 1 .. Len(pipe'[t]) = 1 .. n - 1
  BY <1>2
<1>9. QED
  <2>1. later \in [1 .. Len(pipe'[t]) -> Threads]
    BY <1>5, <1>8
  <2>2. \A i \in 1 .. Len(pipe'[t]) : pipe'[t][i] = SignalTerminateChildThreads =>
             ParentOf[later[i]] = t /\ Notified(later[i])'
    BY <1>6, <1>8
  <2>3. \A i, j \in 1 .. Len(pipe'[t]) :
             /\ pipe'[t][i] = SignalTerminateChildThreads
             /\ pipe'[t][j] = SignalTerminateChildThreads
             /\ later[i] = later[j]
             => i = j
    BY <1>7, <1>8
  <2>4. QED
    BY <2>1, <2>2, <2>3 DEF OneByteEach

LEMMA WrittenPipe ==
  ASSUME TypeOK, NEW t \in Threads, OneByteEach(t), NEW signal, NEW c \in Threads,
         pipe'[t] = Append(pipe[t], signal),
         signal = SignalTerminateChildThreads => ParentOf[c] = t /\ ~Notified(c) /\ Notified(c)',
         \A d \in Threads : Notified(d) => Notified(d)'
  PROVE  OneByteEach(t)'
<1> DEFINE p == pipe[t]
           n == Len(p)
<1>1. p \in Seq(ThreadSignals) /\ n \in Nat
  BY DEF TypeOK
<1>2. /\ Len(pipe'[t]) = n + 1
      /\ \A i \in 1 .. n : pipe'[t][i] = p[i]
      /\ pipe'[t][n + 1] = signal
  BY <1>1
<1>3. PICK sender \in [1 .. n -> Threads] :
        /\ \A i \in 1 .. n : p[i] = SignalTerminateChildThreads =>
             ParentOf[sender[i]] = t /\ Notified(sender[i])
        /\ \A i, j \in 1 .. n :
             /\ p[i] = SignalTerminateChildThreads /\ p[j] = SignalTerminateChildThreads
             /\ sender[i] = sender[j]
             => i = j
  BY DEF OneByteEach
<1> HIDE DEF p, n
<1>4. \A i \in 1 .. n + 1 : i = n + 1 \/ i \in 1 .. n
  BY <1>1
<1>5. PICK more \in [1 .. n + 1 -> Threads] :
        more[n + 1] = c /\ \A i \in 1 .. n : more[i] = sender[i]
  <2> DEFINE f == [i \in 1 .. n + 1 |-> IF i = n + 1 THEN c ELSE sender[i]]
  <2>1. f \in [1 .. n + 1 -> Threads]
    BY <1>4
  <2>2. f[n + 1] = c /\ \A i \in 1 .. n : f[i] = sender[i]
    BY <1>1
  <2>3. QED
    BY <2>1, <2>2
<1>6. \A i \in 1 .. n + 1 : pipe'[t][i] = SignalTerminateChildThreads =>
             ParentOf[more[i]] = t /\ Notified(more[i])'
  BY <1>2, <1>3, <1>4, <1>5
<1>7. \A i, j \in 1 .. n + 1 :
             /\ pipe'[t][i] = SignalTerminateChildThreads
             /\ pipe'[t][j] = SignalTerminateChildThreads
             /\ more[i] = more[j]
             => i = j
  BY <1>2, <1>3, <1>4, <1>5
<1>8. QED
  BY <1>2, <1>5, <1>6, <1>7 DEF OneByteEach

-----------------------------------------------------------------------------
(* WakeInv.  The steps.                                                    *)

LEMMA TerminatedForGood ==
  ASSUME LifeIInv, NEW t \in Threads, Step(t) \/ Callback(t), NEW u \in Threads, isTerminated[u]
  PROVE  isTerminated'[u]
<1>1. CASE SlotTerminateThread(t) \/ TerminateThread(t)
  BY <1>1 DEF SlotTerminateThread, TerminateThread, LifeIInv, TypeOK
<1>2. ASSUME Step(t), ~SlotTerminateThread(t)
      PROVE  isTerminated' = isTerminated
  BY <1>2
     DEF Step, SignalEventWakeUp, StartedReturn, ProcessMessageReturn, CollectNotDue, CollectDue,
         SlotWakeUpThread, SlotTerminateChildThreads, PollOther,
         CollectChild, CollectReturn, DequeueAll, ProcessMessage, ProcessMessagesReturn,
         JoinChild, JoinBusyWait, JoinFinished, JoinDone, DeleteChild, DeleteDone,
         NotifyParent, RunReturn
<1>3. ASSUME Callback(t), ~TerminateThread(t)
      PROVE  isTerminated' = isTerminated
  BY <1>3 DEF Callback, PostMessage, StopChild, RegisterAndStartChildThread
<1>4. QED
  BY <1>1, <1>2, <1>3

(* What the pipes hold that would bring u to its queue, is still there.    *)
BytesKept(u) ==
  \A signal \in {SignalWakeUp, SignalTerminate} :
    Contains(pipe[u], signal) /\ ~IsFinished(u)' => Contains(pipe[u], signal)'

(* A thread to whose queue nothing was added, that did not come to its     *)
(* queue, and whom nobody stopped owing a signal, will look as before.     *)
LEMMA StillLooks ==
  ASSUME LifeIInv, WakeInv, NEW t \in Threads, Step(t) \/ Callback(t), NEW u \in Threads,
         queue'[u] = queue[u] \/ queue'[u] = <<>>, BytesKept(u),
         u = t /\ pc[t] = "processMessages" => pc'[t] = "processMessages",
         SignalEventWakeUp(t) => signalTo[t] # u
  PROVE  WakeOK(u)'
<1> SUFFICES ASSUME queue'[u] # <<>>, ~IsFinished(u)'
             PROVE  WillLook(u)'
  BY DEF WakeOK
<1>1. queue[u] # <<>> /\ ~IsFinished(u)
  BY FinishedForGood
<1>2. WillLook(u)
  BY <1>1 DEF WakeInv, WakeOK
<1>3. CASE pc[u] = "processMessages"
  BY <1>3, PlaceOfOthers DEF WillLook
<1>4. CASE isTerminated[u]
  BY <1>4, TerminatedForGood DEF WillLook
<1>5. CASE Contains(pipe[u], SignalWakeUp) \/ Contains(pipe[u], SignalTerminate)
  BY <1>5 DEF BytesKept, WillLook
<1>6. ASSUME NEW s \in Threads, qthread[s] = "running", signalTo[s] = u
      PROVE  WillLook(u)'
  <2>1. signalTo[s] # Nobody
    BY <1>6, TreeAssumption
  <2>2. ~(SignalEventWakeUp(t) /\ s = t)
    BY <1>6
  <2>3. qthread'[s] = "running" /\ signalTo'[s] = u
    BY <1>6, <2>1, <2>2, PosterKept
  <2>4. QED
    BY <2>3 DEF WillLook
<1>7. QED
  BY <1>2, <1>3, <1>4, <1>5, <1>6 DEF WillLook

(* A step that touches no pipe and adds nothing to a queue.                *)
LEMMA QuietWake ==
  ASSUME LifeIInv, WakeInv, NEW t \in Threads, Step(t) \/ Callback(t), ~SignalEventWakeUp(t),
         pipe' = pipe, \A u \in Threads : queue'[u] = queue[u] \/ queue'[u] = <<>>,
         pc[t] # "processMessages" \/ queue'[t] = <<>>
  PROVE  WakeInv'
<1>1. ASSUME NEW u \in Threads
      PROVE  OneByteEach(u)'
  BY NotifiedForGood, SamePipe DEF WakeInv
<1>2. ASSUME NEW u \in Threads
      PROVE  WakeOK(u)'
  <2>1. BytesKept(u)
    BY DEF BytesKept
  <2>2. CASE u = t /\ pc[t] = "processMessages"
    BY <2>2 DEF WakeOK
  <2>3. CASE ~(u = t /\ pc[t] = "processMessages")
    BY <2>1, <2>3, StillLooks
  <2>4. QED
    BY <2>2, <2>3
<1>3. QED
  BY <1>1, <1>2 DEF WakeInv

(* A step that writes one byte.                                            *)
LEMMA SendWake ==
  ASSUME LifeIInv, PipeRoom, WakeInv, NEW t \in Threads, Step(t) \/ Callback(t),
         NEW target \in Threads, NEW signal \in ThreadSignals, SendSignal(target, signal),
         queue' = queue, pc[t] # "processMessages" \/ pc' = pc,
         signal = SignalTerminateChildThreads =>
           ParentOf[t] = target /\ ~Notified(t) /\ Notified(t)',
         SignalEventWakeUp(t) => target = signalTo[t] /\ signal = SignalWakeUp
  PROVE  WakeInv'
<1>1. TypeOK /\ pipe[target] \in Seq(ThreadSignals)
  BY DEF LifeIInv, TypeOK
<1>2. \A c \in Threads : Notified(c) => Notified(c)'
  BY NotifiedForGood
<1>3. ASSUME NEW u \in Threads
      PROVE  OneByteEach(u)'
  <2>1. OneByteEach(u)
    BY DEF WakeInv
  <2>2. CASE pipe'[u] = pipe[u]
    BY <1>2, <2>1, <2>2, SamePipe
  <2>3. CASE pipe'[u] # pipe[u]
    <3>1. u = target /\ pipe'[u] = Append(pipe[u], signal)
      BY <1>1, <2>3, SendKeeps
    <3>2. QED
      BY <1>1, <1>2, <2>1, <3>1, WrittenPipe
  <2>4. QED
    BY <2>2, <2>3
<1>4. ASSUME NEW u \in Threads
      PROVE  BytesKept(u)
  <2>1. CASE pipe'[u] = pipe[u]
    BY <2>1 DEF BytesKept
  <2>2. CASE pipe'[u] # pipe[u]
    <3>1. u = target /\ pipe'[u] = Append(pipe[u], signal)
      BY <1>1, <2>2, SendKeeps
    <3>2. \A y : Contains(pipe[u], y) => Contains(Append(pipe[u], signal), y)
      BY <1>1, <3>1, AppendContains
    <3>3. QED
      BY <3>1, <3>2 DEF BytesKept
  <2>3. QED
    BY <2>1, <2>2
<1>5. ASSUME NEW u \in Threads
      PROVE  WakeOK(u)'
  <2>1. CASE SignalEventWakeUp(t) /\ signalTo[t] = u
    <3>1. u = target /\ signal = SignalWakeUp
      BY <2>1
    <3>2. CASE IsFinished(u)
      BY <3>2, FinishedForGood DEF WakeOK
    <3>3. CASE ~IsFinished(u) /\ Len(pipe[u]) < PipeCapacity
      <4>1. pipe'[u] = Append(pipe[u], SignalWakeUp)
        BY <1>1, <3>1, <3>3, SendKeeps
      <4>2. Contains(Append(pipe[u], SignalWakeUp), SignalWakeUp)
        BY <1>1, <3>1, AppendContains
      <4>3. QED
        BY <4>1, <4>2 DEF WakeOK, WillLook
    <3>4. CASE ~IsFinished(u) /\ ~(Len(pipe[u]) < PipeCapacity)
      <4>1. Len(pipe[u]) >= PipeCapacity
        BY <1>1, <3>1, <3>4, BoundAssumption
      <4>2. Contains(pipe[u], SignalWakeUp) \/ Contains(pipe[u], SignalTerminate)
        BY <1>1, <4>1, FullPipe DEF WakeInv
      <4>3. QED
        BY <4>2, <1>4 DEF BytesKept, WakeOK, WillLook
    <3>5. QED
      BY <3>2, <3>3, <3>4
  <2>2. CASE ~(SignalEventWakeUp(t) /\ signalTo[t] = u)
    BY <1>4, <2>2, StillLooks
  <2>3. QED
    BY <2>1, <2>2
<1>6. QED
  BY <1>3, <1>5 DEF WakeInv

(* A step that reads one byte.                                             *)
LEMMA ReadWake ==
  ASSUME LifeIInv, WakeInv, NEW t \in Threads,
         SlotTerminateThread(t) \/ SlotWakeUpThread(t) \/ SlotTerminateChildThreads(t)
  PROVE  WakeInv'
<1>1. /\ pipe[t] # <<>> /\ pipe' = [pipe EXCEPT ![t] = Tail(pipe[t])]
      /\ queue' = queue /\ pc[t] = "waiting"
  BY DEF SlotTerminateThread, SlotWakeUpThread, SlotTerminateChildThreads, ReceiveSignal
<1>2. /\ pipe'[t] = Tail(pipe[t]) /\ pipe[t] \in Seq(ThreadSignals) /\ TypeOK
      /\ \A u \in Threads : u # t => pipe'[u] = pipe[u]
  BY <1>1 DEF LifeIInv, TypeOK
<1>3. Step(t)
  BY DEF Step
<1>4. \A c \in Threads : Notified(c) => Notified(c)'
  BY <1>3, NotifiedForGood
<1>5. ASSUME NEW u \in Threads
      PROVE  OneByteEach(u)'
  BY <1>1, <1>2, <1>4, SamePipe, ReadPipe DEF WakeInv
<1>6. ~SignalEventWakeUp(t)
  BY DEF SlotTerminateThread, SlotWakeUpThread, SlotTerminateChildThreads, ReceiveSignal,
         InCallback, SignalEventWakeUp
<1>7. ASSUME NEW u \in Threads, u # t
      PROVE  WakeOK(u)'
  BY <1>1, <1>2, <1>3, <1>6, <1>7, StillLooks DEF BytesKept
<1>8. WakeOK(t)'
  <2>1. CASE SlotTerminateThread(t)
    BY <2>1 DEF SlotTerminateThread, WakeOK, WillLook, LifeIInv, TypeOK
  <2>2. CASE SlotWakeUpThread(t)
    BY <2>2 DEF SlotWakeUpThread, CallProcessMessages, WakeOK, WillLook, LifeIInv, TypeOK
  <2>3. CASE SlotTerminateChildThreads(t)
    <3>1. Head(pipe[t]) = SignalTerminateChildThreads
      BY <2>3 DEF SlotTerminateChildThreads, ReceiveSignal
    <3>2. \A y : Contains(pipe[t], y) /\ y # Head(pipe[t]) => Contains(Tail(pipe[t]), y)
      BY <1>1, <1>2, TailContains
    <3>3. BytesKept(t)
      BY <1>2, <3>1, <3>2
         DEF BytesKept, SignalTerminateChildThreads, SignalWakeUp, SignalTerminate
    <3>4. QED
      BY <1>1, <1>3, <1>6, <3>3, StillLooks
  <2>4. QED
    BY <2>1, <2>2, <2>3
<1>9. QED
  BY <1>5, <1>7, <1>8 DEF WakeInv

(* A step that deletes a child.                                            *)
LEMMA DeleteWake ==
  ASSUME LifeIInv, WakeInv, NEW t \in Threads, Step(t), pc' = pc, ~SignalEventWakeUp(t),
         NEW c \in Threads, DeleteThread(c)
  PROVE  WakeInv'
<1>1. /\ qthread'[c] = "deleted" /\ pipe'[c] = <<>> /\ queue'[c] = <<>>
      /\ \A u \in Threads : u # c => pipe'[u] = pipe[u] /\ queue'[u] = queue[u]
  BY DEF DeleteThread, LifeIInv, TypeOK
<1>2. \A d \in Threads : Notified(d) => Notified(d)'
  BY NotifiedForGood
<1>3. ASSUME NEW u \in Threads, u # c
      PROVE  OneByteEach(u)' /\ WakeOK(u)'
  BY <1>1, <1>2, <1>3, SamePipe, StillLooks DEF BytesKept, WakeInv
<1>4. OneByteEach(c)'
  <2>1. \E f \in [1 .. Len(pipe'[c]) -> Threads] : TRUE
    <3>1. [i \in 1 .. Len(pipe'[c]) |-> c] \in [1 .. Len(pipe'[c]) -> Threads]
      OBVIOUS
    <3>2. QED
      BY <3>1
  <2>2. \A i \in 1 .. Len(pipe'[c]) : FALSE
    BY <1>1
  <2>3. QED
    BY <2>1, <2>2 DEF OneByteEach
<1>5. WakeOK(c)'
  BY <1>1 DEF WakeOK
<1>6. QED
  BY <1>3, <1>4, <1>5 DEF WakeInv

LEMMA PostMessageWake ==
  ASSUME LifeIInv, WakeInv, NEW t \in Threads, NEW target \in Threads, PostMessage(t, target)
  PROVE  WakeInv'
<1>1. /\ qthread[t] = "running" /\ qthread' = qthread /\ pipe' = pipe /\ pc' = pc
      /\ \A u \in Threads : u # target => queue'[u] = queue[u]
      /\ signalTo'[t] = target
  BY DEF PostMessage, InCallback, LifeIInv, TypeOK
<1>2. Callback(t) /\ signalTo[t] = Nobody
  BY DEF Callback, PostMessage, InCallback
<1>3. ASSUME NEW u \in Threads
      PROVE  OneByteEach(u)'
  BY <1>1, <1>2, NotifiedForGood, SamePipe DEF WakeInv
<1>4. ASSUME NEW u \in Threads, u # target
      PROVE  WakeOK(u)'
  BY <1>1, <1>2, <1>4, StillLooks DEF BytesKept, SignalEventWakeUp
<1>5. WakeOK(target)'
  BY <1>1 DEF WakeOK, WillLook
<1>6. QED
  BY <1>3, <1>4, <1>5 DEF WakeInv

(* The steps of a thread, one by one.                                      *)
LEMMA StepWake ==
  ASSUME LifeIInv, PipeRoom, WakeInv, NEW t \in Threads, Step(t)
  PROVE  WakeInv'
<1>a. /\ TypeOK /\ ThreadOK(t)
      /\ SignalWakeUp \in ThreadSignals /\ SignalTerminate \in ThreadSignals
      /\ SignalTerminateChildThreads \in ThreadSignals
      /\ SignalWakeUp # SignalTerminateChildThreads
      /\ SignalTerminate # SignalTerminateChildThreads
  BY DEF LifeIInv, LifeInv, ThreadSignals, SignalWakeUp, SignalTerminate, SignalTerminateChildThreads
<1>b. ASSUME pc[t] \notin CallbackLocs
      PROVE  ~SignalEventWakeUp(t)
  BY <1>a, <1>b DEF SignalEventWakeUp, ThreadOK, SignalOK
<1>1. CASE SignalEventWakeUp(t)
  <2>1. /\ signalTo[t] \in Threads /\ SendSignal(signalTo[t], SignalWakeUp)
        /\ queue' = queue /\ pc' = pc
    BY <1>1 DEF SignalEventWakeUp, LifeIInv, TypeOK
  <2>2. QED
    BY <1>a, <1>1, <2>1, SendWake
<1>2. CASE SlotTerminateThread(t) \/ SlotWakeUpThread(t) \/ SlotTerminateChildThreads(t)
  BY <1>2, ReadWake
<1>3. CASE \/ StartedReturn(t) \/ ProcessMessageReturn(t) \/ CollectNotDue(t) \/ CollectDue(t)
           \/ PollOther(t)
  <2>1. /\ pipe' = pipe /\ queue' = queue /\ pc[t] # "processMessages"
        /\ ~SignalEventWakeUp(t)
    BY <1>3
       DEF StartedReturn, ProcessMessageReturn, CollectNotDue, CollectDue, PollOther,
           SignalEventWakeUp, InCallback
  <2>2. QED
    BY <2>1, QuietWake
<1>4. CASE \/ CollectReturn(t) \/ ProcessMessage(t) \/ ProcessMessagesReturn(t)
           \/ JoinBusyWait(t) \/ JoinFinished(t) \/ JoinDone(t) \/ DeleteDone(t) \/ RunReturn(t)
  <2>1. /\ pipe' = pipe /\ queue' = queue /\ pc[t] # "processMessages"
        /\ pc[t] \notin CallbackLocs
    BY <1>4
       DEF CollectReturn, ProcessMessage, ProcessMessagesReturn, JoinBusyWait, JoinFinished,
           JoinTurn, JoinDone, DeleteDone, RunReturn, CallbackLocs
  <2>2. QED
    BY <1>b, <2>1, QuietWake
<1>5. CASE DequeueAll(t)
  <2>1. /\ pipe' = pipe /\ queue'[t] = <<>> /\ pc[t] \notin CallbackLocs
        /\ \A u \in Threads : u # t => queue'[u] = queue[u]
    BY <1>5 DEF DequeueAll, CallbackLocs, LifeIInv, TypeOK
  <2>2. QED
    BY <1>b, <2>1, QuietWake
<1>6. CASE JoinChild(t)
  <2>1. JoinedChild(t) \in Threads
    <3>1. index[t] \in 1 .. Len(childThreads[t]) /\ childThreads[t] \in Seq(Threads)
      BY <1>6, <1>a DEF JoinChild, JoinTurn, ThreadOK, IndexOK, Joining, TypeOK
    <3>2. QED
      BY <3>1 DEF JoinedChild
  <2>2. /\ SendSignal(JoinedChild(t), SignalTerminate) /\ queue' = queue
        /\ pc[t] # "processMessages" /\ pc[t] \notin CallbackLocs
    BY <1>6 DEF JoinChild, JoinTurn, CallbackLocs
  <2>3. QED
    BY <1>a, <1>b, <2>1, <2>2, SendWake
<1>7. CASE NotifyParent(t)
  <2>1. /\ qthread[t] = "running" /\ pc[t] = "drained" /\ pc'[t] = "exit" /\ queue' = queue
        /\ pc[t] \notin CallbackLocs
    BY <1>7 DEF NotifyParent, CallbackLocs, LifeIInv, TypeOK
  <2>2. CASE ParentOf[t] = Nobody
    <3>1. pipe' = pipe
      BY <1>7, <2>2, Zenon DEF NotifyParent
    <3>2. QED
      BY <1>b, <2>1, <3>1, QuietWake
  <2>3. CASE ParentOf[t] # Nobody
    <3>1. SendSignal(ParentOf[t], SignalTerminateChildThreads)
      BY <1>7, <2>3, Zenon DEF NotifyParent
    <3>2. ParentOf[t] \in Threads
      BY <2>3, TreeAssumption
    <3>3. ~Notified(t) /\ Notified(t)'
      BY <2>1 DEF Notified, IsFinished
    <3>4. QED
      BY <1>a, <1>b, <2>1, <3>1, <3>2, <3>3, SendWake
  <2>4. QED
    BY <2>2, <2>3
<1>8. CASE CollectChild(t)
  <2>1. pc[t] \notin CallbackLocs /\ pc[t] # "processMessages"
    BY <1>8 DEF CollectChild, CallbackLocs
  <2>2. CASE UNCHANGED <<qthread, pipe, queue>>
    BY <1>b, <2>1, <2>2, QuietWake
  <2>3. ASSUME NEW c \in Threads, DeleteThread(c)
        PROVE  WakeInv'
    BY <1>b, <1>8, <2>1, <2>3, CollectChildEffect, DeleteWake
  <2>4. QED
    BY <1>8, <2>2, <2>3, CollectChildEffect
<1>9. CASE DeleteChild(t)
  <2>1. pc[t] \notin CallbackLocs
    BY <1>9 DEF DeleteChild, CallbackLocs
  <2>2. QED
    BY <1>b, <1>9, <2>1, DeleteChildEffect, DeleteWake
<1>10. QED
  BY <1>1, <1>2, <1>3, <1>4, <1>5, <1>6, <1>7, <1>8, <1>9 DEF Step

LEMMA CallbackWake ==
  ASSUME LifeIInv, PipeRoom, WakeInv, NEW t \in Threads, Callback(t)
  PROVE  WakeInv'
<1>1. pc[t] # "processMessages"
  BY DEF Callback, PostMessage, StopChild, TerminateThread, RegisterAndStartChildThread,
         MayUseChildren, InCallback, CallbackLocs
<1>2. ASSUME SignalEventWakeUp(t)
      PROVE  FALSE
  BY <1>2
     DEF Callback, PostMessage, StopChild, TerminateThread, RegisterAndStartChildThread,
         MayUseChildren, InCallback, SignalEventWakeUp
<1>3. ASSUME NEW c \in Threads, StopChild(t, c)
      PROVE  WakeInv'
  <2>1. SendSignal(c, SignalTerminate) /\ queue' = queue
    BY <1>3 DEF StopChild
  <2>2. SignalTerminate \in ThreadSignals /\ SignalTerminate # SignalTerminateChildThreads
    BY DEF ThreadSignals, SignalTerminate, SignalTerminateChildThreads
  <2>3. QED
    BY <1>1, <1>2, <2>1, <2>2, SendWake
<1>4. ASSUME TerminateThread(t) \/ \E c \in Threads : RegisterAndStartChildThread(t, c)
      PROVE  WakeInv'
  <2>1. pipe' = pipe /\ queue' = queue
    BY <1>4 DEF TerminateThread, RegisterAndStartChildThread
  <2>2. QED
    BY <1>1, <1>2, <2>1, QuietWake
<1>5. QED
  BY <1>3, <1>4, PostMessageWake DEF Callback

(* A step that is not a thread's.                                          *)
LEMMA AppWake ==
  ASSUME LifeIInv, PipeRoom, WakeInv, App \/ UNCHANGED vars
  PROVE  WakeInv'
<1>a. TypeOK /\ Root \in Threads
  BY TreeAssumption DEF LifeIInv
<1>1. /\ \A c \in Threads : Notified(c) => Notified(c)'
      /\ \A c \in Threads : IsFinished(c) => IsFinished(c)'
      /\ \A c \in Threads : qthread[c] = "running" => qthread'[c] = "running"
      /\ \A c \in Threads : pc[c] = "processMessages" => pc'[c] = "processMessages"
      /\ UNCHANGED <<queue, isTerminated, signalTo>>
  <2>1. CASE AppStart
    <3>1. /\ qthread[Root] = "new" /\ pc[Root] = "off"
          /\ qthread' = [qthread EXCEPT ![Root] = "running"]
          /\ pc' = [pc EXCEPT ![Root] = "started"]
      BY <1>a, <2>1 DEF AppStart, StartThread, LifeIInv, BootOK, LifeInv, ThreadOK, ControlOK
    <3>2. /\ qthread'[Root] = "running" /\ pc'[Root] = "started"
          /\ \A c \in Threads : c # Root => qthread'[c] = qthread[c] /\ pc'[c] = pc[c]
      BY <1>a, <3>1 DEF TypeOK
    <3>3. QED
      BY <2>1, <3>1, <3>2 DEF AppStart, Notified, IsFinished
  <2>2. CASE AppStop \/ AppPostTerminate \/ AppStopped \/ UNCHANGED vars
    BY <2>2 DEF AppStop, AppPostTerminate, AppStopped, vars, Notified, IsFinished
  <2>3. QED
    BY <2>1, <2>2 DEF App
<1>2. /\ \A u \in Threads : u # Root => pipe'[u] = pipe[u]
      /\ pipe'[Root] = pipe[Root] \/ pipe'[Root] = Append(pipe[Root], SignalTerminate)
  <2>1. CASE AppPostTerminate
    BY <1>a, <2>1, SendKeeps DEF AppPostTerminate
  <2>2. CASE AppStart \/ AppStop \/ AppStopped \/ UNCHANGED vars
    BY <2>2 DEF AppStart, AppStop, AppStopped, vars
  <2>3. QED
    BY <2>1, <2>2 DEF App
<1>3. SignalTerminate \in ThreadSignals /\ SignalTerminate # SignalTerminateChildThreads
  BY DEF ThreadSignals, SignalTerminate, SignalTerminateChildThreads
<1>4. ASSUME NEW u \in Threads
      PROVE  OneByteEach(u)'
  <2>1. CASE pipe'[u] = pipe[u]
    BY <1>1, <2>1, SamePipe DEF WakeInv
  <2>2. CASE pipe'[u] = Append(pipe[u], SignalTerminate)
    BY <1>a, <1>1, <1>3, <2>2, WrittenPipe DEF WakeInv
  <2>3. QED
    BY <1>2, <2>1, <2>2
<1>5. ASSUME NEW u \in Threads
      PROVE  WakeOK(u)'
  <2>1. \A y : Contains(pipe[u], y) => Contains(pipe'[u], y)
    <3>1. pipe[u] \in Seq(ThreadSignals)
      BY <1>a DEF TypeOK
    <3>2. CASE pipe'[u] = pipe[u]
      BY <3>2
    <3>3. CASE pipe'[u] = Append(pipe[u], SignalTerminate)
      BY <1>3, <3>1, <3>3, AppendContains
    <3>4. QED
      BY <1>2, <3>2, <3>3
  <2>2. WakeOK(u)
    BY DEF WakeInv
  <2>3. QED
    BY <1>1, <2>1, <2>2 DEF WakeOK, WillLook
<1>6. QED
  BY <1>4, <1>5 DEF WakeInv

LEMMA StepWakeInv == PipeRoom /\ LifeIInv /\ WakeInv /\ [Next]_vars => WakeInv'
BY StepWake, CallbackWake, AppWake DEF Next, Done

LEMMA InitWakeInv == Init => WakeInv
<1> SUFFICES ASSUME Init
             PROVE  WakeInv
  OBVIOUS
<1>1. ASSUME NEW t \in Threads
      PROVE  OneByteEach(t)
  <2>1. pipe[t] = <<>>
    BY DEF Init
  <2>2. [i \in 1 .. Len(pipe[t]) |-> t] \in [1 .. Len(pipe[t]) -> Threads]
    OBVIOUS
  <2>3. \A i \in 1 .. Len(pipe[t]) : FALSE
    BY <2>1
  <2>4. QED
    BY <2>2, <2>3 DEF OneByteEach
<1>2. QED
  BY <1>1 DEF Init, WakeInv, WakeOK

(* The invariant of the lives of the threads, of their queues and of their *)
(* pipes, in every tree whose threads have fewer children than their pipe  *)
(* has bytes.                                                              *)
THEOREM InductiveInvariantHolds ==
  ASSUME ~LateCallbacks, PipeRoom
  PROVE  Spec => []IInv
<1>1. LifeIInv /\ [Next]_vars => LifeIInv'
  BY StepLifeIInv
<1>2. LifeIInv /\ WakeInv /\ [Next]_vars => WakeInv'
  BY StepWakeInv
<1>3. QED
  BY <1>1, <1>2, StepDeliveryInv, InitLifeIInv, InitDeliveryInv, InitWakeInv, PTL DEF Spec, IInv

(* A thread that waits in poll() with a message in its queue will be       *)
(* woken, in such a tree.                                                  *)
THEOREM NoLostWakeUpHolds ==
  ASSUME ~LateCallbacks, PipeRoom
  PROVE  Spec => []NoLostWakeUp
<1>1. IInv => NoLostWakeUp
  BY DEF IInv, WakeInv, WakeOK, WillLook, NoLostWakeUp, IsFinished
<1>2. QED
  BY <1>1, InductiveInvariantHolds, PTL

=============================================================================
