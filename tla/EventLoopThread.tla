--------------------------- MODULE EventLoopThread ---------------------------
(***************************************************************************)
(* A thread in ThreadRunMode::EventLoop (ThreadBase.cpp): a QEventLoop in  *)
(* place of the polling of module ThreadBase.  Signals reach the slots by  *)
(* AutoConnection: as an event from another thread, at once from the       *)
(* thread's own handlers, and not at all before initializeThread() has     *)
(* connected them.                                                         *)
(*                                                                         *)
(* `stack` holds the calls the thread is in, the innermost last: each a    *)
(* processMessages() with the messages it still has, or a timer's onIdle().*)
(* A handler may post to its own thread or run an event loop of its own.   *)
(* The thread has no children here: module ThreadBase is about these.      *)
(***************************************************************************)
EXTENDS Integers, SequencesExt, FiniteSetsExt, Sublists

CONSTANTS
  MaxMessages, \* bound on the messages posted
  MaxDepth     \* bound on the calls inside each other

VARIABLES
  pc,        \* "created", "started" (connected, not in exec() yet), "exec", "last", "finished"
  queue,     \* _queue
  events,    \* events posted to the thread
  stack,
  exiting,   \* _eventLoop->exit() has been called in exec()
  posting,   \* messages of other threads in the queue, their signal still to come
  posted,    \* history: how many messages were posted; they are numbered
  handled,   \* history: the messages handled, in order
  early,     \* history: messages signalled before the slots were connected
  inside,    \* history: messages taken while a handler ran
  stops      \* history: "no", "early" (before exec(), which forgets it), "asked"

eventVars == <<pc, queue, events, stack, exiting, posting, posted, handled, early, inside, stops>>

Init ==
  /\ pc = "created" /\ stops = "no"
  /\ queue = <<>> /\ events = <<>> /\ stack = <<>> /\ handled = <<>>
  /\ posting = {} /\ early = {} /\ inside = {}
  /\ exiting = FALSE /\ posted = 0

---------------------------------------------------------------------------
(* Slots, and what calls them.                                             *)

Call(left, at) == [left |-> left, at |-> at]
Top == Last(stack)
At(place) == stack # <<>> /\ Top.at = place
MoveTop(place) == stack' = [stack EXCEPT ![Len(stack)].at = place]
Outside == stack = <<>>

(* processMessages(), which slotWakeUpThread() calls: all of `messages`.   *)
ProcessMessages(messages) ==
  /\ queue' = <<>>
  /\ stack' = Append(stack, Call(messages, "between"))
  /\ inside' = IF Outside THEN inside ELSE inside \cup ToSet(messages)

(* Mutant of SlotTerminateThread: terminateThread() only.                  *)
SlotTerminateThreadFlag(running) == exiting

(* slotTerminateThread(): exec() forgets an exit() from before it.         *)
SlotTerminateThread(running) == exiting \/ running

(* An emission from another thread.                                        *)
Emitted(event) == IF pc \in {"created", "finished"} THEN events ELSE Append(events, event)

---------------------------------------------------------------------------
(* Other threads.                                                          *)

(* postMessage(): first the queue, then the signal.                        *)
Enqueue ==
  /\ posted < MaxMessages
  /\ posted' = posted + 1
  /\ queue' = Append(queue, posted') /\ posting' = posting \cup {posted'}
  /\ UNCHANGED <<pc, events, stack, exiting, handled, early, inside, stops>>

SignalEventWakeUp(message) ==
  /\ posting' = posting \ {message}
  /\ events' = Emitted("WakeUp")
  /\ early' = IF pc = "created" THEN early \cup {message} ELSE early
  /\ UNCHANGED <<pc, queue, stack, exiting, posted, handled, inside, stops>>

SignalEventTerminate ==
  /\ stops \in {"no", "early"} /\ pc # "finished"
  /\ stops = "early" => pc # "created"
  /\ events' = Emitted("Terminate")
  /\ stops' = IF pc = "created" THEN "early" ELSE "asked"
  /\ UNCHANGED <<pc, queue, stack, exiting, posting, posted, handled, early, inside>>

---------------------------------------------------------------------------
(* The thread's handlers: onThreadStarted(), processMessage(), onIdle().   *)

InHandler == IF pc = "started" THEN Outside \/ At("handling") ELSE At("handling")

PostToItself ==
  /\ InHandler /\ posted < MaxMessages /\ Len(stack) < MaxDepth
  /\ posted' = posted + 1
  /\ ProcessMessages(Append(queue, posted'))
  /\ UNCHANGED <<pc, events, exiting, posting, handled, early, stops>>

TerminateItself ==
  /\ InHandler /\ stops = "no"
  /\ exiting' = SlotTerminateThread(pc = "exec")
  /\ stops' = IF pc = "exec" THEN "asked" ELSE "early"
  /\ UNCHANGED <<pc, queue, events, stack, posting, posted, handled, early, inside>>

RunEventLoop ==
  /\ At("handling") /\ MoveTop("looping")
  /\ UNCHANGED <<pc, queue, events, exiting, posting, posted, handled, early, inside, stops>>

LeaveEventLoop ==
  /\ At("looping") /\ MoveTop("handling")
  /\ UNCHANGED <<pc, queue, events, exiting, posting, posted, handled, early, inside, stops>>

HandlerReturns ==
  /\ At("handling") /\ MoveTop("between")
  /\ UNCHANGED <<pc, queue, events, exiting, posting, posted, handled, early, inside, stops>>

ProcessMessage ==
  /\ At("between") /\ Top.left # <<>>
  /\ handled' = Append(handled, Head(Top.left))
  /\ stack' = [stack EXCEPT ![Len(stack)] = Call(Tail(Top.left), "handling")]
  /\ UNCHANGED <<pc, queue, events, exiting, posting, posted, early, inside, stops>>

CallReturns ==
  /\ At("between") /\ Top.left = <<>>
  /\ stack' = Front(stack)
  /\ UNCHANGED <<pc, queue, events, exiting, posting, posted, handled, early, inside, stops>>

---------------------------------------------------------------------------
(* The event loops: the thread's own and those of handlers.                *)

Looping == \/ pc = "exec" /\ Outside
           \/ At("looping")

TakeEvent ==
  /\ Looping /\ events # <<>>
  /\ events' = Tail(events)
  /\ IF Head(events) = "WakeUp"
     THEN /\ ProcessMessages(queue)
          /\ UNCHANGED <<exiting, stops>>
     ELSE /\ exiting' = SlotTerminateThread(pc = "exec")
          /\ stops' = IF pc = "started" THEN "early" ELSE stops
          /\ UNCHANGED <<queue, stack, inside>>
  /\ UNCHANGED <<pc, posting, posted, handled, early>>

(* slotTimerEventLoop(): onIdle(), the collector and statistics.           *)
SlotTimerEventLoop ==
  /\ Looping /\ Len(stack) < MaxDepth
  /\ stack' = Append(stack, Call(<<>>, "handling"))
  /\ UNCHANGED <<pc, queue, events, exiting, posting, posted, handled, early, inside, stops>>

---------------------------------------------------------------------------
(* run()                                                                   *)

InitializeThread ==
  /\ pc = "created" /\ pc' = "started"
  /\ UNCHANGED <<queue, events, stack, exiting, posting, posted, handled, early, inside, stops>>

Exec ==
  /\ pc = "started" /\ Outside /\ pc' = "exec"
  /\ exiting' = FALSE
  /\ UNCHANGED <<queue, events, stack, posting, posted, handled, early, inside, stops>>

(* The messages still queued are handled; then the thread ends.            *)
ExecReturns ==
  /\ pc = "exec" /\ Outside /\ exiting /\ pc' = "last"
  /\ ProcessMessages(queue)
  /\ UNCHANGED <<events, exiting, posting, posted, handled, early, stops>>

FinishThread ==
  /\ pc = "last" /\ Outside /\ pc' = "finished"
  /\ UNCHANGED <<queue, events, stack, exiting, posting, posted, handled, early, inside, stops>>

Next ==
  \/ Enqueue \/ (\E message \in posting : SignalEventWakeUp(message)) \/ SignalEventTerminate
  \/ PostToItself \/ TerminateItself \/ RunEventLoop \/ LeaveEventLoop \/ HandlerReturns
  \/ ProcessMessage \/ CallReturns \/ TakeEvent \/ SlotTimerEventLoop
  \/ InitializeThread \/ Exec \/ ExecReturns \/ FinishThread

Spec == Init /\ [][Next]_eventVars

---------------------------------------------------------------------------

Waiting == pc = "exec" /\ Outside /\ events = <<>> /\ ~exiting

(* The messages handled, those that each call still has, the outermost     *)
(* call first, and the queue.                                              *)
Rows == [k \in 0 .. Len(stack) + 1 |->
           IF k = 0 THEN handled ELSE IF k \in DOMAIN stack THEN stack[k].left ELSE queue]

(* A thread that waits has been asked for nothing: no message it was woken *)
(* for is in its queue and no request to end that its slots or its own     *)
(* handlers could obey is open.  No message is lost or handled twice, and  *)
(* one is handled before an earlier one only inside another's handler.     *)
EventsDelivered ==
  /\ Waiting => ToSet(queue) \subseteq early \cup posting /\ stops # "asked"
  /\ UNION {ToSet(Rows[k]) : k \in DOMAIN Rows} = 1 .. posted
  /\ \A k, l \in DOMAIN Rows : \A i \in DOMAIN Rows[k], j \in DOMAIN Rows[l] :
        Rows[k][i] = Rows[l][j] => k = l /\ i = j
  /\ \A i, j \in DOMAIN handled : i < j /\ handled[i] > handled[j] => handled[i] \in inside
  /\ pc \in {"last", "finished"} => stops = "asked"

---------------------------------------------------------------------------
(* The inductive invariant behind it.                                      *)

EventsTypeOK ==
  /\ pc \in {"created", "started", "exec", "last", "finished"} /\ stops \in {"no", "early", "asked"}
  /\ events \in Seq({"WakeUp", "Terminate"}) /\ exiting \in BOOLEAN /\ posted \in Nat
  /\ stack \in Seq([left : Seq(Nat), at : {"between", "handling", "looping"}])
  /\ queue \in Seq(Nat) /\ handled \in Seq(Nat)
  /\ pc = "created" => stack = <<>> /\ events = <<>>

(* Whoever signalled a message that is still queued has woken the thread.  *)
WokenFor ==
  pc # "finished" => ToSet(queue) \subseteq early \cup posting \/ "WakeUp" \in ToSet(events)

(* A request to end is on its way once, or it was obeyed.                  *)
EndsOnceAsked ==
  /\ "Terminate" \in ToSet(events) => stops = "asked"
  /\ \A i, j \in DOMAIN events : events[i] = "Terminate" /\ events[j] = "Terminate" => i = j
  /\ pc = "exec" /\ exiting => stops = "asked"
  /\ pc \in {"last", "finished"} => stops = "asked"
  /\ stops = "asked" => \/ pc = "exec" /\ exiting
                        \/ pc \in {"last", "finished"}
                        \/ "Terminate" \in ToSet(events)

EventsInv == EventsTypeOK /\ WokenFor /\ EndsOnceAsked /\ InTurn(Rows, Len(stack) + 1, posted, inside)
=============================================================================
