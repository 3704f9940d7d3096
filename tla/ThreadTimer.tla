---------------------------- MODULE ThreadTimer -----------------------------
(***************************************************************************)
(* Threads/ThreadTimer with ThreadBase::waitEvents, startTimer and         *)
(* stopTimer: a timer is a thread that posts MessageTimer to its owner     *)
(* from onIdle(), which the polling loop calls when poll() times out and   *)
(* also when _nextCallIdle lies in the past.                               *)
(*                                                                         *)
(* The owner is any thread that starts the timer, may post messages to it  *)
(* (startTimer returns the thread) and may stop it.  now is the tick count *)
(* of the machine; between two steps any time may pass.                    *)
(***************************************************************************)
EXTENDS Integers, Sequences

CONSTANTS
  Delay,       \* delayMsecs
  MaxTime,     \* bound: the last tick of the clock
  MaxWakes     \* bound: how many messages the owner posts to the timer

ASSUME TimerAssumption ==
  Delay \in Nat /\ MaxTime \in Nat /\ MaxWakes \in Nat

VARIABLES
  now,            \* DateUtils::getTickCount()
  pc,             \* where the timer's thread is
  multiShot,      \* _multiShot
  pipe,           \* bytes in _pollerThread's pipe
  isTerminated,   \* _isTerminated
  pollStart,      \* when poll() began to wait
  pollResult,     \* what poll() returned: 0, or the number of events
  nextCallIdle,   \* _nextCallIdle
  wakes,          \* how many messages the owner has posted to the timer
  shots,          \* history: the time of each MessageTimer; _shotCount is its length
  stop            \* history: the shots before stopTimer(), and the place of
                  \* its byte in the pipe (0: not called)

ownerVars == <<wakes, stop>>
loopVars  == <<pc, isTerminated, pollStart, pollResult, nextCallIdle>>
timerVars == <<now, multiShot, pipe, shots, ownerVars, loopVars>>

TimerInit ==
  /\ now = 1                     \* the machine has been up for a while
  /\ pc = "new" /\ multiShot \in BOOLEAN
  /\ pipe = <<>> /\ isTerminated = FALSE
  /\ pollStart = 0 /\ pollResult = 0
  /\ nextCallIdle = 0
  /\ wakes = 0 /\ shots = <<>>
  /\ stop = [shots |-> 0, place |-> 0]

Tick ==
  /\ now < MaxTime
  /\ now' = now + 1
  /\ UNCHANGED <<multiShot, pipe, shots, ownerVars, loopVars>>

-----------------------------------------------------------------------------
(* The owner.                                                              *)

StartTimer ==
  /\ pc = "new"
  /\ pc' = "loop"
  /\ UNCHANGED <<now, multiShot, pipe, isTerminated, pollStart, pollResult, nextCallIdle,
                 wakes, shots, stop>>

(* postMessage() to the timer: processMessage() of a timer does nothing,   *)
(* but the byte ends its poll().                                           *)
PostToTimer ==
  /\ pc \notin {"new", "finished"} /\ wakes < MaxWakes
  /\ wakes' = wakes + 1
  /\ pipe' = Append(pipe, "SignalWakeUp")
  /\ UNCHANGED <<now, multiShot, shots, stop, loopVars>>

(* stopTimer(), or the terminate event at the end of the owner; asking     *)
(* twice is left out (bound).                                              *)
StopTimer ==
  /\ pc \notin {"new", "finished"} /\ stop.place = 0
  /\ pipe' = Append(pipe, "SignalTerminate")
  /\ stop' = [shots |-> Len(shots), place |-> Len(pipe) + 1]
  /\ UNCHANGED <<now, multiShot, shots, wakes, loopVars>>

-----------------------------------------------------------------------------
(* The timer's thread.                                                     *)

(* while (!isTerminated()) of run(); poll() begins to wait.                *)
LoopTest ==
  /\ pc = "loop"
  /\ IF isTerminated
     THEN pc' = "finished" /\ UNCHANGED pollStart
     ELSE pc' = "polling" /\ pollStart' = now
  /\ UNCHANGED <<now, multiShot, pipe, shots, ownerVars, isTerminated, pollResult, nextCallIdle>>

PollTimeout ==
  /\ pc = "polling" /\ pipe = <<>> /\ now >= pollStart + Delay
  /\ pc' = "polled" /\ pollResult' = 0
  /\ UNCHANGED <<now, multiShot, pipe, shots, ownerVars, isTerminated, pollStart, nextCallIdle>>

(* Mutant: the slot for SignalTerminate forgets the flag.                  *)
PollSignalIgnored ==
  /\ pc = "polling" /\ pipe # <<>>
  /\ pipe' = Tail(pipe)
  /\ pc' = "polled" /\ pollResult' = 1
  /\ UNCHANGED <<now, multiShot, shots, ownerVars, isTerminated, pollStart, nextCallIdle>>

PollSignal ==
  /\ pc = "polling" /\ pipe # <<>>
  /\ pipe' = Tail(pipe)
  /\ isTerminated' = IF Head(pipe) = "SignalTerminate" THEN TRUE ELSE isTerminated
  /\ pc' = "polled" /\ pollResult' = 1
  /\ UNCHANGED <<now, multiShot, shots, ownerVars, pollStart, nextCallIdle>>

(* Mutant: the single shot does not end the thread.                        *)
OnIdleForever ==
  /\ pc = "polled" /\ (pollResult = 0 \/ nextCallIdle < now)
  /\ shots' = Append(shots, now)
  /\ pc' = "rearm"
  /\ UNCHANGED <<now, multiShot, pipe, ownerVars, isTerminated, pollStart, pollResult, nextCallIdle>>

(* waitEvents() calls onIdle().                                            *)
OnIdle ==
  /\ pc = "polled" /\ (pollResult = 0 \/ nextCallIdle < now)
  /\ isTerminated' = IF multiShot THEN isTerminated ELSE TRUE
  /\ shots' = Append(shots, now)
  /\ pc' = "rearm"
  /\ UNCHANGED <<now, multiShot, pipe, ownerVars, pollStart, pollResult, nextCallIdle>>

NoIdle ==
  /\ pc = "polled" /\ pollResult # 0 /\ nextCallIdle >= now
  /\ pc' = "loop"
  /\ UNCHANGED <<now, multiShot, pipe, shots, ownerVars, isTerminated, pollStart, pollResult, nextCallIdle>>

(* Mutant: _nextCallIdle is counted from the beginning of poll().          *)
RearmFromPollStart ==
  /\ pc = "rearm"
  /\ nextCallIdle' = pollStart + Delay
  /\ pc' = "loop"
  /\ UNCHANGED <<now, multiShot, pipe, shots, ownerVars, isTerminated, pollStart, pollResult>>

(* _nextCallIdle = getNextTickCount(_timeout).                             *)
Rearm ==
  /\ pc = "rearm"
  /\ nextCallIdle' = now + Delay
  /\ pc' = "loop"
  /\ UNCHANGED <<now, multiShot, pipe, shots, ownerVars, isTerminated, pollStart, pollResult>>

TimerStep == LoopTest \/ PollTimeout \/ PollSignal \/ OnIdle \/ NoIdle \/ Rearm

(* The clock has reached its bound, or the timer has ended.                *)
TimerDone == (now = MaxTime \/ pc = "finished") /\ UNCHANGED timerVars

TimerNext == Tick \/ StartTimer \/ PostToTimer \/ StopTimer \/ TimerStep \/ TimerDone

TimerSpec == TimerInit /\ [][TimerNext]_timerVars

-----------------------------------------------------------------------------
(* Properties.                                                             *)

TimerTypeOK ==
  /\ now \in Nat /\ pollStart \in Nat /\ nextCallIdle \in Nat
  /\ pc \in {"new", "loop", "polling", "polled", "rearm", "finished"}
  /\ multiShot \in BOOLEAN /\ isTerminated \in BOOLEAN /\ pollResult \in Nat
  /\ pipe \in Seq({"SignalWakeUp", "SignalTerminate"})
  /\ wakes \in Nat
  /\ shots \in Seq(Nat)
  /\ stop \in [shots : Nat, place : Nat]

(* Two shots of a timer are at least its delay apart, however late its     *)
(* thread runs and whatever bytes end its waits in between.                *)
ShotSpacing ==
  \A i \in 1 .. Len(shots) - 1 : shots[i + 1] - shots[i] >= Delay

(* A timer that is not multi-shot shoots at most once, whatever ends its   *)
(* waits.                                                                  *)
SingleShotOnce == ~multiShot => Len(shots) <= 1

(* After stopTimer() a timer shoots at most once more than there are bytes *)
(* in its pipe up to the terminate byte: once for the wait that had ended  *)
(* and once for each byte it reads.                                        *)
FewShotsAfterStop ==
  stop.place > 0 => Len(shots) - stop.shots <= stop.place + 1

-----------------------------------------------------------------------------
(* The inductive invariant behind ShotSpacing.                             *)

LastShot == shots[Len(shots)]

(* After a shot, the earliest time of the next one lies Delay later: by    *)
(* _nextCallIdle for a wait that a byte ends, by the beginning of the wait *)
(* for one that times out.                                                 *)
NextShotNotEarly ==
  Len(shots) > 0 =>
    /\ LastShot <= now
    /\ pc # "rearm" => LastShot + Delay <= nextCallIdle
    /\ pc = "polling" => LastShot <= pollStart
    /\ pc = "polled" /\ pollResult = 0 => LastShot + Delay <= now

TerminatedNotPolling == isTerminated => pc # "polling"

(* A shot of a single-shot timer is on the way to the end of its thread.   *)
ShotEndsSingle ==
  Len(shots) > 0 /\ ~multiShot => isTerminated /\ pc \in {"rearm", "loop", "finished"}

(* The shots that are still possible after stopTimer(): one for the wait   *)
(* that has ended, and one for each byte up to the terminate byte.         *)
ShotsLeft(bytes) == bytes + (IF pc = "polled" THEN 1 ELSE 0)

StopBudget ==
  stop.place > 0 =>
    /\ ~isTerminated =>
         \E i \in 1 .. Len(pipe) :
           pipe[i] = "SignalTerminate" /\ Len(shots) - stop.shots + ShotsLeft(i) <= stop.place + 1
    /\ isTerminated => Len(shots) - stop.shots + ShotsLeft(0) <= stop.place + 1

TimerInv ==
  /\ TimerTypeOK /\ TerminatedNotPolling
  /\ ShotSpacing /\ NextShotNotEarly
  /\ SingleShotOnce /\ ShotEndsSingle
  /\ StopBudget
=============================================================================
