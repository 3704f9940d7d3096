----------------------------- MODULE TrafficCounter -----------------------------
(***************************************************************************)
(* Utils/TrafficCounter: how much went through a handler in all, and how   *)
(* fast in the last seconds.  A step is a call, or a second that passes;   *)
(* the clock is not set back.                                              *)
(***************************************************************************)
EXTENDS Integers, SequencesExt

CONSTANTS
  SecondsToStore,
  Counts,      \* that append() is given
  MaxSeconds,  \* bound
  MaxAppends   \* bound

VARIABLES
  historyList,  \* _historyList
  total,        \* _total
  currentSpeed, \* _currentSpeed, in a sequence: none before the first append()
  second,       \* currentDateTime()
  appended,     \* history: all that was appended since clear()
  actual        \* history: the last call was append()

trafficVars == <<historyList, total, currentSpeed, second, appended, actual>>

Sum(list) == FoldLeft(LAMBDA sum, traffic : sum + traffic.count, 0, list)

Init ==
  /\ historyList = <<>> /\ total = 0 /\ currentSpeed = <<>> /\ second = 0
  /\ appended = <<>> /\ actual = FALSE

(* As many as are too old leave the list at its beginning.                 *)
Actualize(list) ==
  LET limit == second - SecondsToStore
      old == Len(SelectSeq(list, LAMBDA traffic : traffic.received < limit))
      counted == SelectSeq(list, LAMBDA traffic : traffic.received >= limit)
  IN  /\ historyList' = SubSeq(list, old + 1, Len(list))
      /\ currentSpeed' = <<Sum(counted) \div SecondsToStore>>

TrafficAppend(count) ==
  LET traffic == [received |-> second, count |-> count]
  IN  /\ Len(appended) < MaxAppends
      /\ total' = total + count
      /\ Actualize(Append(historyList, traffic))
      /\ appended' = Append(appended, traffic) /\ actual' = TRUE
      /\ UNCHANGED second

(* The speed stays.                                                        *)
Clear ==
  /\ total' = 0 /\ historyList' = <<>>
  /\ appended' = <<>> /\ actual' = FALSE
  /\ UNCHANGED <<currentSpeed, second>>

SecondPasses ==
  /\ second < MaxSeconds /\ second' = second + 1
  /\ actual' = FALSE
  /\ UNCHANGED <<historyList, total, currentSpeed, appended>>

Next == (\E count \in Counts : TrafficAppend(count)) \/ Clear \/ SecondPasses

Spec == Init /\ [][Next]_trafficVars

---------------------------------------------------------------------------

(* What was forgotten is never missed: at an append() the speed is that of *)
(* all that was appended in the last seconds, and the total that of all.   *)
SpeedOfLastSeconds ==
  /\ total = Sum(appended)
  /\ actual => currentSpeed[1] = Sum(SelectSeq(appended, LAMBDA traffic : second - traffic.received <= SecondsToStore))
                                   \div SecondsToStore
=============================================================================
