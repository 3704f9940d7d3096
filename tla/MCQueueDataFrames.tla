--------------------------- MODULE MCQueueDataFrames ---------------------------
(***************************************************************************)
(* Small instances of QueueDataFrames.                                     *)
(***************************************************************************)
EXTENDS QueueDataFrames, TLC

(* The second frame is urgent; the third does not fit behind the first.    *)
MixedPriority == <<1, 2, 1, 1>>
MixedLength == <<1, 1, 8, 1>>
================================================================================
