-------------------------- MODULE MCDataFramesLink --------------------------
(***************************************************************************)
(* Small instances of DataFramesLink.                                      *)
(***************************************************************************)
EXTENDS DataFramesLink

(* What the uninitialised number of the next packet holds: a number that   *)
(* packets also have, or none of theirs.                                   *)
ANumber == {3}
=============================================================================
