----------------------------- MODULE ThreadTree -----------------------------
(***************************************************************************)
(* What a tree of threads promises, whatever its threads do in between: a  *)
(* thread runs only while its parent runs, it is deleted only after it has *)
(* finished, by a parent that is still running, and it never comes back.   *)
(***************************************************************************)
EXTENDS FiniteSets

CONSTANTS Threads, Root, Nobody, ParentOf

VARIABLE life

TreeInit == life = [t \in Threads |-> "new"]

Begin(t) ==
  /\ life[t] = "new"
  /\ t = Root \/ life[ParentOf[t]] = "running"
  /\ life' = [life EXCEPT ![t] = "running"]

Finish(t) ==
  /\ life[t] = "running"
  /\ \A c \in Threads : ParentOf[c] = t => life[c] # "running"
  /\ life' = [life EXCEPT ![t] = "finished"]

Delete(t) ==
  /\ life[t] = "finished"
  /\ t # Root /\ life[ParentOf[t]] = "running"
  /\ life' = [life EXCEPT ![t] = "deleted"]

TreeNext == \E t \in Threads : Begin(t) \/ Finish(t) \/ Delete(t)

TreeSpec == TreeInit /\ [][TreeNext]_life
=============================================================================
