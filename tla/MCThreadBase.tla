---------------------------- MODULE MCThreadBase ----------------------------
(***************************************************************************)
(* Small trees of threads for ThreadBase.                                  *)
(***************************************************************************)
EXTENDS ThreadBase

CONSTANTS c1, c2

(* A main thread with one child.                                           *)
Pair == [t \in {Root, c1} |-> IF t = Root THEN Nobody ELSE Root]

(* Main thread, its child, and the child's child: SimpleServer's main      *)
(* thread, listener and socket handler.                                    *)
Chain == [t \in {Root, c1, c2} |-> CASE t = Root -> Nobody [] t = c1 -> Root [] t = c2 -> c1]

OnePostEach == [t \in Threads |-> 1]

ToParent == [t \in Threads |-> {ParentOf[t]} \ {Nobody}]
ToFamily == [t \in Threads |-> IF t = Root THEN Threads ELSE {Root}]
=============================================================================
