-------------------------------- MODULE Sublists --------------------------------
(***************************************************************************)
(* What a loop over a list takes out of it or leaves in it, by place and   *)
(* without recursion, and rows of numbers in turn: SublistsProofs states   *)
(* what they hold.                                                         *)
(***************************************************************************)
EXTENDS Integers, FiniteSets, SequencesExt

(* The elements of list at the places in kept, in order.                   *)
Sublist(list, kept) ==
  [n \in 1 .. Cardinality(kept) |-> list[CHOOSE i \in kept : Cardinality({k \in kept : k <= i}) = n]]

(* The numbers 1 to many, each once, in rows 0 to n.  From row 1 on they   *)
(* rise, along a row and from one row to the next; in row 0 one stands     *)
(* before a smaller one, or while a smaller one is in another row, only if *)
(* it is in within, as the rows from 2 on are but the last.                *)
InTurn(rows, n, many, within) ==
  /\ \A k \in 0 .. n : \A i \in DOMAIN rows[k] : rows[k][i] \in 1 .. many
  /\ \A m \in 1 .. many : \E k \in 0 .. n : m \in ToSet(rows[k])
  /\ \A i, j \in DOMAIN rows[0] : i < j => rows[0][i] # rows[0][j] /\ (rows[0][i] > rows[0][j] => rows[0][i] \in within)
  /\ \A k \in 1 .. n : \A i, j \in DOMAIN rows[k] : i < j => rows[k][i] < rows[k][j]
  /\ \A k, l \in 1 .. n : k < l => \A i \in DOMAIN rows[k], j \in DOMAIN rows[l] : rows[k][i] < rows[l][j]
  /\ \A k \in 1 .. n : \A i \in DOMAIN rows[0], j \in DOMAIN rows[k] :
        rows[0][i] # rows[k][j] /\ (rows[0][i] > rows[k][j] => rows[0][i] \in within)
  /\ \A k \in 2 .. n - 1 : ToSet(rows[k]) \subseteq within

================================================================================
