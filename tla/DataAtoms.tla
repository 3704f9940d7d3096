------------------------------ MODULE DataAtoms ------------------------------
(***************************************************************************)
(* Frames/DataAtoms under a DataFrame: rows of values that an application  *)
(* chooses by an index and sets, and tables of rows that it reads.         *)
(*                                                                         *)
(* An atom is its values and its own index; the frame has a capacity and   *)
(* an index too and hands both on.  A value takes one byte.  A step is a   *)
(* call.  calcCapacityFromAtoms() and read() with a capacity have no       *)
(* caller in the repository: the application is taken to give the one's    *)
(* result to the other.                                                    *)
(***************************************************************************)
EXTENDS Integers, SequencesExt

CONSTANTS
  Layouts,     \* atoms a frame may have: [isScalar, isFixed]
  Values,      \* what is set
  MaxCapacity, MaxCalls \* bounds

VARIABLES
  layout,       \* the frame's atoms, one of Layouts
  capacity,     \* _capacity
  currentIndex, \* the frame's _currentIndex
  atomsVector,  \* of each atom [values, index]
  inRange,      \* history: the index was below the capacity since it was set
  last,         \* history: in a sequence, the last value set: [atom, row, value]
  table,        \* history: in a sequence, of the table just read what each atom was sent
  tabled,       \* history: a table was read since the last setCapacity()
  made          \* bound: calls

atomVars == <<layout, capacity, currentIndex, atomsVector, inRange, last, table, tabled, made>>

Default == 0
Atom == [values |-> <<Default>>, index |-> 0]

Init ==
  /\ layout \in Layouts
  /\ capacity = 1 /\ currentIndex = 0
  /\ atomsVector = [i \in DOMAIN layout |-> Atom]
  /\ inRange = TRUE /\ last = <<>> /\ table = <<>> /\ tabled = FALSE /\ made = 0

Below(index, size) == IF index >= size THEN size - 1 ELSE index
Resized(values, size) == [i \in 1 .. size |-> IF i <= Len(values) THEN values[i] ELSE Default]

AtomSetCurrentIndex(atom, index) == [atom EXCEPT !.index = Below(index, Len(atom.values))]

(* ByteArrayDataAtom keeps one element.                                    *)
AtomSetCapacity(i, atom, size) ==
  IF layout[i].isFixed THEN atom
  ELSE [values |-> Resized(atom.values, size), index |-> Below(atom.index, size)]

Call == made < MaxCalls /\ made' = made + 1 /\ UNCHANGED layout

SetCapacity(n) ==
  /\ Call
  /\ LET newSize == IF n < 1 THEN 1 ELSE n
     IN /\ capacity' = newSize
        /\ atomsVector' = [i \in DOMAIN layout |->
                             AtomSetCapacity(i, atomsVector[i], IF layout[i].isScalar THEN 1 ELSE newSize)]
        /\ inRange' = (inRange /\ currentIndex < newSize)
        /\ last' = SelectSeq(last, LAMBDA set : set.row < newSize)
  /\ tabled' = FALSE /\ table' = <<>>
  /\ UNCHANGED currentIndex

SetCurrentIndex(index) ==
  /\ Call
  /\ currentIndex' = index
  /\ atomsVector' = [i \in DOMAIN layout |-> AtomSetCurrentIndex(atomsVector[i], index)]
  /\ inRange' = (index < capacity)
  /\ table' = <<>>
  /\ UNCHANGED <<capacity, last, tabled>>

(* What the calls on one atom leave of the others and of the frame.        *)
OnAtom(i, values) ==
  /\ Call
  /\ atomsVector' = [atomsVector EXCEPT ![i].values = values]
  /\ table' = <<>>
  /\ UNCHANGED <<capacity, currentIndex, inRange, tabled>>

Row(i) == IF layout[i].isScalar \/ layout[i].isFixed THEN 0 ELSE currentIndex

SetValue(i, value) ==
  /\ OnAtom(i, [atomsVector[i].values EXCEPT ![atomsVector[i].index + 1] = value])
  /\ last' = IF inRange /\ ~tabled THEN <<[atom |-> i, row |-> Row(i), value |-> value]>> ELSE <<>>

SetValues(i, values) ==
  /\ OnAtom(i, [j \in DOMAIN atomsVector[i].values |-> IF j <= Len(values) THEN values[j] ELSE atomsVector[i].values[j]])
  /\ last' = <<>>

FillData(i, value) ==
  /\ OnAtom(i, [j \in DOMAIN atomsVector[i].values |-> value])
  /\ last' = <<>>

ClearAtom(i) ==
  /\ OnAtom(i, [j \in DOMAIN atomsVector[i].values |-> Default])
  /\ last' = <<>>

AtomSize(i) == Len(atomsVector[i].values)

TotalSize(scalar) ==
  FoldLeftDomain(LAMBDA sum, i : IF layout[i].isScalar = scalar THEN sum + AtomSize(i) ELSE sum, 0, layout)

(* How many rows there are in so many bytes, the atoms having one each.    *)
CalcCapacityFromAtoms(totalSize) ==
  IF TotalSize(FALSE) = 0 THEN 0 ELSE (totalSize - TotalSize(TRUE)) \div TotalSize(FALSE)

(* The last of the atoms that stand together with atom i in rows.          *)
GroupEnd(i) == CHOOSE e \in i .. Len(layout) :
                 /\ \A j \in i .. e : ~layout[j].isScalar
                 /\ e = Len(layout) \/ layout[e + 1].isScalar

(* The places of a table, one behind the other, when behind a group of     *)
(* rows the atom at distance `next` follows.                               *)
Places(rows, next) ==
  LET group(i) == FlattenSeq([c \in 1 .. rows |-> [k \in 1 .. GroupEnd(i) - i + 1 |-> <<i + k - 1, c>>]])
      from[i \in 1 .. Len(layout) + 2] ==
        CASE i > Len(layout) -> <<>>
          [] i <= Len(layout) /\ layout[i].isScalar -> <<<<i, 1>>>> \o from[i + 1]
          [] OTHER -> group(i) \o from[IF rows = 0 THEN i + 1 ELSE GroupEnd(i) + next]
  IN from[1]

(* What is sent in a table: everywhere another number.                     *)
Sent(i, c, rows) == SelectInSeq(Places(rows, 1), LAMBDA place : place = <<i, c>>)

(* readItem() makes room for a row, read() of a scalar has it.  In the     *)
(* loop of read() the atom behind a group is passed over.  A byte array    *)
(* has no size of its own: there are no tables with one.                   *)
ReadItem(atom, c, value) ==
  LET size == IF c > Len(atom.values) THEN c ELSE Len(atom.values)
  IN [atom EXCEPT !.values = [Resized(atom.values, size) EXCEPT ![c] = value]]

ReadTable(rows) ==
  /\ \A i \in DOMAIN layout : ~layout[i].isFixed
  /\ Call
  /\ LET read == Places(CalcCapacityFromAtoms(Len(Places(rows, 1))), 2)
     IN atomsVector' = FoldLeftDomain(
          LAMBDA atoms, n : [atoms EXCEPT ![read[n][1]] = ReadItem(@, read[n][2], n)], atomsVector, read)
  /\ table' = IF \A i \in DOMAIN layout : AtomSize(i) = 1
              THEN <<[i \in DOMAIN layout |-> [c \in 1 .. (IF layout[i].isScalar THEN 1 ELSE rows) |-> Sent(i, c, rows)]]>>
              ELSE <<>>
  /\ tabled' = TRUE /\ last' = <<>>
  /\ UNCHANGED <<capacity, currentIndex, inRange>>

Next ==
  \/ \E n \in 0 .. MaxCapacity : SetCapacity(n) \/ SetCurrentIndex(n)
  \/ \E rows \in 1 .. MaxCapacity : ReadTable(rows)
  \/ \E i \in DOMAIN layout :
       \/ \E value \in Values : SetValue(i, value) \/ FillData(i, value)
       \/ \E n \in 1 .. MaxCapacity : SetValues(i, [j \in 1 .. n |-> j])
       \/ ClearAtom(i)

Spec == Init /\ [][Next]_atomVars

---------------------------------------------------------------------------

ScalarBehindRows == \E i \in 1 .. Len(layout) - 1 : ~layout[i].isScalar /\ layout[i + 1].isScalar

(* A value that was set stays in the row the frame's index said, however   *)
(* often the frame grows and shrinks above it, and an atom's index never   *)
(* leaves its values (value() and setValue() do not look).  This leaves    *)
(* out an index that was at or above the capacity: the atoms move it below *)
(* and do not follow the frame's again.  Between tables the atoms have the *)
(* rows the frame will write that it has; and a table read into a frame of *)
(* one row comes whole, if no scalar stands behind its rows.               *)
RowsKept ==
  /\ \A i \in DOMAIN layout : atomsVector[i].index < AtomSize(i)
  /\ \A set \in Range(last) : atomsVector[set.atom].values[set.row + 1] = set.value
  /\ ~tabled => \A i \in DOMAIN layout :
                  AtomSize(i) = capacity \/ layout[i].isScalar \/ layout[i].isFixed
  /\ table # <<>> /\ ~ScalarBehindRows => \A i \in DOMAIN layout : atomsVector[i].values = table[1][i]
==============================================================================
