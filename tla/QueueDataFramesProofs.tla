------------------------ MODULE QueueDataFramesProofs ------------------------
(***************************************************************************)
(* Theorems about QueueDataFrames: no frame is lost, and frames of one     *)
(* priority are given out in the order of collection.                      *)
(***************************************************************************)
EXTENDS QueueDataFrames, SublistsProofs, FiniteSetTheorems, TLAPS

(* What is left of a list in order is in order.                            *)
LEMMA SublistIncreasing ==
  ASSUME NEW list \in Seq(Nat), NEW kept \in SUBSET DOMAIN list, Increasing(list)
  PROVE  Increasing(Sublist(list, kept))
<1>1. kept \in SUBSET Nat /\ IsFiniteSet(kept)
  BY SublistFacts
<1>2. /\ \A n \in 1 .. Cardinality(kept) : Place(kept, n) \in kept
      /\ \A m, n \in 1 .. Cardinality(kept) : m < n <=> Place(kept, m) < Place(kept, n)
  BY <1>1, PlaceFacts
<1>3. /\ DOMAIN Sublist(list, kept) = 1 .. Cardinality(kept)
      /\ \A n \in 1 .. Cardinality(kept) : Sublist(list, kept)[n] = list[Place(kept, n)]
  BY SublistFacts
<1>4. QED
  BY <1>2, <1>3 DEF Increasing

-----------------------------------------------------------------------------
(* The greatest of some numbers.                                           *)
IsMaximum(m, numbers) == m \in numbers /\ \A q \in numbers : q <= m

LEMMA GreatestIs ==
  ASSUME NEW numbers \in SUBSET Nat, IsFiniteSet(numbers), numbers # {}
  PROVE  \A m : IsMaximum(m, numbers) <=> m = Greatest(numbers)
<1> DEFINE last == Place(numbers, Cardinality(numbers))
<1>1. Cardinality(numbers) \in Nat /\ Cardinality(numbers) # 0
  BY FS_CardinalityType, FS_EmptySet
<1>2. /\ last \in numbers
      /\ \A i \in numbers : \E n \in 1 .. Cardinality(numbers) : i = Place(numbers, n)
      /\ \A m, n \in 1 .. Cardinality(numbers) : m < n <=> Place(numbers, m) < Place(numbers, n)
  BY <1>1, PlaceFacts
<1>3. ASSUME NEW i \in numbers
      PROVE  i <= last
  <2>1. PICK n \in 1 .. Cardinality(numbers) : i = Place(numbers, n)
    BY <1>2
  <2>2. CASE n = Cardinality(numbers)
    <3>1. i = last /\ last \in Nat
      BY <2>1, <2>2, <1>2
    <3>2. QED
      BY <3>1
  <2>3. CASE n < Cardinality(numbers)
    <3>1. Cardinality(numbers) \in 1 .. Cardinality(numbers)
      BY <1>1
    <3>2. i < last
      BY <3>1, <2>1, <2>3, <1>2
    <3>3. i \in Nat /\ last \in Nat
      BY <1>2
    <3>4. QED
      BY <3>2, <3>3
  <2>4. QED
    BY <2>2, <2>3, <1>1
<1>4. IsMaximum(last, numbers)
  BY <1>2, <1>3 DEF IsMaximum
<1> HIDE DEF last
<1>5. IsMaximum(Greatest(numbers), numbers)
  BY <1>4 DEF IsMaximum, Greatest
<1>6. ASSUME NEW m, IsMaximum(m, numbers)
      PROVE  m = Greatest(numbers)
  <2>1. /\ m \in Nat /\ Greatest(numbers) \in Nat
        /\ m <= Greatest(numbers) /\ Greatest(numbers) <= m
    BY <1>5, <1>6 DEF IsMaximum
  <2>2. QED
    BY <2>1
<1>7. QED
  BY <1>5, <1>6

Priorities(least, list) == {least} \cup {Priority[f] : f \in Range(list)}

LEMMA FramesAre ==
  /\ Frames = 1 .. Len(Priority) /\ Len(Priority) \in Nat /\ Frames \in SUBSET Nat
  /\ IsFiniteSet(Frames) /\ Cardinality(Frames) = Len(Priority)
  /\ \A f \in Frames : Priority[f] \in 0 .. 255 /\ Length[f] \in Nat
<1>1. Frames = 1 .. Len(Priority) /\ Len(Priority) \in Nat
  BY QueueAssumption DEF Frames
<1>2. IsFiniteSet(Frames) /\ Cardinality(Frames) = Len(Priority)
  BY <1>1, IntervalSize
<1>3. \A f \in Frames : Priority[f] \in 0 .. 255 /\ Length[f] \in Nat
  BY <1>1, QueueAssumption
<1>4. QED
  BY <1>1, <1>2, <1>3

LEMMA PrioritiesFinite ==
  ASSUME NEW least \in Nat, NEW list \in Seq(Frames)
  PROVE  /\ Priorities(least, list) \in SUBSET Nat
         /\ IsFiniteSet(Priorities(least, list)) /\ Priorities(least, list) # {}
<1>1. \A f \in Range(list) : f \in Frames
  BY DEF Range
<1>2. /\ Priorities(least, list) \in SUBSET Nat
      /\ \A p \in Priorities(least, list) : p <= least + 255
  <2>1. \A f \in Range(list) : Priority[f] \in Nat /\ Priority[f] <= 255
    <3>1. \A f \in Frames : Priority[f] \in 0 .. 255
      BY FramesAre
    <3>2. \A n \in 0 .. 255 : n \in Nat /\ n <= 255
      OBVIOUS
    <3>3. QED
      BY <1>1, <3>1, <3>2
  <2>2. \A p \in Priorities(least, list) : p \in Nat /\ p <= least + 255
    BY <2>1 DEF Priorities
  <2>3. QED
    BY <2>2
<1>3. IsFiniteSet(Priorities(least, list))
  BY <1>2, FS_BoundedSetOfNaturals, least + 255 \in Nat
<1>4. QED
  BY <1>2, <1>3 DEF Priorities

LEMMA MaximumIs ==
  ASSUME NEW least \in Nat, NEW list \in Seq(Frames)
  PROVE  /\ MaximumPriority(least, list) \in Nat
         /\ \A m : IsMaximum(m, Priorities(least, list)) <=> m = MaximumPriority(least, list)
<1>1. MaximumPriority(least, list) = Greatest(Priorities(least, list))
  BY DEF MaximumPriority, Priorities
<1>2. \A m : IsMaximum(m, Priorities(least, list)) <=> m = MaximumPriority(least, list)
  BY <1>1, PrioritiesFinite, GreatestIs
<1>3. MaximumPriority(least, list) \in Nat
  BY <1>2, PrioritiesFinite DEF IsMaximum
<1>4. QED
  BY <1>2, <1>3

(* The greatest priority of two lists together.                            *)
LEMMA RangeConcat ==
  ASSUME NEW S, NEW a \in Seq(S), NEW b \in Seq(S)
  PROVE  Range(a \o b) = Range(a) \cup Range(b)
<1>1. \A i \in DOMAIN a : (a \o b)[i] = a[i] /\ i \in DOMAIN (a \o b)
  OBVIOUS
<1>2. \A i \in DOMAIN b : (a \o b)[i + Len(a)] = b[i] /\ i + Len(a) \in DOMAIN (a \o b)
  OBVIOUS
<1>3. \A i \in DOMAIN (a \o b) : (a \o b)[i] = IF i <= Len(a) THEN a[i] ELSE b[i - Len(a)]
  OBVIOUS
<1>4. \A i \in DOMAIN (a \o b) : i \in DOMAIN a \/ i - Len(a) \in DOMAIN b
  OBVIOUS
<1>5. \A i \in DOMAIN (a \o b) : i <= Len(a) <=> i \in DOMAIN a
  OBVIOUS
<1>6. \A i \in DOMAIN (a \o b) : (a \o b)[i] \in Range(a) \cup Range(b)
  BY <1>3, <1>4, <1>5 DEF Range
<1>7. \A x \in Range(a) : \E i \in DOMAIN (a \o b) : x = (a \o b)[i]
  BY <1>1 DEF Range
<1>8. \A x \in Range(b) : \E i \in DOMAIN (a \o b) : x = (a \o b)[i]
  BY <1>2 DEF Range
<1>9. QED
  BY <1>6, <1>7, <1>8 DEF Range

LEMMA MaximumConcat ==
  ASSUME NEW least \in Nat, NEW a \in Seq(Frames), NEW b \in Seq(Frames)
  PROVE  /\ MaximumPriority(MaximumPriority(least, a), b) = MaximumPriority(least, a \o b)
         /\ Greatest({MaximumPriority(least, a), MaximumPriority(least, b)}) = MaximumPriority(least, a \o b)
<1> DEFINE ma == MaximumPriority(least, a)
           mb == MaximumPriority(least, b)
           m == MaximumPriority(ma, b)
           g == Greatest({ma, mb})
<1>1. /\ ma \in Nat /\ IsMaximum(ma, Priorities(least, a))
      /\ mb \in Nat /\ IsMaximum(mb, Priorities(least, b))
  BY MaximumIs
<1> HIDE DEF ma, mb
<1>2. m \in Nat /\ IsMaximum(m, Priorities(ma, b))
  BY <1>1, MaximumIs
<1>3. g \in {ma, mb} /\ IsMaximum(g, {ma, mb})
  <2>1. {ma, mb} \in SUBSET Nat /\ {ma, mb} # {}
    BY <1>1
  <2>2. IsFiniteSet({ma, mb})
    BY <1>1, <2>1, FS_BoundedSetOfNaturals, ma + mb \in Nat, \A s \in {ma, mb} : s <= ma + mb
  <2>3. QED
    BY <2>1, <2>2, GreatestIs DEF IsMaximum
<1> HIDE DEF m, g
<1>4. a \o b \in Seq(Frames) /\ Range(a \o b) = Range(a) \cup Range(b)
  BY RangeConcat
<1>5. Priorities(least, a \o b) = Priorities(least, a) \cup Priorities(least, b)
  BY <1>4 DEF Priorities
<1>6. Priorities(least, a \o b) \in SUBSET Nat
  BY <1>4, PrioritiesFinite
<1>7. IsMaximum(m, Priorities(least, a \o b))
  <2>1. m \in Priorities(least, a \o b)
    BY <1>1, <1>2, <1>5 DEF IsMaximum, Priorities
  <2>2. m >= ma /\ \A q \in Priorities(ma, b) : q <= m
    BY <1>2 DEF IsMaximum, Priorities
  <2>3. \A q \in Priorities(least, a) : q <= m
    BY <2>2, <1>1, <1>2, <1>5, <1>6 DEF IsMaximum
  <2>4. least \in Priorities(least, a) /\ \A q \in Priorities(least, b) : q = least \/ q \in Priorities(ma, b)
    BY DEF Priorities
  <2>5. QED
    BY <2>1, <2>2, <2>3, <2>4, <1>5 DEF IsMaximum
<1>8. IsMaximum(g, Priorities(least, a \o b))
  <2>1. g \in Priorities(least, a \o b)
    BY <1>1, <1>3, <1>5 DEF IsMaximum
  <2>2. g \in Nat /\ ma <= g /\ mb <= g
    BY <1>1, <1>3 DEF IsMaximum
  <2>3. \A q \in Priorities(least, a \o b) : q <= ma \/ q <= mb
    BY <1>1, <1>5 DEF IsMaximum
  <2>4. QED
    BY <2>1, <2>2, <2>3, <1>1, <1>6 DEF IsMaximum
<1>9. QED
  BY <1>4, <1>7, <1>8, MaximumIs DEF m, g, ma, mb


-----------------------------------------------------------------------------
(* Lists in the order of collection.                                       *)
LEMMA RangeIn ==
  ASSUME NEW S, NEW list \in Seq(S)
  PROVE  \A x \in Range(list) : x \in S
BY DEF Range

LEMMA SavedIn ==
  ASSUME TypeOK
  PROVE  \A i \in DOMAIN file : file[i] \in SavedFrame /\ file[i].buffer \in Frames /\ file[i].buffer \in Nat
<1>1. \A s \in Seq(SavedFrame) : \A i \in DOMAIN s : s[i] \in SavedFrame
  OBVIOUS
<1>2. \A i \in DOMAIN file : file[i] \in SavedFrame
  BY <1>1 DEF TypeOK
<1>3. \A x \in SavedFrame : x.buffer \in Frames
  BY DEF SavedFrame
<1>4. QED
  BY <1>2, <1>3, FramesAre

LEMMA IncreasingConcat ==
  ASSUME NEW a \in Seq(Nat), NEW b \in Seq(Nat), Increasing(a), Increasing(b),
         \A x \in Range(a), y \in Range(b) : x < y
  PROVE  Increasing(a \o b)
<1>1. \A i \in DOMAIN a, j \in DOMAIN b : a[i] < b[j]
  BY DEF Range
<1>2. SUFFICES ASSUME NEW i \in DOMAIN (a \o b), NEW j \in DOMAIN (a \o b), i < j
               PROVE  (a \o b)[i] < (a \o b)[j]
  BY DEF Increasing
<1>3. /\ i \in DOMAIN a \/ i - Len(a) \in DOMAIN b
      /\ j \in DOMAIN a \/ j - Len(a) \in DOMAIN b
      /\ (a \o b)[i] = IF i <= Len(a) THEN a[i] ELSE b[i - Len(a)]
      /\ (a \o b)[j] = IF j <= Len(a) THEN a[j] ELSE b[j - Len(a)]
  OBVIOUS
<1>4. CASE j <= Len(a)
  BY <1>2, <1>3, <1>4 DEF Increasing
<1>5. CASE i > Len(a)
  BY <1>2, <1>3, <1>5 DEF Increasing
<1>6. CASE i <= Len(a) /\ j > Len(a)
  BY <1>1, <1>2, <1>3, <1>6
<1>7. QED
  BY <1>2, <1>4, <1>5, <1>6

LEMMA EmptyMaximum == MaximumPriority(1, <<>>) = 1
<1>1. IsMaximum(1, Priorities(1, <<>>))
  BY DEF IsMaximum, Priorities, Range
<1>2. 1 \in Nat /\ <<>> \in Seq(Frames)
  OBVIOUS
<1>3. QED
  BY <1>1, <1>2, MaximumIs

LEMMA InitIInv == Init => IInv
<1> SUFFICES ASSUME Init
             PROVE  IInv
  OBVIOUS
<1>1. /\ appendedFramesList = <<>> /\ queuedFramesList = <<>> /\ file = <<>>
      /\ appendingMaximumPriority = 1 /\ queuedMaximumPriority = 1
      /\ packetId = [f \in Frames |-> -1]
      /\ sent = {} /\ tickets = {} /\ collected = 0
  BY DEF Init
<1>2. Range(appendedFramesList) = {} /\ Range(queuedFramesList) = {}
  BY <1>1 DEF Range
<1>3. TypeOK
  <2>1. nextId \in [Threads -> Nat \ {0}]
    BY DEF Init, FirstPacketId
  <2>2. reused \in BOOLEAN
    BY Zenon DEF Init
  <2>3. collected \in 0 .. Len(Priority) /\ resets \in 0 .. MaxResets
    BY FramesAre, QueueAssumption DEF Init
  <2>4. packetId \in [Frames -> Nat \cup {-1}]
    BY <1>1
  <2>5. QED
    BY <2>1, <2>2, <2>3, <2>4 DEF Init, TypeOK
<1>4. OrderOK /\ FileOK
  BY <1>1, <1>2 DEF OrderOK, FileOK, Increasing
<1>5. GivenOutOK
  BY <1>1, <1>2 DEF GivenOutOK
<1>6. PriorityOK
  BY <1>1, EmptyMaximum DEF PriorityOK
<1>7. PacketsOK
  BY <1>1 DEF PacketsOK
<1>8. NoFrameLost
  BY <1>1 DEF NoFrameLost
<1>9. QED
  BY <1>3, <1>4, <1>5, <1>6, <1>7, <1>8 DEF IInv

-----------------------------------------------------------------------------
(* The writing thread.                                                     *)
LEMMA CollectStep ==
  ASSUME IInv, NEW list \in Seq(Frames), Collect(list), Increasing(list),
         Range(list) = collected + 1 .. collected + Len(list),
         collected + Len(list) \in Frames
  PROVE  IInv'
<1>1. TypeOK
  BY DEF IInv
<1>2. /\ appendedFramesList \in Seq(Frames) /\ collected \in Nat /\ Len(list) \in Nat
      /\ appendedFramesList' \in Seq(Frames)
      /\ Range(appendedFramesList') = Range(appendedFramesList) \cup Range(list)
      /\ collected' = collected + Len(list)
      /\ UNCHANGED <<queuedFramesList, queuedMaximumPriority, packetId, file, nextId, sent, tickets, received, unapplied, reused>>
  <2>1. appendedFramesList \in Seq(Frames) /\ collected \in Nat /\ Len(list) \in Nat
    BY <1>1 DEF TypeOK
  <2>2. /\ appendedFramesList' = appendedFramesList \o list /\ collected' = collected + Len(list)
        /\ UNCHANGED <<queuedFramesList, queuedMaximumPriority, packetId, file, nextId, sent, tickets, received, unapplied, reused>>
    BY DEF Collect, readerVars
  <2>3. /\ appendedFramesList \o list \in Seq(Frames)
        /\ Range(appendedFramesList \o list) = Range(appendedFramesList) \cup Range(list)
    BY <2>1, RangeConcat
  <2>4. QED
    BY <2>1, <2>2, <2>3
<1>3. \A f \in Range(list) : f \in Nat /\ f > collected /\ f <= collected'
  BY <1>2
<1>4. TypeOK'
  <2>1. appendingMaximumPriority' \in Nat
    BY <1>1, MaximumIs DEF TypeOK, Collect
  <2>2. collected' \in 0 .. Len(Priority)
    BY <1>2, FramesAre
  <2>3. QED
    BY <1>1, <1>2, <2>1, <2>2 DEF TypeOK, Collect, readerVars
<1>5. OrderOK'
  <2>1. OrderOK
    BY DEF IInv
  <2>2. \A f \in Range(queuedFramesList) \cup Range(appendedFramesList) : f \in Nat /\ f <= collected
    BY <2>1, <1>2 DEF OrderOK
  <2>3. \A f \in Range(queuedFramesList) \cup Range(appendedFramesList) : \A g \in Range(list) : f < g
    BY <2>2, <1>2, <1>3
  <2>4. Increasing(appendedFramesList')
    <3>1. appendedFramesList \in Seq(Nat) /\ list \in Seq(Nat)
      BY <1>2, FramesAre
    <3>2. Increasing(appendedFramesList)
      BY <2>1 DEF OrderOK
    <3>3. QED
      BY <2>3, <3>1, <3>2, IncreasingConcat DEF Collect
  <2>5. \A f \in Range(queuedFramesList)', g \in Range(appendedFramesList)' : f < g
    BY <2>1, <2>3, <1>2 DEF OrderOK
  <2>6. \A f \in Range(queuedFramesList)' \cup Range(appendedFramesList)' : f \in 1 .. collected'
    BY <2>1, <2>2, <1>2, <1>3 DEF OrderOK
  <2>7. QED
    BY <2>1, <2>4, <2>5, <2>6, <1>2 DEF OrderOK
<1>6. FileOK'
  <2>1. FileOK
    BY DEF IInv
  <2>2. \A i \in DOMAIN file : file[i].buffer <= collected'
    <3>1. \A i \in DOMAIN file : file[i].buffer \in Nat
      BY <1>1, SavedIn
    <3>2. QED
      BY <2>1, <3>1, <1>2 DEF FileOK
  <2>3. QED
    BY <2>1, <2>2, <1>2 DEF FileOK
<1>7. GivenOutOK'
  <2>1. GivenOutOK
    BY DEF IInv
  <2>2. \A f \in Frames : f > collected' => f > collected
    BY <1>2, FramesAre
  <2>3. QED
    BY <2>1, <2>2, <1>2, <1>3 DEF GivenOutOK
<1>8. PriorityOK'
  <2>1. PriorityOK
    BY DEF IInv
  <2>2. appendingMaximumPriority' = MaximumPriority(1, appendedFramesList \o list)
    <3>1. MaximumPriority(MaximumPriority(1, appendedFramesList), list)
            = MaximumPriority(1, appendedFramesList \o list)
      BY <1>2, MaximumConcat, 1 \in Nat
    <3>2. QED
      BY <2>1, <3>1 DEF PriorityOK, Collect
  <2>3. QED
    BY <2>1, <2>2, <1>2 DEF PriorityOK, Collect
<1>9. PacketsOK'
  BY <1>2 DEF IInv, PacketsOK, Used
<1>10. NoFrameLost'
  <2>1. NoFrameLost
    BY DEF IInv
  <2>2. \A f \in 1 .. collected' : f \in 1 .. collected \/ f \in Range(list)
    BY <1>2
  <2>3. QED
    BY <2>1, <2>2, <1>2 DEF NoFrameLost, Kept
<1>11. QED
  BY <1>4, <1>5, <1>6, <1>7, <1>8, <1>9, <1>10 DEF IInv

LEMMA CollectOneStep ==
  ASSUME IInv, CollectAppendingFrame
  PROVE  IInv'
<1> DEFINE list == <<collected + 1>>
<1>1. collected \in Nat /\ collected + 1 \in Frames /\ Collect(list)
  BY FramesAre DEF IInv, TypeOK, CollectAppendingFrame
<1>2. list \in Seq(Frames) /\ Len(list) = 1 /\ Increasing(list)
  BY <1>1 DEF Increasing
<1>3. Range(list) = collected + 1 .. collected + 1
  BY <1>1 DEF Range
<1>4. QED
  BY <1>1, <1>2, <1>3, CollectStep

LEMMA CollectTwoStep ==
  ASSUME IInv, CollectAppendingFramesList
  PROVE  IInv'
<1> DEFINE list == <<collected + 1, collected + 2>>
<1>1. /\ collected \in Nat /\ collected + 2 \in Frames /\ collected + 1 \in Frames
      /\ Collect(list)
  BY FramesAre DEF IInv, TypeOK, CollectAppendingFramesList
<1>2. list \in Seq(Frames) /\ Len(list) = 2 /\ Increasing(list)
  BY <1>1 DEF Increasing
<1>3. Range(list) = collected + 1 .. collected + 2
  <2>1. Range(list) = {collected + 1, collected + 2}
    BY DEF Range
  <2>2. collected + 1 .. collected + 2 = {collected + 1, collected + 2}
    BY <1>1
  <2>3. QED
    BY <2>1, <2>2
<1>4. QED
  BY <1>1, <1>2, <1>3, CollectStep


LEMMA SnapshotFacts ==
  ASSUME NEW list \in Seq(Frames), Increasing(list)
  PROVE  /\ MakeSnapshot(list) \in Seq(SavedFrame)
         /\ DOMAIN MakeSnapshot(list) = DOMAIN list
         /\ \A i \in DOMAIN list : MakeSnapshot(list)[i] = [length |-> Length[list[i]], buffer |-> list[i]]
         /\ \A i, j \in DOMAIN list : i < j => MakeSnapshot(list)[i].buffer < MakeSnapshot(list)[j].buffer
<1>1. /\ DOMAIN MakeSnapshot(list) = DOMAIN list
      /\ \A i \in DOMAIN list : MakeSnapshot(list)[i] = [length |-> Length[list[i]], buffer |-> list[i]]
  BY DEF MakeSnapshot
<1>2. \A i \in DOMAIN list : list[i] \in Frames
  OBVIOUS
<1>3. \A f \in Frames : [length |-> Length[f], buffer |-> f] \in SavedFrame
  BY FramesAre DEF SavedFrame
<1>4. DOMAIN list = 1 .. Len(list) /\ Len(list) \in Nat
  OBVIOUS
<1>5. MakeSnapshot(list) \in [1 .. Len(list) -> SavedFrame]
  BY <1>2, <1>3, <1>4 DEF MakeSnapshot
<1>6. \A n \in Nat : \A s \in [1 .. n -> SavedFrame] : s \in Seq(SavedFrame)
  OBVIOUS
<1>7. \A i, j \in DOMAIN list : i < j => MakeSnapshot(list)[i].buffer < MakeSnapshot(list)[j].buffer
  BY <1>1 DEF Increasing
<1>8. QED
  BY <1>1, <1>4, <1>5, <1>6, <1>7

(* FileOK, when the queue has just been stored.                            *)
LEMMA Stored ==
  ASSUME TypeOK', Increasing(queuedFramesList'), file' = MakeSnapshot(queuedFramesList'),
         \A f \in Range(queuedFramesList') : f <= collected'
  PROVE  FileOK'
<1>1. \A list \in Seq(Frames) :
        Increasing(list) =>
          /\ DOMAIN MakeSnapshot(list) = DOMAIN list
          /\ \A i \in DOMAIN list : MakeSnapshot(list)[i] = [length |-> Length[list[i]], buffer |-> list[i]]
          /\ \A i, j \in DOMAIN list : i < j => MakeSnapshot(list)[i].buffer < MakeSnapshot(list)[j].buffer
  BY SnapshotFacts
<1>2. queuedFramesList' \in Seq(Frames)
  BY DEF TypeOK
<1>3. /\ DOMAIN file' = DOMAIN queuedFramesList'
      /\ \A i \in DOMAIN queuedFramesList' :
           file'[i] = [length |-> Length[queuedFramesList'[i]], buffer |-> queuedFramesList'[i]]
      /\ \A i, j \in DOMAIN queuedFramesList' : i < j => file'[i].buffer < file'[j].buffer
  BY <1>1, <1>2
<1>4. \A i \in DOMAIN file' : file'[i].buffer <= collected'
  <2>1. \A i \in DOMAIN queuedFramesList' : queuedFramesList'[i] \in Range(queuedFramesList')
    BY DEF Range
  <2>2. QED
    BY <1>3, <2>1
<1>5. \A f \in Range(queuedFramesList') : \E i \in DOMAIN file' : file'[i] = [length |-> Length[f], buffer |-> f]
  BY <1>3 DEF Range
<1>6. QED
  BY <1>3, <1>4, <1>5 DEF FileOK

LEMMA ApplyStep ==
  ASSUME IInv, ApplyCollectedFrames
  PROVE  IInv'
<1>1. TypeOK /\ OrderOK /\ GivenOutOK /\ PriorityOK /\ PacketsOK /\ NoFrameLost
  BY DEF IInv
<1>2. /\ queuedFramesList' = queuedFramesList \o appendedFramesList
      /\ appendedFramesList' = <<>> /\ appendingMaximumPriority' = 1
      /\ file' = MakeSnapshot(queuedFramesList')
      /\ UNCHANGED <<packetId, nextId, sent, tickets, collected, unapplied, received, reused>>
  BY DEF ApplyCollectedFrames
<1>3. /\ appendedFramesList \in Seq(Frames) /\ queuedFramesList \in Seq(Frames)
      /\ appendedFramesList \in Seq(Nat) /\ queuedFramesList \in Seq(Nat)
  BY <1>1, FramesAre DEF TypeOK
<1>4. /\ queuedFramesList' \in Seq(Frames)
      /\ Range(queuedFramesList') = Range(queuedFramesList) \cup Range(appendedFramesList)
      /\ Range(appendedFramesList') = {}
  <2>1. Range(<<>>) = {}
    BY DEF Range
  <2>2. Range(queuedFramesList \o appendedFramesList) = Range(queuedFramesList) \cup Range(appendedFramesList)
    BY <1>3, RangeConcat
  <2>3. queuedFramesList \o appendedFramesList \in Seq(Frames)
    BY <1>3
  <2>4. QED
    BY <1>2, <2>1, <2>2, <2>3
<1>5. Increasing(queuedFramesList')
  BY <1>1, <1>2, <1>3, IncreasingConcat DEF OrderOK
<1>6. queuedMaximumPriority' = MaximumPriority(1, queuedFramesList')
  <2>1. Greatest({MaximumPriority(1, queuedFramesList), MaximumPriority(1, appendedFramesList)})
          = MaximumPriority(1, queuedFramesList \o appendedFramesList)
    BY <1>3, MaximumConcat, 1 \in Nat
  <2>2. QED
    BY <1>1, <1>2, <2>1 DEF PriorityOK, ApplyCollectedFrames
<1>7. TypeOK'
  <2>1. queuedMaximumPriority' \in Nat
    BY <1>4, <1>6, MaximumIs, 1 \in Nat
  <2>2. file' \in Seq(SavedFrame)
    <3>1. \A list \in Seq(Frames) : Increasing(list) => MakeSnapshot(list) \in Seq(SavedFrame)
      BY SnapshotFacts
    <3>2. QED
      BY <1>2, <1>4, <1>5, <3>1
  <2>3. due' \subseteq Threads
    BY <1>1 DEF TypeOK, ApplyCollectedFrames, NotifyThreadQueueChanged
  <2>4. QED
    BY <1>1, <1>2, <1>4, <2>1, <2>2, <2>3 DEF TypeOK, ApplyCollectedFrames
<1>8. OrderOK'
  BY <1>1, <1>2, <1>4, <1>5 DEF OrderOK, Increasing
<1>9. FileOK'
  <2>1. \A f \in Range(queuedFramesList') : f <= collected'
    BY <1>1, <1>2, <1>4 DEF OrderOK
  <2>2. QED
    BY <1>2, <1>5, <1>7, <2>1, Stored
<1>10. GivenOutOK'
  <2>1. \A f \in Frames : f > collected \/ f \in Range(appendedFramesList) => packetId[f] = -1
    BY <1>1 DEF GivenOutOK
  <2>2. ASSUME NEW i \in DOMAIN queuedFramesList', NEW j \in DOMAIN queuedFramesList', i < j,
               Priority[queuedFramesList'[i]] = Priority[queuedFramesList'[j]],
               packetId[queuedFramesList'[j]] # -1
        PROVE  packetId[queuedFramesList'[i]] # -1
    <3>1. CASE j \in DOMAIN queuedFramesList
      <4>1. /\ i \in DOMAIN queuedFramesList
            /\ queuedFramesList'[i] = queuedFramesList[i] /\ queuedFramesList'[j] = queuedFramesList[j]
        BY <1>2, <1>3, <2>2, <3>1
      <4>2. QED
        BY <1>1, <2>2, <3>1, <4>1 DEF GivenOutOK
    <3>2. CASE j \notin DOMAIN queuedFramesList
      <4>1. /\ j - Len(queuedFramesList) \in DOMAIN appendedFramesList
            /\ queuedFramesList'[j] = appendedFramesList[j - Len(queuedFramesList)]
        BY <1>2, <1>3, <2>2, <3>2
      <4>2. queuedFramesList'[j] \in Range(appendedFramesList) /\ queuedFramesList'[j] \in Frames
        BY <1>3, <4>1, RangeIn DEF Range
      <4>3. QED
        BY <2>1, <2>2, <4>2
    <3>3. QED
      BY <3>1, <3>2
  <2>3. QED
    BY <1>2, <1>4, <2>1, <2>2 DEF GivenOutOK
<1>11. PriorityOK'
  BY <1>2, <1>6, EmptyMaximum DEF PriorityOK
<1>12. PacketsOK'
  <2>1. \A f \in Range(appendedFramesList) : f \in Frames /\ packetId[f] = -1
    BY <1>1, <1>3, RangeIn DEF GivenOutOK
  <2>2. \A p \in sent \cup tickets : p.id # -1
    BY <1>1 DEF TypeOK, Packet
  <2>3. QED
    BY <1>1, <1>2, <1>4, <2>1, <2>2 DEF PacketsOK, Used
<1>13. NoFrameLost'
  BY <1>1, <1>2, <1>4 DEF NoFrameLost, Kept
<1>14. QED
  BY <1>7, <1>8, <1>9, <1>10, <1>11, <1>12, <1>13 DEF IInv

-----------------------------------------------------------------------------
(* Steps that leave the queue alone.                                       *)
LEMMA QueueKept ==
  ASSUME IInv, TypeOK', UNCHANGED <<appendedFramesList, appendingMaximumPriority, queuedFramesList, queuedMaximumPriority>>,
         UNCHANGED <<packetId, file, nextId, collected, unapplied, reused>>,
         sent' \cup tickets' \subseteq sent \cup tickets, received \subseteq received',
         \A p \in tickets' : Range(p.frames) \subseteq received'
  PROVE  IInv'
<1>1. OrderOK' /\ FileOK' /\ GivenOutOK' /\ PriorityOK'
  BY DEF IInv, OrderOK, FileOK, GivenOutOK, PriorityOK
<1>2. PacketsOK'
  <2>1. PacketsOK
    BY DEF IInv
  <2>2. \A t \in Threads : Used(t)' = Used(t)
    BY DEF Used
  <2>3. \A p \in sent' \cup tickets' : p \in sent \cup tickets
    OBVIOUS
  <2>4. \A p \in sent' \cup tickets' : p.id \in Used(p.thread)'
    BY <2>1, <2>3 DEF PacketsOK, Used
  <2>5. QED
    BY Zenon, <2>1, <2>2, <2>3, <2>4 DEF PacketsOK
<1>3. NoFrameLost'
  BY DEF IInv, NoFrameLost, Kept
<1>4. QED
  BY <1>1, <1>2, <1>3 DEF IInv

LEMMA BindStep ==
  ASSUME IInv, NEW t \in Threads, BindThread(t) \/ UnbindThread(t)
  PROVE  IInv'
<1>1. TypeOK /\ PacketsOK
  BY DEF IInv
<1>2. TypeOK'
  <2>1. CASE BindThread(t)
    BY <1>1, <2>1 DEF TypeOK, BindThread, NotifyThreadQueueChanged
  <2>2. CASE UnbindThread(t)
    BY <1>1, <2>2 DEF TypeOK, UnbindThread
  <2>3. QED
    BY <2>1, <2>2
<1>3. QED
  BY <1>1, <1>2, QueueKept DEF BindThread, UnbindThread, PacketsOK

LEMMA TerminatedStep ==
  ASSUME IInv, NEW t \in Threads, Terminated(t)
  PROVE  IInv'
<1>1. TypeOK /\ PacketsOK
  BY DEF IInv
<1>2. TypeOK'
  BY <1>1 DEF TypeOK, Terminated, queueVars
<1>3. QED
  BY <1>1, <1>2, QueueKept DEF Terminated, PacketsOK, queueVars

LEMMA PeerReceiveStep ==
  ASSUME IInv, NEW p \in sent, PeerReceive(p)
  PROVE  IInv'
<1>1. TypeOK /\ PacketsOK
  BY DEF IInv
<1>2. p \in Packet /\ Range(p.frames) \subseteq Frames
  BY <1>1, RangeIn DEF TypeOK, Packet
<1>3. TypeOK'
  BY <1>1, <1>2 DEF TypeOK, PeerReceive, queueVars
<1>4. \A q \in tickets' : Range(q.frames) \subseteq received'
  BY <1>1 DEF PacketsOK, PeerReceive
<1>5. QED
  BY <1>3, <1>4, QueueKept DEF PeerReceive, queueVars

LEMMA StutterStep ==
  ASSUME IInv, UNCHANGED queueDataFramesVars
  PROVE  IInv'
<1>1. TypeOK /\ PacketsOK
  BY DEF IInv
<1>2. TypeOK'
  BY <1>1 DEF TypeOK, queueDataFramesVars, queueVars, readerVars
<1>3. QED
  BY <1>1, <1>2, QueueKept DEF queueDataFramesVars, queueVars, readerVars, PacketsOK


-----------------------------------------------------------------------------
(* The reading threads: a ticket.                                          *)
LEMMA UnconfirmedFacts ==
  ASSUME TypeOK, OrderOK, NEW id
  PROVE  /\ Unconfirmed(id) \in Seq(Frames) /\ Increasing(Unconfirmed(id))
         /\ \A f \in Range(Unconfirmed(id)) : f \in Range(queuedFramesList)
         /\ \A f \in Range(queuedFramesList) : packetId[f] # id => f \in Range(Unconfirmed(id))
         /\ \A i, j \in DOMAIN Unconfirmed(id) : i < j =>
              \E k, l \in DOMAIN queuedFramesList :
                k < l /\ Unconfirmed(id)[i] = queuedFramesList[k] /\ Unconfirmed(id)[j] = queuedFramesList[l]
<1> DEFINE kept == {i \in DOMAIN queuedFramesList : packetId[queuedFramesList[i]] # id}
<1>1. /\ queuedFramesList \in Seq(Frames) /\ queuedFramesList \in Seq(Nat)
      /\ Increasing(queuedFramesList) /\ kept \in SUBSET DOMAIN queuedFramesList
  BY FramesAre DEF TypeOK, OrderOK
<1>2. Unconfirmed(id) = Sublist(queuedFramesList, kept)
  BY DEF Unconfirmed
<1>3. \A i \in DOMAIN queuedFramesList : packetId[queuedFramesList[i]] # id <=> i \in kept
  OBVIOUS
<1> HIDE DEF kept
<1>4. \A list \in Seq(Frames) : \A places \in SUBSET DOMAIN list :
        /\ Sublist(list, places) \in Seq(Frames)
        /\ IsFiniteSet(places) /\ places \in SUBSET Nat
        /\ DOMAIN Sublist(list, places) = 1 .. Cardinality(places)
        /\ \A n \in 1 .. Cardinality(places) : Sublist(list, places)[n] = list[Place(places, n)]
        /\ \A i \in places : list[i] \in Range(Sublist(list, places))
        /\ \A f \in Range(Sublist(list, places)) : \E i \in places : f = list[i]
  BY SublistFacts
<1>5. /\ Unconfirmed(id) \in Seq(Frames)
      /\ IsFiniteSet(kept) /\ kept \in SUBSET Nat
      /\ DOMAIN Unconfirmed(id) = 1 .. Cardinality(kept)
      /\ \A n \in 1 .. Cardinality(kept) : Unconfirmed(id)[n] = queuedFramesList[Place(kept, n)]
      /\ \A i \in kept : queuedFramesList[i] \in Range(Unconfirmed(id))
      /\ \A f \in Range(Unconfirmed(id)) : \E i \in kept : f = queuedFramesList[i]
  BY <1>1, <1>2, <1>4
<1>6. Increasing(Unconfirmed(id))
  <2>1. \A list \in Seq(Nat) : \A places \in SUBSET DOMAIN list :
          Increasing(list) => Increasing(Sublist(list, places))
    BY SublistIncreasing
  <2>2. QED
    BY <1>1, <1>2, <2>1
<1>7. /\ \A n \in 1 .. Cardinality(kept) : Place(kept, n) \in kept
      /\ \A m, n \in 1 .. Cardinality(kept) : m < n <=> Place(kept, m) < Place(kept, n)
  BY <1>5, PlaceFacts
<1>8. \A f \in Range(Unconfirmed(id)) : f \in Range(queuedFramesList)
  BY <1>1, <1>5 DEF Range
<1>9. \A f \in Range(queuedFramesList) : packetId[f] # id => f \in Range(Unconfirmed(id))
  <2>1. \A f \in Range(queuedFramesList) : \E i \in DOMAIN queuedFramesList : f = queuedFramesList[i]
    BY DEF Range
  <2>2. SUFFICES ASSUME NEW f \in Range(queuedFramesList), packetId[f] # id
                 PROVE  f \in Range(Unconfirmed(id))
    OBVIOUS
  <2>3. PICK i \in DOMAIN queuedFramesList : f = queuedFramesList[i]
    BY <2>1
  <2>4. i \in kept
    BY <1>3, <2>2, <2>3
  <2>5. QED
    BY <1>5, <2>3, <2>4
<1>10. \A i, j \in DOMAIN Unconfirmed(id) : i < j =>
         \E k, l \in DOMAIN queuedFramesList :
           k < l /\ Unconfirmed(id)[i] = queuedFramesList[k] /\ Unconfirmed(id)[j] = queuedFramesList[l]
  BY <1>1, <1>5, <1>7
<1>11. QED
  BY <1>5, <1>6, <1>8, <1>9, <1>10

LEMMA ApplyTicketStep ==
  ASSUME IInv, NEW p \in tickets, ApplyTicket(p)
  PROVE  IInv'
<1>1. TypeOK /\ OrderOK /\ GivenOutOK /\ PriorityOK /\ PacketsOK /\ NoFrameLost
  BY DEF IInv
<1>2. /\ queuedFramesList' = Unconfirmed(p.id)
      /\ queuedMaximumPriority' = MaximumPriority(1, Unconfirmed(p.id))
      /\ file' = MakeSnapshot(Unconfirmed(p.id))
      /\ tickets' = tickets \ {p}
      /\ UNCHANGED <<appendedFramesList, appendingMaximumPriority, packetId, nextId, sent, collected, unapplied, received, reused>>
  BY DEF ApplyTicket
<1>3. /\ Unconfirmed(p.id) \in Seq(Frames) /\ Increasing(Unconfirmed(p.id))
      /\ \A f \in Range(Unconfirmed(p.id)) : f \in Range(queuedFramesList)
      /\ \A f \in Range(queuedFramesList) : packetId[f] # p.id => f \in Range(Unconfirmed(p.id))
      /\ \A i, j \in DOMAIN Unconfirmed(p.id) : i < j =>
           \E k, l \in DOMAIN queuedFramesList :
             k < l /\ Unconfirmed(p.id)[i] = queuedFramesList[k] /\ Unconfirmed(p.id)[j] = queuedFramesList[l]
  BY <1>1, UnconfirmedFacts
<1>4. TypeOK'
  <2>1. queuedMaximumPriority' \in Nat
    <3>1. \A list \in Seq(Frames) : MaximumPriority(1, list) \in Nat
      BY MaximumIs, 1 \in Nat
    <3>2. QED
      BY <1>2, <1>3, <3>1
  <2>2. file' \in Seq(SavedFrame)
    <3>1. \A list \in Seq(Frames) : Increasing(list) => MakeSnapshot(list) \in Seq(SavedFrame)
      BY SnapshotFacts
    <3>2. QED
      BY <1>2, <1>3, <3>1
  <2>3. due' \subseteq Threads
    BY <1>1 DEF TypeOK, Packet, ApplyTicket
  <2>4. QED
    BY <1>1, <1>2, <1>3, <2>1, <2>2, <2>3 DEF TypeOK, ApplyTicket
<1>5. OrderOK'
  BY <1>1, <1>2, <1>3 DEF OrderOK
<1>6. FileOK'
  <2>1. \A f \in Range(queuedFramesList') : f <= collected'
    BY <1>1, <1>2, <1>3 DEF OrderOK
  <2>2. QED
    BY <1>2, <1>3, <1>4, <2>1, Stored
<1>7. GivenOutOK'
  <2>1. ASSUME NEW i \in DOMAIN queuedFramesList', NEW j \in DOMAIN queuedFramesList', i < j,
               Priority[queuedFramesList'[i]] = Priority[queuedFramesList'[j]],
               packetId[queuedFramesList'[j]] # -1
        PROVE  packetId[queuedFramesList'[i]] # -1
    <3>1. PICK k, l \in DOMAIN queuedFramesList :
            k < l /\ queuedFramesList'[i] = queuedFramesList[k] /\ queuedFramesList'[j] = queuedFramesList[l]
      BY <1>2, <1>3, <2>1
    <3>2. QED
      BY <1>1, <2>1, <3>1 DEF GivenOutOK
  <2>2. QED
    BY <1>1, <1>2, <2>1 DEF GivenOutOK
<1>8. PriorityOK'
  BY <1>1, <1>2 DEF PriorityOK
<1>9. PacketsOK'
  BY <1>1, <1>2, <1>3 DEF PacketsOK, Used
<1>10. NoFrameLost'
  <2>1. ~reused => \A f \in Range(queuedFramesList) : f \in Range(queuedFramesList') \/ f \in received
    BY <1>1, <1>2, <1>3 DEF PacketsOK
  <2>2. QED
    BY <1>1, <1>2, <2>1 DEF NoFrameLost, Kept
<1>11. QED
  BY <1>4, <1>5, <1>6, <1>7, <1>8, <1>9, <1>10 DEF IInv

-----------------------------------------------------------------------------
(* A new connection, a restart.                                            *)
LEMMA ResetStep ==
  ASSUME IInv, NEW t \in Threads, Reset(t)
  PROVE  IInv'
<1>1. TypeOK /\ OrderOK /\ GivenOutOK /\ PriorityOK /\ PacketsOK
  BY DEF IInv
<1>2. /\ packetId' = [f \in Frames |-> IF f \in Range(queuedFramesList) THEN -1 ELSE packetId[f]]
      /\ sent' \subseteq sent /\ tickets' \subseteq tickets /\ resets' = resets + 1 /\ resets < MaxResets
      /\ due' = due \cup {t}
      /\ UNCHANGED <<appendedFramesList, appendingMaximumPriority, queuedFramesList, queuedMaximumPriority, file>>
      /\ UNCHANGED <<thread, terminate, nextId, collected, unapplied, received, reused, binds>>
  BY DEF Reset
<1>3. TypeOK'
  <2>1. resets' \in 0 .. MaxResets
    BY <1>1, <1>2, QueueAssumption DEF TypeOK
  <2>2. QED
    BY <1>1, <1>2, <2>1 DEF TypeOK
<1>4. OrderOK' /\ FileOK' /\ PriorityOK' /\ NoFrameLost'
  BY <1>2 DEF IInv, OrderOK, FileOK, PriorityOK, NoFrameLost, Kept
<1>5. GivenOutOK'
  <2>1. \A f \in Frames : packetId[f] = -1 => packetId'[f] = -1
    BY <1>2
  <2>2. \A i \in DOMAIN queuedFramesList : packetId'[queuedFramesList[i]] = -1
    <3>1. \A i \in DOMAIN queuedFramesList :
            queuedFramesList[i] \in Range(queuedFramesList) /\ queuedFramesList[i] \in Frames
      BY <1>1 DEF Range, TypeOK
    <3>2. QED
      BY <1>2, <3>1
  <2>3. QED
    BY <1>1, <1>2, <2>1, <2>2 DEF GivenOutOK
<1>6. PacketsOK'
  <2>1. \A f \in Frames : packetId'[f] = -1 \/ packetId'[f] = packetId[f]
    BY <1>2
  <2>2. \A f \in Range(queuedFramesList) : packetId'[f] = -1
    BY <1>1, <1>2, RangeIn DEF TypeOK
  <2>3. \A p \in sent \cup tickets : p.id # -1
    BY <1>1 DEF TypeOK, Packet
  <2>4. QED
    BY <1>1, <1>2, <2>1, <2>2, <2>3 DEF PacketsOK, Used
<1>7. QED
  BY <1>3, <1>4, <1>5, <1>6 DEF IInv


LEMMA ParseFacts ==
  ASSUME TypeOK, FileOK
  PROVE  /\ Parse(file) \in Seq(Frames) /\ Increasing(Parse(file))
         /\ \A f \in Range(Parse(file)) : f <= collected
         /\ \A i \in DOMAIN file : file[i].length > 0 => file[i].buffer \in Range(Parse(file))
<1> DEFINE kept == {i \in DOMAIN file : file[i].length > 0}
           valid == Sublist(file, kept)
<1>1. /\ Parse(file) = [i \in DOMAIN valid |-> valid[i].buffer]
      /\ kept \in SUBSET DOMAIN file /\ file \in Seq(SavedFrame)
      /\ \A i \in DOMAIN file : file[i].length > 0 => i \in kept
  BY DEF Parse, TypeOK
<1> HIDE DEF kept
<1>2. \A list \in Seq(SavedFrame) : \A places \in SUBSET DOMAIN list :
        /\ IsFiniteSet(places) /\ places \in SUBSET Nat /\ Cardinality(places) \in Nat
        /\ DOMAIN Sublist(list, places) = 1 .. Cardinality(places)
        /\ \A n \in 1 .. Cardinality(places) : Sublist(list, places)[n] = list[Place(places, n)]
  BY SublistFacts
<1>3. /\ IsFiniteSet(kept) /\ kept \in SUBSET Nat /\ Cardinality(kept) \in Nat
      /\ DOMAIN valid = 1 .. Cardinality(kept)
      /\ \A n \in 1 .. Cardinality(kept) : valid[n] = file[Place(kept, n)]
  BY <1>1, <1>2
<1> HIDE DEF valid
<1>4. /\ \A n \in 1 .. Cardinality(kept) : Place(kept, n) \in kept
      /\ \A m, n \in 1 .. Cardinality(kept) : m < n <=> Place(kept, m) < Place(kept, n)
      /\ \A i \in kept : \E n \in 1 .. Cardinality(kept) : i = Place(kept, n)
  BY <1>3, PlaceFacts
<1>5. /\ DOMAIN Parse(file) = 1 .. Cardinality(kept)
      /\ \A n \in 1 .. Cardinality(kept) : Parse(file)[n] = file[Place(kept, n)].buffer
  BY <1>1, <1>3
<1>6. \A n \in 1 .. Cardinality(kept) : Place(kept, n) \in DOMAIN file
  BY <1>1, <1>4
<1>7. \A i \in DOMAIN file : file[i].buffer \in Frames
  BY SavedIn
<1>8. Parse(file) \in Seq(Frames)
  <2>1. Parse(file) \in [1 .. Cardinality(kept) -> Frames]
    BY <1>1, <1>3, <1>5, <1>6, <1>7
  <2>2. \A n \in Nat : \A s \in [1 .. n -> Frames] : s \in Seq(Frames)
    OBVIOUS
  <2>3. QED
    BY <1>3, <2>1, <2>2
<1>9. Increasing(Parse(file))
  <2>1. \A m, n \in 1 .. Cardinality(kept) : m < n => file[Place(kept, m)].buffer < file[Place(kept, n)].buffer
    BY <1>4, <1>6 DEF FileOK
  <2>2. QED
    BY <1>5, <2>1 DEF Increasing
<1>10. \A f \in Range(Parse(file)) : f <= collected
  BY <1>5, <1>6 DEF FileOK, Range
<1>11. ASSUME NEW i \in DOMAIN file, file[i].length > 0
       PROVE  file[i].buffer \in Range(Parse(file))
  <2>1. PICK n \in 1 .. Cardinality(kept) : i = Place(kept, n)
    BY <1>1, <1>4, <1>11
  <2>2. QED
    BY <1>5, <2>1 DEF Range
<1>12. QED
  BY <1>8, <1>9, <1>10, <1>11

LEMMA RestartStep ==
  ASSUME IInv, FramesValid, Restart
  PROVE  IInv'
<1>1. TypeOK /\ OrderOK /\ FileOK /\ NoFrameLost
  BY DEF IInv
<1>2. /\ appendedFramesList' = Parse(file) /\ appendingMaximumPriority' = MaximumPriority(1, Parse(file))
      /\ queuedFramesList' = <<>> /\ queuedMaximumPriority' = 1
      /\ packetId' = [f \in Frames |-> -1]
      /\ thread' = NoThread /\ due' = {} /\ terminate' = {} /\ nextId' = [t \in Threads |-> FirstPacketId]
      /\ sent' = {} /\ tickets' = {}
      /\ unapplied' = unapplied \cup (Range(appendedFramesList) \ Range(Parse(file)))
      /\ binds' = 0 /\ resets' = resets + 1 /\ resets < MaxResets
      /\ UNCHANGED <<file, collected, received, reused>>
  BY DEF Restart
<1>3. /\ Parse(file) \in Seq(Frames) /\ Increasing(Parse(file))
      /\ \A f \in Range(Parse(file)) : f <= collected
      /\ \A i \in DOMAIN file : file[i].length > 0 => file[i].buffer \in Range(Parse(file))
  BY <1>1, ParseFacts
<1>4. Range(queuedFramesList') = {} /\ DOMAIN queuedFramesList' = {}
  BY <1>2 DEF Range
<1>5. \A f \in Range(Parse(file)) : f \in Frames
  BY <1>3, RangeIn
<1>6. TypeOK'
  <2>1. appendingMaximumPriority' \in Nat
    <3>1. \A list \in Seq(Frames) : MaximumPriority(1, list) \in Nat
      BY MaximumIs, 1 \in Nat
    <3>2. QED
      BY <1>2, <1>3, <3>1
  <2>2. nextId' \in [Threads -> Nat \ {0}]
    BY <1>2 DEF FirstPacketId
  <2>3. unapplied' \subseteq Frames
    BY <1>1, <1>2, RangeIn DEF TypeOK
  <2>4. resets' \in 0 .. MaxResets /\ binds' \in Nat
    BY <1>1, <1>2, QueueAssumption DEF TypeOK
  <2>5. QED
    BY <1>1, <1>2, <1>3, <2>1, <2>2, <2>3, <2>4 DEF TypeOK
<1>7. OrderOK'
  <2>1. \A f \in Range(Parse(file)) : f \in 1 .. collected
    BY <1>1, <1>3, <1>5, FramesAre DEF TypeOK
  <2>2. Increasing(queuedFramesList')
    BY <1>4 DEF Increasing
  <2>3. QED
    BY <1>2, <1>3, <1>4, <2>1, <2>2 DEF OrderOK
<1>8. FileOK'
  BY <1>1, <1>2, <1>4 DEF FileOK
<1>9. GivenOutOK'
  BY <1>2, <1>4 DEF GivenOutOK
<1>10. PriorityOK'
  BY <1>2, EmptyMaximum DEF PriorityOK
<1>11. PacketsOK'
  BY <1>2 DEF PacketsOK
<1>12. NoFrameLost'
  <2>1. \A f \in Range(queuedFramesList) : f \in Range(Parse(file))
    <3>1. SUFFICES ASSUME NEW f \in Range(queuedFramesList)
                   PROVE  f \in Range(Parse(file))
      OBVIOUS
    <3>2. f \in Frames /\ Length[f] > 0
      BY <1>1, RangeIn DEF TypeOK, FramesValid
    <3>3. PICK i \in DOMAIN file : file[i] = [length |-> Length[f], buffer |-> f]
      BY <1>1 DEF FileOK
    <3>4. QED
      BY <1>3, <3>2, <3>3
  <2>2. QED
    BY <1>1, <1>2, <2>1 DEF NoFrameLost, Kept
<1>13. QED
  BY <1>6, <1>7, <1>8, <1>9, <1>10, <1>11, <1>12 DEF IInv

-----------------------------------------------------------------------------
(* The reading threads: a packet.                                          *)
LEMMA CandidatesAre ==
  ASSUME TypeOK, PacketsOK
  PROVE  \A i \in DOMAIN queuedFramesList :
           i \in Candidates <=> /\ packetId[queuedFramesList[i]] = -1
                                /\ Priority[queuedFramesList[i]] >= queuedMaximumPriority
<1>1. \A t \in Threads : nextId[t] \in Nat
  BY DEF TypeOK
<1>2. \A f \in Frames : packetId[f] < 1 <=> packetId[f] = -1
  BY <1>1 DEF PacketsOK, Used, FirstPacketId
<1>3. \A i \in DOMAIN queuedFramesList : queuedFramesList[i] \in Frames
  BY DEF TypeOK
<1>4. QED
  BY <1>2, <1>3 DEF Candidates

LEMMA SendingListFacts ==
  ASSUME TypeOK, OrderOK, PacketsOK
  PROVE  /\ SendingList \in Seq(Frames)
         /\ \A f \in Range(SendingList) : f \in Frames /\ f \in Range(queuedFramesList) /\ packetId[f] = -1
         /\ \A f \in Range(SendingList) : Priority[f] >= queuedMaximumPriority
         /\ \A i, j \in DOMAIN queuedFramesList :
              i < j /\ i \in Candidates /\ queuedFramesList[j] \in Range(SendingList)
                => queuedFramesList[i] \in Range(SendingList)
<1> DEFINE candidates == Sublist(queuedFramesList, Candidates)
           fitting == {n \in 1 .. Len(candidates) : SizeOf(SubSeq(candidates, 1, n)) < MaximumPacketSize}
           m == Cardinality(fitting)
<1>1. SendingList = SubSeq(candidates, 1, m)
  BY DEF SendingList
<1>2. /\ queuedFramesList \in Seq(Frames) /\ Candidates \in SUBSET DOMAIN queuedFramesList
      /\ Increasing(queuedFramesList)
  BY DEF TypeOK, OrderOK, Candidates
<1>3. fitting \in SUBSET (1 .. Len(candidates))
  OBVIOUS
<1> HIDE DEF fitting
<1>4. \A list \in Seq(Frames) : \A places \in SUBSET DOMAIN list :
        /\ IsFiniteSet(places) /\ places \in SUBSET Nat /\ Cardinality(places) \in Nat
        /\ Sublist(list, places) \in Seq(Frames)
        /\ Len(Sublist(list, places)) = Cardinality(places)
        /\ \A n \in 1 .. Cardinality(places) : Sublist(list, places)[n] = list[Place(places, n)]
  BY SublistFacts
<1>5. /\ IsFiniteSet(Candidates) /\ Candidates \in SUBSET Nat /\ Cardinality(Candidates) \in Nat
      /\ candidates \in Seq(Frames) /\ Len(candidates) = Cardinality(Candidates)
      /\ \A n \in 1 .. Cardinality(Candidates) : candidates[n] = queuedFramesList[Place(Candidates, n)]
  BY <1>2, <1>4
<1> HIDE DEF candidates
<1>6. m \in Nat /\ m <= Len(candidates)
  <2>1. /\ IsFiniteSet(1 .. Len(candidates))
        /\ Cardinality(1 .. Len(candidates)) = Len(candidates)
    BY <1>5, IntervalSize, Len(candidates) \in Nat
  <2>2. IsFiniteSet(fitting) /\ Cardinality(fitting) <= Cardinality(1 .. Len(candidates))
    BY <1>3, <2>1, FS_Subset
  <2>3. Cardinality(fitting) \in Nat
    BY <2>2, FS_CardinalityType
  <2>4. QED
    BY <1>5, <2>1, <2>2, <2>3
<1> HIDE DEF m
<1>7. /\ SendingList \in Seq(Frames) /\ DOMAIN SendingList = 1 .. m
      /\ \A n \in 1 .. m : SendingList[n] = candidates[n]
  <2>1. \A list \in Seq(Frames) : \A k \in Nat : k <= Len(list) =>
          /\ SubSeq(list, 1, k) \in Seq(Frames) /\ DOMAIN SubSeq(list, 1, k) = 1 .. k
          /\ \A n \in 1 .. k : SubSeq(list, 1, k)[n] = list[n]
    OBVIOUS
  <2>2. QED
    BY <1>1, <1>5, <1>6, <2>1
<1>8. \A n \in 1 .. m : n \in 1 .. Cardinality(Candidates) /\ SendingList[n] = queuedFramesList[Place(Candidates, n)]
  BY <1>5, <1>6, <1>7
<1>9. /\ \A n \in 1 .. Cardinality(Candidates) : Place(Candidates, n) \in Candidates
      /\ \A k, n \in 1 .. Cardinality(Candidates) : k < n <=> Place(Candidates, k) < Place(Candidates, n)
      /\ \A i \in Candidates : \E n \in 1 .. Cardinality(Candidates) : i = Place(Candidates, n)
  BY <1>5, PlaceFacts
<1>10. \A f \in Range(SendingList) : \E n \in 1 .. m : f = SendingList[n]
  BY <1>7 DEF Range
<1>11. \A n \in 1 .. m : SendingList[n] \in Range(SendingList)
  BY <1>7 DEF Range
<1>12. ASSUME NEW f \in Range(SendingList)
       PROVE  /\ f \in Frames /\ f \in Range(queuedFramesList) /\ packetId[f] = -1
              /\ Priority[f] >= queuedMaximumPriority
  <2>1. PICK i \in Candidates : f = queuedFramesList[i]
    BY <1>8, <1>9, <1>10
  <2>2. i \in DOMAIN queuedFramesList
    BY <1>2
  <2>3. QED
    BY <1>2, <2>1, <2>2, CandidatesAre DEF Range
<1>13. ASSUME NEW i \in DOMAIN queuedFramesList, NEW j \in DOMAIN queuedFramesList,
              i < j, i \in Candidates, queuedFramesList[j] \in Range(SendingList)
       PROVE  queuedFramesList[i] \in Range(SendingList)
  <2>1. PICK n \in 1 .. m : queuedFramesList[j] = SendingList[n]
    BY <1>10, <1>13
  <2>2. Place(Candidates, n) \in DOMAIN queuedFramesList /\ queuedFramesList[j] = queuedFramesList[Place(Candidates, n)]
    BY <1>2, <1>8, <1>9, <2>1
  <2>3. j = Place(Candidates, n)
    <3>1. j \in Nat /\ Place(Candidates, n) \in Nat /\ queuedFramesList[j] \in Nat
      BY <1>2, <1>5, <1>8, <1>9, FramesAre
    <3>2. ~(j < Place(Candidates, n)) /\ ~(Place(Candidates, n) < j)
      BY <1>2, <2>2, <3>1 DEF Increasing
    <3>3. QED
      BY <3>1, <3>2
  <2>4. PICK k \in 1 .. Cardinality(Candidates) : i = Place(Candidates, k)
    BY <1>9, <1>13
  <2>5. k < n
    BY <1>8, <1>9, <1>13, <2>3, <2>4
  <2>6. k \in 1 .. m
    BY <1>5, <1>6, <2>5
  <2>7. QED
    BY <1>8, <1>11, <2>4, <2>6
<1>14. QED
  BY <1>7, <1>12, <1>13


LEMMA PrepareStep ==
  ASSUME IInv, NEW t \in Threads, PrepareSendingList(t)
  PROVE  IInv'
<1> DEFINE id == nextId[t]
           packet == [thread |-> t, id |-> id, frames |-> SendingList]
<1>1. TypeOK /\ OrderOK /\ FileOK /\ GivenOutOK /\ PriorityOK /\ PacketsOK /\ NoFrameLost
  BY DEF IInv
<1>2. /\ packetId' = [f \in Frames |-> IF f \in Range(SendingList) THEN id ELSE packetId[f]]
      /\ SendingList = <<>> => UNCHANGED <<sent, nextId, reused>>
      /\ SendingList # <<>> =>
           /\ sent' = sent \cup {packet} /\ nextId' = [nextId EXCEPT ![t] = id + 1]
           /\ reused' = (reused \/ InUse(t, id))
      /\ due' = due \ {t}
      /\ UNCHANGED <<appendedFramesList, appendingMaximumPriority, queuedFramesList, queuedMaximumPriority, file>>
      /\ UNCHANGED <<thread, terminate, tickets, collected, unapplied, received, binds, resets>>
  BY DEF PrepareSendingList
<1>3. /\ SendingList \in Seq(Frames)
      /\ \A f \in Range(SendingList) : f \in Frames /\ f \in Range(queuedFramesList) /\ packetId[f] = -1
      /\ \A f \in Range(SendingList) : Priority[f] >= queuedMaximumPriority
      /\ \A i, j \in DOMAIN queuedFramesList :
           i < j /\ i \in Candidates /\ queuedFramesList[j] \in Range(SendingList)
             => queuedFramesList[i] \in Range(SendingList)
  BY <1>1, SendingListFacts
<1>4. id \in Nat /\ id > 0 /\ reused \in BOOLEAN
  <2>1. nextId \in [Threads -> Nat \ {0}] /\ reused \in BOOLEAN
    BY <1>1 DEF TypeOK
  <2>2. id \in Nat \ {0}
    BY <2>1
  <2>3. QED
    BY <2>1, <2>2
<1> HIDE DEF id
<1>5. packet \in Packet
  BY <1>3, <1>4 DEF Packet
<1>6. TypeOK'
  <2>1. packetId' \in [Frames -> Nat \cup {-1}]
    BY <1>1, <1>2, <1>4 DEF TypeOK
  <2>2. nextId' \in [Threads -> Nat \ {0}]
    <3>1. nextId \in [Threads -> Nat \ {0}] /\ id + 1 \in Nat \ {0}
      BY <1>1, <1>4 DEF TypeOK
    <3>2. QED
      BY <1>2, <3>1
  <2>3. sent' \subseteq Packet
    BY <1>1, <1>2, <1>5 DEF TypeOK
  <2>4. QED
    BY <1>1, <1>2, <2>1, <2>2, <2>3 DEF TypeOK
<1>7. OrderOK' /\ FileOK' /\ PriorityOK' /\ NoFrameLost'
  BY <1>1, <1>2, <1>4 DEF OrderOK, FileOK, PriorityOK, NoFrameLost, Kept
<1>8. \A f \in Frames : /\ f \in Range(SendingList) => packetId'[f] = id
                        /\ f \notin Range(SendingList) => packetId'[f] = packetId[f]
  BY <1>2
<1>9. GivenOutOK'
  <2>1. \A f \in Frames : f > collected \/ f \in Range(appendedFramesList) => f \notin Range(SendingList)
    <3>1. \A f \in Range(queuedFramesList) : f \in 1 .. collected /\ f \notin Range(appendedFramesList)
      <4>1. \A f \in Range(queuedFramesList) : f \in Nat
        BY <1>1, RangeIn, FramesAre DEF TypeOK
      <4>2. QED
        BY <1>1, <4>1 DEF OrderOK
    <3>2. \A f \in Range(queuedFramesList) : ~(f > collected)
      BY <1>1, <3>1 DEF TypeOK
    <3>3. QED
      BY <1>3, <3>1, <3>2
  <2>2. ASSUME NEW i \in DOMAIN queuedFramesList, NEW j \in DOMAIN queuedFramesList, i < j,
               Priority[queuedFramesList[i]] = Priority[queuedFramesList[j]],
               packetId'[queuedFramesList[j]] # -1
        PROVE  packetId'[queuedFramesList[i]] # -1
    <3>1. queuedFramesList[i] \in Frames /\ queuedFramesList[j] \in Frames
      BY <1>1 DEF TypeOK
    <3>2. CASE packetId[queuedFramesList[i]] # -1
      BY <1>4, <1>8, <3>1, <3>2
    <3>3. CASE packetId[queuedFramesList[i]] = -1
      <4>1. queuedFramesList[j] \in Range(SendingList)
        BY <1>1, <1>8, <2>2, <3>1, <3>3 DEF GivenOutOK
      <4>2. i \in Candidates
        BY <1>1, <1>3, <2>2, <3>3, <4>1, CandidatesAre
      <4>3. queuedFramesList[i] \in Range(SendingList)
        BY <1>3, <2>2, <4>1, <4>2
      <4>4. QED
        BY <1>4, <1>8, <3>1, <4>3
    <3>4. QED
      BY <3>2, <3>3
  <2>3. \A f \in Frames : f > collected' \/ f \in Range(appendedFramesList)' => packetId'[f] = -1
    BY <1>1, <1>2, <1>8, <2>1 DEF GivenOutOK
  <2>4. QED
    BY <1>2, <2>2, <2>3 DEF GivenOutOK
<1>10. PacketsOK'
  <2>1. ASSUME NEW u \in Threads
        PROVE  nextId[u] \in Nat /\ nextId'[u] \in Nat /\ nextId[u] <= nextId'[u]
    <3>1. nextId \in [Threads -> Nat \ {0}] /\ nextId' \in [Threads -> Nat \ {0}]
      BY <1>1, <1>6 DEF TypeOK
    <3>2. nextId' = nextId \/ nextId' = [nextId EXCEPT ![t] = id + 1]
      BY <1>2
    <3>3. id = nextId[t]
      BY DEF id
    <3>4. QED
      BY <3>1, <3>2, <3>3
  <2>2. \A u \in Threads : \A n \in Nat : n \in Used(u) => n \in FirstPacketId .. nextId'[u] - 1
    BY <2>1 DEF Used, FirstPacketId
  <2>3. ASSUME SendingList # <<>>
        PROVE  id \in FirstPacketId .. nextId'[t] - 1
    BY <1>1, <1>2, <1>4, <2>3 DEF TypeOK, FirstPacketId
  <2>4. \A f \in Range(SendingList) : SendingList # <<>>
    BY DEF Range
  <2>5. \A f \in Frames : packetId'[f] = -1 \/ \E u \in Threads : packetId'[f] \in FirstPacketId .. nextId'[u] - 1
    <3>1. \A f \in Frames : packetId[f] \in Nat \cup {-1}
      BY <1>1 DEF TypeOK
    <3>2. \A f \in Frames : f \notin Range(SendingList) =>
            packetId[f] = -1 \/ \E u \in Threads : packetId[f] \in FirstPacketId .. nextId'[u] - 1
      BY <1>1, <2>2, <3>1 DEF PacketsOK
    <3>3. QED
      BY <1>8, <2>3, <2>4, <3>2
  <2>6. \A p \in sent' \cup tickets' : p.id \in FirstPacketId .. nextId'[p.thread] - 1
    <3>1. \A p \in sent \cup tickets : p.thread \in Threads /\ p.id \in Nat /\ p.id \in Used(p.thread)
      BY <1>1 DEF TypeOK, Packet, PacketsOK
    <3>2. ASSUME NEW p \in sent' \cup tickets'
          PROVE  p \in sent \cup tickets \/ (SendingList # <<>> /\ p = packet)
      BY <1>2
    <3>3. packet.id = id /\ packet.thread = t
      OBVIOUS
    <3>4. QED
      BY <2>2, <2>3, <3>1, <3>2, <3>3
  (* Neither another packet nor a queued frame has the number, unless the  *)
  (* number is reused.                                                     *)
  <2>7. ASSUME SendingList # <<>>, ~reused'
        PROVE  /\ \A p \in sent \cup tickets : p.id # id
               /\ \A f \in Range(queuedFramesList) : packetId[f] # id
    <3>1. id \notin Used(t)
      BY <1>4 DEF Used, id, FirstPacketId
    <3>2. ~InUse(t, id)
      BY <1>2, <2>7
    <3>3. ASSUME NEW p \in sent \cup tickets, p.id = id
          PROVE  FALSE
      <4>1. p.thread \in Threads /\ id \in Used(p.thread)
        BY <1>1, <3>3 DEF TypeOK, Packet, PacketsOK
      <4>2. QED
        BY <3>1, <3>2, <3>3, <4>1 DEF InUse
    <3>4. ASSUME NEW f \in Range(queuedFramesList), packetId[f] = id
          PROVE  FALSE
      <4>1. f \in Frames /\ id # -1
        BY <1>1, <1>4, RangeIn DEF TypeOK
      <4>2. PICK u \in Threads : id \in Used(u)
        BY <1>1, <3>4, <4>1 DEF PacketsOK
      <4>3. QED
        BY <3>1, <3>2, <3>4, <4>2 DEF InUse
    <3>5. QED
      BY <3>3, <3>4
  <2>8. ASSUME ~reused', NEW p \in sent' \cup tickets',
               NEW f \in Range(queuedFramesList), packetId'[f] = p.id
        PROVE  f \in Range(p.frames)
    <3>1. f \in Frames /\ ~reused
      BY <1>1, <1>2, <2>8, RangeIn DEF TypeOK
    <3>2. CASE p \in sent \cup tickets
      <4>1. f \notin Range(SendingList)
        BY <1>8, <2>4, <2>7, <2>8, <3>1, <3>2
      <4>2. packetId[f] = p.id
        BY <1>8, <2>8, <3>1, <4>1
      <4>3. QED
        BY <1>1, <3>1, <3>2, <4>2 DEF PacketsOK
    <3>3. CASE SendingList # <<>> /\ p = packet
      <4>1. packetId'[f] = id
        BY <2>8, <3>3
      <4>2. f \in Range(SendingList)
        BY <1>8, <2>7, <2>8, <3>1, <3>3, <4>1
      <4>3. QED
        BY <3>3, <4>2
    <3>4. QED
      BY <1>2, <3>2, <3>3
  <2>9. \A p \in tickets' : Range(p.frames) \subseteq received'
    BY <1>1, <1>2 DEF PacketsOK
  <2>10. QED
    BY <1>2, <2>5, <2>6, <2>8, <2>9 DEF PacketsOK, Used
<1>11. QED
  BY <1>6, <1>7, <1>9, <1>10 DEF IInv


-----------------------------------------------------------------------------
LEMMA StepIInv ==
  ASSUME FramesValid
  PROVE  IInv /\ [Next]_queueDataFramesVars => IInv'
<1> SUFFICES ASSUME IInv, [Next]_queueDataFramesVars
             PROVE  IInv'
  OBVIOUS
<1>1. CASE CollectAppendingFrame
  BY <1>1, CollectOneStep
<1>2. CASE CollectAppendingFramesList
  BY <1>2, CollectTwoStep
<1>3. CASE ApplyCollectedFrames
  BY <1>3, ApplyStep
<1>4. CASE Restart
  BY <1>4, RestartStep
<1>5. ASSUME NEW t \in Threads, BindThread(t) \/ UnbindThread(t)
      PROVE  IInv'
  BY <1>5, BindStep
<1>6. ASSUME NEW t \in Threads, Terminated(t)
      PROVE  IInv'
  BY <1>6, TerminatedStep
<1>7. ASSUME NEW t \in Threads, PrepareSendingList(t)
      PROVE  IInv'
  BY <1>7, PrepareStep
<1>8. ASSUME NEW t \in Threads, Reset(t)
      PROVE  IInv'
  BY <1>8, ResetStep
<1>9. ASSUME NEW p \in sent, PeerReceive(p)
      PROVE  IInv'
  BY <1>9, PeerReceiveStep
<1>10. ASSUME NEW p \in tickets, ApplyTicket(p)
       PROVE  IInv'
  BY <1>10, ApplyTicketStep
<1>11. CASE UNCHANGED queueDataFramesVars
  BY <1>11, StutterStep
<1>12. QED
  BY <1>1, <1>2, <1>3, <1>4, <1>5, <1>6, <1>7, <1>8, <1>9, <1>10, <1>11 DEF Next, Writer

(* The queue, its snapshot and the packets under way agree with each other *)
(* in every state, for any frames, priorities, packet size and threads.    *)
THEOREM QueueInvariantHolds ==
  ASSUME FramesValid
  PROVE  Spec => []IInv
<1>1. IInv /\ [Next]_queueDataFramesVars => IInv'
  BY StepIInv
<1>2. QED
  BY <1>1, InitIInv, PTL DEF Spec

(* A frame leaves the queue only after the peer received it, over lost     *)
(* connections, late tickets, replaced threads and restarts, as long as no *)
(* thread gives out a number that a packet of another thread still has.    *)
THEOREM NoFrameLostHolds ==
  ASSUME FramesValid
  PROVE  Spec => []NoFrameLost
<1>1. IInv => NoFrameLost
  BY DEF IInv
<1>2. QED
  BY <1>1, QueueInvariantHolds, PTL

(* Frames stay in the order of collection, are given out in it among those *)
(* of one priority, and the required priority is that of a queued frame.   *)
THEOREM FifoPerPriorityHolds ==
  ASSUME FramesValid
  PROVE  Spec => []FifoPerPriority
<1>1. IInv => FifoPerPriority
  <2> SUFFICES ASSUME IInv
               PROVE  FifoPerPriority
    OBVIOUS
  <2>1. TypeOK /\ OrderOK /\ GivenOutOK /\ PriorityOK
    BY DEF IInv
  <2>2. /\ queuedFramesList \in Seq(Nat) /\ appendedFramesList \in Seq(Nat)
        /\ queuedFramesList \o appendedFramesList \in Seq(Nat)
    BY <2>1, FramesAre DEF TypeOK
  <2>3. Increasing(queuedFramesList \o appendedFramesList)
    BY <2>1, <2>2, IncreasingConcat DEF OrderOK
  <2>4. \A list \in Seq(Nat) : DOMAIN list = 1 .. Len(list)
    OBVIOUS
  <2>5. LET all == queuedFramesList \o appendedFramesList
        IN  \A i, j \in 1 .. Len(all) : i < j => all[i] < all[j]
    BY <2>2, <2>3, <2>4 DEF Increasing
  <2>6. \A i, j \in 1 .. Len(queuedFramesList) :
          LET f == queuedFramesList[i]  g == queuedFramesList[j]
          IN  i < j /\ Priority[f] = Priority[g] /\ packetId[g] # -1 => packetId[f] # -1
    BY <2>1, <2>2, <2>4 DEF GivenOutOK
  <2>7. QED
    BY <2>1, <2>5, <2>6 DEF FifoPerPriority, PriorityOK
<1>2. QED
  BY <1>1, QueueInvariantHolds, PTL

=============================================================================
