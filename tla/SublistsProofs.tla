----------------------------- MODULE SublistsProofs -----------------------------
(***************************************************************************)
(* Facts about Sublist, of which the places kept are counted by their      *)
(* ranks, and about sequences, for the proofs about the components.        *)
(***************************************************************************)
EXTENDS Sublists, Integers, SequencesExt, FiniteSetTheorems, TLAPS

(* There are n numbers from 1 to n.                                        *)
LEMMA IntervalSize ==
  ASSUME NEW n \in Nat
  PROVE  IsFiniteSet(1 .. n) /\ Cardinality(1 .. n) = n
<1>1. IsFiniteSet(1 .. n) /\ Cardinality(1 .. n) = IF 1 > n THEN 0 ELSE n - 1 + 1
  BY FS_Interval, n \in Int, 1 \in Int
<1>2. QED
  BY <1>1

(* How many elements of K are not behind i.                                *)
Rank(K, i) == Cardinality({k \in K : k <= i})

(* A finite set of numbers is counted by the ranks of its elements.        *)
LEMMA RankUp ==
  ASSUME NEW K \in SUBSET Nat, IsFiniteSet(K), NEW i \in K
  PROVE  /\ Rank(K, i) \in 1 .. Cardinality(K)
         /\ \A j \in K : i < j => Rank(K, i) < Rank(K, j)
<1>1. ASSUME NEW x \in Nat
      PROVE  /\ IsFiniteSet({k \in K : k <= x})
             /\ Cardinality({k \in K : k <= x}) <= Cardinality(K)
             /\ Cardinality({k \in K : k <= x}) \in Nat
  BY FS_Subset, FS_CardinalityType, {k \in K : k <= x} \in SUBSET K
<1>2. Cardinality({k \in K : k <= i}) # 0
  <2>1. i \in {k \in K : k <= i} /\ i \in Nat
    OBVIOUS
  <2>2. QED
    BY <1>1, <2>1, FS_EmptySet
<1>3. Cardinality(K) \in Nat
  BY FS_CardinalityType
<1>4. ASSUME NEW j \in K, i < j
      PROVE  Rank(K, i) < Rank(K, j)
  <2>1. {k \in K : k <= i} \in SUBSET {k \in K : k <= j}
    <3>1. i \in Nat /\ j \in Nat
      OBVIOUS
    <3>2. \A k \in K : k \in Nat /\ (k <= i => k <= j)
      BY <3>1, <1>4
    <3>3. QED
      BY <3>2
  <2>2. j \in {k \in K : k <= j} /\ j \notin {k \in K : k <= i}
    BY <1>4
  <2>3. Cardinality({k \in K : k <= i}) <= Cardinality({k \in K : k <= j})
    BY <1>1, <2>1, FS_Subset
  <2>4. Cardinality({k \in K : k <= i}) # Cardinality({k \in K : k <= j})
    BY <1>1, <2>1, <2>2, FS_Subset
  <2>5. Cardinality({k \in K : k <= i}) \in Nat /\ Cardinality({k \in K : k <= j}) \in Nat
    BY <1>1
  <2>6. QED
    BY <2>3, <2>4, <2>5 DEF Rank
<1>5. QED
  BY <1>1, <1>2, <1>3, <1>4 DEF Rank

LEMMA RankOnto ==
  ASSUME NEW K \in SUBSET Nat, IsFiniteSet(K), NEW n \in 1 .. Cardinality(K)
  PROVE  \E i \in K : Rank(K, i) = n
<1> DEFINE rank == [i \in K |-> Rank(K, i)]
           ranks == 1 .. Cardinality(K)
<1>1. Cardinality(K) \in Nat
  BY FS_CardinalityType
<1>2. IsFiniteSet(ranks) /\ Cardinality(ranks) = Cardinality(K)
  BY <1>1, FS_Interval
<1>3. \A i, j \in K : rank[i] = rank[j] => i = j
  BY RankUp, <1>1
<1>4. rank \in [K -> ranks]
  BY RankUp
<1>5. rank \in Injection(K, ranks)
  BY <1>3, <1>4 DEF Injection, IsInjective
<1>6. rank \in Surjection(K, ranks)
  BY <1>2, <1>5, FS_Injection
<1>7. QED
  BY <1>6 DEF Surjection

(* Where the n-th element of a sublist stands in the list.                 *)
Place(K, n) == CHOOSE i \in K : Rank(K, i) = n

LEMMA PlaceFacts ==
  ASSUME NEW K \in SUBSET Nat, IsFiniteSet(K)
  PROVE  /\ \A n \in 1 .. Cardinality(K) : Place(K, n) \in K
         /\ \A m, n \in 1 .. Cardinality(K) : m < n <=> Place(K, m) < Place(K, n)
         /\ \A i \in K : \E n \in 1 .. Cardinality(K) : i = Place(K, n)
<1>1. ASSUME NEW n \in 1 .. Cardinality(K)
      PROVE  Place(K, n) \in K /\ Rank(K, Place(K, n)) = n
  <2>1. \E i \in K : Rank(K, i) = n
    BY RankOnto
  <2>2. QED
    BY <2>1 DEF Place
<1>2. \A i, j \in K : Rank(K, i) = Rank(K, j) => i = j
  <2>1. SUFFICES ASSUME NEW i \in K, NEW j \in K, Rank(K, i) = Rank(K, j), i # j
                 PROVE  FALSE
    OBVIOUS
  <2>2. Rank(K, i) \in 1 .. Cardinality(K) /\ Cardinality(K) \in Nat
    BY RankUp, FS_CardinalityType
  <2>3. CASE i < j
    BY <2>1, <2>2, <2>3, RankUp
  <2>4. CASE j < i
    BY <2>1, <2>2, <2>4, RankUp
  <2>5. QED
    BY <2>1, <2>3, <2>4
<1>3. Cardinality(K) \in Nat
  BY FS_CardinalityType
<1>4. \A i \in K : Rank(K, i) \in 1 .. Cardinality(K) /\ i = Place(K, Rank(K, i))
  BY <1>1, <1>2, RankUp
<1>5. \A m, n \in 1 .. Cardinality(K) : m < n <=> Place(K, m) < Place(K, n)
  <2>1. SUFFICES ASSUME NEW m \in 1 .. Cardinality(K), NEW n \in 1 .. Cardinality(K)
                 PROVE  m < n <=> Place(K, m) < Place(K, n)
    OBVIOUS
  <2> DEFINE i == Place(K, m)
             j == Place(K, n)
  <2>2. /\ i \in K /\ j \in K /\ i \in Nat /\ j \in Nat
        /\ Rank(K, i) = m /\ Rank(K, j) = n
    BY <1>1
  <2> HIDE DEF i, j
  <2>3. (i < j => m < n) /\ (j < i => n < m) /\ (i = j => m = n)
    BY <2>2, RankUp
  <2>4. QED
    BY <2>2, <2>3, <1>3 DEF i, j
<1>6. QED
  BY <1>1, <1>4, <1>5


(* What a sublist holds, and in which order.                               *)
LEMMA SublistFacts ==
  ASSUME NEW S, NEW list \in Seq(S), NEW kept \in SUBSET DOMAIN list
  PROVE  /\ Sublist(list, kept) \in Seq(S)
         /\ IsFiniteSet(kept) /\ kept \in SUBSET Nat /\ Cardinality(kept) \in Nat
         /\ Len(Sublist(list, kept)) = Cardinality(kept)
         /\ DOMAIN Sublist(list, kept) = 1 .. Cardinality(kept)
         /\ \A n \in 1 .. Cardinality(kept) : Sublist(list, kept)[n] = list[Place(kept, n)]
         /\ \A i \in kept : list[i] \in Range(Sublist(list, kept))
         /\ \A f \in Range(Sublist(list, kept)) : \E i \in kept : f = list[i]
<1>1. DOMAIN list = 1 .. Len(list) /\ Len(list) \in Nat
  OBVIOUS
<1>2. kept \in SUBSET Nat /\ \A i \in kept : i <= Len(list)
  BY <1>1
<1>3. IsFiniteSet(kept) /\ Cardinality(kept) \in Nat
  BY <1>1, <1>2, FS_BoundedSetOfNaturals, FS_CardinalityType
<1>4. Sublist(list, kept) = [n \in 1 .. Cardinality(kept) |-> list[Place(kept, n)]]
  BY DEF Sublist, Place, Rank
<1>5. /\ \A n \in 1 .. Cardinality(kept) : Place(kept, n) \in kept
      /\ \A i \in kept : \E n \in 1 .. Cardinality(kept) : i = Place(kept, n)
  BY <1>2, <1>3, PlaceFacts
<1>6. \A i \in kept : list[i] \in S
  BY <1>1
<1>7. /\ Sublist(list, kept) \in Seq(S) /\ Len(Sublist(list, kept)) = Cardinality(kept)
      /\ DOMAIN Sublist(list, kept) = 1 .. Cardinality(kept)
  BY <1>3, <1>4, <1>5, <1>6
<1>8. /\ \A i \in kept : list[i] \in Range(Sublist(list, kept))
      /\ \A f \in Range(Sublist(list, kept)) : \E i \in kept : f = list[i]
  BY <1>4, <1>5 DEF Range
<1>9. QED
  BY <1>2, <1>3, <1>4, <1>7, <1>8

(***************************************************************************)
(* Sequences.                                                              *)
(***************************************************************************)
(* Two sequences, one behind the other.                                    *)
LEMMA JoinFacts ==
  ASSUME NEW S, NEW s \in Seq(S), NEW t \in Seq(S)
  PROVE  /\ s \o t \in Seq(S) /\ Len(s \o t) = Len(s) + Len(t)
         /\ \A i \in 1 .. Len(s) : (s \o t)[i] = s[i]
         /\ \A i \in 1 .. Len(t) : (s \o t)[Len(s) + i] = t[i]
  OBVIOUS

(* Nothing, alone and behind something.                                    *)
LEMMA EmptySequence == ASSUME NEW S PROVE <<>> \in Seq(S)
  OBVIOUS

LEMMA JoinEmpty == ASSUME NEW S, NEW s \in Seq(S) PROVE s \o <<>> = s
  OBVIOUS

(* A function of places is a sequence.                                     *)
LEMMA SequenceOf ==
  ASSUME NEW S, NEW n \in Nat, NEW f \in [1 .. n -> S]
  PROVE  f \in Seq(S) /\ Len(f) = n
  OBVIOUS

(* Sequences are the same that are the same at every place.                *)
LEMMA SameSequence ==
  ASSUME NEW S, NEW s \in Seq(S), NEW t \in Seq(S), Len(s) = Len(t), \A i \in 1 .. Len(s) : s[i] = t[i]
  PROVE  s = t
  OBVIOUS

(* One element more at the end, one less at the beginning.                 *)
LEMMA AppendFacts ==
  ASSUME NEW S, NEW s \in Seq(S), NEW e \in S
  PROVE  /\ Append(s, e) \in Seq(S) /\ Len(Append(s, e)) = Len(s) + 1 /\ Len(s) \in Nat
         /\ Append(s, e)[Len(s) + 1] = e /\ \A i \in 1 .. Len(s) : Append(s, e)[i] = s[i]
         /\ DOMAIN s = 1 .. Len(s) /\ DOMAIN Append(s, e) = 1 .. Len(s) + 1
  OBVIOUS

(* A sequence without its first element.                                   *)
LEMMA TailFacts ==
  ASSUME NEW S, NEW s \in Seq(S), s # <<>>
  PROVE  /\ Head(s) \in S /\ Head(s) = s[1] /\ Len(s) \in Nat \ {0}
         /\ Tail(s) \in Seq(S) /\ Len(Tail(s)) = Len(s) - 1
         /\ \A i \in 1 .. Len(s) - 1 : Tail(s)[i] = s[i + 1]
         /\ DOMAIN s = 1 .. Len(s) /\ DOMAIN Tail(s) = 1 .. Len(s) - 1
  OBVIOUS

(* The places of a sequence.                                              *)
LEMMA DomainFacts == ASSUME NEW S, NEW s \in Seq(S) PROVE DOMAIN s = 1 .. Len(s) /\ Len(s) \in Nat
  OBVIOUS

(***************************************************************************)
(* Rows of numbers in turn.                                                *)
(***************************************************************************)
(* A message more, the last of all.                                        *)
LEMMA RowAdded ==
  ASSUME NEW n \in Nat \ {0}, NEW many \in Nat, NEW within, NEW rows \in [0 .. n -> Seq(Nat)], InTurn(rows, n, many, within),
         NEW rows2 \in [0 .. n -> Seq(Nat)], \A k \in 0 .. n - 1 : rows2[k] = rows[k], rows2[n] = Append(rows[n], many + 1)
  PROVE  InTurn(rows2, n, many + 1, within)
<1> DEFINE last == Len(rows[n]) + 1
<1>1. PICK many2 \in Nat : many2 = many + 1
  OBVIOUS
<1>0. many2 \in 1 .. many2 /\ \A x \in 1 .. many : x \in 1 .. many2 /\ x # many2 /\ ~(x > many2)
  BY <1>1
<1>2. /\ last \in Nat \ {0} /\ DOMAIN rows2[n] = 1 .. last /\ DOMAIN rows[n] = 1 .. last - 1
      /\ rows2[n][last] = many2 /\ \A i \in 1 .. last - 1 : rows2[n][i] = rows[n][i]
  BY AppendFacts, <1>1
<1> HIDE DEF last
<1>3. \A i \in 1 .. last : i = last \/ i \in 1 .. last - 1
  BY <1>2
<1>4. \A m \in 1 .. many2 : m = many2 \/ m \in 1 .. many
  BY <1>1
<1>5. \A k \in 0 .. n : \A i \in DOMAIN rows[k] : rows[k][i] \in 1 .. many /\ rows[k][i] < many2
  BY <1>1 DEF InTurn
<1>6. \A k \in 0 .. n : k = n \/ k \in 0 .. n - 1
  OBVIOUS
<1>7. \A k \in 0 .. n : \A i \in DOMAIN rows2[k] : rows2[k][i] \in 1 .. many2
                          /\ \/ i \in DOMAIN rows[k] /\ rows2[k][i] = rows[k][i]
                             \/ k = n /\ i = last /\ rows2[k][i] = many2
  <2> TAKE k \in 0 .. n
  <2> TAKE i \in DOMAIN rows2[k]
  <2>1. CASE k = n
    <3>1. i \in 1 .. last /\ many2 \in 1 .. many2
      BY <2>1, <1>0, <1>2, Zenon
    <3>2. CASE i = last
      BY <2>1, <3>1, <3>2, <1>2, Zenon
    <3>3. CASE i \in 1 .. last - 1
      <4>1. i \in DOMAIN rows[k] /\ rows2[k][i] = rows[k][i]
        BY <2>1, <3>3, <1>2, Zenon
      <4>2. rows[k][i] \in 1 .. many /\ rows[k][i] < many2
        BY <4>1, <1>5, Zenon
      <4>3. rows[k][i] \in 1 .. many2
        BY <4>2, <1>0, Zenon
      <4>4. QED
        BY <4>1, <4>3
    <3>4. QED
      BY <3>1, <3>2, <3>3, <1>3, Zenon
  <2>2. CASE k \in 0 .. n - 1
    BY <2>2, <1>1, <1>5
  <2>3. QED
    BY <2>1, <2>2, <1>6
<1>8. \A k \in 0 .. n : ToSet(rows[k]) \subseteq ToSet(rows2[k])
  <2> TAKE k \in 0 .. n
  <2>1. CASE k = n
    <3>1. \A i \in DOMAIN rows[n] : i \in DOMAIN rows2[n]
      BY <1>2
    <3>2. QED
      BY <2>1, <3>1, <1>2, Zenon DEF ToSet
  <2>2. CASE k \in 0 .. n - 1
    BY <2>2
  <2>3. QED
    BY <2>1, <2>2, <1>6
<1>9. \A m \in 1 .. many2 : \E k \in 0 .. n : m \in ToSet(rows2[k])
  <2> TAKE m \in 1 .. many2
  <2>1. CASE m = many2
    <3>1. n \in 0 .. n /\ last \in DOMAIN rows2[n]
      BY <1>2
    <3>2. QED
      BY <3>1, <2>1, <1>2, Zenon DEF ToSet
  <2>2. CASE m \in 1 .. many
    BY <2>2, <1>8 DEF InTurn
  <2>3. QED
    BY <2>1, <2>2, <1>4
<1>10. \A k \in 1 .. n : k \in 0 .. n
  OBVIOUS
<1>11. 0 \in 0 .. n - 1 /\ rows2[0] = rows[0]
  OBVIOUS
<1>12. \A i, j \in DOMAIN rows2[0] : i < j =>
          rows2[0][i] # rows2[0][j] /\ (rows2[0][i] > rows2[0][j] => rows2[0][i] \in within)
  BY <1>11, Zenon DEF InTurn
<1>13. \A k \in 1 .. n : \A i, j \in DOMAIN rows2[k] : i < j => rows2[k][i] < rows2[k][j]
  <2> TAKE k \in 1 .. n
  <2> TAKE i, j \in DOMAIN rows2[k]
  <2> HAVE i < j
  <2>1. i \in DOMAIN rows[k] /\ rows2[k][i] = rows[k][i]
    <3>1. CASE k = n
      <4>1. i \in 1 .. last /\ j \in 1 .. last /\ i # last
        BY <3>1, <1>2
      <4>2. QED
        BY <4>1, <3>1, <1>7, <1>10
    <3>2. CASE k # n
      BY <3>2, <1>7, <1>10
    <3>3. QED
      BY <3>1, <3>2
  <2>2. CASE j \in DOMAIN rows[k] /\ rows2[k][j] = rows[k][j]
    BY <2>1, <2>2 DEF InTurn
  <2>3. CASE rows2[k][j] = many2
    BY <2>1, <2>3, <1>5, <1>10
  <2>4. QED
    BY <2>2, <2>3, <1>7, <1>10
<1>14. \A k, l \in 1 .. n : k < l => \A i \in DOMAIN rows2[k], j \in DOMAIN rows2[l] : rows2[k][i] < rows2[l][j]
  <2> TAKE k, l \in 1 .. n
  <2> HAVE k < l
  <2> TAKE i \in DOMAIN rows2[k], j \in DOMAIN rows2[l]
  <2>1. i \in DOMAIN rows[k] /\ rows2[k][i] = rows[k][i]
    <3>1. k # n
      OBVIOUS
    <3>2. QED
      BY <3>1, <1>7, <1>10
  <2>2. CASE j \in DOMAIN rows[l] /\ rows2[l][j] = rows[l][j]
    BY <2>1, <2>2 DEF InTurn
  <2>3. CASE rows2[l][j] = many2
    BY <2>1, <2>3, <1>5, <1>10
  <2>4. QED
    BY <2>2, <2>3, <1>7, <1>10
<1>15. \A k \in 1 .. n : \A i \in DOMAIN rows2[0], j \in DOMAIN rows2[k] :
          rows2[0][i] # rows2[k][j] /\ (rows2[0][i] > rows2[k][j] => rows2[0][i] \in within)
  <2> TAKE k \in 1 .. n
  <2> TAKE i \in DOMAIN rows2[0], j \in DOMAIN rows2[k]
  <2>1. i \in DOMAIN rows[0] /\ rows2[0][i] = rows[0][i] /\ rows[0][i] \in 1 .. many /\ rows[0][i] < many2
    BY <1>5, <1>11
  <2>2. CASE j \in DOMAIN rows[k] /\ rows2[k][j] = rows[k][j]
    <3>1. rows[0][i] # rows[k][j] /\ (rows[0][i] > rows[k][j] => rows[0][i] \in within)
      BY <2>1, <2>2, Zenon DEF InTurn
    <3>2. QED
      BY <2>1, <2>2, <3>1, Zenon
  <2>3. CASE rows2[k][j] = many2
    <3>1. rows[0][i] # many2 /\ ~(rows[0][i] > many2)
      BY <2>1, <1>0, Zenon
    <3>2. QED
      BY <2>1, <2>3, <3>1, Zenon
  <2>4. QED
    BY <2>2, <2>3, <1>7, <1>10
<1>16. \A k \in 2 .. n - 1 : ToSet(rows2[k]) \subseteq within
  <2> TAKE k \in 2 .. n - 1
  <2>1. k \in 0 .. n - 1
    OBVIOUS
  <2>2. QED
    BY <2>1, Zenon DEF InTurn
<1>17. QED
  BY <1>1, <1>7, <1>9, <1>12, <1>13, <1>14, <1>15, <1>16, Zenon DEF InTurn

(* Rows without messages come and go, and the others stay in turn.         *)
Moved(rows, n, rows2, n2, within2) ==
  /\ rows2[0] = rows[0]
  /\ \A k \in 1 .. n2 : DOMAIN rows2[k] = {} \/ \E i \in 1 .. n : rows2[k] = rows[i]
  /\ \A k, l \in 1 .. n2 : k < l =>
        \/ DOMAIN rows2[k] = {} \/ DOMAIN rows2[l] = {}
        \/ \E i, j \in 1 .. n : i < j /\ rows2[k] = rows[i] /\ rows2[l] = rows[j]
  /\ \A k \in 1 .. n : DOMAIN rows[k] = {} \/ \E l \in 1 .. n2 : rows2[l] = rows[k]
  /\ \A k \in 2 .. n2 - 1 : ToSet(rows2[k]) \subseteq within2

(* What the move of rows keeps: every row is one of those there were.      *)
LEMMA RowsMoved ==
  ASSUME NEW n \in Nat \ {0}, NEW n2 \in Nat \ {0}, NEW many, NEW within, NEW within2, within \subseteq within2,
         NEW rows, InTurn(rows, n, many, within), NEW rows2, Moved(rows, n, rows2, n2, within2)
  PROVE  InTurn(rows2, n2, many, within2)
<1>1. 0 \in 0 .. n /\ 0 \in 0 .. n2 /\ (\A k \in 1 .. n : k \in 0 .. n) /\ (\A k \in 1 .. n2 : k \in 0 .. n2)
      /\ (\A k \in 0 .. n : k = 0 \/ k \in 1 .. n) /\ \A k \in 0 .. n2 : k = 0 \/ k \in 1 .. n2
  OBVIOUS
<1>2. \A k \in 0 .. n2 : \A i \in DOMAIN rows2[k] : rows2[k][i] \in 1 .. many
  <2> TAKE k \in 0 .. n2
  <2> TAKE i \in DOMAIN rows2[k]
  <2>1. PICK l \in 0 .. n : rows2[k] = rows[l]
    BY <1>1, Zenon DEF Moved
  <2>2. QED
    BY <2>1, Zenon DEF InTurn
<1>3. \A m \in 1 .. many : \E k \in 0 .. n2 : m \in ToSet(rows2[k])
  <2> TAKE m \in 1 .. many
  <2>1. PICK k \in 0 .. n : m \in ToSet(rows[k])
    BY Zenon DEF InTurn
  <2>2. DOMAIN rows[k] # {}
    BY <2>1, Zenon DEF ToSet
  <2>3. QED
    BY <2>1, <2>2, <1>1, Zenon DEF Moved
<1>4. \A i, j \in DOMAIN rows2[0] : i < j =>
          rows2[0][i] # rows2[0][j] /\ (rows2[0][i] > rows2[0][j] => rows2[0][i] \in within2)
  BY DEF InTurn, Moved
<1>5. \A k \in 1 .. n2 : \A i, j \in DOMAIN rows2[k] : i < j => rows2[k][i] < rows2[k][j]
  <2> TAKE k \in 1 .. n2
  <2> TAKE i, j \in DOMAIN rows2[k]
  <2>1. PICK l \in 1 .. n : rows2[k] = rows[l]
    BY Zenon DEF Moved
  <2>2. QED
    BY <2>1, Zenon DEF InTurn
<1>6. \A k, l \in 1 .. n2 : k < l => \A i \in DOMAIN rows2[k], j \in DOMAIN rows2[l] : rows2[k][i] < rows2[l][j]
  <2> TAKE k, l \in 1 .. n2
  <2> HAVE k < l
  <2> TAKE i \in DOMAIN rows2[k], j \in DOMAIN rows2[l]
  <2>1. PICK a, b \in 1 .. n : a < b /\ rows2[k] = rows[a] /\ rows2[l] = rows[b]
    BY Zenon DEF Moved
  <2>2. \A x \in DOMAIN rows[a], y \in DOMAIN rows[b] : rows[a][x] < rows[b][y]
    BY <2>1 DEF InTurn
  <2>3. QED
    BY <2>1, <2>2, Zenon
<1>7. \A k \in 1 .. n2 : \A i \in DOMAIN rows2[0], j \in DOMAIN rows2[k] :
          rows2[0][i] # rows2[k][j] /\ (rows2[0][i] > rows2[k][j] => rows2[0][i] \in within2)
  <2> TAKE k \in 1 .. n2
  <2> TAKE i \in DOMAIN rows2[0], j \in DOMAIN rows2[k]
  <2>1. PICK l \in 1 .. n : rows2[k] = rows[l]
    BY Zenon DEF Moved
  <2>2. rows[0][i] # rows[l][j] /\ (rows[0][i] > rows[l][j] => rows[0][i] \in within)
    BY <2>1, Zenon DEF InTurn, Moved
  <2>3. QED
    BY <2>1, <2>2, Zenon DEF Moved
<1>8. QED
  BY <1>2, <1>3, <1>4, <1>5, <1>6, <1>7, Zenon DEF InTurn, Moved

(* A call takes the first of its messages.                                 *)
LEMMA RowHandled ==
  ASSUME NEW n \in Nat, n >= 2, NEW many \in Nat, NEW within, NEW rows \in [0 .. n -> Seq(Nat)],
         InTurn(rows, n, many, within), rows[n - 1] # <<>>, NEW rows2 \in [0 .. n -> Seq(Nat)],
         rows2[0] = Append(rows[0], Head(rows[n - 1])), rows2[n - 1] = Tail(rows[n - 1]),
         \A k \in 1 .. n : k # n - 1 => rows2[k] = rows[k]
  PROVE  InTurn(rows2, n, many, within)
<1>1. PICK t \in 1 .. n : t = n - 1
  OBVIOUS
<1>2. PICK z \in Nat \ {0} : z = Len(rows[0]) + 1
  OBVIOUS
<1>3. PICK e \in Nat : e = Head(rows[t])
  BY <1>1, TailFacts
<1>4. 0 \in 0 .. n /\ t \in 0 .. n /\ (\A k \in 0 .. n : k = 0 \/ k \in 1 .. n) /\ (\A k \in 1 .. n : k \in 0 .. n /\ k # 0)
  OBVIOUS
<1>5. PICK m \in Nat \ {0} : m = Len(rows[t])
  BY <1>1, TailFacts
<1>6. /\ DOMAIN rows2[0] = 1 .. z /\ DOMAIN rows[0] = 1 .. z - 1 /\ rows2[0][z] = e
      /\ \A i \in 1 .. z - 1 : rows2[0][i] = rows[0][i]
  BY <1>1, <1>2, <1>3, <1>4, AppendFacts
<1>7. /\ DOMAIN rows[t] = 1 .. m /\ rows[t][1] = e /\ DOMAIN rows2[t] = 1 .. m - 1
      /\ \A i \in 1 .. m - 1 : rows2[t][i] = rows[t][i + 1]
  <2>1. rows[t] \in Seq(Nat) /\ rows[t] # <<>> /\ rows2[t] = Tail(rows[t]) /\ rows2[t] \in Seq(Nat)
    BY <1>1, <1>4
  <2>2. /\ Head(rows[t]) = rows[t][1] /\ Len(Tail(rows[t])) = Len(rows[t]) - 1
        /\ \A i \in 1 .. Len(rows[t]) - 1 : Tail(rows[t])[i] = rows[t][i + 1]
    BY <2>1, TailFacts
  <2>3. DOMAIN rows[t] = 1 .. Len(rows[t]) /\ DOMAIN rows2[t] = 1 .. Len(rows2[t])
    BY <2>1, DomainFacts
  <2>4. QED
    BY <2>1, <2>2, <2>3, <1>3, <1>5, Zenon
<1>8. (\A i \in 1 .. z : i = z \/ i \in 1 .. z - 1) /\ z \in 1 .. z /\ \A i, j \in 1 .. z : i < j => i \in 1 .. z - 1
  BY <1>2
<1>9. 1 \in 1 .. m /\ (\A i \in 1 .. m - 1 : i + 1 \in 1 .. m /\ 1 < i + 1) /\ (\A i, j \in 1 .. m - 1 : i < j => i + 1 < j + 1)
      /\ \A i \in 1 .. m : i = 1 \/ \E j \in 1 .. m - 1 : i = j + 1
  <2>1. \A i \in 1 .. m : i = 1 \/ (i - 1 \in 1 .. m - 1 /\ i = i - 1 + 1)
    BY <1>5
  <2>2. \A i \in 1 .. m : i = 1 \/ \E j \in 1 .. m - 1 : i = j + 1
    BY <2>1, Zenon
  <2>3. 1 \in 1 .. m
    BY <1>5
  <2>6. \A i \in 1 .. m - 1 : i + 1 \in 1 .. m /\ 1 < i + 1
    BY <1>5
  <2>4. \A i, j \in 1 .. m - 1 : i < j => i + 1 < j + 1
    BY <1>5
  <2>5. QED
    BY <2>2, <2>3, <2>4, <2>6, Zenon
<1>0. /\ \A x, y \in 1 .. many : x < y => x # y /\ y # x /\ ~(x > y)
      /\ e \in 1 .. many /\ 1 \in DOMAIN rows[t]
  <2>1. \A x, y \in 1 .. many : x < y => x # y /\ y # x /\ ~(x > y)
    OBVIOUS
  <2>2. QED
    BY <2>1, <1>4, <1>7, <1>9, Zenon DEF InTurn
(* What every row but the first lost is the message handled.               *)
<1>10. ASSUME NEW k \in 1 .. n, NEW i \in DOMAIN rows2[k]
       PROVE  \E j \in DOMAIN rows[k] : rows2[k][i] = rows[k][j] /\ (k = t => j = i + 1) /\ (k # t => j = i)
  BY <1>1, <1>7, <1>9
(* Those that wait behind it are later, or the call is inside another.     *)
<1>11. \A k \in 1 .. n : \A i \in DOMAIN rows2[k] : e # rows2[k][i] /\ (e > rows2[k][i] => e \in within)
  <2> TAKE k \in 1 .. n
  <2> TAKE i \in DOMAIN rows2[k]
  <2>1. PICK j \in DOMAIN rows[k] : rows2[k][i] = rows[k][j] /\ (k = t => j = i + 1)
    BY <1>10
  <2>2. e \in 1 .. many /\ rows[k][j] \in 1 .. many
    BY <1>4, <1>7, <1>9, Zenon DEF InTurn
  <2>3. CASE k = t
    <3>1. i \in 1 .. m - 1
      BY <2>3, <1>7, Zenon
    <3>2. 1 \in DOMAIN rows[t] /\ j \in DOMAIN rows[t] /\ 1 < j
      BY <2>1, <2>3, <3>1, <1>7, <1>9, Zenon
    <3>3. rows[t][1] < rows[t][j]
      BY <3>2, Zenon DEF InTurn
    <3>4. e < rows2[k][i]
      BY <2>1, <2>3, <3>3, <1>7, Zenon
    <3>5. QED
      BY <2>1, <2>2, <3>4, <1>0, Zenon
  <2>4. CASE k = n
    <3>1. t < n
      BY <1>1
    <3>2. rows[t][1] < rows[n][j]
      BY <2>1, <2>4, <3>1, <1>0 DEF InTurn
    <3>3. QED
      BY <2>1, <2>2, <2>4, <3>2, <1>0, <1>7, Zenon
  <2>5. CASE k # t /\ k # n
    <3>1. k < t /\ t \in 2 .. n - 1
      BY <2>5, <1>1
    <3>2. rows[k][j] < rows[t][1]
      BY <2>1, <3>1, <1>7, <1>9, Zenon DEF InTurn
    <3>3. rows[t][1] \in within
      <4>1. rows[t][1] \in ToSet(rows[t])
        BY <1>7, <1>9, Zenon DEF ToSet
      <4>2. QED
        BY <3>1, <4>1 DEF InTurn
    <3>4. rows2[k][i] < e
      BY <2>1, <3>2, <1>7, Zenon
    <3>5. e # rows2[k][i]
      BY <2>1, <2>2, <3>4, <1>0, Zenon
    <3>6. QED
      BY <3>3, <3>5, <1>7, Zenon
  <2>6. QED
    BY <2>3, <2>4, <2>5
<1>12. \A i \in 1 .. z - 1 : rows[0][i] # e /\ (rows[0][i] > e => rows[0][i] \in within)
  <2> TAKE i \in 1 .. z - 1
  <2>1. rows[0][i] # rows[t][1] /\ (rows[0][i] > rows[t][1] => rows[0][i] \in within)
    BY <1>0, <1>6, Zenon DEF InTurn
  <2>2. QED
    BY <2>1, <1>7, Zenon
<1>13. \A k \in 0 .. n : \A i \in DOMAIN rows2[k] : rows2[k][i] \in 1 .. many
  <2> TAKE k \in 0 .. n
  <2> TAKE i \in DOMAIN rows2[k]
  <2>1. CASE k = 0
    <3>1. CASE i = z
      BY <2>1, <3>1, <1>0, <1>6, Zenon
    <3>2. CASE i \in 1 .. z - 1
      BY <2>1, <3>2, <1>4, <1>6, Zenon DEF InTurn
    <3>3. QED
      BY <2>1, <3>1, <3>2, <1>6, <1>8, Zenon
  <2>2. CASE k \in 1 .. n
    <3>1. PICK j \in DOMAIN rows[k] : rows2[k][i] = rows[k][j]
      BY <2>2, <1>10
    <3>2. QED
      BY <3>1, Zenon DEF InTurn
  <2>3. QED
    BY <2>1, <2>2, <1>4
<1>14. \A x \in 1 .. many : \E k \in 0 .. n : x \in ToSet(rows2[k])
  <2> TAKE x \in 1 .. many
  <2>1. PICK k \in 0 .. n : x \in ToSet(rows[k])
    BY Zenon DEF InTurn
  <2>2. PICK i \in DOMAIN rows[k] : x = rows[k][i]
    BY <2>1, Zenon DEF ToSet
  <2>3. CASE k = 0
    <3>1. i \in 1 .. z /\ rows2[0][i] = x
      <4>1. \A j \in 1 .. z - 1 : j \in 1 .. z
        BY <1>2
      <4>2. QED
        BY <4>1, <2>2, <2>3, <1>6, Zenon
    <3>2. QED
      BY <3>1, <1>4, <1>6, Zenon DEF ToSet
  <2>4. CASE k = t /\ i = 1
    <3>1. x = rows2[0][z] /\ z \in DOMAIN rows2[0]
      BY <2>2, <2>4, <1>6, <1>7, <1>8, Zenon
    <3>2. QED
      BY <3>1, <1>4, Zenon DEF ToSet
  <2>5. CASE k = t /\ i # 1
    <3>1. PICK j \in 1 .. m - 1 : i = j + 1
      BY <2>5, <1>7, <1>9, Zenon
    <3>2. QED
      BY <2>2, <2>5, <3>1, <1>4, <1>7, Zenon DEF ToSet
  <2>6. CASE k # 0 /\ k # t
    <3>1. rows2[k] = rows[k]
      BY <2>6, <1>1, <1>4
    <3>2. QED
      BY <2>1, <3>1, Zenon
  <2>7. QED
    BY <2>3, <2>4, <2>5, <2>6
<1>15. \A i, j \in DOMAIN rows2[0] : i < j =>
          rows2[0][i] # rows2[0][j] /\ (rows2[0][i] > rows2[0][j] => rows2[0][i] \in within)
  <2> TAKE i, j \in DOMAIN rows2[0]
  <2> HAVE i < j
  <2>1. i \in 1 .. z - 1 /\ rows2[0][i] = rows[0][i]
    BY <1>6, <1>8, Zenon
  <2>2. CASE j = z
    BY <2>1, <2>2, <1>6, <1>12, Zenon
  <2>3. CASE j \in 1 .. z - 1
    <3>1. rows[0][i] # rows[0][j] /\ (rows[0][i] > rows[0][j] => rows[0][i] \in within)
      BY <2>1, <2>3, <1>6 DEF InTurn
    <3>2. QED
      BY <2>1, <2>3, <3>1, <1>6, Zenon
  <2>4. QED
    BY <2>2, <2>3, <1>6, <1>8, Zenon
<1>16. \A k \in 1 .. n : \A i, j \in DOMAIN rows2[k] : i < j => rows2[k][i] < rows2[k][j]
  <2> TAKE k \in 1 .. n
  <2> TAKE i, j \in DOMAIN rows2[k]
  <2> HAVE i < j
  <2>1. CASE k = t
    <3>1. i \in 1 .. m - 1 /\ j \in 1 .. m - 1
      BY <2>1, <1>7, Zenon
    <3>2. i + 1 \in DOMAIN rows[t] /\ j + 1 \in DOMAIN rows[t] /\ i + 1 < j + 1
      BY <3>1, <1>7, <1>9, Zenon
    <3>3. rows[t][i + 1] < rows[t][j + 1]
      BY <3>2, Zenon DEF InTurn
    <3>4. QED
      BY <2>1, <3>1, <3>3, <1>7, Zenon
  <2>2. CASE k # t
    BY <2>2, <1>1, Zenon DEF InTurn
  <2>3. QED
    BY <2>1, <2>2
<1>17. \A k, l \in 1 .. n : k < l => \A i \in DOMAIN rows2[k], j \in DOMAIN rows2[l] : rows2[k][i] < rows2[l][j]
  <2> TAKE k, l \in 1 .. n
  <2> HAVE k < l
  <2> TAKE i \in DOMAIN rows2[k], j \in DOMAIN rows2[l]
  <2>1. PICK x \in DOMAIN rows[k] : rows2[k][i] = rows[k][x]
    BY <1>10
  <2>2. PICK y \in DOMAIN rows[l] : rows2[l][j] = rows[l][y]
    BY <1>10
  <2>3. rows[k][x] < rows[l][y]
    BY Zenon DEF InTurn
  <2>4. QED
    BY <2>1, <2>2, <2>3, Zenon
<1>18. \A k \in 1 .. n : \A i \in DOMAIN rows2[0], j \in DOMAIN rows2[k] :
          rows2[0][i] # rows2[k][j] /\ (rows2[0][i] > rows2[k][j] => rows2[0][i] \in within)
  <2> TAKE k \in 1 .. n
  <2> TAKE i \in DOMAIN rows2[0], j \in DOMAIN rows2[k]
  <2>1. CASE i = z
    BY <2>1, <1>6, <1>11, Zenon
  <2>2. CASE i \in 1 .. z - 1
    <3>1. PICK y \in DOMAIN rows[k] : rows2[k][j] = rows[k][y]
      BY <1>10
    <3>2. rows[0][i] # rows[k][y] /\ (rows[0][i] > rows[k][y] => rows[0][i] \in within)
      BY <2>2, <1>6, Zenon DEF InTurn
    <3>3. QED
      BY <2>2, <3>1, <3>2, <1>6, Zenon
  <2>3. QED
    BY <2>1, <2>2, <1>6, <1>8, Zenon
<1>19. \A k \in 2 .. n - 1 : ToSet(rows2[k]) \subseteq within
  <2> TAKE k \in 2 .. n - 1
  <2>1. k \in 1 .. n
    OBVIOUS
  <2>2. ToSet(rows2[k]) \subseteq ToSet(rows[k])
    <3> SUFFICES ASSUME NEW i \in DOMAIN rows2[k] PROVE rows2[k][i] \in ToSet(rows[k])
      BY Zenon DEF ToSet
    <3>1. PICK j \in DOMAIN rows[k] : rows2[k][i] = rows[k][j]
      BY <2>1, <1>10
    <3>2. QED
      BY <3>1, Zenon DEF ToSet
  <2>3. QED
    BY <2>2, Zenon DEF InTurn
<1>20. QED
  BY <1>13, <1>14, <1>15, <1>16, <1>17, <1>18, <1>19, Zenon DEF InTurn

(* The queue becomes the messages of a new call.                           *)
LEMMA RowsTaken ==
  ASSUME NEW n \in Nat \ {0}, NEW many \in Nat, NEW within, NEW within2, within \subseteq within2,
         NEW rows \in [0 .. n -> Seq(Nat)], InTurn(rows, n, many, within), NEW rows2 \in [0 .. n + 1 -> Seq(Nat)],
         \A k \in 0 .. n : rows2[k] = rows[k], rows2[n + 1] = <<>>, n >= 2 => ToSet(rows[n]) \subseteq within2
  PROVE  InTurn(rows2, n + 1, many, within2)
<1>1. PICK n2 \in Nat \ {0} : n2 = n + 1
  OBVIOUS
<1>2. DOMAIN rows2[n2] = {} /\ rows2[0] = rows[0]
  BY <1>1
<1>3. \A k \in 1 .. n2 : k = n2 \/ k \in 1 .. n
  BY <1>1
<1>4. \A k \in 1 .. n : rows2[k] = rows[k] /\ k \in 1 .. n2
  BY <1>1
<1>5. \A k \in 1 .. n2 : DOMAIN rows2[k] = {} \/ \E i \in 1 .. n : rows2[k] = rows[i]
  BY <1>2, <1>3, <1>4, Zenon
<1>6. \A k, l \in 1 .. n2 : k < l =>
            \/ DOMAIN rows2[k] = {} \/ DOMAIN rows2[l] = {}
            \/ \E i, j \in 1 .. n : i < j /\ rows2[k] = rows[i] /\ rows2[l] = rows[j]
  BY <1>2, <1>3, <1>4, Zenon
<1>7. \A k \in 1 .. n : DOMAIN rows[k] = {} \/ \E l \in 1 .. n2 : rows2[l] = rows[k]
  BY <1>4, Zenon
<1>8. \A k \in 2 .. n2 - 1 : ToSet(rows2[k]) \subseteq within2
  <2> TAKE k \in 2 .. n2 - 1
  <2>1. k \in 1 .. n /\ n >= 2 /\ (k = n \/ k \in 2 .. n - 1)
    BY <1>1
  <2>2. CASE k = n
    BY <2>1, <2>2, <1>4
  <2>3. CASE k \in 2 .. n - 1
    <3>1. ToSet(rows[k]) \subseteq within
      BY <2>3, Zenon DEF InTurn
    <3>2. QED
      BY <2>1, <3>1, <1>4
  <2>4. QED
    BY <2>1, <2>2, <2>3
<1>9. Moved(rows, n, rows2, n2, within2)
  BY <1>2, <1>5, <1>6, <1>7, <1>8, Zenon DEF Moved
<1>10. InTurn(rows2, n2, many, within2)
  BY <1>9, RowsMoved
<1>11. QED
  BY <1>1, <1>10

(* A call begins that has no messages, and ends when it has none.          *)
LEMMA RowsOpened ==
  ASSUME NEW n \in Nat \ {0}, NEW many \in Nat, NEW within, NEW rows \in [0 .. n -> Seq(Nat)],
         InTurn(rows, n, many, within), NEW rows2 \in [0 .. n + 1 -> Seq(Nat)],
         \A k \in 0 .. n - 1 : rows2[k] = rows[k], rows2[n] = <<>>, rows2[n + 1] = rows[n]
  PROVE  InTurn(rows2, n + 1, many, within)
<1>1. PICK n2 \in Nat \ {0} : n2 = n + 1
  OBVIOUS
<1>2. DOMAIN rows2[n] = {} /\ rows2[0] = rows[0] /\ rows2[n2] = rows[n] /\ n \in 1 .. n /\ n2 \in 1 .. n2
  BY <1>1
<1>3. \A k \in 1 .. n2 : k = n2 \/ k = n \/ k \in 1 .. n - 1
  BY <1>1
<1>4. \A k \in 1 .. n - 1 : rows2[k] = rows[k] /\ k \in 1 .. n /\ k \in 1 .. n2 /\ k < n
  BY <1>1
<1>5. \A k \in 1 .. n2 : DOMAIN rows2[k] = {} \/ \E i \in 1 .. n : rows2[k] = rows[i]
  BY <1>2, <1>3, <1>4, Zenon
<1>6. \A k, l \in 1 .. n2 : k < l =>
            \/ DOMAIN rows2[k] = {} \/ DOMAIN rows2[l] = {}
            \/ \E i, j \in 1 .. n : i < j /\ rows2[k] = rows[i] /\ rows2[l] = rows[j]
  <2> TAKE k, l \in 1 .. n2
  <2> HAVE k < l
  <2>1. k # n2
    BY <1>1
  <2>2. CASE k \in 1 .. n - 1 /\ l = n2
    BY <2>2, <1>2, <1>4, Zenon
  <2>3. CASE k \in 1 .. n - 1 /\ l \in 1 .. n - 1
    BY <2>3, <1>4, Zenon
  <2>4. QED
    BY <2>1, <2>2, <2>3, <1>2, <1>3, Zenon
<1>7. \A k \in 1 .. n : DOMAIN rows[k] = {} \/ \E l \in 1 .. n2 : rows2[l] = rows[k]
  <2>1. \A k \in 1 .. n : k = n \/ k \in 1 .. n - 1
    OBVIOUS
  <2>2. QED
    BY <2>1, <1>2, <1>4, Zenon
<1>8. \A k \in 2 .. n2 - 1 : ToSet(rows2[k]) \subseteq within
  <2> TAKE k \in 2 .. n2 - 1
  <2>1. k = n \/ (k \in 2 .. n - 1 /\ k \in 1 .. n - 1)
    BY <1>1
  <2>2. CASE k = n
    BY <2>2, <1>2, Zenon DEF ToSet
  <2>3. CASE k \in 2 .. n - 1 /\ k \in 1 .. n - 1
    BY <2>3, <1>4, Zenon DEF InTurn
  <2>4. QED
    BY <2>1, <2>2, <2>3
<1>9. Moved(rows, n, rows2, n2, within)
  BY <1>2, <1>5, <1>6, <1>7, <1>8, Zenon DEF Moved
<1>10. InTurn(rows2, n2, many, within)
  BY <1>9, RowsMoved
<1>11. QED
  BY <1>1, <1>10

(* A row without messages goes.                                            *)
LEMMA RowsClosed ==
  ASSUME NEW n \in Nat \ {0}, NEW many \in Nat, NEW within, NEW rows \in [0 .. n + 1 -> Seq(Nat)],
         InTurn(rows, n + 1, many, within), NEW rows2 \in [0 .. n -> Seq(Nat)],
         \A k \in 0 .. n - 1 : rows2[k] = rows[k], rows[n] = <<>>, rows2[n] = rows[n + 1]
  PROVE  InTurn(rows2, n, many, within)
<1>1. PICK n2 \in Nat \ {0} : n2 = n + 1
  OBVIOUS
<1>2. DOMAIN rows[n] = {} /\ rows2[0] = rows[0] /\ rows2[n] = rows[n2] /\ n \in 1 .. n /\ n2 \in 1 .. n2
  BY <1>1
<1>3. \A k \in 1 .. n2 : k = n2 \/ k = n \/ k \in 1 .. n - 1
  BY <1>1
<1>4. \A k \in 1 .. n - 1 : rows2[k] = rows[k] /\ k \in 1 .. n /\ k \in 1 .. n2 /\ k < n2
  BY <1>1
<1>0. \A k \in 1 .. n : k = n \/ k \in 1 .. n - 1
  OBVIOUS
<1>5. \A k \in 1 .. n : DOMAIN rows2[k] = {} \/ \E i \in 1 .. n2 : rows2[k] = rows[i]
  BY <1>0, <1>2, <1>4, Zenon
<1>6. \A k, l \in 1 .. n : k < l =>
            \/ DOMAIN rows2[k] = {} \/ DOMAIN rows2[l] = {}
            \/ \E i, j \in 1 .. n2 : i < j /\ rows2[k] = rows[i] /\ rows2[l] = rows[j]
  <2> TAKE k, l \in 1 .. n
  <2> HAVE k < l
  <2>1. k # n
    OBVIOUS
  <2>2. CASE k \in 1 .. n - 1 /\ l = n
    BY <2>2, <1>2, <1>4, Zenon
  <2>3. CASE k \in 1 .. n - 1 /\ l \in 1 .. n - 1
    BY <2>3, <1>4, Zenon
  <2>4. QED
    BY <2>1, <2>2, <2>3, <1>0, Zenon
<1>7. \A k \in 1 .. n2 : DOMAIN rows[k] = {} \/ \E l \in 1 .. n : rows2[l] = rows[k]
  BY <1>2, <1>3, <1>4, Zenon
<1>8. \A k \in 2 .. n - 1 : ToSet(rows2[k]) \subseteq within
  <2> TAKE k \in 2 .. n - 1
  <2>1. k \in 2 .. n2 - 1 /\ k \in 1 .. n - 1
    BY <1>1
  <2>2. QED
    BY <2>1, <1>1, <1>4 DEF InTurn
<1>9. Moved(rows, n2, rows2, n, within)
  BY <1>2, <1>5, <1>6, <1>7, <1>8, Zenon DEF Moved
<1>10. QED
  BY <1>1, <1>9, RowsMoved

=============================================================================
