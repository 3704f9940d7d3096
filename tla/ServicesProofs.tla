---------------------------- MODULE ServicesProofs ----------------------------
(***************************************************************************)
(* Theorems about the services that other threads use: Polling, ThreadLogs *)
(* and ThreadTimer.                                                        *)
(***************************************************************************)
EXTENDS Polling, ThreadLogs, ThreadTimer, SublistsProofs, FiniteSetTheorems, TLAPS

(***************************************************************************)
(* Polling: an event reaches the poller it happened on.                    *)
(***************************************************************************)
LEMMA InitIInv == Init => IInv
BY PollingAssumption DEF Init, IInv, TypeOK, DescriptorsOK, RoundOK, EventReachesOwner, INVALID

(* What FileOf gives for an open and for a closed poller.                  *)
LEMMA FileOfOpen ==
  ASSUME TypeOK, NEW p \in Pollers
  PROVE  /\ FileOf(fd[p]) \in Nat
         /\ fd[p] # INVALID => fd[p] \in Descriptors /\ FileOf(fd[p]) = file[fd[p]]
<1>1. fd[p] \in Descriptors \/ fd[p] = INVALID
  BY DEF TypeOK
<1>2. \A d \in Descriptors : file[d] \in Nat
  BY PollingAssumption DEF TypeOK
<1>3. QED
  BY <1>1, <1>2 DEF FileOf

(***************************************************************************)
(* Between rounds.                                                         *)
(***************************************************************************)
(* A step outside a round that changes the list, and nothing of the files. *)
LEMMA ListStep ==
  ASSUME IInv, next = 0, list' \in Seq(Pollers), Resize, UNCHANGED <<fd, next, file, ready, opens, handled>>
  PROVE  IInv'
<1>1. TypeOK /\ DescriptorsOK /\ EventReachesOwner
  BY DEF IInv
<1>2. array' \in Seq(Entry) /\ Len(array') = Len(list')
  <2>1. array' = [i \in 1 .. Len(list') |-> IF i <= Len(array) THEN array[i] ELSE NoEntry]
    BY DEF Resize
  <2>2. Len(list') \in Nat
    OBVIOUS
  <2>3. NoEntry \in Entry
    BY DEF NoEntry, Entry
  <2>4. \A i \in 1 .. Len(list') : i <= Len(array) => array[i] \in Entry
    <3>1. \A s \in Seq(Entry) : \A i \in Nat \ {0} : i <= Len(s) => s[i] \in Entry
      OBVIOUS
    <3>2. QED
      BY <1>1, <2>2, <3>1 DEF TypeOK
  <2>5. array' \in [1 .. Len(list') -> Entry]
    BY <2>1, <2>3, <2>4
  <2>6. \A n \in Nat : \A s \in [1 .. n -> Entry] : s \in Seq(Entry) /\ Len(s) = n
    OBVIOUS
  <2>7. QED
    BY <2>2, <2>5, <2>6
<1>3. TypeOK'
  BY <1>1, <1>2 DEF TypeOK
<1>4. DescriptorsOK' /\ RoundOK' /\ EventReachesOwner'
  BY <1>1 DEF DescriptorsOK, RoundOK, EventReachesOwner
<1>5. QED
  BY <1>3, <1>4 DEF IInv

LEMMA RegisterStep ==
  ASSUME IInv, NEW p \in Pollers, Register(p)
  PROVE  IInv'
<1>1. list \in Seq(Pollers)
  BY DEF IInv, TypeOK
<1>2. \A k : [list EXCEPT ![k] = p] \in Seq(Pollers)
  <2>1. Len(list) \in Nat /\ list \in [1 .. Len(list) -> Pollers]
    BY <1>1
  <2>2. \A k : [list EXCEPT ![k] = p] \in [1 .. Len(list) -> Pollers]
    BY <2>1
  <2>3. \A n \in Nat : \A s \in [1 .. n -> Pollers] : s \in Seq(Pollers)
    OBVIOUS
  <2>4. QED
    BY <2>1, <2>2, <2>3
<1>3. Append(list, p) \in Seq(Pollers)
  BY <1>1
<1>4. list' \in Seq(Pollers)
  BY <1>2, <1>3 DEF Register, RegisterPoller
<1>5. QED
  BY <1>4, ListStep DEF Register, RegisterPoller

LEMMA UnregisterStep ==
  ASSUME IInv, NEW p \in Pollers, Unregister(p)
  PROVE  IInv'
<1>1. list \in Seq(Pollers)
  BY DEF IInv, TypeOK
<1>2. \A s \in Seq(Pollers) : \A kept \in SUBSET DOMAIN s : Sublist(s, kept) \in Seq(Pollers)
  BY SublistFacts
<1>3. list' \in Seq(Pollers)
  BY <1>1, <1>2 DEF Unregister, UnregisterPoller
<1>4. QED
  BY <1>3, ListStep DEF Unregister, UnregisterPoller

LEMMA OpenStep ==
  ASSUME IInv, NEW p \in Pollers, OpenDescriptor(p)
  PROVE  IInv'
<1>1. TypeOK /\ DescriptorsOK /\ EventReachesOwner
  BY DEF IInv
<1>2. PICK d \in Descriptors :
        /\ file[d] = 0
        /\ fd' = [fd EXCEPT ![p] = d] /\ file' = [file EXCEPT ![d] = opens + 1]
  BY DEF OpenDescriptor
<1>3. /\ next = 0 /\ fd[p] = INVALID /\ opens < MaxOpens /\ opens' = opens + 1
      /\ UNCHANGED <<list, array, revents, next, ready, handled>>
  BY DEF OpenDescriptor
<1>4. opens' \in 1 .. MaxOpens
  BY <1>1, <1>3, PollingAssumption DEF TypeOK
<1>5. TypeOK'
  BY <1>1, <1>2, <1>3, <1>4 DEF TypeOK
<1>6. DescriptorsOK'
  <2>1. /\ fd'[p] = d /\ \A q \in Pollers : q # p => fd'[q] = fd[q]
        /\ file'[d] = opens' /\ \A e \in Descriptors : e # d => file'[e] = file[e]
    BY <1>1, <1>2, <1>3 DEF TypeOK
  <2>2. \A q \in Pollers : fd[q] # INVALID => fd[q] \in Descriptors /\ fd[q] # d
    BY <1>1, <1>2 DEF TypeOK, DescriptorsOK
  <2>3. QED
    BY <1>1, <1>4, <2>1, <2>2 DEF DescriptorsOK
<1>7. RoundOK' /\ EventReachesOwner'
  BY <1>1, <1>3 DEF RoundOK, EventReachesOwner
<1>8. QED
  BY <1>5, <1>6, <1>7 DEF IInv

(***************************************************************************)
(* Closing, at any time.                                                   *)
(***************************************************************************)
LEMMA CloseFacts ==
  ASSUME TypeOK, DescriptorsOK, NEW q \in Pollers, fd[q] # INVALID,
         fd' = [fd EXCEPT ![q] = INVALID], file' = [file EXCEPT ![fd[q]] = 0]
  PROVE  /\ fd' \in [Pollers -> Descriptors \cup {INVALID}] /\ file' \in [Descriptors -> 0 .. MaxOpens]
         /\ DescriptorsOK'
         /\ \A p \in Pollers : fd'[p] = INVALID \/ (fd'[p] = fd[p] /\ FileOf(fd[p])' = FileOf(fd[p]))
<1>1. fd[q] \in Descriptors
  BY DEF TypeOK
<1>2. /\ fd'[q] = INVALID /\ \A p \in Pollers : p # q => fd'[p] = fd[p]
      /\ \A d \in Descriptors : d # fd[q] => file'[d] = file[d]
      /\ fd' \in [Pollers -> Descriptors \cup {INVALID}] /\ file' \in [Descriptors -> 0 .. MaxOpens]
  BY <1>1, PollingAssumption DEF TypeOK
<1>3. \A p \in Pollers : p # q /\ fd[p] # INVALID => fd[p] \in Descriptors /\ fd[p] # fd[q]
  BY DEF TypeOK, DescriptorsOK
<1>4. DescriptorsOK'
  BY <1>2, <1>3 DEF DescriptorsOK
<1>5. \A p \in Pollers : fd'[p] = INVALID \/ (fd'[p] = fd[p] /\ FileOf(fd[p])' = FileOf(fd[p]))
  BY <1>2, <1>3 DEF FileOf
<1>6. QED
  BY <1>2, <1>4, <1>5

(* RoundOK, when files are only closed.                                    *)
LEMMA RoundKept ==
  ASSUME TypeOK, RoundOK, UNCHANGED <<list, array, revents>>, next' # 0 => next # 0,
         \A p \in Pollers : fd'[p] = INVALID \/ (fd'[p] = fd[p] /\ FileOf(fd[p])' = FileOf(fd[p]))
  PROVE  RoundOK'
<1> SUFFICES ASSUME next' # 0, NEW i \in DOMAIN array
             PROVE  /\ array[i].poller = list[i]
                    /\ i \in DOMAIN revents /\ (revents[i] => array[i].fd # INVALID)
                    /\ array[i].fd = fd'[list[i]] => array[i].file = FileOf(fd[list[i]])' \/ array[i].fd = INVALID
  BY DEF RoundOK
<1>1. list[i] \in Pollers
  BY DEF TypeOK
<1>2. QED
  BY <1>1 DEF RoundOK

LEMMA CloseStep ==
  ASSUME IInv, NEW p \in Pollers, CloseDescriptor(p)
  PROVE  IInv'
<1>1. TypeOK /\ DescriptorsOK /\ RoundOK /\ EventReachesOwner
  BY DEF IInv
<1>2. /\ fd[p] # INVALID
      /\ fd' = [fd EXCEPT ![p] = INVALID] /\ file' = [file EXCEPT ![fd[p]] = 0]
      /\ ready' \subseteq ready /\ UNCHANGED <<list, array, revents, next, opens, handled>>
  BY DEF CloseDescriptor, Close
<1>3. /\ fd' \in [Pollers -> Descriptors \cup {INVALID}] /\ file' \in [Descriptors -> 0 .. MaxOpens]
      /\ DescriptorsOK'
      /\ \A q \in Pollers : fd'[q] = INVALID \/ (fd'[q] = fd[q] /\ FileOf(fd[q])' = FileOf(fd[q]))
  BY <1>1, <1>2, CloseFacts
<1>4. TypeOK'
  BY <1>1, <1>2, <1>3 DEF TypeOK
<1>5. RoundOK'
  BY <1>1, <1>2, <1>3, RoundKept
<1>6. EventReachesOwner'
  BY <1>1, <1>2 DEF EventReachesOwner
<1>7. QED
  BY <1>3, <1>4, <1>5, <1>6 DEF IInv

(***************************************************************************)
(* A round.                                                                *)
(***************************************************************************)
LEMMA PollStep ==
  ASSUME IInv, Poll
  PROVE  IInv'
<1> DEFINE filled == [i \in 1 .. Len(array) |-> Assign(list[i])]
<1>1. TypeOK /\ DescriptorsOK /\ EventReachesOwner
  BY DEF IInv
<1>2. /\ Len(array) > 0 /\ array' = filled
      /\ revents' = [i \in 1 .. Len(array) |-> HasEvent(filled[i])]
      /\ next' \in {0, 1}
      /\ UNCHANGED <<list, fd, file, ready, opens, handled>>
  BY DEF Poll
<1>3. /\ Len(array) \in Nat /\ Len(array) = Len(list)
      /\ \A i \in 1 .. Len(array) : list[i] \in Pollers
  BY <1>1 DEF TypeOK
<1>4. \A p \in Pollers : Assign(p) \in Entry
  <2>1. \A p \in Pollers : FileOf(fd[p]) \in Nat
    BY <1>1, FileOfOpen
  <2>2. \A p \in Pollers : fd[p] \in Int
    BY <1>1, PollingAssumption DEF TypeOK, INVALID
  <2>3. QED
    BY <2>1, <2>2 DEF Assign, Entry
<1>5. filled \in [1 .. Len(array) -> Entry]
  BY <1>3, <1>4
<1>6. array' \in Seq(Entry) /\ Len(array') = Len(list) /\ DOMAIN array' = 1 .. Len(array)
  <2>1. \A n \in Nat : \A s \in [1 .. n -> Entry] : s \in Seq(Entry) /\ Len(s) = n /\ DOMAIN s = 1 .. n
    OBVIOUS
  <2>2. QED
    BY <1>2, <1>3, <1>5, <2>1
<1>7. TypeOK'
  BY <1>1, <1>2, <1>3, <1>6 DEF TypeOK
<1>8. RoundOK'
  <2>1. ASSUME NEW i \in 1 .. Len(array)
        PROVE  /\ array'[i].poller = list[i] /\ array'[i].fd = fd[list[i]]
               /\ array'[i].file = FileOf(fd[list[i]])
               /\ i \in DOMAIN revents' /\ (revents'[i] => array'[i].fd # INVALID)
    BY <1>2 DEF Assign, HasEvent
  <2>2. \A p \in Pollers : FileOf(fd[p])' = FileOf(fd[p])
    BY <1>2 DEF FileOf
  <2>3. QED
    BY <1>2, <1>3, <1>6, <2>1, <2>2 DEF RoundOK
<1>9. DescriptorsOK' /\ EventReachesOwner'
  BY <1>1, <1>2 DEF DescriptorsOK, EventReachesOwner
<1>10. QED
  BY <1>7, <1>8, <1>9 DEF IInv

LEMMA AdvanceType ==
  ASSUME TypeOK, next # 0, Advance
  PROVE  next' \in 0 .. Len(list)
BY DEF TypeOK, Advance

LEMMA ProcessEventStep ==
  ASSUME IInv, ProcessEvent
  PROVE  IInv'
<1> DEFINE p == list[next]
<1>1. TypeOK /\ DescriptorsOK /\ RoundOK /\ EventReachesOwner
  BY DEF IInv
<1>2. next # 0 /\ revents[next] /\ Advance /\ UNCHANGED <<list, array, revents, opens>>
  BY DEF ProcessEvent
<1>3. next \in DOMAIN array /\ p \in Pollers
  BY <1>1, <1>2 DEF TypeOK
<1>4. next' \in 0 .. Len(list)
  BY <1>1, <1>2, AdvanceType
<1>5. CASE array[next].fd # fd[p]
  <2>1. UNCHANGED <<fd, file, ready, handled>>
    BY <1>5 DEF ProcessEvent
  <2>2. TypeOK' /\ DescriptorsOK' /\ EventReachesOwner'
    BY <1>1, <1>2, <1>4, <2>1 DEF TypeOK, DescriptorsOK, EventReachesOwner
  <2>3. RoundOK'
    BY <1>1, <1>2, <2>1 DEF RoundOK, FileOf
  <2>4. QED
    BY <2>2, <2>3 DEF IInv
<1>6. CASE array[next].fd = fd[p]
  <2>1. /\ handled' = <<array[next].poller, array[next].file, p, FileOf(fd[p])>>
        /\ Callback
        /\ ready' \subseteq ready
    BY <1>6 DEF ProcessEvent
  <2>2. EventReachesOwner'
    <3>1. array[next].poller = p /\ array[next].file = FileOf(fd[p])
      BY <1>1, <1>2, <1>3, <1>6 DEF RoundOK
    <3>2. QED
      BY <2>1, <3>1 DEF EventReachesOwner
  <2>3. /\ fd' \in [Pollers -> Descriptors \cup {INVALID}] /\ file' \in [Descriptors -> 0 .. MaxOpens]
        /\ DescriptorsOK'
        /\ \A q \in Pollers : fd'[q] = INVALID \/ (fd'[q] = fd[q] /\ FileOf(fd[q])' = FileOf(fd[q]))
    <3>1. CASE UNCHANGED <<fd, file>>
      BY <1>1, <3>1 DEF TypeOK, DescriptorsOK, FileOf
    <3>2. ASSUME NEW q \in Pollers, fd[q] # INVALID,
                 fd' = [fd EXCEPT ![q] = INVALID], file' = [file EXCEPT ![fd[q]] = 0]
          PROVE  /\ fd' \in [Pollers -> Descriptors \cup {INVALID}] /\ file' \in [Descriptors -> 0 .. MaxOpens]
                 /\ DescriptorsOK'
                 /\ \A r \in Pollers : fd'[r] = INVALID \/ (fd'[r] = fd[r] /\ FileOf(fd[r])' = FileOf(fd[r]))
      BY <1>1, <3>2, CloseFacts
    <3>3. QED
      BY <2>1, <3>1, <3>2 DEF Callback
  <2>4. TypeOK'
    BY <1>1, <1>2, <1>4, <2>1, <2>3 DEF TypeOK
  <2>5. RoundOK'
    BY <1>1, <1>2, <2>3, RoundKept
  <2>6. QED
    BY <2>2, <2>3, <2>4, <2>5 DEF IInv
<1>7. QED
  BY <1>5, <1>6

LEMMA ProcessNoneStep ==
  ASSUME IInv, ProcessNone
  PROVE  IInv'
<1>1. TypeOK /\ DescriptorsOK /\ RoundOK /\ EventReachesOwner
  BY DEF IInv
<1>2. /\ next # 0 /\ Advance
      /\ UNCHANGED <<list, fd, array, revents, file, ready, opens, handled>>
  BY DEF ProcessNone
<1>3. TypeOK' /\ DescriptorsOK' /\ EventReachesOwner'
  BY <1>1, <1>2, AdvanceType DEF TypeOK, DescriptorsOK, EventReachesOwner
<1>4. RoundOK'
  BY <1>1, <1>2 DEF RoundOK, FileOf
<1>5. QED
  BY <1>3, <1>4 DEF IInv

LEMMA EventStep ==
  ASSUME IInv, EventHappens \/ UNCHANGED pollingVars
  PROVE  IInv'
<1>1. TypeOK /\ DescriptorsOK /\ RoundOK /\ EventReachesOwner
  BY DEF IInv
<1>2. UNCHANGED <<list, fd, array, revents, next, file, opens, handled>>
  BY DEF EventHappens, pollingVars
<1>3. ready' \subseteq 1 .. MaxOpens
  <2>1. \A d \in Descriptors : file[d] # 0 => file[d] \in 1 .. MaxOpens
    BY <1>1, PollingAssumption DEF TypeOK
  <2>2. ready \subseteq 1 .. MaxOpens
    BY <1>1 DEF TypeOK
  <2>3. CASE EventHappens
    <3>1. PICK d \in Descriptors : file[d] # 0 /\ ready' = ready \cup {file[d]}
      BY <2>3 DEF EventHappens
    <3>2. QED
      BY <2>1, <2>2, <3>1
  <2>4. CASE UNCHANGED pollingVars
    BY <2>2, <2>4 DEF pollingVars
  <2>5. QED
    BY <2>3, <2>4
<1>4. TypeOK' /\ DescriptorsOK' /\ EventReachesOwner'
  BY <1>1, <1>2, <1>3 DEF TypeOK, DescriptorsOK, EventReachesOwner
<1>5. RoundOK'
  BY <1>1, <1>2 DEF RoundOK, FileOf
<1>6. QED
  BY <1>4, <1>5 DEF IInv

LEMMA StepIInv == IInv /\ [Next]_pollingVars => IInv'
<1> SUFFICES ASSUME IInv, [Next]_pollingVars
             PROVE  IInv'
  OBVIOUS
<1>1. CASE Round
  BY <1>1, PollStep, ProcessEventStep, ProcessNoneStep DEF Round
<1>2. CASE EventHappens \/ UNCHANGED pollingVars
  BY <1>2, EventStep
<1>3. ASSUME NEW p \in Pollers, Register(p) \/ Unregister(p) \/ OpenDescriptor(p) \/ CloseDescriptor(p)
      PROVE  IInv'
  BY <1>3, RegisterStep, UnregisterStep, OpenStep, CloseStep
<1>4. QED
  BY <1>1, <1>2, <1>3 DEF Next

(* An event is handled by the poller on whose file it happened: for any    *)
(* number of pollers and descriptors, with descriptors that are closed in  *)
(* the middle of a round and given again after it.                         *)
THEOREM EventReachesOwnerHolds == Spec => []EventReachesOwner
<1>1. IInv => EventReachesOwner
  BY DEF IInv
<1>2. QED
  BY <1>1, InitIInv, StepIInv, PTL DEF Spec

(***************************************************************************)
(* ThreadLogs: every text is in its file, whole, once and in order.        *)
(***************************************************************************)
(***************************************************************************)
(* Sequences of characters.                                                *)
(***************************************************************************)
(* What a text holds that is put together of two.                          *)
LEMMA ContainsOfBoth ==
  ASSUME NEW S, NEW s \in Seq(S), NEW t \in Seq(S), NEW c
  PROVE  s \o t \in Seq(S) /\ (Contains(s \o t, c) <=> Contains(s, c) \/ Contains(t, c))
<1>1. \A i \in 1 .. Len(s) : (s \o t)[i] = s[i]
  OBVIOUS
<1>2. \A i \in 1 .. Len(t) : (s \o t)[Len(s) + i] = t[i]
  OBVIOUS
<1>3. Len(s \o t) = Len(s) + Len(t) /\ Len(s) \in Nat /\ Len(t) \in Nat /\ s \o t \in Seq(S)
  OBVIOUS
<1>4. Contains(s \o t, c) => Contains(s, c) \/ Contains(t, c)
  <2> SUFFICES ASSUME NEW i \in 1 .. Len(s \o t), (s \o t)[i] = c
               PROVE  Contains(s, c) \/ Contains(t, c)
    BY DEF Contains
  <2>1. CASE i <= Len(s)
    BY <2>1, <1>1, <1>3 DEF Contains
  <2>2. CASE i > Len(s)
    <3> DEFINE k == i - Len(s)
    <3>1. k \in 1 .. Len(t) /\ Len(s) + k = i
      BY <2>2, <1>3
    <3>2. t[k] = c
      BY <3>1, <1>2
    <3>3. QED
      BY <3>1, <3>2 DEF Contains
  <2>3. QED
    BY <2>1, <2>2, <1>3
<1>5. Contains(s, c) => Contains(s \o t, c)
  BY <1>1, <1>3 DEF Contains
<1>6. Contains(t, c) => Contains(s \o t, c)
  <2> SUFFICES ASSUME NEW i \in 1 .. Len(t), t[i] = c
               PROVE  Contains(s \o t, c)
    BY DEF Contains
  <2>1. Len(s) + i \in 1 .. Len(s \o t) /\ (s \o t)[Len(s) + i] = c
    BY <1>2, <1>3
  <2>2. QED
    BY <2>1 DEF Contains
<1>7. QED
  BY <1>3, <1>4, <1>5, <1>6

(* The two parts of a sequence.                                            *)
LEMMA PartFacts ==
  ASSUME NEW S, NEW s \in Seq(S), NEW n \in 0 .. Len(s)
  PROVE  /\ SubSeq(s, 1, n) \in Seq(S) /\ Len(SubSeq(s, 1, n)) = n
         /\ \A i \in 1 .. n : SubSeq(s, 1, n)[i] = s[i]
         /\ SubSeq(s, n + 1, Len(s)) \in Seq(S) /\ Len(SubSeq(s, n + 1, Len(s))) = Len(s) - n
         /\ \A i \in 1 .. Len(s) - n : SubSeq(s, n + 1, Len(s))[i] = s[n + i]
<1>1. /\ SubSeq(s, 1, n) \in Seq(S) /\ Len(SubSeq(s, 1, n)) = n
      /\ \A i \in 1 .. n : SubSeq(s, 1, n)[i] = s[i]
  OBVIOUS
<1>2. /\ SubSeq(s, n + 1, Len(s)) \in Seq(S) /\ Len(SubSeq(s, n + 1, Len(s))) = Len(s) - n
      /\ \A i \in 1 .. Len(s) - n : SubSeq(s, n + 1, Len(s))[i] = s[n + i]
  OBVIOUS
<1>3. QED
  BY <1>1, <1>2

(* Put together again they are the sequence.                               *)
LEMMA BothParts ==
  ASSUME NEW S, NEW s \in Seq(S), NEW n \in 0 .. Len(s)
  PROVE  SubSeq(s, 1, n) \o SubSeq(s, n + 1, Len(s)) = s
<1>1. PICK a \in Seq(S) : a = SubSeq(s, 1, n)
  BY PartFacts
<1>2. PICK b \in Seq(S) : b = SubSeq(s, n + 1, Len(s))
  BY PartFacts
<1>3. Len(a) = n /\ Len(b) = Len(s) - n /\ (\A i \in 1 .. n : a[i] = s[i]) /\ (\A i \in 1 .. Len(s) - n : b[i] = s[n + i])
  BY <1>1, <1>2, PartFacts
<1>4. PICK c \in Seq(S) : c = a \o b
  BY JoinFacts
<1>5. Len(c) = Len(s)
  BY <1>3, <1>4, JoinFacts
<1>6. ASSUME NEW i \in 1 .. Len(c)
      PROVE  c[i] = s[i]
  <2>1. CASE i <= n
    BY <2>1, <1>3, <1>4, JoinFacts
  <2>2. CASE i > n
    <3>1. PICK k \in 1 .. Len(b) : i = n + k
      <4>1. i - n \in 1 .. Len(b) /\ i = n + (i - n)
        BY <2>2, <1>3, <1>5
      <4>2. QED
        BY <4>1
    <3>2. c[n + k] = b[k]
      BY <1>3, <1>4, JoinFacts
    <3>3. b[k] = s[n + k]
      BY <1>3
    <3>4. QED
      BY <3>1, <3>2, <3>3
  <2>3. QED
    BY <2>1, <2>2
<1>7. c = s
  BY <1>5, <1>6, SameSequence
<1>8. QED
  BY <1>1, <1>2, <1>4, <1>7

(* Of three texts put together the last two may be put together first.     *)
LEMMA Together ==
  ASSUME NEW S, NEW s \in Seq(S), NEW t \in Seq(S), NEW u \in Seq(S)
  PROVE  (s \o t) \o u = s \o (t \o u)
  OBVIOUS

(* Messages of any day.                                                    *)
AnyMessages == (Nat \X Nat) \cup (Nat \X Nat \X {"own"})

LEMMA CharactersTogether == \A a, b, c \in Seq(Characters) : (a \o b) \o c = a \o (b \o c)
  OBVIOUS

(* The text of a message.                                                  *)
LEMMA TextFacts ==
  ASSUME NEW m \in AnyMessages
  PROVE  Text(m) \in Seq(Characters) /\ Len(Text(m)) = 2
<1>1. m[1] \in Nat
  BY DEF AnyMessages
<1>2. <<m[1], 1>> \in Characters /\ <<m[1], 2>> \in Characters
  BY <1>1 DEF Characters
<1>3. QED
  BY <1>2 DEF Text

(* The character i of what messages say.                                   *)
LEMMA AllTextFacts ==
  ASSUME NEW ms \in Seq(AnyMessages)
  PROVE  /\ AllText(ms) \in Seq(Characters) /\ Len(AllText(ms)) = 2 * Len(ms)
         /\ \A i \in 1 .. 2 * Len(ms) :
              (i + 1) \div 2 \in 1 .. Len(ms) /\ AllText(ms)[i] = Text(ms[(i + 1) \div 2])[2 - (i % 2)]
<1>1. \A i \in 1 .. 2 * Len(ms) : (i + 1) \div 2 \in 1 .. Len(ms) /\ 2 - (i % 2) \in 1 .. 2
  OBVIOUS
<1>2. \A i \in 1 .. 2 * Len(ms) : AllText(ms)[i] = Text(ms[(i + 1) \div 2])[2 - (i % 2)]
  BY DEF AllText
<1>3. ASSUME NEW i \in 1 .. 2 * Len(ms)
      PROVE  Text(ms[(i + 1) \div 2])[2 - (i % 2)] \in Characters
  <2>1. ms[(i + 1) \div 2] \in AnyMessages
    BY <1>1
  <2>2. Text(ms[(i + 1) \div 2]) \in Seq(Characters) /\ Len(Text(ms[(i + 1) \div 2])) = 2
    BY <2>1, TextFacts
  <2>3. QED
    BY <2>2, <1>1
<1>4. AllText(ms) \in [1 .. 2 * Len(ms) -> Characters]
  BY <1>3 DEF AllText
<1>5. 2 * Len(ms) \in Nat
  OBVIOUS
<1>6. AllText(ms) \in Seq(Characters) /\ Len(AllText(ms)) = 2 * Len(ms)
  BY <1>4, <1>5, SequenceOf
<1>7. QED
  BY <1>1, <1>2, <1>6

(* What messages say grows with them.                                      *)
LEMMA AllTextAppend ==
  ASSUME NEW ms \in Seq(AnyMessages), NEW m \in AnyMessages
  PROVE  AllText(Append(ms, m)) = AllText(ms) \o Text(m)
<1>1. PICK n \in Nat : n = Len(ms)
  OBVIOUS
<1>2. Append(ms, m) \in Seq(AnyMessages) /\ Len(Append(ms, m)) = Len(ms) + 1 /\ Append(ms, m)[Len(ms) + 1] = m
      /\ \A i \in 1 .. Len(ms) : Append(ms, m)[i] = ms[i]
  OBVIOUS
<1>3. PICK more \in Seq(AnyMessages) : more = Append(ms, m)
  BY <1>2
<1>4. Len(more) = n + 1 /\ more[n + 1] = m /\ (\A i \in 1 .. n : more[i] = ms[i])
  BY <1>1, <1>2, <1>3
<1>5. PICK old \in Seq(Characters) : old = AllText(ms)
  BY AllTextFacts
<1>6. PICK new \in Seq(Characters) : new = AllText(more)
  BY AllTextFacts
<1>7. PICK text \in Seq(Characters) : text = Text(m)
  BY TextFacts
<1>8. Len(old) = 2 * n
  BY <1>1, <1>5, AllTextFacts
<1>9. Len(new) = 2 * (n + 1)
  BY <1>4, <1>6, AllTextFacts
<1>10. Len(text) = 2
  BY <1>7, TextFacts
<1>11. PICK joined \in Seq(Characters) : joined = old \o text
  BY JoinFacts
<1>12. /\ Len(joined) = 2 * n + 2
       /\ \A i \in 1 .. 2 * n : joined[i] = old[i]
       /\ \A i \in 1 .. 2 : joined[2 * n + i] = text[i]
  <2>1. Len(joined) = Len(old) + Len(text)
    BY <1>11, JoinFacts
  <2>2. \A i \in 1 .. Len(old) : joined[i] = old[i]
    BY <1>11, JoinFacts
  <2>3. \A i \in 1 .. Len(text) : joined[Len(old) + i] = text[i]
    BY <1>11, JoinFacts
  <2>4. QED
    BY <2>1, <2>2, <2>3, <1>8, <1>10
<1>13. \A i \in 1 .. 2 * n : (i + 1) \div 2 \in 1 .. n /\ old[i] = Text(ms[(i + 1) \div 2])[2 - (i % 2)]
  BY <1>1, <1>5, AllTextFacts
<1>14. \A i \in 1 .. 2 * (n + 1) : new[i] = Text(more[(i + 1) \div 2])[2 - (i % 2)]
  BY <1>4, <1>6, AllTextFacts
<1>15. ASSUME NEW i \in 1 .. Len(new)
       PROVE  new[i] = joined[i]
  <2>1. CASE i <= 2 * n
    <3>1. i \in 1 .. 2 * n
      BY <2>1, <1>9
    <3>2. PICK h \in 1 .. n : h = (i + 1) \div 2
      BY <3>1, <1>13
    <3>3. new[i] = Text(more[h])[2 - (i % 2)] /\ old[i] = Text(ms[h])[2 - (i % 2)] /\ more[h] = ms[h] /\ joined[i] = old[i]
      BY <3>1, <3>2, <1>4, <1>9, <1>12, <1>13, <1>14
    <3>4. QED
      BY <3>3
  <2>2. CASE i > 2 * n
    <3>1. PICK k \in 1 .. 2 : i = 2 * n + k
      <4>1. i = 2 * n + 1 \/ i = 2 * n + 2
        BY <2>2, <1>9
      <4>2. QED
        BY <4>1
    <3>2. (2 * n + k + 1) \div 2 = n + 1 /\ 2 - ((2 * n + k) % 2) = k
      <4>1. (2 * n + 1 + 1) \div 2 = n + 1 /\ 2 - ((2 * n + 1) % 2) = 1
        OBVIOUS
      <4>2. (2 * n + 2 + 1) \div 2 = n + 1 /\ 2 - ((2 * n + 2) % 2) = 2
        OBVIOUS
      <4>3. k = 1 \/ k = 2
        OBVIOUS
      <4>4. QED
        BY <4>1, <4>2, <4>3
    <3>3. new[i] = text[k]
      BY <3>1, <3>2, <1>4, <1>7, <1>9, <1>14
    <3>4. joined[i] = text[k]
      BY <3>1, <1>12
    <3>5. QED
      BY <3>3, <3>4
  <2>3. QED
    BY <2>1, <2>2, <1>9
<1>16. new = joined
  <2>1. Len(new) = Len(joined)
    BY <1>9, <1>12
  <2>2. QED
    BY <2>1, <1>15, SameSequence
<1>17. QED
  BY <1>3, <1>5, <1>6, <1>7, <1>11, <1>16

(***************************************************************************)
(* The writer.                                                             *)
(***************************************************************************)
(* What is known of the load.                                              *)
LEMMA LoadFacts ==
  ASSUME load \in Loads
  PROVE  /\ load.days \in Nat \ {0} /\ load.failures \in Nat /\ load.messages \in Nat
         /\ Days \subseteq Nat /\ 1 \in Days
<1>1. load \in [wide : SUBSET Nat, debug : SUBSET Nat, signals : BOOLEAN, days : Nat \ {0}, failures : Nat,
                messages : 0 .. MaxMessages, changes : Nat, rewrites : Nat]
  BY LogsAssumption
<1>2. load.days \in Nat \ {0} /\ load.failures \in Nat /\ load.messages \in Nat
  BY <1>1, LogsAssumption
<1>3. QED
  BY <1>2 DEF Days

(* A writer whose file is open when there is something to write.           *)
Ready(o) == o \in Writer /\ (o.open => o.day \in Days) /\ (~o.open => o.buffer = <<>>)

(* What loses no character without hurting it, and tears a file in which   *)
(* it writes one twice.                                                    *)
Carries(o, r) ==
  /\ o.torn \subseteq r.torn /\ o.hurt \subseteq r.hurt
  /\ \A d \in Days : /\ \A c : Contains(Held(o, d), c) => Contains(Held(r, d), c) \/ c \in r.hurt
                     /\ d \notin r.torn => Held(r, d) = Held(o, d)

(* The same, with the text of a message behind that of its day.            *)
Adds(o, r, m) ==
  /\ o.torn \subseteq r.torn /\ o.hurt \subseteq r.hurt
  /\ \A d \in Days : /\ \A c : Contains(Held(o, d), c) => Contains(Held(r, d), c) \/ c \in r.hurt
                     /\ d = m[2] => \A c : Contains(Text(m), c) => Contains(Held(r, d), c) \/ c \in r.hurt
                     /\ d \notin r.torn => Held(r, d) = IF d = m[2] THEN Held(o, d) \o Text(m) ELSE Held(o, d)

(* What the operations leave alone.                                        *)
SameRest(o, r) == r.level = o.level /\ r.other = o.other
SameHistory(o, r) == r.torn = o.torn /\ r.hurt = o.hurt

(* The fields of a writer.                                                 *)
LEMMA WriterFields ==
  ASSUME NEW o \in Writer
  PROVE  /\ o.buffer \in Seq(Characters) /\ o.open \in BOOLEAN /\ o.day \in Days \cup {0} /\ o.due \in BOOLEAN
         /\ o.level \in {0, 9} /\ o.files \in [Days -> Seq(Characters)] /\ o.other \in Seq(Nat) /\ o.failures \in Nat
         /\ o.torn \in SUBSET Days /\ o.hurt \in SUBSET Characters
  BY DEF Writer

(* What a writer holds of a day.                                           *)
LEMMA HeldFacts ==
  ASSUME NEW o \in Writer, NEW d \in Days
  PROVE  Held(o, d) \in Seq(Characters)
<1>1. o.buffer \in Seq(Characters) /\ o.files[d] \in Seq(Characters)
  BY WriterFields
<1>2. QED
  BY <1>1, JoinFacts DEF Held

(* write() to an open file.                                                *)
LEMMA WriteFacts ==
  ASSUME NEW o \in Writer, o.open, o.day \in Days, NEW text \in Seq(Characters)
  PROVE  LET r == Write(o, text)
         IN /\ r \in Writer /\ r.buffer = o.buffer /\ r.open = o.open /\ r.day = o.day /\ SameRest(o, r)
            /\ r.failures = o.failures /\ r.due = o.due /\ SameHistory(o, r)
            /\ r.files[o.day] = o.files[o.day] \o text
            /\ \A d \in Days \ {o.day} : r.files[d] = o.files[d]
<1>1. o.files[o.day] \o text \in Seq(Characters)
  BY WriterFields, JoinFacts
<1>2. PICK files \in [Days -> Seq(Characters)] : files = [o.files EXCEPT ![o.day] = @ \o text]
  BY <1>1, WriterFields
<1>3. files[o.day] = o.files[o.day] \o text /\ \A d \in Days \ {o.day} : files[d] = o.files[d]
  BY <1>2, WriterFields
<1>4. Write(o, text) = [o EXCEPT !.files = files]
  BY <1>2 DEF Write
<1>5. [o EXCEPT !.files = files] \in Writer
  BY DEF Writer
<1>6. QED
  BY <1>3, <1>4, <1>5 DEF SameRest, SameHistory, Writer

(* The same as one fact, about a writer with a name.                       *)
Wrote(o, r, text) ==
  /\ r.buffer = o.buffer /\ r.open = o.open /\ r.day = o.day /\ SameRest(o, r) /\ SameHistory(o, r)
  /\ r.files[o.day] = o.files[o.day] \o text
  /\ \A d \in Days \ {o.day} : r.files[d] = o.files[d]

LEMMA WroteFacts ==
  ASSUME NEW o \in Writer, o.open, o.day \in Days, NEW text \in Seq(Characters)
  PROVE  Write(o, text) \in Writer /\ Wrote(o, Write(o, text), text)
<1>1. PICK r : r = Write(o, text)
  OBVIOUS
<1>2. r \in Writer /\ r.buffer = o.buffer /\ r.open = o.open /\ r.day = o.day /\ SameRest(o, r) /\ SameHistory(o, r)
  BY <1>1, WriteFacts
<1>3. r.files[o.day] = o.files[o.day] \o text
  BY <1>1, WriteFacts
<1>4. \A d \in Days \ {o.day} : r.files[d] = o.files[d]
  BY <1>1, WriteFacts
<1>5. QED
  BY <1>1, <1>2, <1>3, <1>4, Zenon DEF Wrote

(* logFlushBuffer() that writes everything.                                *)
LEMMA FlushWholeFacts ==
  ASSUME load \in Loads, NEW o, Ready(o)
  PROVE  LET r == FlushWhole(o)
         IN /\ Ready(r) /\ r.buffer = <<>> /\ r.open = o.open /\ r.day = o.day /\ SameRest(o, r) /\ Carries(o, r) /\ SameHistory(o, r)
            /\ o.open => r.files[o.day] = o.files[o.day] \o o.buffer
            /\ \A d \in Days : o.open /\ d # o.day => r.files[d] = o.files[d]
<1>1. o \in Writer
  BY DEF Ready
<1>2. CASE o.buffer = <<>> \/ ~o.open
  <2>1. o.buffer = <<>>
    BY <1>2 DEF Ready
  <2>2. FlushWhole(o) = [o EXCEPT !.due = FALSE]
    BY <1>2 DEF FlushWhole
  <2>3. PICK r : r = FlushWhole(o)
    OBVIOUS
  <2>4. /\ r \in Writer /\ r.buffer = <<>> /\ r.open = o.open /\ r.day = o.day /\ r.level = o.level
        /\ r.other = o.other /\ r.files = o.files /\ r.torn = o.torn /\ r.hurt = o.hurt
    BY <1>1, <2>1, <2>2, <2>3 DEF Writer
  <2>5. \A d \in Days : Held(r, d) = Held(o, d)
    BY <2>1, <2>4 DEF Held
  <2>6. o.open => o.files[o.day] \o o.buffer = o.files[o.day]
    <3> SUFFICES ASSUME o.open PROVE o.files[o.day] \o <<>> = o.files[o.day]
      BY <2>1
    <3>1. o.files[o.day] \in Seq(Characters)
      BY <1>1, WriterFields DEF Ready
    <3>2. \A s \in Seq(Characters) : s \o <<>> = s
      OBVIOUS
    <3>3. QED
      BY <3>1, <3>2
  <2>7. QED
    BY <2>3, <2>4, <2>5, <2>6 DEF Ready, SameRest, SameHistory, Carries
<1>3. CASE o.buffer # <<>> /\ o.open
  <2>1. o.day \in Days /\ o.buffer \in Seq(Characters)
    BY <1>1, <1>3, WriterFields DEF Ready
  <2>2. PICK x \in Writer : x = Write(o, o.buffer)
    BY <1>1, <1>3, <2>1, WriteFacts
  <2>3. /\ x.open = o.open /\ x.day = o.day /\ x.level = o.level /\ x.other = o.other /\ SameHistory(o, x)
        /\ x.files[o.day] = o.files[o.day] \o o.buffer
        /\ \A d \in Days \ {o.day} : x.files[d] = o.files[d]
    <3>1. x.open = o.open /\ x.day = o.day /\ SameRest(o, x) /\ SameHistory(o, x)
      BY <1>1, <1>3, <2>1, <2>2, WriteFacts
    <3>2. x.files[o.day] = o.files[o.day] \o o.buffer
      BY <1>1, <1>3, <2>1, <2>2, WriteFacts
    <3>3. \A d \in Days \ {o.day} : x.files[d] = o.files[d]
      BY <1>1, <1>3, <2>1, <2>2, WriteFacts
    <3>4. QED
      BY <3>1, <3>2, <3>3 DEF SameRest
  <2>4. FlushWhole(o) = [x EXCEPT !.buffer = <<>>, !.due = FALSE]
    BY <1>3, <2>2 DEF FlushWhole
  <2>5. PICK r : r = FlushWhole(o)
    OBVIOUS
  <2>6. /\ r \in Writer /\ r.buffer = <<>> /\ r.open = x.open /\ r.day = x.day /\ r.level = x.level
        /\ r.other = x.other /\ r.files = x.files /\ r.torn = x.torn /\ r.hurt = x.hurt
    <3>1. PICK none \in Seq(Characters) : none = <<>>
      BY EmptySequence
    <3>2. PICK e : e = [x EXCEPT !.buffer = none]
      OBVIOUS
    <3>3. /\ e \in Writer /\ e.buffer = none /\ e.open = x.open /\ e.day = x.day /\ e.level = x.level
          /\ e.other = x.other /\ e.files = x.files /\ e.torn = x.torn /\ e.hurt = x.hurt
      BY <3>2 DEF Writer
    <3>4. r = [e EXCEPT !.due = FALSE]
      BY <2>4, <2>5, <3>1, <3>2
    <3>5. QED
      BY <3>1, <3>3, <3>4 DEF Writer
  <2>7. ASSUME NEW d \in Days
        PROVE  Held(r, d) = Held(o, d)
    <3>1. CASE d = o.day
      <4>1. r.files[d] \in Seq(Characters)
        BY <2>6, WriterFields
      <4>2. \A s \in Seq(Characters) : s \o <<>> = s
        OBVIOUS
      <4>3. Held(r, d) = r.files[d]
        BY <2>3, <2>6, <3>1, <4>1, <4>2 DEF Held
      <4>4. QED
        BY <2>3, <2>6, <3>1, <4>3 DEF Held
    <3>2. CASE d # o.day
      BY <2>3, <2>6, <3>2 DEF Held
    <3>3. QED
      BY <3>1, <3>2
  <2>8. QED
    BY <1>3, <2>1, <2>3, <2>5, <2>6, <2>7 DEF Ready, SameRest, SameHistory, Carries
<1>4. QED
  BY <1>2, <1>3

(* Message3, of which the text is in the buffer only: what is written      *)
(* already stays, and the buffer again goes with it when the day is over.  *)
LEMMA LogMessage3Facts ==
  ASSUME load \in Loads, today \in Days, NEW o \in Writer, o.open, o.day \in Days
  PROVE  LET r == LogMessage3(o)
         IN /\ r \in Writer /\ r.open /\ r.day \in Days /\ SameRest(o, r) /\ SameHistory(o, r)
            /\ \A d \in Days : \A c : Contains(o.files[d], c) => Contains(r.files[d], c)
            /\ \A d \in Days : o.day = today \/ d # o.day => r.files[d] = o.files[d]
<1>1. <<0, today>> \in AnyMessages
  BY LoadFacts DEF AnyMessages
<1>2. PICK text \in Seq(Characters) : text = Text(<<0, today>>)
  BY <1>1, TextFacts
<1>3. CASE o.day = today
  <2>1. LogMessage3(o) = [o EXCEPT !.buffer = @ \o text]
    BY <1>2, <1>3 DEF LogMessage3
  <2>2. o.buffer \o text \in Seq(Characters)
    BY WriterFields, JoinFacts
  <2>3. PICK buffer \in Seq(Characters) : buffer = o.buffer \o text
    BY <2>2
  <2>4. PICK r : r = LogMessage3(o)
    OBVIOUS
  <2>5. r = [o EXCEPT !.buffer = buffer]
    BY <2>1, <2>3, <2>4
  <2>6. /\ r \in Writer /\ r.open = o.open /\ r.day = o.day /\ r.files = o.files /\ r.level = o.level /\ r.other = o.other
        /\ r.torn = o.torn /\ r.hurt = o.hurt
    BY <2>5 DEF Writer
  <2>7. QED
    BY <1>3, <2>4, <2>6 DEF SameRest, SameHistory
<1>4. CASE o.day # today
  <2>1. Ready(o)
    BY DEF Ready
  <2>2. PICK x \in Writer : x = FlushWhole(o)
    BY <2>1, FlushWholeFacts DEF Ready
  <2>3. /\ x.buffer = <<>> /\ x.open /\ x.level = o.level /\ x.other = o.other /\ x.torn = o.torn /\ x.hurt = o.hurt
        /\ x.files[o.day] = o.files[o.day] \o o.buffer
        /\ \A d \in Days : d # o.day => x.files[d] = o.files[d]
    BY <2>1, <2>2, FlushWholeFacts DEF SameRest, SameHistory
  <2>4. PICK y : y = LogRecreateFile([x EXCEPT !.day = today])
    OBVIOUS
  <2>5. /\ y \in Writer /\ y.buffer = <<>> /\ y.open /\ y.day = today /\ y.level = x.level /\ y.other = x.other
        /\ y.files = x.files /\ y.torn = x.torn /\ y.hurt = x.hurt
    BY <2>3, <2>4 DEF Writer, LogRecreateFile
  <2>6. LogMessage3(o) = [y EXCEPT !.buffer = @ \o text]
    BY <1>2, <1>4, <2>2, <2>4 DEF LogMessage3
  <2>7. PICK buffer \in Seq(Characters) : buffer = y.buffer \o text
    BY <2>5, WriterFields, JoinFacts
  <2>8. PICK r : r = LogMessage3(o)
    OBVIOUS
  <2>9. r = [y EXCEPT !.buffer = buffer]
    BY <2>6, <2>7, <2>8
  <2>10. /\ r \in Writer /\ r.open = y.open /\ r.day = y.day /\ r.files = y.files /\ r.level = y.level
         /\ r.other = y.other /\ r.torn = y.torn /\ r.hurt = y.hurt
    BY <2>5, <2>9 DEF Writer
  <2>11. ASSUME NEW d \in Days, NEW c, Contains(o.files[d], c)
         PROVE  Contains(r.files[d], c)
    <3>1. CASE d = o.day
      <4>1. r.files[d] = o.files[d] \o o.buffer
        BY <2>3, <2>5, <2>10, <3>1
      <4>2. o.files[d] \in Seq(Characters) /\ o.buffer \in Seq(Characters)
        BY WriterFields
      <4>3. QED
        BY <2>11, <4>1, <4>2, ContainsOfBoth
    <3>2. CASE d # o.day
      BY <2>3, <2>5, <2>10, <2>11, <3>2
    <3>3. QED
      BY <3>1, <3>2
  <2>12. QED
    BY <1>4, <2>3, <2>5, <2>8, <2>10, <2>11 DEF SameRest, SameHistory
<1>5. QED
  BY <1>3, <1>4

(* Bytes are counted by natural numbers.                                   *)
LEMMA ByteCountFacts ==
  ASSUME NEW text \in Seq(Characters)
  PROVE  ByteCount(text) \in Nat
<1>1. Len(text) \in Nat /\ DOMAIN text = 1 .. Len(text)
  OBVIOUS
<1>2. PICK W : W = {i \in DOMAIN text : Bytes(text[i]) = 2}
  OBVIOUS
<1>3. W \subseteq 1 .. Len(text)
  BY <1>1, <1>2
<1>4. IsFiniteSet(W)
  <2>1. IsFiniteSet(1 .. Len(text))
    BY <1>1, FS_Interval
  <2>2. QED
    BY <1>3, <2>1, FS_Subset
<1>5. Cardinality(W) \in Nat
  BY <1>4, FS_CardinalityType
<1>6. ByteCount(text) = Len(text) + Cardinality(W)
  BY <1>2, Zenon DEF ByteCount
<1>7. QED
  BY <1>1, <1>5, <1>6

(* What is behind characters of the buffer, or behind more than it has.    *)
LEMMA BehindFacts ==
  ASSUME NEW o \in Writer, NEW n \in Nat
  PROVE  Behind(o, n) \in Seq(Characters)
<1>1. PICK buffer \in Seq(Characters) : buffer = o.buffer
  BY WriterFields
<1>2. CASE n <= Len(buffer)
  <2>1. n \in 0 .. Len(buffer)
    BY <1>2
  <2>2. SubSeq(buffer, n + 1, Len(buffer)) \in Seq(Characters)
    BY <2>1, PartFacts
  <2>3. QED
    BY <1>1, <2>2 DEF Behind
<1>3. CASE n > Len(buffer)
  <2>1. SubSeq(buffer, n + 1, Len(buffer)) = <<>>
    BY <1>3
  <2>2. QED
    BY <1>1, <2>1, EmptySequence DEF Behind
<1>4. QED
  <2>1. Len(buffer) \in Nat
    OBVIOUS
  <2>2. QED
    BY <2>1, <1>2, <1>3

(* Where the writes stop.                                                  *)
LEMMA StopsFacts ==
  ASSUME NEW o \in Writer, NEW s \in Stops(o)
  PROVE  /\ s.n \in 0 .. Len(o.buffer) /\ Left(o, s) \in Seq(Characters) /\ s.m \in 0 .. Len(Left(o, s))
         /\ Failed(o, s) \in Nat
<1>1. PICK buffer \in Seq(Characters) : buffer = o.buffer
  BY WriterFields
<1>2. s \in [n : 0 .. Len(buffer) - 1, more : {0, 1}, m : 0 .. Len(buffer)] /\ s.m <= Len(Left(o, s))
  BY <1>1 DEF Stops
<1>3. s.n \in 0 .. Len(buffer) - 1 /\ s.more \in {0, 1} /\ s.m \in 0 .. Len(buffer)
  BY <1>2
<1>4. s.n \in 0 .. Len(buffer) /\ s.m \in Nat
  BY <1>3
<1>5. PICK first \in Seq(Characters) : first = SubSeq(buffer, 1, s.n)
  BY <1>4, PartFacts
<1>6. WrittenCount(o, s) \in Nat
  <2>1. ByteCount(first) \in Nat
    BY ByteCountFacts
  <2>2. WrittenCount(o, s) = ByteCount(first) + s.more
    BY <1>1, <1>5, Zenon DEF WrittenCount
  <2>3. QED
    BY <2>1, <2>2, <1>3
<1>7. Left(o, s) \in Seq(Characters)
  BY <1>6, BehindFacts DEF Left
<1>8. s.m \in 0 .. Len(Left(o, s))
  <2>1. Len(Left(o, s)) \in Nat
    BY <1>7
  <2>2. QED
    BY <2>1, <1>2, <1>4
<1>9. Failed(o, s) \in Nat
  BY Zenon DEF Failed
<1>10. QED
  BY <1>1, <1>4, <1>7, <1>8, <1>9

(* A flush that writes a part of the buffer carries everything.            *)
LEMMA FlushPartialFacts ==
  ASSUME load \in Loads, today \in Days, NEW o \in Writer, o.open, o.day \in Days, NEW s \in Stops(o)
  PROVE  LET r == FlushPartial(o, s)
         IN Ready(r) /\ r.buffer = <<>> /\ r.open /\ SameRest(o, r) /\ Carries(o, r)
<1>1. PICK n : n = s.n
  OBVIOUS
<1>2. PICK whole \in Seq(Characters) : whole = o.buffer
  BY WriterFields
<1>3. n \in 0 .. Len(whole)
  BY <1>1, <1>2, StopsFacts
<1>4. PICK first \in Seq(Characters) : first = SubSeq(whole, 1, n)
  BY <1>3, PartFacts
<1>5. PICK rest \in Seq(Characters) : rest = SubSeq(whole, n + 1, Len(whole))
  BY <1>3, PartFacts
<1>6. first \o rest = whole
  BY <1>3, <1>4, <1>5, BothParts
<1>7. rest = Behind(o, n)
  BY <1>2, <1>5 DEF Behind
<1>8. PICK left \in Seq(Characters) : left = Left(o, s)
  BY StopsFacts
<1>9. PICK second \in Seq(Characters) : second = SubSeq(left, 1, s.m)
  <2>1. s.m \in 0 .. Len(left)
    BY <1>8, StopsFacts
  <2>2. QED
    BY <2>1, PartFacts
<1>10. PICK lossless \in BOOLEAN : lossless = (WrittenCount(o, s) = n /\ s.m = Len(left))
  OBVIOUS
<1>11. lossless => second = rest
  <2> SUFFICES ASSUME lossless PROVE second = rest
    OBVIOUS
  <2>1. left = rest
    BY <1>7, <1>8, <1>10 DEF Left
  <2>2. second = SubSeq(rest, 1, Len(rest))
    BY <1>9, <1>10, <2>1
  <2>3. SubSeq(rest, 1, Len(rest)) = rest
    OBVIOUS
  <2>4. QED
    BY <2>2, <2>3
<1>12. PICK x \in Writer : x = Write(o, first) /\ Wrote(o, x, first)
  BY WroteFacts, Zenon
<1>13. /\ x.open /\ x.day = o.day /\ x.level = o.level /\ x.other = o.other /\ x.torn = o.torn /\ x.hurt = o.hurt
       /\ x.files[o.day] = o.files[o.day] \o first
       /\ \A d \in Days \ {o.day} : x.files[d] = o.files[d]
  BY <1>12 DEF Wrote, SameRest, SameHistory
<1>14. PICK y : y = [x EXCEPT !.buffer = left]
  OBVIOUS
<1>15. /\ y \in Writer /\ y.buffer = left /\ y.day = o.day /\ y.level = o.level /\ y.other = o.other
       /\ y.files = x.files /\ y.torn = o.torn /\ y.hurt = o.hurt
  BY <1>13, <1>14 DEF Writer
<1>16. PICK again : again = LogRecreateFile(y)
  OBVIOUS
<1>17. /\ again \in Writer /\ again.buffer = left /\ again.open /\ again.day = o.day /\ again.level = o.level
       /\ again.other = o.other /\ again.files = x.files /\ again.torn = o.torn /\ again.hurt = o.hurt
  BY <1>15, <1>16 DEF Writer, LogRecreateFile
<1>18. again = LogRecreateFile([Write(o, SubSeq(o.buffer, 1, s.n)) EXCEPT !.buffer = Left(o, s)])
  BY <1>1, <1>2, <1>4, <1>8, <1>12, <1>14, <1>16
<1>19. PICK v \in Writer : v = Write(again, second) /\ Wrote(again, v, second)
  <2>1. again \in Writer /\ again.open /\ again.day \in Days
    BY <1>17
  <2>2. QED
    BY <2>1, WroteFacts, Zenon
<1>20. /\ v.open /\ v.day = o.day /\ v.level = o.level /\ v.other = o.other /\ v.torn = o.torn /\ v.hurt = o.hurt
       /\ v.files[o.day] = x.files[o.day] \o second
       /\ \A d \in Days \ {o.day} : v.files[d] = x.files[d]
  <2>1. /\ v.open = again.open /\ v.day = again.day /\ SameRest(again, v) /\ SameHistory(again, v)
        /\ v.files[again.day] = again.files[again.day] \o second
        /\ \A d \in Days \ {again.day} : v.files[d] = again.files[d]
    BY <1>19 DEF Wrote
  <2>2. QED
    BY <2>1, <1>17 DEF SameRest, SameHistory
<1>21. PICK q \in Writer : q = LogMessage3(v)
  BY <1>20, LogMessage3Facts
<1>22. /\ q.open /\ q.day \in Days /\ q.level = o.level /\ q.other = o.other /\ q.torn = o.torn /\ q.hurt = o.hurt
       /\ \A d \in Days : \A c : Contains(v.files[d], c) => Contains(q.files[d], c)
       /\ \A d \in Days : o.day = today \/ d # o.day => q.files[d] = v.files[d]
  <2>1. v \in Writer /\ v.open /\ v.day \in Days
    BY <1>20
  <2>2. q.open /\ q.day \in Days /\ SameRest(v, q) /\ SameHistory(v, q)
    BY <2>1, <1>20, <1>21, LogMessage3Facts
  <2>3. \A d \in Days : \A c : Contains(v.files[d], c) => Contains(q.files[d], c)
    BY <2>1, <1>21, LogMessage3Facts
  <2>4. \A d \in Days : v.day = today \/ d # v.day => q.files[d] = v.files[d]
    BY <2>1, <1>21, LogMessage3Facts
  <2>5. QED
    BY <2>2, <2>3, <2>4, <1>20 DEF SameRest, SameHistory
<1>23. PICK torn \in SUBSET Days : torn = IF lossless /\ o.day = today THEN q.torn ELSE q.torn \cup {o.day}
  BY WriterFields
<1>24. PICK hurt \in SUBSET Characters : hurt = IF lossless THEN q.hurt ELSE q.hurt \cup Range(rest)
  <2>1. Range(rest) \subseteq Characters
    BY DEF Range
  <2>2. QED
    BY <2>1, WriterFields
<1>25. PICK r : /\ r \in Writer /\ r.buffer = <<>> /\ r.open = q.open /\ r.day = q.day /\ r.level = q.level
                /\ r.other = q.other /\ r.files = q.files /\ r.torn = torn /\ r.hurt = hurt
                /\ r = FlushPartial(o, s)
  <2>1. PICK none \in Seq(Characters) : none = <<>>
    BY EmptySequence
  <2>2. PICK failures \in Nat : failures = q.failures + Failed(o, s)
    <3>1. q.failures \in Nat /\ Failed(o, s) \in Nat
      BY WriterFields, StopsFacts
    <3>2. QED
      BY <3>1
  <2>3. PICK a : a = [q EXCEPT !.buffer = none]
    OBVIOUS
  <2>4. PICK b : b = [a EXCEPT !.due = FALSE]
    OBVIOUS
  <2>5. PICK c : c = [b EXCEPT !.failures = failures]
    OBVIOUS
  <2>6. PICK e : e = [c EXCEPT !.torn = torn]
    OBVIOUS
  <2>7. PICK r : r = [e EXCEPT !.hurt = hurt]
    OBVIOUS
  <2>8. /\ a \in Writer /\ a.buffer = none /\ a.open = q.open /\ a.day = q.day /\ a.level = q.level
        /\ a.other = q.other /\ a.files = q.files /\ a.torn = q.torn /\ a.hurt = q.hurt /\ a.failures = q.failures
    BY <2>3 DEF Writer
  <2>9. /\ b \in Writer /\ b.buffer = none /\ b.open = q.open /\ b.day = q.day /\ b.level = q.level
        /\ b.other = q.other /\ b.files = q.files /\ b.torn = q.torn /\ b.hurt = q.hurt /\ b.failures = q.failures
    BY <2>4, <2>8 DEF Writer
  <2>10. /\ c \in Writer /\ c.buffer = none /\ c.open = q.open /\ c.day = q.day /\ c.level = q.level
         /\ c.other = q.other /\ c.files = q.files /\ c.torn = q.torn /\ c.hurt = q.hurt
    BY <2>5, <2>9 DEF Writer
  <2>11. /\ e \in Writer /\ e.buffer = none /\ e.open = q.open /\ e.day = q.day /\ e.level = q.level
         /\ e.other = q.other /\ e.files = q.files /\ e.torn = torn /\ e.hurt = q.hurt
    BY <2>6, <2>10 DEF Writer
  <2>12. /\ r \in Writer /\ r.buffer = none /\ r.open = q.open /\ r.day = q.day /\ r.level = q.level
         /\ r.other = q.other /\ r.files = q.files /\ r.torn = torn /\ r.hurt = hurt
    BY <2>7, <2>11 DEF Writer
  <2>13. r = [q EXCEPT !.buffer = none, !.due = FALSE, !.failures = failures, !.torn = torn, !.hurt = hurt]
    BY <2>3, <2>4, <2>5, <2>6, <2>7
  <2>14. q = LogMessage3(Write(again, SubSeq(again.buffer, 1, s.m)))
    BY <1>9, <1>17, <1>19, <1>21
  <2>15. FlushPartial(o, s) =
           [q EXCEPT !.buffer = <<>>, !.due = FALSE, !.failures = @ + Failed(o, s),
              !.torn = IF lossless /\ o.day = today THEN @ ELSE @ \cup {o.day},
              !.hurt = IF lossless THEN @ ELSE @ \cup Range(rest)]
    BY <2>14, <1>1, <1>7, <1>8, <1>10, <1>18, Zenon DEF FlushPartial
  <2>16. r = FlushPartial(o, s)
    BY <2>1, <2>2, <2>13, <2>15, <1>23, <1>24
  <2>17. QED
    BY <2>1, <2>12, <2>16
<1>26. PICK before \in Seq(Characters) : before = o.files[o.day]
  BY WriterFields
<1>27. v.files[o.day] = (before \o first) \o second
  BY <1>13, <1>20, <1>26
<1>28. lossless => v.files[o.day] = before \o whole
  <2>1. (before \o first) \o rest = before \o (first \o rest)
    BY CharactersTogether
  <2>2. QED
    BY <2>1, <1>6, <1>11, <1>27
<1>29. ASSUME NEW c, Contains(before \o whole, c)
       PROVE  Contains(v.files[o.day], c) \/ c \in hurt
  <2>1. CASE lossless
    BY <2>1, <1>28, <1>29
  <2>2. CASE ~lossless
    <3>1. Contains(before, c) \/ Contains(whole, c)
      BY <1>29, ContainsOfBoth
    <3>2. Contains(whole, c) => Contains(first, c) \/ Contains(rest, c)
      BY <1>6, ContainsOfBoth
    <3>3. Contains(rest, c) => c \in hurt
      <4>1. DOMAIN rest = 1 .. Len(rest)
        OBVIOUS
      <4>2. Contains(rest, c) => c \in Range(rest)
        BY <4>1 DEF Contains, Range
      <4>3. QED
        BY <4>2, <2>2, <1>24
    <3>4. PICK some \in Seq(Characters) : some = before \o first
      BY JoinFacts
    <3>5. Contains(before, c) \/ Contains(first, c) => Contains(some, c)
      BY <3>4, ContainsOfBoth
    <3>6. Contains(some, c) => Contains(v.files[o.day], c)
      BY <3>4, <1>27, ContainsOfBoth
    <3>7. QED
      BY <3>1, <3>2, <3>3, <3>5, <3>6
  <2>3. QED
    BY <2>1, <2>2
<1>30. \A d \in Days : Held(r, d) = q.files[d]
  <2>1. \A d \in Days : q.files[d] \in Seq(Characters)
    BY WriterFields
  <2>2. \A d \in Days : q.files[d] \o <<>> = q.files[d]
    BY <2>1, JoinEmpty
  <2>3. QED
    BY <2>2, <1>25 DEF Held
<1>31. Held(o, o.day) = before \o whole /\ \A d \in Days : d # o.day => Held(o, d) = v.files[d]
  BY <1>2, <1>13, <1>20, <1>26 DEF Held
<1>32. \A d \in Days : \A c : Contains(Held(o, d), c) => Contains(Held(r, d), c) \/ c \in hurt
  <2> TAKE d \in Days
  <2>1. CASE d = o.day
    BY <2>1, <1>22, <1>29, <1>30, <1>31
  <2>2. CASE d # o.day
    BY <2>2, <1>22, <1>30, <1>31
  <2>3. QED
    BY <2>1, <2>2
<1>33. \A d \in Days : d \notin torn => Held(r, d) = Held(o, d)
  <2> TAKE d \in Days
  <2>1. CASE d = o.day
    <3> SUFFICES ASSUME d \notin torn PROVE Held(r, d) = Held(o, d)
      OBVIOUS
    <3>1. lossless /\ o.day = today
      BY <2>1, <1>23
    <3>2. QED
      BY <2>1, <3>1, <1>22, <1>28, <1>30, <1>31
  <2>2. CASE d # o.day
    <3>1. q.files[d] = v.files[d]
      BY <2>2, <1>22
    <3>2. QED
      BY <2>2, <3>1, <1>30, <1>31
  <2>3. QED
    BY <2>1, <2>2
<1>34. o.torn \subseteq torn /\ o.hurt \subseteq hurt
  BY <1>22, <1>23, <1>24
<1>35. Carries(o, r)
  BY <1>25, <1>32, <1>33, <1>34 DEF Carries
<1>36. Ready(r) /\ r.buffer = <<>> /\ r.open /\ SameRest(o, r)
  BY <1>22, <1>25 DEF Ready, SameRest
<1>37. QED
  BY <1>25, <1>35, <1>36

(* logFlushBuffer(), whatever write() takes.                               *)
LEMMA LogFlushBufferFacts ==
  ASSUME load \in Loads, today \in Days, NEW o, Ready(o), NEW r \in LogFlushBuffer(o)
  PROVE  Ready(r) /\ r.buffer = <<>> /\ r.open = o.open /\ SameRest(o, r) /\ Carries(o, r)
<1>1. CASE r = FlushWhole(o)
  BY <1>1, FlushWholeFacts
<1>2. CASE o.open /\ \E s \in Stops(o) : r = FlushPartial(o, s)
  <2>1. PICK s \in Stops(o) : r = FlushPartial(o, s)
    BY <1>2
  <2>2. o \in Writer /\ o.day \in Days
    BY <1>2 DEF Ready
  <2>3. Ready(r) /\ r.buffer = <<>> /\ r.open /\ SameRest(o, r) /\ Carries(o, r)
    BY <1>2, <2>1, <2>2, FlushPartialFacts
  <2>4. r.open \in BOOLEAN /\ o.open \in BOOLEAN
    BY <2>2, <2>3, WriterFields DEF Ready
  <2>5. QED
    BY <1>2, <2>3, <2>4
<1>3. QED
  BY <1>1, <1>2 DEF LogFlushBuffer

(* logCheckAndFlushBuffer() *)
LEMMA LogCheckAndFlushBufferFacts ==
  ASSUME load \in Loads, today \in Days, NEW o, Ready(o), NEW r \in LogCheckAndFlushBuffer(o)
  PROVE  Ready(r) /\ r.open = o.open /\ SameRest(o, r) /\ Carries(o, r)
<1>1. CASE r = o
  BY <1>1 DEF SameRest, Carries
<1>2. CASE r \in LogFlushBuffer(o)
  BY <1>2, LogFlushBufferFacts
<1>3. QED
  BY <1>1, <1>2 DEF LogCheckAndFlushBuffer

(* Carrying once and again.                                                *)
LEMMA CarriesAgain ==
  ASSUME NEW o, NEW x, NEW r, Carries(o, x), Carries(x, r)
  PROVE  Carries(o, r)
  BY DEF Carries

(* Adding a message, and carrying what was added.                          *)
LEMMA AddsAndCarries ==
  ASSUME NEW o, NEW x, NEW r, NEW m, Adds(o, x, m), Carries(x, r)
  PROVE  Adds(o, r, m)
<1>1. o.torn \subseteq x.torn /\ x.torn \subseteq r.torn /\ o.hurt \subseteq x.hurt /\ x.hurt \subseteq r.hurt
  BY DEF Adds, Carries
<1>2. \A d \in Days : \A c : Contains(Held(o, d), c) => Contains(Held(r, d), c) \/ c \in r.hurt
  BY <1>1 DEF Adds, Carries
<1>3. \A d \in Days : \A c : d = m[2] /\ Contains(Text(m), c) => Contains(Held(r, d), c) \/ c \in r.hurt
  BY <1>1 DEF Adds, Carries
<1>4. ASSUME NEW d \in Days, d \notin r.torn
      PROVE  Held(r, d) = Held(x, d) /\ Held(x, d) = IF d = m[2] THEN Held(o, d) \o Text(m) ELSE Held(o, d)
  <2>1. d \notin x.torn
    BY <1>1, <1>4
  <2>2. Held(r, d) = Held(x, d)
    BY <1>4 DEF Carries
  <2>3. Held(x, d) = IF d = m[2] THEN Held(o, d) \o Text(m) ELSE Held(o, d)
    BY <2>1 DEF Adds
  <2>4. QED
    BY <2>2, <2>3
<1>5. QED
  BY <1>1, <1>2, <1>3, <1>4 DEF Adds

(* Carrying everything, and adding a message.                              *)
LEMMA CarriesAndAdds ==
  ASSUME NEW o, NEW x, NEW r, NEW m, Carries(o, x), Adds(x, r, m)
  PROVE  Adds(o, r, m)
<1>1. o.torn \subseteq x.torn /\ x.torn \subseteq r.torn /\ o.hurt \subseteq x.hurt /\ x.hurt \subseteq r.hurt
  BY DEF Adds, Carries
<1>2. \A d \in Days : \A c : Contains(Held(o, d), c) => Contains(Held(r, d), c) \/ c \in r.hurt
  BY <1>1 DEF Adds, Carries
<1>3. \A d \in Days : \A c : d = m[2] /\ Contains(Text(m), c) => Contains(Held(r, d), c) \/ c \in r.hurt
  BY DEF Adds
<1>4. ASSUME NEW d \in Days, d \notin r.torn
      PROVE  Held(x, d) = Held(o, d) /\ Held(r, d) = IF d = m[2] THEN Held(x, d) \o Text(m) ELSE Held(x, d)
  <2>1. d \notin x.torn
    BY <1>1, <1>4
  <2>2. Held(x, d) = Held(o, d)
    BY <2>1 DEF Carries
  <2>3. Held(r, d) = IF d = m[2] THEN Held(x, d) \o Text(m) ELSE Held(x, d)
    BY <1>4 DEF Adds
  <2>4. QED
    BY <2>2, <2>3
<1>5. QED
  BY <1>1, <1>2, <1>3, <1>4 DEF Adds

(* The file of another day, with nothing in the buffer, and a text behind. *)
LEMMA OfNewDay ==
  ASSUME NEW o \in Writer, o.buffer = <<>>, NEW day \in Days
  PROVE  LET r == LogRecreateFile([o EXCEPT !.day = day])
         IN /\ r \in Writer /\ r.buffer = <<>> /\ r.open /\ r.day = day /\ SameRest(o, r) /\ Carries(o, r)
<1>1. PICK x : x = [o EXCEPT !.day = day]
  OBVIOUS
<1>2. /\ x \in Writer /\ x.buffer = <<>> /\ x.day = day /\ x.level = o.level /\ x.other = o.other
      /\ x.files = o.files /\ x.torn = o.torn /\ x.hurt = o.hurt
  BY <1>1 DEF Writer
<1>3. PICK r : r = LogRecreateFile(x)
  OBVIOUS
<1>4. /\ r \in Writer /\ r.buffer = <<>> /\ r.open /\ r.day = day /\ r.level = o.level /\ r.other = o.other
      /\ r.files = o.files /\ r.torn = o.torn /\ r.hurt = o.hurt
  BY <1>2, <1>3 DEF Writer, LogRecreateFile
<1>5. ASSUME NEW d \in Days
      PROVE  Held(r, d) = Held(o, d)
  <2>1. o.files[d] \in Seq(Characters)
    BY WriterFields
  <2>2. o.files[d] \o <<>> = o.files[d]
    BY <2>1, JoinEmpty
  <2>3. Held(r, d) = o.files[d] /\ Held(o, d) = o.files[d]
    BY <2>2, <1>4 DEF Held
  <2>4. QED
    BY <2>3
<1>6. QED
  BY <1>1, <1>3, <1>4, <1>5 DEF SameRest, Carries

(* A message goes into the buffer of its own day.                          *)
LEMMA BufferFacts ==
  ASSUME NEW o \in Writer, o.open, NEW m \in Messages, o.day = m[2]
  PROVE  LET r == [o EXCEPT !.buffer = @ \o Text(m)]
         IN r \in Writer /\ r.open /\ r.day = m[2] /\ SameRest(o, r) /\ Adds(o, r, m)
<1>1. m \in AnyMessages /\ m[2] \in Days
  <2>1. Days \subseteq Nat
    BY DEF Days
  <2>2. QED
    BY <2>1 DEF Messages, AnyMessages
<1>2. PICK text \in Seq(Characters) : text = Text(m)
  BY <1>1, TextFacts
<1>3. PICK old \in Seq(Characters) : old = o.buffer
  BY WriterFields
<1>4. PICK buffer \in Seq(Characters) : buffer = old \o text
  BY JoinFacts
<1>5. PICK r : r = [o EXCEPT !.buffer = buffer]
  OBVIOUS
<1>6. /\ r \in Writer /\ r.buffer = buffer /\ r.open = o.open /\ r.day = o.day /\ r.level = o.level /\ r.other = o.other
      /\ r.files = o.files /\ r.torn = o.torn /\ r.hurt = o.hurt
  BY <1>5 DEF Writer
<1>7. r = [o EXCEPT !.buffer = @ \o Text(m)]
  BY <1>2, <1>3, <1>4, <1>5
<1>8. \A d \in Days \ {m[2]} : Held(r, d) = Held(o, d)
  BY <1>6 DEF Held
<1>9. Held(r, m[2]) = Held(o, m[2]) \o text
  <2>1. PICK before \in Seq(Characters) : before = o.files[m[2]]
    BY <1>1, WriterFields
  <2>2. (before \o old) \o text = before \o buffer
    BY <1>4, Together
  <2>3. Held(o, m[2]) = before \o old /\ Held(r, m[2]) = before \o buffer
    BY <2>1, <1>3, <1>6 DEF Held
  <2>4. QED
    BY <2>2, <2>3
<1>10. PICK held \in Seq(Characters) : held = Held(o, m[2])
  BY <1>1, HeldFacts
<1>11. \A c : Contains(held \o text, c) <=> Contains(held, c) \/ Contains(text, c)
  BY ContainsOfBoth
<1>12. Adds(o, r, m)
  BY <1>2, <1>6, <1>8, <1>9, <1>10, <1>11 DEF Adds
<1>13. QED
  BY <1>6, <1>7, <1>12 DEF SameRest

(* doMessageLog(): nothing, or the message is added.                       *)
LEMMA DoMessageLogFacts ==
  ASSUME load \in Loads, today \in Days, NEW o, Ready(o), o.open \/ o.day = 0, NEW m \in Messages,
         NEW r \in DoMessageLog(o, m)
  PROVE  /\ Ready(r) /\ SameRest(o, r)
         /\ Level(m) > o.level => r = o
         /\ ~(Level(m) > o.level) => r.open /\ Adds(o, r, m)
<1>1. CASE Level(m) > o.level
  BY <1>1 DEF DoMessageLog, SameRest
<1>2. CASE ~(Level(m) > o.level)
  <2>1. m[2] \in Days /\ o \in Writer
    BY DEF Messages, Ready
  <2>2. PICK x : /\ r = [x EXCEPT !.buffer = @ \o Text(m)]
                 /\ x \in IF o.day = m[2] THEN {o} ELSE {LogRecreateFile([f EXCEPT !.day = m[2]]) : f \in LogFlushBuffer(o)}
    BY <1>2 DEF DoMessageLog
  <2>3. x \in Writer /\ x.open /\ x.day = m[2] /\ SameRest(o, x) /\ Carries(o, x)
    <3>1. CASE o.day = m[2]
      <4>1. o.day # 0
        BY <2>1, <3>1 DEF Days
      <4>2. QED
        BY <2>1, <2>2, <3>1, <4>1 DEF Carries, SameRest
    <3>2. CASE o.day # m[2]
      <4>1. PICK f \in LogFlushBuffer(o) : x = LogRecreateFile([f EXCEPT !.day = m[2]])
        BY <2>2, <3>2
      <4>2. f \in Writer /\ f.buffer = <<>> /\ SameRest(o, f) /\ Carries(o, f)
        BY LogFlushBufferFacts DEF Ready
      <4>3. x \in Writer /\ x.open /\ x.day = m[2] /\ SameRest(f, x) /\ Carries(f, x)
        BY <2>1, <4>1, <4>2, OfNewDay
      <4>4. QED
        BY <4>2, <4>3, CarriesAgain DEF SameRest
    <3>3. QED
      BY <3>1, <3>2
  <2>4. r \in Writer /\ r.open /\ r.day = m[2] /\ SameRest(x, r) /\ Adds(x, r, m)
    BY <2>2, <2>3, BufferFacts
  <2>5. Adds(o, r, m)
    BY <2>3, <2>4, CarriesAndAdds
  <2>6. QED
    BY <1>2, <2>1, <2>3, <2>4, <2>5 DEF Ready, SameRest
<1>3. QED
  BY <1>1, <1>2

(***************************************************************************)
(* The parts of the invariant, for what a step may do to each.             *)
(***************************************************************************)
(* The levels.                                                             *)
LEMMA LevelsKept ==
  ASSUME LevelsOK, load' = load, queue' = queue, w'.level = w.level, asked'.level = asked.level
  PROVE  LevelsOK'
  BY DEF LevelsOK, LevelAt, Level

(* At a place of the queue that was there the level is the same.           *)
LEMMA LevelAtAppend ==
  ASSUME LogsTypeOK, NEW message \in Posted, queue' = Append(queue, message), w'.level = w.level,
         NEW i \in 1 .. Len(queue) + 1, NEW level, LevelAt(i, level)
  PROVE  LevelAt(i, level)'
<1>1. /\ Len(queue) \in Nat
      /\ \A k \in 1 .. Len(queue) : queue'[k] = queue[k]
  BY AppendFacts DEF LogsTypeOK
<1>2. \A k \in 1 .. i - 1 : queue'[k] = queue[k]
  BY <1>1
<1>3. CASE /\ w.level = level
           /\ \A k \in 1 .. i - 1 : queue[k].kind # "level"
  BY <1>2, <1>3 DEF LevelAt
<1>4. CASE \E j \in 1 .. i - 1 : /\ queue[j].kind = "level" /\ queue[j].level = level
                                /\ \A k \in j + 1 .. i - 1 : queue[k].kind # "level"
  <2>1. PICK j \in 1 .. i - 1 : /\ queue[j].kind = "level" /\ queue[j].level = level
                                /\ \A k \in j + 1 .. i - 1 : queue[k].kind # "level"
    BY <1>4
  <2>2. \A k \in j + 1 .. i - 1 : k \in 1 .. i - 1
    OBVIOUS
  <2>3. QED
    BY <1>2, <2>1, <2>2 DEF LevelAt
<1>5. QED
  BY <1>3, <1>4 DEF LevelAt

(* A message posted keeps the levels right.                                *)
LEMMA LevelsAppend ==
  ASSUME LogsTypeOK, LevelsOK, NEW message \in Posted, queue' = Append(queue, message), load' = load,
         w'.level = w.level,
         message.kind = "level" => asked'.level = message.level,
         message.kind # "level" => asked'.level = asked.level,
         message.kind = "log" => message.kept = (Level(message.message) <= asked.level)
  PROVE  LevelsOK'
<1>1. /\ Len(queue) \in Nat /\ Len(queue') = Len(queue) + 1 /\ queue'[Len(queue) + 1] = message
      /\ DOMAIN queue = 1 .. Len(queue) /\ DOMAIN queue' = 1 .. Len(queue) + 1
      /\ \A k \in 1 .. Len(queue) : queue'[k] = queue[k]
  BY AppendFacts DEF LogsTypeOK
<1>3. PICK level \in {0, 9} : level = asked.level
  BY DEF LogsTypeOK
<1>4. LevelAt(Len(queue) + 1, level)
  BY <1>3 DEF LevelsOK
<1>5. PICK n \in Nat : n = Len(queue)
  BY <1>1
<1>6. /\ w'.level = level /\ \A k \in 1 .. n : queue'[k].kind # "level"
      \/ \E j \in 1 .. n : /\ queue'[j].kind = "level" /\ queue'[j].level = level
                           /\ \A k \in j + 1 .. n : queue'[k].kind # "level"
  <2>1. n + 1 - 1 = n
    OBVIOUS
  <2>2. \/ w.level = level /\ \A k \in 1 .. n : queue[k].kind # "level"
        \/ \E j \in 1 .. n : /\ queue[j].kind = "level" /\ queue[j].level = level
                             /\ \A k \in j + 1 .. n : queue[k].kind # "level"
    BY <1>4, <1>5, <2>1 DEF LevelAt
  <2>3. \A j \in 1 .. n : \A k \in j + 1 .. n : k \in 1 .. n
    OBVIOUS
  <2>4. QED
    BY <1>1, <1>5, <2>2, <2>3
<1>7. LevelAt(Len(queue) + 1, asked.level)'
  <2>1. Len(queue') + 1 - 1 = n + 1
    BY <1>1, <1>5
  <2>2. CASE message.kind = "level"
    <3>1. queue'[n + 1].kind = "level" /\ queue'[n + 1].level = asked'.level
      BY <1>1, <1>5, <2>2
    <3>2. \A k \in n + 1 + 1 .. n + 1 : queue'[k].kind # "level"
      OBVIOUS
    <3>3. QED
      BY <2>1, <3>1, <3>2 DEF LevelAt
  <2>3. CASE message.kind # "level"
    <3>1. asked'.level = level
      BY <1>3, <2>3
    <3>2. queue'[n + 1].kind # "level"
      BY <1>1, <1>5, <2>3
    <3>3. \A j \in 0 .. n : \A k \in j + 1 .. n + 1 : k \in j + 1 .. n \/ k = n + 1
      OBVIOUS
    <3> DEFINE Silent(from, to) == \A k \in from .. to : queue'[k].kind # "level"
    <3>6. \A j \in 0 .. n : Silent(j + 1, n) => Silent(j + 1, n + 1)
      BY <3>2, <3>3
    <3>7. Silent(1, n) => Silent(1, n + 1)
      <4>1. 0 \in 0 .. n /\ 0 + 1 = 1
        OBVIOUS
      <4>2. QED
        BY <4>1, <3>6
    <3>4. \/ w'.level = level /\ \A k \in 1 .. n + 1 : queue'[k].kind # "level"
          \/ \E j \in 1 .. n + 1 : /\ queue'[j].kind = "level" /\ queue'[j].level = level
                                   /\ \A k \in j + 1 .. n + 1 : queue'[k].kind # "level"
      <4>1. CASE w'.level = level /\ \A k \in 1 .. n : queue'[k].kind # "level"
        BY <4>1, <3>7
      <4>2. CASE \E j \in 1 .. n : /\ queue'[j].kind = "level" /\ queue'[j].level = level
                                   /\ \A k \in j + 1 .. n : queue'[k].kind # "level"
        <5>1. PICK j \in 1 .. n : /\ queue'[j].kind = "level" /\ queue'[j].level = level
                                  /\ \A k \in j + 1 .. n : queue'[k].kind # "level"
          BY <4>2
        <5>2. j \in 1 .. n + 1 /\ \A k \in j + 1 .. n + 1 : queue'[k].kind # "level"
          <6>1. j \in 0 .. n /\ j \in 1 .. n + 1
            OBVIOUS
          <6>2. QED
            BY <5>1, <6>1, <3>6
        <5>3. QED
          BY <5>1, <5>2
      <4>3. QED
        BY <1>6, <4>1, <4>2
    <3>5. QED
      BY <2>1, <3>1, <3>4 DEF LevelAt
  <2>4. QED
    BY <2>2, <2>3
<1>8. ASSUME NEW i \in DOMAIN queue', queue'[i].kind = "log"
      PROVE  \E lv \in {0, 9} : LevelAt(i, lv)' /\ queue'[i].kept = (Level(queue'[i].message) <= lv)
  <2>1. CASE i \in 1 .. Len(queue)
    <3>1. queue'[i] = queue[i] /\ queue[i].kind = "log" /\ i \in DOMAIN queue /\ i \in 1 .. Len(queue) + 1
      BY <1>1, <1>8, <2>1
    <3>2. PICK lv \in {0, 9} : LevelAt(i, lv) /\ queue[i].kept = (Level(queue[i].message) <= lv)
      BY <3>1 DEF LevelsOK
    <3>3. LevelAt(i, lv)'
      BY <3>1, <3>2, LevelAtAppend
    <3>4. QED
      BY <3>1, <3>2, <3>3
  <2>2. CASE i = Len(queue) + 1
    <3>1. queue'[i] = message /\ message.kind = "log" /\ i \in 1 .. Len(queue) + 1
      BY <1>1, <1>8, <2>2
    <3>2. LevelAt(i, level)'
      BY <1>4, <2>2, <3>1, LevelAtAppend
    <3>3. QED
      BY <1>3, <3>1, <3>2
  <2>3. QED
    BY <1>1, <1>8, <2>1, <2>2
<1>9. \A m : Level(m)' = Level(m)
  BY DEF Level
<1>10. QED
  BY <1>7, <1>8, <1>9 DEF LevelsOK

(* When the first message is taken, each place moves to the one before it. *)
LEMMA LevelAtTail ==
  ASSUME LogsTypeOK, queue # <<>>, queue' = Tail(queue),
         Head(queue).kind = "level" => w'.level = Head(queue).level,
         Head(queue).kind # "level" => w'.level = w.level,
         NEW i \in 1 .. Len(queue), NEW level, LevelAt(i + 1, level)
  PROVE  LevelAt(i, level)'
<1>1. /\ Head(queue) = queue[1] /\ Len(queue) \in Nat
      /\ \A k \in 1 .. Len(queue) - 1 : queue'[k] = queue[k + 1]
  BY TailFacts DEF LogsTypeOK
<1>2. i + 1 - 1 = i
  OBVIOUS
<1>3. ASSUME NEW j \in 0 .. i, \A k \in j + 1 .. i : queue[k].kind # "level"
      PROVE  \A k \in j .. i - 1 : k # 0 => queue'[k].kind # "level"
  <2> SUFFICES ASSUME NEW k \in j .. i - 1, k # 0
               PROVE  queue'[k].kind # "level"
    OBVIOUS
  <2>1. k \in 1 .. Len(queue) - 1 /\ k + 1 \in j + 1 .. i
    BY <1>1
  <2>2. QED
    BY <1>1, <1>3, <2>1
<1>4. CASE w.level = level /\ \A k \in 1 .. i : queue[k].kind # "level"
  <2>1. Head(queue).kind # "level"
    BY <1>1, <1>4
  <2>2. 0 \in 0 .. i /\ 0 + 1 = 1
    OBVIOUS
  <2>3. \A k \in 0 .. i - 1 : k # 0 => queue'[k].kind # "level"
    BY <1>3, <1>4, <2>2
  <2>4. \A k \in 1 .. i - 1 : queue'[k].kind # "level"
    BY <2>3
  <2>5. QED
    BY <1>4, <2>1, <2>4 DEF LevelAt
<1>5. CASE \E j \in 1 .. i : /\ queue[j].kind = "level" /\ queue[j].level = level
                             /\ \A k \in j + 1 .. i : queue[k].kind # "level"
  <2>1. PICK j \in 1 .. i : /\ queue[j].kind = "level" /\ queue[j].level = level
                            /\ \A k \in j + 1 .. i : queue[k].kind # "level"
    BY <1>5
  <2>2. j \in 0 .. i
    OBVIOUS
  <2>3. \A k \in j .. i - 1 : queue'[k].kind # "level"
    <3>1. \A k \in j .. i - 1 : k # 0 => queue'[k].kind # "level"
      BY <1>3, <2>1, <2>2
    <3>2. QED
      BY <3>1
  <2>4. CASE j = 1
    BY <1>1, <2>1, <2>3, <2>4 DEF LevelAt
  <2>5. CASE j # 1
    <3>1. PICK h \in 1 .. i - 1 : h + 1 = j
      <4>1. j - 1 \in 1 .. i - 1 /\ (j - 1) + 1 = j
        BY <2>5
      <4>2. QED
        BY <4>1
    <3>2. h \in 1 .. Len(queue) - 1
      BY <1>1
    <3>3. queue'[h].kind = "level" /\ queue'[h].level = level
      BY <1>1, <2>1, <3>1, <3>2
    <3>4. QED
      BY <2>3, <3>1, <3>3 DEF LevelAt
  <2>6. QED
    BY <2>4, <2>5
<1>6. \/ w.level = level /\ \A k \in 1 .. i : queue[k].kind # "level"
      \/ \E j \in 1 .. i : /\ queue[j].kind = "level" /\ queue[j].level = level
                           /\ \A k \in j + 1 .. i : queue[k].kind # "level"
  <2>1. PICK before : before = i + 1 - 1
    OBVIOUS
  <2>2. \/ w.level = level /\ \A k \in 1 .. before : queue[k].kind # "level"
        \/ \E j \in 1 .. before : /\ queue[j].kind = "level" /\ queue[j].level = level
                                  /\ \A k \in j + 1 .. before : queue[k].kind # "level"
    BY <2>1, SMT DEF LevelAt
  <2>3. before = i
    BY <1>2, <2>1
  <2>4. QED
    BY <2>2, <2>3
<1>7. QED
  BY <1>4, <1>5, <1>6, Zenon

(* A message taken keeps the levels right.                                 *)
LEMMA LevelsTail ==
  ASSUME LogsTypeOK, LevelsOK, queue # <<>>, queue' = Tail(queue), load' = load, asked' = asked,
         Head(queue).kind = "level" => w'.level = Head(queue).level,
         Head(queue).kind # "level" => w'.level = w.level
  PROVE  LevelsOK'
<1>1. /\ Len(queue) \in Nat \ {0} /\ Len(queue') = Len(queue) - 1
      /\ DOMAIN queue = 1 .. Len(queue) /\ DOMAIN queue' = 1 .. Len(queue) - 1
      /\ \A k \in 1 .. Len(queue) - 1 : queue'[k] = queue[k + 1]
  BY TailFacts DEF LogsTypeOK
<1>2. LevelAt(Len(queue) + 1, asked.level)
  BY DEF LevelsOK
<1>3. PICK level \in {0, 9} : level = asked.level
  BY DEF LogsTypeOK
<1>4. LevelAt(Len(queue) + 1, asked.level)'
  <2>1. PICK n \in 1 .. Len(queue) : n = Len(queue)
    <3>1. Len(queue) \in 1 .. Len(queue)
      BY <1>1
    <3>2. QED
      BY <3>1
  <2>2. LevelAt(n + 1, level)
    BY <1>2, <1>3, <2>1
  <2>3. LevelAt(n, level)'
    BY <2>2, LevelAtTail
  <2>4. n = Len(queue') + 1 /\ asked'.level = level
    BY <1>1, <1>3, <2>1
  <2>5. QED
    BY <2>3, <2>4, Zenon
<1>5. ASSUME NEW i \in DOMAIN queue', queue'[i].kind = "log"
      PROVE  \E lv \in {0, 9} : LevelAt(i, lv)' /\ queue'[i].kept = (Level(queue'[i].message) <= lv)
  <2>1. i \in 1 .. Len(queue) /\ i + 1 \in DOMAIN queue /\ queue'[i] = queue[i + 1]
    BY <1>1
  <2>2. PICK lv \in {0, 9} : LevelAt(i + 1, lv) /\ queue[i + 1].kept = (Level(queue[i + 1].message) <= lv)
    BY <1>5, <2>1 DEF LevelsOK
  <2>3. LevelAt(i, lv)'
    BY <2>1, <2>2, LevelAtTail
  <2>4. QED
    BY <2>1, <2>2, <2>3
<1>6. \A m : Level(m)' = Level(m)
  BY DEF Level
<1>7. QED
  BY <1>3, <1>4, <1>5, <1>6 DEF LevelsOK

(* The message taken is kept or not as the writer's level says.            *)
LEMMA KeptAsWritten ==
  ASSUME LogsTypeOK, LevelsOK, queue # <<>>, Head(queue).kind = "log"
  PROVE  Head(queue).kept = (Level(Head(queue).message) <= w.level)
<1>1. Head(queue) = queue[1] /\ 1 \in DOMAIN queue
  BY TailFacts DEF LogsTypeOK
<1>2. PICK lv \in {0, 9} : LevelAt(1, lv) /\ queue[1].kept = (Level(queue[1].message) <= lv)
  BY <1>1 DEF LevelsOK
<1>3. lv = w.level
  BY <1>2 DEF LevelAt
<1>4. QED
  BY <1>1, <1>2, <1>3

(***************************************************************************)
(* The other file.                                                         *)
(***************************************************************************)
(* What is the greatest.                                                   *)
LEMMA MaxIs ==
  ASSUME NEW S \in SUBSET Int, NEW x \in S, \A y \in S : y <= x
  PROVE  Max(S) = x
<1>1. x \in S /\ \A y \in S : x >= y
  OBVIOUS
<1>2. PICK z : z = Max(S)
  OBVIOUS
<1>3. z \in S /\ \A y \in S : z >= y
  BY <1>1, <1>2, Zenon DEF Max
<1>4. z = x
  BY <1>1, <1>3
<1>5. QED
  BY <1>2, <1>4

(* The least of a set of integers.                                         *)
LEMMA MinIs ==
  ASSUME NEW S \in SUBSET Int, NEW x \in S, \A y \in S : x <= y
  PROVE  Min(S) = x
<1>1. x \in S /\ \A y \in S : x <= y
  OBVIOUS
<1>2. PICK z : z = Min(S)
  OBVIOUS
<1>3. z \in S /\ \A y \in S : z <= y
  BY <1>1, <1>2, Zenon DEF Min
<1>4. z = x
  BY <1>1, <1>3
<1>5. QED
  BY <1>2, <1>4

(* What is in the other file after n texts, of which it holds the last.    *)
LEMMA OtherFileKept ==
  ASSUME NEW n \in Nat, Emptied(n) \in {1} \cup 1 .. n, \A i \in 1 .. n : asked'.texts[i] = asked.texts[i]
  PROVE  Emptied(n)' = Emptied(n) /\ OtherFile(n)' = OtherFile(n)
<1>1. {i \in 1 .. n : asked'.texts[i].mode = "Truncate"} = {i \in 1 .. n : asked.texts[i].mode = "Truncate"}
  OBVIOUS
<1>2. Emptied(n)' = Emptied(n)
  BY <1>1, Zenon DEF Emptied
<1>3. PICK s \in {1} \cup 1 .. n : s = Emptied(n)
  OBVIOUS
<1>4. \A i \in 1 .. n - s + 1 : s + i - 1 \in 1 .. n
  OBVIOUS
<1>5. \A i \in 1 .. n - s + 1 : asked'.texts[s + i - 1].id = asked.texts[s + i - 1].id
  BY <1>4
<1>6. [i \in 1 .. n - s + 1 |-> asked'.texts[s + i - 1].id] = [i \in 1 .. n - s + 1 |-> asked.texts[s + i - 1].id]
  BY <1>5
<1>7. OtherFile(n)' = [i \in 1 .. n - s + 1 |-> asked'.texts[s + i - 1].id]
  BY <1>2, <1>3, Zenon DEF OtherFile
<1>8. OtherFile(n) = [i \in 1 .. n - s + 1 |-> asked.texts[s + i - 1].id]
  BY <1>3, Zenon DEF OtherFile
<1>9. QED
  BY <1>2, <1>6, <1>7, <1>8

(* Steps of consecutive numbers, and one more.                             *)
LEMMA Numbered ==
  ASSUME NEW s \in Nat, NEW n \in Nat, s <= n + 1
  PROVE  LET f == [i \in 1 .. n - s + 1 |-> s + i - 1]
         IN f \in Seq(Nat) /\ Append(f, n + 1) = [i \in 1 .. n + 1 - s + 1 |-> s + i - 1]
<1>1. PICK f : f = [i \in 1 .. n - s + 1 |-> s + i - 1]
  OBVIOUS
<1>2. PICK g : g = [i \in 1 .. n + 1 - s + 1 |-> s + i - 1]
  OBVIOUS
<1>3. PICK k \in Nat : k = n - s + 1
  <2>1. n - s + 1 \in Nat
    OBVIOUS
  <2>2. QED
    BY <2>1
<1>4. f \in [1 .. k -> Int]
  BY <1>1, <1>3
<1>5. g \in [1 .. k + 1 -> Int]
  BY <1>2, <1>3
<1>6. f \in Seq(Int) /\ Len(f) = k /\ g \in Seq(Int) /\ Len(g) = k + 1
  BY <1>4, <1>5, SequenceOf
<1>7. PICK h \in Seq(Int) : h = Append(f, n + 1)
  <2>1. n + 1 \in Int
    OBVIOUS
  <2>2. QED
    BY <2>1, <1>6, AppendFacts
<1>8. Len(h) = k + 1 /\ h[k + 1] = n + 1 /\ \A i \in 1 .. k : h[i] = f[i]
  <2>1. n + 1 \in Int
    OBVIOUS
  <2>2. QED
    BY <2>1, <1>6, <1>7, AppendFacts
<1>9. \A i \in 1 .. k + 1 : h[i] = g[i]
  <2> TAKE i \in 1 .. k + 1
  <2>1. CASE i \in 1 .. k
    BY <2>1, <1>1, <1>2, <1>3, <1>8
  <2>2. CASE i = k + 1
    <3>1. g[k + 1] = s + (k + 1) - 1
      BY <1>2, <1>3
    <3>2. QED
      BY <2>2, <3>1, <1>3, <1>8
  <2>3. QED
    BY <2>1, <2>2
<1>10. h = g
  BY <1>6, <1>8, <1>9, SameSequence
<1>11. f \in Seq(Nat)
  <2>1. f \in [1 .. k -> Nat]
    BY <1>1, <1>3
  <2>2. QED
    BY <2>1, SequenceOf
<1>12. QED
  BY <1>1, <1>2, <1>7, <1>10, <1>11

(* What one more text makes of the other file.                             *)
LEMMA OtherFileNext ==
  ASSUME NEW n \in Nat, Emptied(n) \in {1} \cup 1 .. n, \A i \in 1 .. n + 1 : asked.texts[i].id = i,
         asked.texts[n + 1].mode \in {"Truncate", "Append"}
  PROVE  /\ Emptied(n + 1) \in {1} \cup 1 .. n + 1
         /\ OtherFile(n + 1) = Append(IF asked.texts[n + 1].mode = "Truncate" THEN <<>> ELSE OtherFile(n), n + 1)
<1>1. PICK s \in {1} \cup 1 .. n : s = Emptied(n)
  OBVIOUS
<1>2. OtherFile(n) = [i \in 1 .. n - s + 1 |-> s + i - 1]
  <2>1. OtherFile(n) = [i \in 1 .. n - s + 1 |-> asked.texts[s + i - 1].id]
    BY <1>1, Zenon DEF OtherFile
  <2>2. \A i \in 1 .. n - s + 1 : s + i - 1 \in 1 .. n + 1
    OBVIOUS
  <2>3. \A i \in 1 .. n - s + 1 : asked.texts[s + i - 1].id = s + i - 1
    BY <2>2
  <2>4. QED
    BY <2>1, <2>3
<1>3. ASSUME NEW t \in 1 .. n + 1, t = Emptied(n + 1)
      PROVE  OtherFile(n + 1) = [i \in 1 .. n + 1 - t + 1 |-> t + i - 1]
  <2>1. OtherFile(n + 1) = [i \in 1 .. n + 1 - t + 1 |-> asked.texts[t + i - 1].id]
    BY <1>3 DEF OtherFile
  <2>2. \A i \in 1 .. n + 1 - t + 1 : t + i - 1 \in 1 .. n + 1
    OBVIOUS
  <2>3. \A i \in 1 .. n + 1 - t + 1 : asked.texts[t + i - 1].id = t + i - 1
    BY <2>2
  <2>4. QED
    BY <2>1, <2>3
<1>4. CASE asked.texts[n + 1].mode = "Truncate"
  <2> DEFINE S == {1} \cup {i \in 1 .. n + 1 : asked.texts[i].mode = "Truncate"}
  <2>1. S \in SUBSET Int /\ n + 1 \in S /\ \A y \in S : y <= n + 1
    BY <1>4
  <2>2. Max(S) = n + 1
    <3> HIDE DEF S
    <3>1. QED
      BY <2>1, MaxIs
  <2>3. Emptied(n + 1) = n + 1
    BY <2>2, Zenon DEF Emptied
  <2>4. n + 1 \in 1 .. n + 1
    OBVIOUS
  <2>5. OtherFile(n + 1) = [i \in 1 .. n + 1 - (n + 1) + 1 |-> n + 1 + i - 1]
    BY <1>3, <2>3, <2>4
  <2>6. Append(<<>>, n + 1) = [i \in 1 .. n + 1 - (n + 1) + 1 |-> n + 1 + i - 1]
    <3>1. n + 1 \in Nat /\ n + 1 <= n + 1
      OBVIOUS
    <3>2. PICK f : f = [i \in 1 .. n - (n + 1) + 1 |-> n + 1 + i - 1]
      OBVIOUS
    <3>3. f \in Seq(Nat) /\ Append(f, n + 1) = [i \in 1 .. n + 1 - (n + 1) + 1 |-> n + 1 + i - 1]
      BY <3>1, <3>2, Numbered
    <3>4. 1 .. n - (n + 1) + 1 = {}
      OBVIOUS
    <3>5. f = <<>>
      BY <3>2, <3>3, <3>4
    <3>6. QED
      BY <3>3, <3>5
  <2>7. QED
    BY <1>4, <2>3, <2>4, <2>5, <2>6
<1>5. CASE asked.texts[n + 1].mode # "Truncate"
  <2>1. {i \in 1 .. n + 1 : asked.texts[i].mode = "Truncate"} = {i \in 1 .. n : asked.texts[i].mode = "Truncate"}
    BY <1>5
  <2>2. Emptied(n + 1) = s
    BY <1>1, <2>1, Zenon DEF Emptied
  <2>3. s \in 1 .. n + 1
    OBVIOUS
  <2>4. OtherFile(n + 1) = [i \in 1 .. n + 1 - s + 1 |-> s + i - 1]
    BY <1>3, <2>2, <2>3
  <2>5. Append(OtherFile(n), n + 1) = [i \in 1 .. n + 1 - s + 1 |-> s + i - 1]
    <3>1. s \in Nat /\ s <= n + 1
      OBVIOUS
    <3>2. QED
      BY <3>1, <1>2, Numbered
  <2>6. QED
    BY <1>5, <2>2, <2>3, <2>4, <2>5
<1>6. QED
  BY <1>4, <1>5

(* A step that leaves the other file alone.                                *)
LEMMA OtherKept ==
  ASSUME OtherOK, queue' = queue, asked'.texts = asked.texts, w'.other = w.other
  PROVE  OtherOK'
<1>1. PICK n \in 0 .. Len(asked.texts) :
             TextsLeft(n) /\ Emptied(n) \in {1} \cup 1 .. n /\ w.other = OtherFile(n)
  BY DEF OtherOK
<1>2. TextsLeft(n)' /\ Emptied(n)' = Emptied(n) /\ w'.other = OtherFile(n)'
  BY <1>1 DEF TextsLeft, OtherFile, Emptied
<1>3. QED
  BY <1>1, <1>2 DEF OtherOK

(* A message of another kind is posted.                                    *)
LEMMA OtherAppend ==
  ASSUME LogsTypeOK, OtherOK, NEW message \in Posted, message.kind # "file", queue' = Append(queue, message),
         asked'.texts = asked.texts, w'.other = w.other
  PROVE  OtherOK'
<1>1. PICK n \in 0 .. Len(asked.texts) :
             TextsLeft(n) /\ Emptied(n) \in {1} \cup 1 .. n /\ w.other = OtherFile(n)
  BY DEF OtherOK
<1>2. /\ Len(queue) \in Nat /\ queue'[Len(queue) + 1] = message
      /\ DOMAIN queue = 1 .. Len(queue) /\ DOMAIN queue' = 1 .. Len(queue) + 1
      /\ \A k \in 1 .. Len(queue) : queue'[k] = queue[k]
  BY AppendFacts DEF LogsTypeOK
<1>3. \A i \in DOMAIN queue' : queue'[i].kind = "file" => i \in DOMAIN queue /\ queue[i] = queue'[i]
  BY <1>2
<1>4. \A i \in DOMAIN queue : i \in DOMAIN queue' /\ queue'[i] = queue[i]
  BY <1>2
<1>5. TextsLeft(n)'
  <2>1. \A i \in DOMAIN queue' : queue'[i].kind = "file" =>
          queue'[i].id \in n + 1 .. Len(asked.texts) /\ queue'[i] = asked.texts[queue'[i].id]
    BY <1>1, <1>3 DEF TextsLeft
  <2>2. \A k \in n + 1 .. Len(asked.texts) : \E i \in DOMAIN queue' : queue'[i].kind = "file" /\ queue'[i].id = k
    BY <1>1, <1>4 DEF TextsLeft
  <2>3. \A i, j \in DOMAIN queue' : i < j /\ queue'[i].kind = "file" /\ queue'[j].kind = "file" => queue'[i].id < queue'[j].id
    BY <1>1, <1>3 DEF TextsLeft
  <2>4. QED
    BY <2>1, <2>2, <2>3 DEF TextsLeft
<1>6. Emptied(n)' = Emptied(n) /\ w'.other = OtherFile(n)'
  BY <1>1 DEF OtherFile, Emptied
<1>7. QED
  BY <1>1, <1>5, <1>6 DEF OtherOK

(* The numbers up to the next.                                             *)
LEMMA UpToNext ==
  /\ \A m, n \in Nat : m <= n => \A i \in m .. n + 1 : i \in m .. n \/ i = n + 1
  /\ \A n \in Nat : \A i \in 1 .. n + 1 : i \in 1 .. n \/ i = n + 1
  /\ \A m, n \in Nat : m <= n => \A i \in m + 1 .. n + 1 : i \in m + 1 .. n \/ i = n + 1
  OBVIOUS

(* A text for the other file is posted, with the next number.              *)
LEMMA OtherAppendFile ==
  ASSUME LogsTypeOK, OtherOK, NEW message \in FileTexts, message.id = Len(asked.texts) + 1,
         queue' = Append(queue, message), asked'.texts = Append(asked.texts, message), w'.other = w.other
  PROVE  OtherOK'
<1>1. PICK n \in 0 .. Len(asked.texts) :
             TextsLeft(n) /\ Emptied(n) \in {1} \cup 1 .. n /\ w.other = OtherFile(n)
  BY DEF OtherOK
<1>2. /\ Len(queue) \in Nat /\ queue'[Len(queue) + 1] = message
      /\ DOMAIN queue = 1 .. Len(queue) /\ DOMAIN queue' = 1 .. Len(queue) + 1
      /\ \A k \in 1 .. Len(queue) : queue'[k] = queue[k]
  <2>1. queue \in Seq(Posted) /\ message \in Posted
    BY DEF LogsTypeOK, Posted
  <2>2. QED
    BY <2>1, AppendFacts
<1>3. /\ Len(asked.texts) \in Nat /\ Len(asked'.texts) = Len(asked.texts) + 1
      /\ asked'.texts[Len(asked.texts) + 1] = message
      /\ DOMAIN asked.texts = 1 .. Len(asked.texts) /\ DOMAIN asked'.texts = 1 .. Len(asked.texts) + 1
      /\ \A k \in 1 .. Len(asked.texts) : asked'.texts[k] = asked.texts[k]
  <2>1. asked.texts \in Seq(FileTexts)
    BY DEF LogsTypeOK
  <2>2. QED
    BY <2>1, AppendFacts
<1>4. PICK last \in Nat : last = Len(asked.texts)
  BY <1>3
<1>5. PICK long \in Nat : long = Len(queue)
  BY <1>2
<1>6. message.kind = "file" /\ message.id = last + 1
  BY <1>4 DEF FileTexts
<1>7. n \in 0 .. last + 1 /\ n \in 0 .. last
  BY <1>4
<1>8. \A k \in 1 .. last + 1 : asked'.texts[k].id = k
  <2>1. \A k \in 1 .. last : asked.texts[k].id = k
    BY <1>3, <1>4 DEF OtherOK
  <2>2. QED
    BY <2>1, <1>3, <1>4, <1>6
<1>9. TextsLeft(n)'
  <2>1. \A i \in 1 .. long : queue[i].kind = "file" =>
          queue[i].id \in n + 1 .. last /\ queue[i] = asked.texts[queue[i].id]
    BY <1>1, <1>2, <1>4, <1>5 DEF TextsLeft
  <2>2. \A i \in 1 .. long + 1 : queue'[i].kind = "file" =>
          queue'[i].id \in n + 1 .. last + 1 /\ queue'[i] = asked'.texts[queue'[i].id]
    <3> TAKE i \in 1 .. long + 1
    <3>1. CASE i \in 1 .. long
      <4>1. queue'[i] = queue[i]
        BY <3>1, <1>2, <1>5
      <4>2. \A k \in n + 1 .. last : k \in 1 .. last /\ k \in n + 1 .. last + 1
        BY <1>7
      <4>3. \A k \in n + 1 .. last : asked'.texts[k] = asked.texts[k]
        BY <4>2, <1>3, <1>4
      <4>4. QED
        BY <2>1, <3>1, <4>1, <4>2, <4>3
    <3>2. CASE i = long + 1
      <4>1. queue'[i] = message /\ asked'.texts[last + 1] = message
        BY <3>2, <1>2, <1>3, <1>4, <1>5
      <4>2. last + 1 \in n + 1 .. last + 1
        BY <1>7
      <4>3. QED
        BY <4>1, <4>2, <1>6
    <3>3. i \in 1 .. long \/ i = long + 1
      BY UpToNext, Zenon
    <3>4. QED
      BY <3>1, <3>2, <3>3, Zenon
  <2>3. \A k \in n + 1 .. last + 1 : \E i \in 1 .. long + 1 : queue'[i].kind = "file" /\ queue'[i].id = k
    <3> TAKE k \in n + 1 .. last + 1
    <3>1. CASE k \in n + 1 .. last
      <4>1. PICK i \in 1 .. long : queue[i].kind = "file" /\ queue[i].id = k
        BY <3>1, <1>1, <1>2, <1>4, <1>5 DEF TextsLeft
      <4>2. i \in 1 .. long + 1 /\ queue'[i] = queue[i]
        BY <1>2, <1>5
      <4>3. QED
        BY <4>1, <4>2
    <3>2. CASE k = last + 1
      <4>1. long + 1 \in 1 .. long + 1 /\ queue'[long + 1] = message
        BY <1>2, <1>5
      <4>2. QED
        BY <3>2, <4>1, <1>6
    <3>3. k \in n + 1 .. last \/ k = last + 1
      <4>1. n \in Nat /\ n <= last
        BY <1>7
      <4>2. QED
        BY <4>1, UpToNext, Zenon
    <3>4. QED
      BY <3>1, <3>2, <3>3, Zenon
  <2>4. \A i, j \in 1 .. long + 1 : i < j /\ queue'[i].kind = "file" /\ queue'[j].kind = "file" => queue'[i].id < queue'[j].id
    <3> SUFFICES ASSUME NEW i \in 1 .. long + 1, NEW j \in 1 .. long + 1, i < j, queue'[i].kind = "file", queue'[j].kind = "file"
                 PROVE  queue'[i].id < queue'[j].id
      OBVIOUS
    <3>1. i \in 1 .. long /\ queue'[i] = queue[i]
      BY <1>2, <1>5
    <3>2. CASE j \in 1 .. long
      <4>1. queue'[j] = queue[j]
        BY <3>2, <1>2, <1>5
      <4>2. \A g, h \in 1 .. long : g < h /\ queue[g].kind = "file" /\ queue[h].kind = "file" => queue[g].id < queue[h].id
        BY <1>1, <1>2, <1>5 DEF TextsLeft
      <4>3. QED
        BY <3>1, <3>2, <4>1, <4>2
    <3>3. CASE j = long + 1
      <4>1. queue'[j] = message
        BY <3>3, <1>2, <1>5
      <4>2. queue[i].id \in n + 1 .. last
        BY <2>1, <3>1
      <4>3. \A k \in n + 1 .. last : k < last + 1
        BY <1>7
      <4>4. QED
        BY <3>1, <4>1, <4>2, <4>3, <1>6
    <3>4. j \in 1 .. long \/ j = long + 1
      BY UpToNext, Zenon
    <3>5. QED
      BY <3>2, <3>3, <3>4, Zenon
  <2>5. DOMAIN queue' = 1 .. long + 1 /\ Len(asked'.texts) = last + 1
    BY <1>2, <1>3, <1>4, <1>5
  <2>6. QED
    BY <2>2, <2>3, <2>4, <2>5, <1>7 DEF TextsLeft
<1>10. Emptied(n)' = Emptied(n) /\ OtherFile(n)' = OtherFile(n)
  <2>1. \A k \in 1 .. n : k \in 1 .. last
    BY <1>7
  <2>2. \A k \in 1 .. n : asked'.texts[k] = asked.texts[k]
    BY <2>1, <1>3, <1>4
  <2>3. n \in Nat
    BY <1>7
  <2>4. QED
    BY <2>2, <2>3, <1>1, OtherFileKept
<1>11. QED
  <2>1. Len(asked'.texts) = last + 1 /\ DOMAIN asked'.texts = 1 .. last + 1
    BY <1>3, <1>4
  <2>2. Emptied(n)' \in {1} \cup 1 .. n /\ w'.other = OtherFile(n)'
    BY <1>1, <1>10
  <2>3. QED
    BY <2>1, <2>2, <1>7, <1>8, <1>9 DEF OtherOK

(* A message of another kind is taken.                                     *)
LEMMA OtherTail ==
  ASSUME LogsTypeOK, OtherOK, queue # <<>>, queue' = Tail(queue), asked' = asked,
         Head(queue).kind # "file", w'.other = w.other
  PROVE  OtherOK'
<1>1. PICK n \in 0 .. Len(asked.texts) :
             TextsLeft(n) /\ Emptied(n) \in {1} \cup 1 .. n /\ w.other = OtherFile(n)
  BY DEF OtherOK
<1>2. PICK long \in Nat \ {0} : long = Len(queue)
  BY TailFacts DEF LogsTypeOK
<1>3. /\ DOMAIN queue = 1 .. long /\ DOMAIN queue' = 1 .. long - 1 /\ Head(queue) = queue[1]
      /\ \A k \in 1 .. long - 1 : queue'[k] = queue[k + 1]
  BY <1>2, TailFacts DEF LogsTypeOK
<1>4. \A i \in 1 .. long - 1 : i + 1 \in 1 .. long
  OBVIOUS
<1>5. TextsLeft(n)'
  <2>1. \A i \in 1 .. long - 1 : queue'[i].kind = "file" =>
          queue'[i].id \in n + 1 .. Len(asked.texts) /\ queue'[i] = asked.texts[queue'[i].id]
    <3>1. \A i \in 1 .. long : queue[i].kind = "file" =>
            queue[i].id \in n + 1 .. Len(asked.texts) /\ queue[i] = asked.texts[queue[i].id]
      BY <1>1, <1>3 DEF TextsLeft
    <3>2. QED
      BY <3>1, <1>3, <1>4
  <2>2. \A k \in n + 1 .. Len(asked.texts) : \E i \in 1 .. long - 1 : queue'[i].kind = "file" /\ queue'[i].id = k
    <3> TAKE k \in n + 1 .. Len(asked.texts)
    <3>1. PICK i \in 1 .. long : queue[i].kind = "file" /\ queue[i].id = k
      BY <1>1, <1>3 DEF TextsLeft
    <3>2. PICK j \in 1 .. long - 1 : j + 1 = i
      <4>1. i # 1
        BY <1>3, <3>1
      <4>2. i - 1 \in 1 .. long - 1 /\ i - 1 + 1 = i
        BY <4>1
      <4>3. QED
        BY <4>2
    <3>3. queue'[j] = queue[i]
      BY <1>3, <3>2
    <3>4. QED
      BY <3>1, <3>3
  <2>3. \A i, j \in 1 .. long - 1 : i < j /\ queue'[i].kind = "file" /\ queue'[j].kind = "file" => queue'[i].id < queue'[j].id
    <3> SUFFICES ASSUME NEW i \in 1 .. long - 1, NEW j \in 1 .. long - 1, i < j, queue'[i].kind = "file", queue'[j].kind = "file"
                 PROVE  queue'[i].id < queue'[j].id
      OBVIOUS
    <3>1. queue'[i] = queue[i + 1] /\ queue'[j] = queue[j + 1]
      BY <1>3
    <3>2. i + 1 \in 1 .. long /\ j + 1 \in 1 .. long /\ i + 1 < j + 1
      OBVIOUS
    <3>3. \A g, h \in 1 .. long : g < h /\ queue[g].kind = "file" /\ queue[h].kind = "file" => queue[g].id < queue[h].id
      BY <1>1, <1>3 DEF TextsLeft
    <3>4. QED
      BY <3>1, <3>2, <3>3
  <2>4. asked'.texts = asked.texts /\ n \in 0 .. Len(asked.texts) /\ DOMAIN queue' = 1 .. long - 1
    BY <1>3
  <2>5. QED
    BY <2>1, <2>2, <2>3, <2>4 DEF TextsLeft
<1>6. Emptied(n)' = Emptied(n) /\ w'.other = OtherFile(n)'
  BY <1>1 DEF OtherFile, Emptied
<1>7. QED
  BY <1>1, <1>5, <1>6 DEF OtherOK

(* A text for the other file is taken: it is the next.                     *)
LEMMA OtherTailFile ==
  ASSUME LogsTypeOK, OtherOK, queue # <<>>, queue' = Tail(queue), asked' = asked,
         Head(queue).kind = "file",
         w'.other = Append(IF Head(queue).mode = "Truncate" THEN <<>> ELSE w.other, Head(queue).id)
  PROVE  OtherOK' /\ w'.other \in Seq(Nat)
<1>1. PICK n \in 0 .. Len(asked.texts) :
             TextsLeft(n) /\ Emptied(n) \in {1} \cup 1 .. n /\ w.other = OtherFile(n)
  BY DEF OtherOK
<1>2. PICK long \in Nat \ {0} : long = Len(queue)
  BY TailFacts DEF LogsTypeOK
<1>3. /\ DOMAIN queue = 1 .. long /\ DOMAIN queue' = 1 .. long - 1 /\ Head(queue) = queue[1]
      /\ \A k \in 1 .. long - 1 : queue'[k] = queue[k + 1]
  BY <1>2, TailFacts DEF LogsTypeOK
<1>4. \A i \in 1 .. long - 1 : i + 1 \in 1 .. long
  OBVIOUS
<1>5. PICK last \in Nat : last = Len(asked.texts)
  <2>1. asked.texts \in Seq(FileTexts)
    BY DEF LogsTypeOK
  <2>2. QED
    BY <2>1, AppendFacts
<1>6. PICK first : first = Head(queue)
  OBVIOUS
<1>7. /\ 1 \in 1 .. long /\ queue[1] = first /\ first.kind = "file" /\ first.id \in n + 1 .. last
      /\ first = asked.texts[first.id]
  <2>1. 1 \in 1 .. long
    OBVIOUS
  <2>2. QED
    BY <2>1, <1>1, <1>3, <1>5, <1>6 DEF TextsLeft
<1>8. \A i \in 1 .. long : queue[i].kind = "file" /\ i # 1 => first.id < queue[i].id
  <2>1. \A i \in 1 .. long : i # 1 => 1 < i
    OBVIOUS
  <2>2. QED
    BY <2>1, <1>1, <1>3, <1>7 DEF TextsLeft
<1>9. first.id = n + 1
  <2>1. n + 1 \in n + 1 .. last
    BY <1>5, <1>7
  <2>2. PICK i \in 1 .. long : queue[i].kind = "file" /\ queue[i].id = n + 1
    BY <2>1, <1>1, <1>3, <1>5 DEF TextsLeft
  <2>3. CASE i = 1
    BY <2>2, <2>3, <1>7
  <2>4. CASE i # 1
    BY <2>2, <2>4, <1>5, <1>7, <1>8
  <2>5. QED
    BY <2>3, <2>4
<1>10. n + 1 \in 1 .. last /\ n \in Nat
  BY <1>5, <1>7, <1>9
<1>11. \A k \in 1 .. n + 1 : asked.texts[k].id = k
  <2>1. \A k \in 1 .. last : asked.texts[k].id = k
    <3>1. DOMAIN asked.texts = 1 .. last
      <4>1. asked.texts \in Seq(FileTexts)
        BY DEF LogsTypeOK
      <4>2. QED
        BY <4>1, <1>5
    <3>2. QED
      BY <3>1 DEF OtherOK
  <2>2. \A k \in 1 .. n + 1 : k \in 1 .. last
    BY <1>5, <1>10
  <2>3. QED
    BY <2>1, <2>2
<1>12. first.mode \in {"Truncate", "Append"} /\ first.id \in Nat
  <2>1. first \in Posted
    BY <1>6, TailFacts DEF LogsTypeOK
  <2>2. QED
    BY <2>1, <1>7 DEF Posted, FileTexts
<1>13. /\ Emptied(n + 1) \in {1} \cup 1 .. n + 1
       /\ OtherFile(n + 1) = Append(IF first.mode = "Truncate" THEN <<>> ELSE OtherFile(n), n + 1)
  BY <1>1, <1>7, <1>9, <1>10, <1>11, <1>12, OtherFileNext
<1>14. PICK m \in 0 .. last : m = n + 1
  <2>1. n + 1 \in 0 .. last
    BY <1>10
  <2>2. QED
    BY <2>1
<1>15. Emptied(m)' \in {1} \cup 1 .. m /\ w'.other = OtherFile(m)'
  <2>1. Emptied(m)' = Emptied(m) /\ OtherFile(m)' = OtherFile(m)
    BY DEF Emptied, OtherFile
  <2>2. w'.other = OtherFile(m)
    BY <1>1, <1>6, <1>9, <1>13, <1>14
  <2>3. QED
    BY <2>1, <2>2, <1>13, <1>14
<1>16. TextsLeft(m)'
  <2>1. \A i \in 1 .. long - 1 : queue'[i].kind = "file" =>
          queue'[i].id \in m + 1 .. last /\ queue'[i] = asked.texts[queue'[i].id]
    <3> SUFFICES ASSUME NEW i \in 1 .. long - 1, queue'[i].kind = "file"
                 PROVE  queue'[i].id \in m + 1 .. last /\ queue'[i] = asked.texts[queue'[i].id]
      OBVIOUS
    <3>1. queue'[i] = queue[i + 1] /\ i + 1 \in 1 .. long /\ i + 1 # 1
      BY <1>3, <1>4
    <3>2. queue[i + 1].id \in n + 1 .. last /\ queue[i + 1] = asked.texts[queue[i + 1].id]
      BY <3>1, <1>1, <1>3, <1>5 DEF TextsLeft
    <3>3. n + 1 < queue[i + 1].id
      BY <3>1, <1>8, <1>9
    <3>4. queue[i + 1].id \in m + 1 .. last
      BY <3>2, <3>3, <1>14
    <3>5. QED
      BY <3>1, <3>2, <3>4
  <2>2. \A k \in m + 1 .. last : \E i \in 1 .. long - 1 : queue'[i].kind = "file" /\ queue'[i].id = k
    <3> TAKE k \in m + 1 .. last
    <3>1. k \in n + 1 .. last /\ k # n + 1
      BY <1>14
    <3>2. PICK i \in 1 .. long : queue[i].kind = "file" /\ queue[i].id = k
      BY <3>1, <1>1, <1>3, <1>5 DEF TextsLeft
    <3>3. PICK j \in 1 .. long - 1 : j + 1 = i
      <4>1. i # 1
        BY <1>7, <1>9, <3>1, <3>2
      <4>2. i - 1 \in 1 .. long - 1 /\ i - 1 + 1 = i
        BY <4>1
      <4>3. QED
        BY <4>2
    <3>4. queue'[j] = queue[i]
      BY <1>3, <3>3
    <3>5. QED
      BY <3>2, <3>4
  <2>3. \A i, j \in 1 .. long - 1 : i < j /\ queue'[i].kind = "file" /\ queue'[j].kind = "file" => queue'[i].id < queue'[j].id
    <3> SUFFICES ASSUME NEW i \in 1 .. long - 1, NEW j \in 1 .. long - 1, i < j, queue'[i].kind = "file", queue'[j].kind = "file"
                 PROVE  queue'[i].id < queue'[j].id
      OBVIOUS
    <3>1. queue'[i] = queue[i + 1] /\ queue'[j] = queue[j + 1]
      BY <1>3
    <3>2. i + 1 \in 1 .. long /\ j + 1 \in 1 .. long /\ i + 1 < j + 1
      OBVIOUS
    <3>3. \A g, h \in 1 .. long : g < h /\ queue[g].kind = "file" /\ queue[h].kind = "file" => queue[g].id < queue[h].id
      BY <1>1, <1>3 DEF TextsLeft
    <3>4. QED
      BY <3>1, <3>2, <3>3
  <2>4. QED
    BY <2>1, <2>2, <2>3, <1>3, <1>5 DEF TextsLeft
<1>17. OtherOK'
  BY <1>5, <1>14, <1>15, <1>16 DEF OtherOK
<1>18. w'.other \in Seq(Nat)
  <2>1. PICK before \in Seq(Nat) : before = IF first.mode = "Truncate" THEN <<>> ELSE w.other
    <3>1. w.other \in Seq(Nat) /\ <<>> \in Seq(Nat)
      BY EmptySequence DEF LogsTypeOK, Writer
    <3>2. QED
      BY <3>1
  <2>2. w'.other = Append(before, first.id)
    BY <2>1, <1>6
  <2>3. Append(before, first.id) \in Seq(Nat)
    BY <1>12, AppendFacts
  <2>4. QED
    BY <2>2, <2>3, Zenon
<1>19. QED
  BY <1>17, <1>18

(***************************************************************************)
(* What the files hold.                                                    *)
(***************************************************************************)
(* The writer is ready for every operation.                                *)
LEMMA WriterReady ==
  ASSUME LogsTypeOK, WriterOK
  PROVE  Ready(w) /\ load \in Loads /\ today \in Days /\ w \in Writer
<1>1. w \in Writer /\ load \in Loads /\ today \in Days /\ at \in {"starting", "loop", "draining", "finished", "dead"}
  BY DEF LogsTypeOK
<1>2. w.open => w.day \in Days
  BY DEF WriterOK
<1>3. ~w.open => w.buffer = <<>>
  BY <1>1 DEF WriterOK
<1>4. QED
  BY <1>1, <1>2, <1>3 DEF Ready

(* Characters of a message's text.                                         *)
LEMMA TextContains ==
  ASSUME NEW m \in AnyMessages
  PROVE  \A i \in 1 .. 2 : Contains(Text(m), Text(m)[i])
<1>1. Len(Text(m)) = 2
  BY TextFacts
<1>2. QED
  BY <1>1 DEF Contains

(* A step that only carries keeps what the day holds.                      *)
LEMMA HeldKept ==
  ASSUME load' = load, done' = done, app' = "dead" <=> app = "dead", Carries(w, w'),
         \A d \in Days : HeldOK(d)
  PROVE  (\A d \in Days : HeldOK(d))'
<1> SUFFICES ASSUME NEW d \in Days PROVE HeldOK(d)'
  BY DEF Days
<1>1. HeldOK(d)
  OBVIOUS
<1>2. w.hurt \subseteq w'.hurt /\ \A c : Contains(Held(w, d), c) => Contains(Held(w', d), c) \/ c \in w'.hurt
  BY DEF Carries
<1>3. d \notin w'.torn => d \notin w.torn /\ Held(w', d) = Held(w, d)
  BY DEF Carries
<1>4. \A j \in DOMAIN done'[d] : \A i \in 1 .. 2 :
        Contains(Held(w', d), Text(done'[d][j])[i]) \/ Text(done'[d][j])[i] \in w'.hurt
  BY <1>1, <1>2 DEF HeldOK
<1>5. d \notin w'.torn =>
        IF app' = "dead" THEN IsPrefix(AllText(done'[d]), Held(w', d)) ELSE Held(w', d) = AllText(done'[d])
  BY <1>1, <1>3 DEF HeldOK
<1>6. QED
  BY <1>4, <1>5 DEF HeldOK

(* A step that writes a message adds it to what its day holds.             *)
LEMMA HeldAdds ==
  ASSUME LogsTypeOK, load' = load, NEW m \in Messages, done' = Done(m), app # "dead", app' # "dead", Adds(w, w', m),
         \A d \in Days : HeldOK(d)
  PROVE  (\A d \in Days : HeldOK(d))'
<1> SUFFICES ASSUME NEW d \in Days PROVE HeldOK(d)'
  BY DEF Days
<1>1. HeldOK(d)
  OBVIOUS
<1>2. w.hurt \subseteq w'.hurt /\ \A c : Contains(Held(w, d), c) => Contains(Held(w', d), c) \/ c \in w'.hurt
  BY DEF Adds
<1>3. d \notin w'.torn => d \notin w.torn
  BY DEF Adds
<1>4. done \in [Days -> Seq(Messages)] /\ m[2] \in Days
  BY DEF LogsTypeOK, Messages
<1>5. CASE d # m[2]
  <2>1. done'[d] = done[d]
    BY <1>4, <1>5 DEF Done
  <2>2. d \notin w'.torn => Held(w', d) = Held(w, d)
    BY <1>5 DEF Adds
  <2>3. \A j \in DOMAIN done'[d] : \A i \in 1 .. 2 :
          Contains(Held(w', d), Text(done'[d][j])[i]) \/ Text(done'[d][j])[i] \in w'.hurt
    BY <1>1, <1>2, <2>1 DEF HeldOK
  <2>4. d \notin w'.torn => Held(w', d) = AllText(done'[d])
    BY <1>1, <1>3, <2>1, <2>2 DEF HeldOK
  <2>5. QED
    BY <2>3, <2>4 DEF HeldOK
<1>6. CASE d = m[2]
  <2>1. PICK ms \in Seq(AnyMessages) : ms = done[d]
    <3>1. Messages \subseteq AnyMessages
      BY DEF Messages, AnyMessages, Days
    <3>2. done[d] \in Seq(Messages)
      BY <1>4
    <3>3. QED
      BY <3>1, <3>2
  <2>2. m \in AnyMessages
    BY DEF Messages, AnyMessages, Days
  <2>3. done'[d] = Append(ms, m)
    BY <1>4, <1>6, <2>1 DEF Done
  <2>4. PICK n \in Nat : n = Len(ms)
    BY AppendFacts
  <2>5. /\ DOMAIN done'[d] = 1 .. n + 1 /\ DOMAIN done[d] = 1 .. n
        /\ done'[d][n + 1] = m /\ \A j \in 1 .. n : done'[d][j] = done[d][j]
    BY <2>1, <2>2, <2>3, <2>4, AppendFacts
  <2>6. \A j \in 1 .. n + 1 : \A i \in 1 .. 2 :
          Contains(Held(w', d), Text(done'[d][j])[i]) \/ Text(done'[d][j])[i] \in w'.hurt
    <3> TAKE j \in 1 .. n + 1
    <3> TAKE i \in 1 .. 2
    <3>1. CASE j \in 1 .. n
      BY <1>1, <1>2, <2>5, <3>1 DEF HeldOK
    <3>2. CASE j = n + 1
      <4>1. Contains(Text(m), Text(m)[i])
        BY <2>2, TextContains
      <4>2. Contains(Held(w', d), Text(m)[i]) \/ Text(m)[i] \in w'.hurt
        BY <1>6, <4>1 DEF Adds
      <4>3. QED
        BY <2>5, <3>2, <4>2
    <3>3. j \in 1 .. n \/ j = n + 1
      BY UpToNext, Zenon
    <3>4. QED
      BY <3>1, <3>2, <3>3, Zenon
  <2>7. d \notin w'.torn => Held(w', d) = AllText(done'[d])
    <3> SUFFICES ASSUME d \notin w'.torn PROVE Held(w', d) = AllText(done'[d])
      OBVIOUS
    <3>1. Held(w', d) = Held(w, d) \o Text(m)
      BY <1>6 DEF Adds
    <3>2. Held(w, d) = AllText(ms)
      BY <1>1, <1>3, <2>1 DEF HeldOK
    <3>3. AllText(Append(ms, m)) = AllText(ms) \o Text(m)
      BY <2>2, AllTextAppend
    <3>4. QED
      BY <3>1, <3>2, <3>3, <2>3
  <2>8. QED
    BY <2>5, <2>6, <2>7 DEF HeldOK
<1>7. QED
  BY <1>5, <1>6

(* A text begins with itself, and with its first part.                     *)
LEMMA PrefixFacts ==
  ASSUME NEW S, NEW s \in Seq(S), NEW t \in Seq(S)
  PROVE  IsPrefix(s, s) /\ IsPrefix(s, s \o t)
<1>1. IsPrefix(s, s)
  BY DEF IsPrefix
<1>2. PICK u \in Seq(S) : u = s \o t
  BY JoinFacts
<1>3. PICK n \in Nat : n = Len(s)
  OBVIOUS
<1>4. Len(u) = n + Len(t) /\ Len(t) \in Nat /\ \A i \in 1 .. n : u[i] = s[i]
  BY <1>2, <1>3, JoinFacts
<1>5. n \in 0 .. Len(u) /\ n \in 0 .. Len(s)
  BY <1>3, <1>4
<1>6. SubSeq(u, 1, n) \in Seq(S) /\ Len(SubSeq(u, 1, n)) = n /\ \A i \in 1 .. n : SubSeq(u, 1, n)[i] = u[i]
  BY <1>5, PartFacts
<1>7. SubSeq(s, 1, n) \in Seq(S) /\ Len(SubSeq(s, 1, n)) = n /\ \A i \in 1 .. n : SubSeq(s, 1, n)[i] = s[i]
  BY <1>5, PartFacts
<1>8. SubSeq(u, 1, n) = SubSeq(s, 1, n)
  BY <1>4, <1>6, <1>7, SameSequence
<1>9. IsPrefix(s, u)
  BY <1>3, <1>4, <1>8 DEF IsPrefix
<1>10. QED
  BY <1>1, <1>2, <1>9

(* The last flush, when a signal has come.                                 *)
LEMMA LastFlushFacts ==
  ASSUME load \in Loads, today \in Days, NEW o, Ready(o), NEW x, x = o \/ (o.open /\ x = Write(o, o.buffer)),
         NEW r \in LogFlushBuffer(x)
  PROVE  /\ Ready(r) /\ r.buffer = <<>> /\ SameRest(o, r) /\ o.torn \subseteq r.torn /\ o.hurt \subseteq r.hurt
         /\ \A d \in Days : /\ \A c : Contains(Held(o, d), c) => Contains(Held(r, d), c) \/ c \in r.hurt
                            /\ d \notin r.torn => IsPrefix(Held(o, d), Held(r, d))
<1>1. o \in Writer
  BY DEF Ready
<1>2. /\ Ready(x) /\ SameRest(o, x) /\ SameHistory(o, x)
      /\ \A d \in Days : /\ \A c : Contains(Held(o, d), c) => Contains(Held(x, d), c)
                         /\ IsPrefix(Held(o, d), Held(x, d))
  <2>1. CASE x = o
    <3>1. \A d \in Days : IsPrefix(Held(o, d), Held(o, d))
      BY <1>1, HeldFacts, PrefixFacts
    <3>2. QED
      BY <2>1, <3>1 DEF SameRest, SameHistory
  <2>2. CASE o.open /\ x = Write(o, o.buffer)
    <3>1. o.day \in Days /\ o.buffer \in Seq(Characters)
      BY <1>1, <2>2, WriterFields DEF Ready
    <3>2. /\ x \in Writer /\ x.buffer = o.buffer /\ x.open = o.open /\ x.day = o.day
          /\ SameRest(o, x) /\ SameHistory(o, x)
          /\ x.files[o.day] = o.files[o.day] \o o.buffer
          /\ \A d \in Days \ {o.day} : x.files[d] = o.files[d]
      <4>1. x \in Writer /\ Wrote(o, x, o.buffer)
        BY <1>1, <2>2, <3>1, WroteFacts, Zenon
      <4>2. QED
        BY <4>1 DEF Wrote
    <3>3. Ready(x)
      BY <2>2, <3>1, <3>2 DEF Ready
    <3>4. ASSUME NEW d \in Days
          PROVE  /\ \A c : Contains(Held(o, d), c) => Contains(Held(x, d), c)
                 /\ IsPrefix(Held(o, d), Held(x, d))
      <4>1. PICK held \in Seq(Characters) : held = Held(o, d)
        BY <1>1, HeldFacts
      <4>2. PICK more \in Seq(Characters) : more = o.buffer
        BY <3>1
      <4>3. CASE d = o.day
        <5>1. held = x.files[d]
          BY <3>2, <4>1, <4>3 DEF Held
        <5>2. Held(x, d) = held \o more
          BY <3>2, <4>2, <4>3, <5>1 DEF Held
        <5>3. IsPrefix(held, held \o more)
          BY PrefixFacts
        <5>4. \A c : Contains(held, c) => Contains(held \o more, c)
          BY ContainsOfBoth
        <5>5. QED
          BY <4>1, <5>2, <5>3, <5>4
      <4>4. CASE d # o.day
        <5>1. Held(x, d) = held
          BY <3>2, <4>1, <4>4 DEF Held
        <5>2. IsPrefix(held, held)
          BY PrefixFacts
        <5>3. QED
          BY <4>1, <5>1, <5>2
      <4>5. QED
        BY <4>3, <4>4
    <3>5. QED
      BY <3>2, <3>3, <3>4
  <2>3. QED
    BY <2>1, <2>2
<1>3. Ready(r) /\ r.buffer = <<>> /\ SameRest(x, r) /\ Carries(x, r)
  BY <1>2, LogFlushBufferFacts
<1>4. ASSUME NEW d \in Days
      PROVE  /\ \A c : Contains(Held(o, d), c) => Contains(Held(r, d), c) \/ c \in r.hurt
             /\ d \notin r.torn => IsPrefix(Held(o, d), Held(r, d))
  BY <1>2, <1>3 DEF Carries
<1>5. o.torn \subseteq r.torn /\ o.hurt \subseteq r.hurt
  BY <1>2, <1>3 DEF Carries, SameHistory
<1>6. QED
  BY <1>2, <1>3, <1>4, <1>5 DEF SameRest

(* Nothing that a writer holds changes with other fields.                  *)
LEMMA SameHeld ==
  ASSUME NEW o, NEW r, r.buffer = o.buffer, r.files = o.files, r.day = o.day, SameHistory(o, r)
  PROVE  Carries(o, r)
  BY DEF Carries, Held, SameHistory

(***************************************************************************)
(* The invariant.                                                          *)
(***************************************************************************)
(* The log thread's own messages pass every level.                         *)
LEMMA OwnFacts ==
  ASSUME LogsTypeOK
  PROVE  Own \in Messages /\ Own[2] = today /\ ~(Level(Own) > w.level) /\ number + 1 \in Nat
<1>1. number \in Nat /\ today \in Days /\ w.level \in {0, 9}
  BY DEF LogsTypeOK, Writer
<1>2. Own \in Messages /\ Own[2] = today
  BY <1>1 DEF Own, Messages
<1>3. Level(Own) = 0
  <2>1. Len(Own) = 3
    BY DEF Own
  <2>2. QED
    BY <2>1 DEF Level
<1>4. QED
  BY <1>1, <1>2, <1>3

(* The messages done are messages, by day.                                 *)
LEMMA DoneFacts ==
  ASSUME LogsTypeOK, NEW m \in Messages
  PROVE  Done(m) \in [Days -> Seq(Messages)]
<1>1. done \in [Days -> Seq(Messages)] /\ m[2] \in Days
  BY DEF LogsTypeOK, Messages
<1>2. Append(done[m[2]], m) \in Seq(Messages)
  BY <1>1, AppendFacts
<1>3. QED
  BY <1>1, <1>2 DEF Done

(* Steps of others, and flushes.                                           *)
LEMMA SameMessages ==
  ASSUME LogsInv, load' = load, queue' = queue, asked' = asked, done' = done, app' = "dead" <=> app = "dead",
         SameRest(w, w'), Carries(w, w')
  PROVE  LevelsOK' /\ OtherOK' /\ (\A d \in Days : HeldOK(d))'
<1>1. w'.level = w.level /\ w'.other = w.other
  BY DEF SameRest
<1>2. LevelsOK'
  BY <1>1, LevelsKept DEF LogsInv
<1>3. OtherOK'
  BY <1>1, OtherKept DEF LogsInv
<1>4. (\A d \in Days : HeldOK(d))'
  BY HeldKept DEF LogsInv
<1>5. QED
  BY <1>2, <1>3, <1>4

(* The log thread's own messages.                                          *)
LEMMA OwnMessage ==
  ASSUME LogsInv, load' = load, queue' = queue, asked' = asked, done' = Done(Own), app # "dead", app' # "dead",
         SameRest(w, w'), Adds(w, w', Own)
  PROVE  LevelsOK' /\ OtherOK' /\ (\A d \in Days : HeldOK(d))'
<1>1. w'.level = w.level /\ w'.other = w.other
  BY DEF SameRest
<1>2. LevelsOK'
  BY <1>1, LevelsKept DEF LogsInv
<1>3. OtherOK'
  BY <1>1, OtherKept DEF LogsInv
<1>4. (\A d \in Days : HeldOK(d))'
  BY OwnFacts, HeldAdds DEF LogsInv
<1>5. QED
  BY <1>2, <1>3, <1>4

(* The fields of the asked record.                                         *)
LEMMA AskedFacts ==
  ASSUME LogsTypeOK
  PROVE  /\ asked.level \in {0, 9} /\ asked.changes \in Nat /\ asked.texts \in Seq(FileTexts)
         /\ Len(asked.texts) \in Nat
<1>1. asked.level \in {0, 9} /\ asked.changes \in Nat /\ asked.texts \in Seq(FileTexts)
  BY DEF LogsTypeOK
<1>2. QED
  BY <1>1, AppendFacts

(* At the start.                                                           *)
LEMMA LogsInvInit == LogsInit => LogsInv
<1> SUFFICES ASSUME LogsInit PROVE LogsInv
  OBVIOUS
<1>1. load \in Loads /\ Days \subseteq Nat /\ 1 \in Days
  BY LoadFacts DEF LogsInit
<1>2. PICK none \in Seq(Characters) : none = <<>>
  BY EmptySequence
<1>3. w \in Writer
  <2>1. PICK nothing \in Seq(Nat) : nothing = <<>>
    BY EmptySequence
  <2>2. w = [buffer |-> none, open |-> FALSE, day |-> 0, due |-> FALSE, level |-> 9,
             files |-> [d \in Days |-> none], other |-> nothing, failures |-> 0,
             torn |-> {}, hurt |-> {}]
    BY <1>2, <2>1 DEF LogsInit
  <2>3. QED
    BY <2>2 DEF Writer
<1>4. LogsTypeOK
  <2>1. queue \in Seq(Posted) /\ done \in [Days -> Seq(Messages)]
    BY EmptySequence DEF LogsInit
  <2>2. asked \in [level : {0, 9}, changes : Nat, texts : Seq(FileTexts)]
    <3>1. PICK nothing \in Seq(FileTexts) : nothing = <<>>
      BY EmptySequence
    <3>2. asked = [level |-> 9, changes |-> 0, texts |-> nothing]
      BY <3>1 DEF LogsInit
    <3>3. QED
      BY <3>2
  <2>3. made \in [Loggers -> {None} \cup (Nat \X Days)] /\ loggers \subseteq Loggers
    BY DEF LogsInit
  <2>4. QED
    BY <1>1, <1>3, <2>1, <2>2, <2>3 DEF LogsInit, LogsTypeOK
<1>5. StopOK
  BY DEF LogsInit, StopOK
<1>6. w.day = 0 /\ w.open = FALSE /\ w.buffer = <<>> /\ w.level = 9 /\ w.other = <<>>
      /\ \A d \in Days : w.files[d] = <<>>
  BY DEF LogsInit
<1>7. WriterOK
  BY <1>6 DEF LogsInit, WriterOK
<1>8. queue = <<>> /\ Len(queue) = 0 /\ DOMAIN queue = {} /\ asked.level = 9 /\ asked.texts = <<>>
      /\ Len(asked.texts) = 0 /\ DOMAIN asked.texts = {}
  BY DEF LogsInit
<1>9. LevelsOK
  <2>1. LevelAt(1, 9)
    BY <1>6 DEF LevelAt
  <2>2. LevelAt(Len(queue) + 1, asked.level)
    BY <2>1, <1>8
  <2>3. QED
    BY <2>2, <1>8 DEF LevelsOK
<1>10. OtherOK
  <2>1. TextsLeft(0)
    BY <1>8 DEF TextsLeft
  <2>2. {i \in 1 .. 0 : asked.texts[i].mode = "Truncate"} = {}
    OBVIOUS
  <2>3. Max({1}) = 1
    <3>1. {1} \in SUBSET Int /\ 1 \in {1} /\ \A y \in {1} : y <= 1
      OBVIOUS
    <3>2. QED
      BY <3>1, MaxIs
  <2>4. Emptied(0) = 1
    <3>1. {1} \cup {} = {1}
      OBVIOUS
    <3>2. QED
      BY <2>2, <2>3, <3>1, Zenon DEF Emptied
  <2>5. OtherFile(0) = <<>>
    <3>1. 1 .. 0 - 1 + 1 = {}
      OBVIOUS
    <3>2. QED
      BY <3>1, <2>4 DEF OtherFile
  <2>6. 0 \in 0 .. Len(asked.texts)
    BY <1>8
  <2>7. QED
    BY <2>1, <2>4, <2>5, <2>6, <1>6, <1>8 DEF OtherOK
<1>11. ASSUME NEW d \in Days
       PROVE  HeldOK(d)
  <2>1. done[d] = <<>> /\ app # "dead"
    BY <1>1, <1>11 DEF LogsInit
  <2>2. Held(w, d) = <<>>
    BY <1>6 DEF Held, Days
  <2>3. AllText(<<>>) = <<>>
    <3>1. 1 .. 2 * Len(<<>>) = {}
      OBVIOUS
    <3>2. QED
      BY <3>1 DEF AllText
  <2>4. DOMAIN done[d] = {}
    BY <2>1
  <2>5. QED
    BY <2>1, <2>2, <2>3, <2>4 DEF HeldOK
<1>12. QED
  BY <1>4, <1>5, <1>7, <1>9, <1>10, <1>11 DEF LogsInv

(* A step of the threads that log: one posts a message.                    *)
LEMMA WriteLogKeeps ==
  ASSUME LogsInv, NEW l \in Loggers, WriteLog(l)
  PROVE  LogsInv'
<1>1. LogsTypeOK /\ StopOK /\ WriterOK /\ LevelsOK /\ OtherOK
  BY DEF LogsInv
<1>2. load' = load /\ app' = app /\ loggers' = loggers /\ at' = at /\ w' = w /\ today' = today
      /\ number' = number /\ asked' = asked /\ done' = done
  BY DEF WriteLog
<1>3. made[l] \in Nat \X Days /\ made[l] # None
  BY <1>1 DEF LogsTypeOK, WriteLog
<1>4. PICK message : message = MessageLog(made[l])
  OBVIOUS
<1>5. /\ message \in Posted /\ message.kind = "log" /\ queue' = Append(queue, message)
      /\ message.kept = (Level(message.message) <= asked.level)
  <2>1. (Level(made[l]) <= asked.level) \in BOOLEAN
    OBVIOUS
  <2>2. message = [kind |-> "log", message |-> made[l], kept |-> Level(made[l]) <= asked.level]
    BY <1>4 DEF MessageLog
  <2>3. message \in [kind : {"log"}, message : Nat \X Days, kept : BOOLEAN]
    BY <1>3, <2>1, <2>2, Zenon
  <2>4. QED
    BY <1>4, <2>2, <2>3 DEF Posted, WriteLog
<1>6. LogsTypeOK'
  <2>1. queue' \in Seq(Posted)
    BY <1>1, <1>5, AppendFacts DEF LogsTypeOK
  <2>2. made' \in [Loggers -> {None} \cup (Nat \X Days)]
    BY <1>1 DEF LogsTypeOK, WriteLog
  <2>3. Days' = Days /\ Messages' = Messages /\ Writer' = Writer /\ Posted' = Posted
    BY <1>2 DEF Days, Messages, Writer, Posted
  <2>4. QED
    BY <1>1, <1>2, <2>1, <2>2, <2>3 DEF LogsTypeOK
<1>7. StopOK'
  <2>1. l \in loggers
    BY <1>1, <1>3 DEF StopOK
  <2>2. app \notin {"stoppingLog", "ended", "dead"}
    BY <1>1, <2>1 DEF StopOK
  <2>3. \A x \in Loggers : made'[x] # None => x \in loggers'
    BY <1>1, <1>2 DEF StopOK, LogsTypeOK, WriteLog
  <2>4. QED
    BY <1>1, <1>2, <2>2, <2>3 DEF StopOK
<1>8. WriterOK'
  BY <1>1, <1>2 DEF WriterOK, Days
<1>9. LevelsOK'
  BY <1>1, <1>2, <1>5, LevelsAppend
<1>10. OtherOK'
  BY <1>1, <1>2, <1>5, OtherAppend
<1>11. (\A d \in Days : HeldOK(d))'
  <2>1. Carries(w, w')
    BY <1>2 DEF Carries
  <2>2. QED
    BY <1>2, <2>1, HeldKept DEF LogsInv
<1>12. QED
  BY <1>6, <1>7, <1>8, <1>9, <1>10, <1>11 DEF LogsInv

LEMMA SetLogLevelKeeps ==
  ASSUME LogsInv, NEW level \in {0, 9}, SetLogLevel(level)
  PROVE  LogsInv'
<1>1. LogsTypeOK /\ StopOK /\ WriterOK /\ LevelsOK /\ OtherOK
  BY DEF LogsInv
<1>2. load' = load /\ app' = app /\ made' = made /\ loggers' = loggers /\ at' = at /\ w' = w /\ today' = today
      /\ number' = number /\ done' = done /\ loggers # {}
  BY DEF SetLogLevel
<1>3. PICK message : message = MessageLogLevel(level)
  OBVIOUS
<1>4. message \in Posted /\ message.kind = "level" /\ message.level = level /\ queue' = Append(queue, message)
  BY <1>3 DEF MessageLogLevel, Posted, SetLogLevel
<1>5. /\ asked' \in [level : {0, 9}, changes : Nat, texts : Seq(FileTexts)]
      /\ asked'.level = level /\ asked'.texts = asked.texts
  <2>1. asked \in [level : {0, 9}, changes : Nat, texts : Seq(FileTexts)]
    BY <1>1 DEF LogsTypeOK
  <2>2. asked' = [asked EXCEPT !.level = level, !.changes = @ + 1]
    BY DEF SetLogLevel
  <2>3. PICK e : e = [asked EXCEPT !.level = level]
    OBVIOUS
  <2>4. e \in [level : {0, 9}, changes : Nat, texts : Seq(FileTexts)] /\ e.level = level /\ e.texts = asked.texts
        /\ e.changes = asked.changes
    BY <2>1, <2>3
  <2>5. asked' = [e EXCEPT !.changes = asked.changes + 1]
    BY <2>2, <2>3
  <2>6. asked.changes + 1 \in Nat
    BY <2>1
  <2>7. QED
    BY <2>4, <2>5, <2>6
<1>6. LogsTypeOK'
  <2>1. queue' \in Seq(Posted)
    BY <1>1, <1>4, AppendFacts DEF LogsTypeOK
  <2>2. Days' = Days /\ Messages' = Messages /\ Writer' = Writer /\ Posted' = Posted
    BY <1>2 DEF Days, Messages, Writer, Posted
  <2>3. QED
    BY <1>1, <1>2, <1>5, <2>1, <2>2 DEF LogsTypeOK
<1>7. StopOK'
  BY <1>1, <1>2 DEF StopOK
<1>8. WriterOK'
  BY <1>1, <1>2 DEF WriterOK, Days
<1>9. LevelsOK'
  BY <1>1, <1>2, <1>4, <1>5, LevelsAppend
<1>10. OtherOK'
  BY <1>1, <1>2, <1>4, <1>5, OtherAppend
<1>11. (\A d \in Days : HeldOK(d))'
  <2>1. Carries(w, w')
    BY <1>2 DEF Carries
  <2>2. QED
    BY <1>2, <2>1, HeldKept DEF LogsInv
<1>12. QED
  BY <1>6, <1>7, <1>8, <1>9, <1>10, <1>11 DEF LogsInv

LEMMA WriteToFileKeeps ==
  ASSUME LogsInv, NEW mode \in {"Truncate", "Append"}, WriteToFile(mode)
  PROVE  LogsInv'
<1>1. LogsTypeOK /\ StopOK /\ WriterOK /\ LevelsOK /\ OtherOK
  BY DEF LogsInv
<1>2. load' = load /\ app' = app /\ made' = made /\ loggers' = loggers /\ at' = at /\ w' = w /\ today' = today
      /\ number' = number /\ done' = done /\ loggers # {}
  BY DEF WriteToFile
<1>3. PICK message : message = MessageWriteToFile(mode, Len(asked.texts) + 1)
  OBVIOUS
<1>4. message \in FileTexts /\ message.id = Len(asked.texts) + 1 /\ message.kind = "file"
      /\ queue' = Append(queue, message) /\ asked' = [asked EXCEPT !.texts = Append(@, message)]
  <2>1. message = [kind |-> "file", mode |-> mode, id |-> Len(asked.texts) + 1]
    BY <1>3 DEF MessageWriteToFile
  <2>2. PICK id \in Nat : id = Len(asked.texts) + 1
    BY <1>1, AskedFacts
  <2>3. message \in FileTexts /\ message.id = id /\ message.kind = "file"
    BY <2>1, <2>2 DEF FileTexts
  <2>4. queue' = Append(queue, message) /\ asked' = [asked EXCEPT !.texts = Append(@, message)]
    BY <1>3, Zenon DEF WriteToFile
  <2>5. QED
    BY <2>2, <2>3, <2>4
<1>5. /\ asked' \in [level : {0, 9}, changes : Nat, texts : Seq(FileTexts)]
      /\ asked'.level = asked.level /\ asked'.texts = Append(asked.texts, message)
  <2>1. PICK texts \in Seq(FileTexts) : texts = Append(asked.texts, message)
    BY <1>1, <1>4, AskedFacts, AppendFacts
  <2>2. asked \in [level : {0, 9}, changes : Nat, texts : Seq(FileTexts)]
    BY <1>1 DEF LogsTypeOK
  <2>3. asked' = [asked EXCEPT !.texts = texts]
    BY <1>4, <2>1
  <2>4. QED
    BY <2>1, <2>2, <2>3
<1>6. message \in Posted
  BY <1>4 DEF Posted
<1>7. LogsTypeOK'
  <2>1. queue' \in Seq(Posted)
    BY <1>1, <1>4, <1>6, AppendFacts DEF LogsTypeOK
  <2>2. Days' = Days /\ Messages' = Messages /\ Writer' = Writer /\ Posted' = Posted
    BY <1>2 DEF Days, Messages, Writer, Posted
  <2>3. QED
    BY <1>1, <1>2, <1>5, <2>1, <2>2 DEF LogsTypeOK
<1>8. StopOK'
  BY <1>1, <1>2 DEF StopOK
<1>9. WriterOK'
  BY <1>1, <1>2 DEF WriterOK, Days
<1>10. LevelsOK'
  BY <1>1, <1>2, <1>4, <1>5, <1>6, LevelsAppend
<1>11. OtherOK'
  BY <1>1, <1>2, <1>4, <1>5, OtherAppendFile
<1>12. (\A d \in Days : HeldOK(d))'
  <2>1. Carries(w, w')
    BY <1>2 DEF Carries
  <2>2. QED
    BY <1>2, <2>1, HeldKept DEF LogsInv
<1>13. QED
  BY <1>7, <1>8, <1>9, <1>10, <1>11, <1>12 DEF LogsInv

(* Steps that leave the writer's files alone.                              *)
LEMMA QuietKeeps ==
  ASSUME LogsInv,
         \/ StopMain \/ StopLog \/ NextDay \/ FlushTimeout
         \/ \E l \in Loggers : Create(l) \/ LoggerEnds(l)
         \/ UNCHANGED logsVars
  PROVE  LogsInv'
<1>1. LogsTypeOK /\ StopOK /\ WriterOK
  BY DEF LogsInv
<1>2. load' = load /\ queue' = queue /\ at' = at /\ asked' = asked /\ done' = done
  BY DEF StopMain, StopLog, NextDay, FlushTimeout, Create, LoggerEnds, logsVars
<1>3. /\ w' \in Writer /\ w'.buffer = w.buffer /\ w'.files = w.files /\ w'.day = w.day /\ w'.open = w.open
      /\ SameRest(w, w') /\ Carries(w, w')
  <2>1. CASE w' = w
    BY <2>1, <1>1 DEF LogsTypeOK, SameRest, Carries
  <2>2. CASE FlushTimeout
    <3>1. w \in Writer /\ w' = [w EXCEPT !.due = TRUE]
      BY <1>1, <2>2 DEF LogsTypeOK, FlushTimeout
    <3>2. /\ w' \in Writer /\ w'.buffer = w.buffer /\ w'.files = w.files /\ w'.day = w.day /\ w'.open = w.open
          /\ w'.level = w.level /\ w'.other = w.other /\ w'.torn = w.torn /\ w'.hurt = w.hurt
      BY <3>1 DEF Writer
    <3>3. QED
      BY <3>2, SameHeld DEF SameRest, SameHistory
  <2>3. QED
    BY <2>1, <2>2 DEF StopMain, StopLog, NextDay, Create, LoggerEnds, logsVars
<1>4. today' \in Days /\ number' \in Nat
  <2>1. today \in Days /\ number \in Nat /\ load.days \in Nat
    BY <1>1, LoadFacts DEF LogsTypeOK
  <2>2. CASE NextDay
    BY <2>1, <2>2 DEF NextDay, Days
  <2>3. CASE ~NextDay
    BY <2>1, <2>3 DEF StopMain, StopLog, FlushTimeout, Create, LoggerEnds, logsVars
  <2>4. QED
    BY <2>2, <2>3
<1>5. made' \in [Loggers -> {None} \cup (Nat \X Days)] /\ loggers' \subseteq Loggers
  <2>1. made \in [Loggers -> {None} \cup (Nat \X Days)] /\ loggers \subseteq Loggers /\ number \in Nat /\ today \in Days
    BY <1>1 DEF LogsTypeOK
  <2>2. CASE \E l \in Loggers : Create(l)
    <3>1. PICK l \in Loggers : Create(l)
      BY <2>2
    <3>2. <<number + 1, today>> \in Nat \X Days
      BY <2>1
    <3>3. made' = [made EXCEPT ![l] = <<number + 1, today>>] /\ loggers' = loggers
      BY <3>1 DEF Create
    <3>4. QED
      BY <2>1, <3>2, <3>3
  <2>3. CASE \E l \in Loggers : LoggerEnds(l)
    BY <2>1, <2>3 DEF LoggerEnds
  <2>4. CASE made' = made /\ loggers' = loggers
    BY <2>1, <2>4
  <2>5. QED
    BY <2>2, <2>3, <2>4 DEF StopMain, StopLog, NextDay, FlushTimeout, logsVars
<1>6. app' \in {"running", "stopping", "stoppingLog", "ended", "dead"}
  BY <1>1 DEF LogsTypeOK, StopMain, StopLog, NextDay, FlushTimeout, Create, LoggerEnds, logsVars
<1>7. LogsTypeOK'
  <2>1. Days' = Days /\ Messages' = Messages /\ Writer' = Writer /\ Posted' = Posted
    BY <1>2 DEF Days, Messages, Writer, Posted
  <2>2. QED
    BY <1>1, <1>2, <1>3, <1>4, <1>5, <1>6, <2>1 DEF LogsTypeOK
<1>8. StopOK'
  <2>1. CASE \E l \in Loggers : Create(l)
    <3>1. PICK l \in Loggers : Create(l)
      BY <2>1
    <3>2. \A x \in Loggers : made'[x] # None => x \in loggers'
      BY <1>1, <3>1 DEF Create, StopOK, LogsTypeOK
    <3>3. QED
      BY <1>1, <3>1, <3>2 DEF Create, StopOK
  <2>2. CASE \E l \in Loggers : LoggerEnds(l)
    BY <1>1, <2>2 DEF LoggerEnds, StopOK
  <2>3. CASE StopMain
    BY <1>1, <2>3 DEF StopMain, StopOK
  <2>4. CASE StopLog
    BY <1>1, <2>4 DEF StopLog, StopOK
  <2>5. CASE app' = app /\ made' = made /\ loggers' = loggers
    BY <1>1, <1>2, <2>5 DEF StopOK
  <2>6. QED
    BY <2>1, <2>2, <2>3, <2>4, <2>5 DEF NextDay, FlushTimeout, logsVars
<1>9. WriterOK'
  BY <1>1, <1>2, <1>3 DEF WriterOK, Days
<1>10. app' = "dead" <=> app = "dead"
  BY DEF StopMain, StopLog, NextDay, FlushTimeout, Create, LoggerEnds, logsVars
<1>11. LevelsOK' /\ OtherOK' /\ (\A d \in Days : HeldOK(d))'
  BY <1>2, <1>3, <1>10, SameMessages
<1>12. QED
  BY <1>7, <1>8, <1>9, <1>11 DEF LogsInv

(* The log thread's start and its farewell.                                *)
LEMMA OwnMessageKeeps ==
  ASSUME LogsInv, OnThreadStarted \/ OnThreadFinishing
  PROVE  LogsInv'
<1>1. LogsTypeOK /\ StopOK /\ WriterOK
  BY DEF LogsInv
<1>2. /\ load' = load /\ app' = app /\ made' = made /\ loggers' = loggers /\ queue' = queue /\ today' = today
      /\ asked' = asked /\ number' = number + 1 /\ done' = Done(Own) /\ w' \in DoMessageLog(w, Own)
  BY DEF OnThreadStarted, OnThreadFinishing
<1>3. Own \in Messages /\ ~(Level(Own) > w.level) /\ number + 1 \in Nat
  BY <1>1, OwnFacts
<1>4. Ready(w) /\ load \in Loads /\ today \in Days /\ (w.open \/ w.day = 0)
  <2>1. Ready(w) /\ load \in Loads /\ today \in Days
    BY <1>1, WriterReady
  <2>2. w.open \/ w.day = 0
    BY <1>1 DEF WriterOK, OnThreadStarted, OnThreadFinishing
  <2>3. QED
    BY <2>1, <2>2
<1>5. Ready(w') /\ SameRest(w, w') /\ w'.open /\ Adds(w, w', Own)
  BY <1>2, <1>3, <1>4, DoMessageLogFacts
<1>6. app # "dead" /\ app' # "dead"
  BY <1>1, <1>2 DEF StopOK, OnThreadStarted, OnThreadFinishing
<1>7. at' \in {"loop", "draining"} /\ (at' = "draining" => app' = "stoppingLog") /\ app # "ended"
  BY <1>1 DEF StopOK, OnThreadStarted, OnThreadFinishing
<1>8. LogsTypeOK'
  <2>1. Days' = Days /\ Messages' = Messages /\ Writer' = Writer /\ Posted' = Posted
    BY <1>2 DEF Days, Messages, Writer, Posted
  <2>2. done' \in [Days -> Seq(Messages)]
    BY <1>1, <1>2, <1>3, DoneFacts
  <2>3. w' \in Writer
    BY <1>5 DEF Ready
  <2>4. QED
    BY <1>1, <1>2, <1>3, <1>7, <2>1, <2>2, <2>3 DEF LogsTypeOK
<1>9. StopOK'
  BY <1>1, <1>2, <1>6, <1>7 DEF StopOK
<1>10. WriterOK'
  <2>1. Days' = Days
    BY <1>2 DEF Days
  <2>2. QED
    BY <1>5, <1>7, <2>1 DEF WriterOK, Ready
<1>11. LevelsOK' /\ OtherOK' /\ (\A d \in Days : HeldOK(d))'
  BY <1>2, <1>5, <1>6, OwnMessage
<1>12. QED
  BY <1>8, <1>9, <1>10, <1>11 DEF LogsInv

LEMMA OnIdleFlushKeeps ==
  ASSUME LogsInv, OnIdleFlush
  PROVE  LogsInv'
<1>1. LogsTypeOK /\ StopOK /\ WriterOK
  BY DEF LogsInv
<1>2. /\ load' = load /\ app' = app /\ made' = made /\ loggers' = loggers /\ queue' = queue /\ today' = today
      /\ asked' = asked /\ number' = number /\ done' = done /\ at = "loop" /\ at' = at
      /\ w' \in LogCheckAndFlushBuffer(w)
  BY DEF OnIdleFlush
<1>3. Ready(w) /\ load \in Loads /\ today \in Days
  BY <1>1, WriterReady
<1>4. Ready(w') /\ w'.open = w.open /\ SameRest(w, w') /\ Carries(w, w')
  BY <1>2, <1>3, LogCheckAndFlushBufferFacts
<1>5. LogsTypeOK'
  <2>1. Days' = Days /\ Messages' = Messages /\ Writer' = Writer /\ Posted' = Posted
    BY <1>2 DEF Days, Messages, Writer, Posted
  <2>2. w' \in Writer
    BY <1>4 DEF Ready
  <2>3. QED
    BY <1>1, <1>2, <2>1, <2>2 DEF LogsTypeOK
<1>6. StopOK'
  BY <1>1, <1>2 DEF StopOK
<1>7. WriterOK'
  <2>1. Days' = Days
    BY <1>2 DEF Days
  <2>2. QED
    BY <1>1, <1>2, <1>4, <2>1 DEF WriterOK, Ready
<1>8. LevelsOK' /\ OtherOK' /\ (\A d \in Days : HeldOK(d))'
  BY <1>2, <1>4, SameMessages
<1>9. QED
  BY <1>5, <1>6, <1>7, <1>8 DEF LogsInv

(* The log thread's end.                                                   *)
LEMMA OnThreadFinishedKeeps ==
  ASSUME LogsInv, OnThreadFinished
  PROVE  LogsInv'
<1>1. LogsTypeOK /\ StopOK /\ WriterOK
  BY DEF LogsInv
<1>2. /\ load' = load /\ made' = made /\ loggers' = loggers /\ queue' = queue /\ today' = today
      /\ asked' = asked /\ number' = number + 1 /\ done' = Done(Own) /\ at = "draining" /\ queue = <<>>
      /\ at' = "finished" /\ app' = "ended"
  BY DEF OnThreadFinished
<1>3. PICK o \in DoMessageLog(w, Own) : \E r \in LogFlushBuffer(o) : w' = [r EXCEPT !.open = FALSE]
  BY DEF OnThreadFinished
<1>4. PICK r \in LogFlushBuffer(o) : w' = [r EXCEPT !.open = FALSE]
  BY <1>3
<1>5. Own \in Messages /\ ~(Level(Own) > w.level) /\ number + 1 \in Nat
  BY <1>1, OwnFacts
<1>6. Ready(w) /\ load \in Loads /\ today \in Days /\ w.open
  BY <1>1, <1>2, WriterReady DEF WriterOK
<1>7. Ready(o) /\ SameRest(w, o) /\ Adds(w, o, Own)
  BY <1>5, <1>6, DoMessageLogFacts
<1>8. Ready(r) /\ r.buffer = <<>> /\ SameRest(o, r) /\ Carries(o, r)
  BY <1>6, <1>7, LogFlushBufferFacts
<1>9. /\ w' \in Writer /\ w'.buffer = <<>> /\ w'.open = FALSE /\ w'.files = r.files /\ w'.day = r.day
      /\ SameRest(r, w') /\ Carries(r, w')
  <2>1. r \in Writer
    BY <1>8 DEF Ready
  <2>2. /\ w' \in Writer /\ w'.buffer = r.buffer /\ w'.open = FALSE /\ w'.files = r.files /\ w'.day = r.day
        /\ w'.level = r.level /\ w'.other = r.other /\ w'.torn = r.torn /\ w'.hurt = r.hurt
    BY <1>4, <2>1 DEF Writer
  <2>3. QED
    BY <1>8, <2>2, SameHeld DEF SameRest, SameHistory
<1>10. SameRest(w, w')
  BY <1>7, <1>8, <1>9 DEF SameRest
<1>11. Adds(w, w', Own)
  <2>1. Adds(w, r, Own)
    BY <1>7, <1>8, AddsAndCarries
  <2>2. QED
    BY <2>1, <1>9, AddsAndCarries
<1>12. app # "dead" /\ app' # "dead" /\ app = "stoppingLog" /\ loggers = {}
  BY <1>1, <1>2 DEF StopOK
<1>13. LogsTypeOK'
  <2>1. Days' = Days /\ Messages' = Messages /\ Writer' = Writer /\ Posted' = Posted
    BY <1>2 DEF Days, Messages, Writer, Posted
  <2>2. done' \in [Days -> Seq(Messages)]
    BY <1>1, <1>2, <1>5, DoneFacts
  <2>3. QED
    BY <1>1, <1>2, <1>5, <1>9, <2>1, <2>2 DEF LogsTypeOK
<1>14. StopOK'
  BY <1>1, <1>2, <1>12 DEF StopOK
<1>15. WriterOK'
  BY <1>2, <1>9 DEF WriterOK
<1>16. LevelsOK' /\ OtherOK' /\ (\A d \in Days : HeldOK(d))'
  BY <1>2, <1>10, <1>11, <1>12, OwnMessage
<1>17. QED
  BY <1>13, <1>14, <1>15, <1>16 DEF LogsInv

(* A fatal signal.                                                         *)
LEMMA PosixDeathSignalKeeps ==
  ASSUME LogsInv, PosixDeathSignal
  PROVE  LogsInv'
<1>1. LogsTypeOK /\ StopOK /\ WriterOK /\ LevelsOK /\ OtherOK
  BY DEF LogsInv
<1>2. /\ load' = load /\ queue' = queue /\ today' = today /\ asked' = asked /\ number' = number /\ done' = done
      /\ app' = "dead" /\ at' = "dead" /\ loggers' = {} /\ made' = [l \in Loggers |-> None]
      /\ app \notin {"ended", "dead"}
  BY DEF PosixDeathSignal
<1>3. PICK x : /\ w' \in LogFlushBuffer(x)
               /\ x = w \/ (w.due /\ at # "starting" /\ x = Write(w, w.buffer))
  <2>1. PICK S : S = {w} \cup {Write(o, o.buffer) : o \in {o \in {w} : o.due /\ at # "starting"}}
    OBVIOUS
  <2>2. w' \in UNION {LogFlushBuffer(o) : o \in S}
    BY <2>1, Zenon DEF PosixDeathSignal
  <2>3. \A x \in S : x = w \/ (w.due /\ at # "starting" /\ x = Write(w, w.buffer))
    BY <2>1
  <2>4. QED
    BY <2>2, <2>3
<1>4. x = w \/ (w.open /\ x = Write(w, w.buffer))
  BY <1>1, <1>2, <1>3 DEF WriterOK, StopOK, LogsTypeOK
<1>5. Ready(w) /\ load \in Loads /\ today \in Days
  BY <1>1, WriterReady
<1>6. /\ Ready(w') /\ w'.buffer = <<>> /\ SameRest(w, w') /\ w.torn \subseteq w'.torn /\ w.hurt \subseteq w'.hurt
      /\ \A d \in Days : /\ \A c : Contains(Held(w, d), c) => Contains(Held(w', d), c) \/ c \in w'.hurt
                         /\ d \notin w'.torn => IsPrefix(Held(w, d), Held(w', d))
  BY <1>3, <1>4, <1>5, LastFlushFacts
<1>7. LogsTypeOK'
  <2>1. Days' = Days /\ Messages' = Messages /\ Writer' = Writer /\ Posted' = Posted
    BY <1>2 DEF Days, Messages, Writer, Posted
  <2>2. w' \in Writer
    BY <1>6 DEF Ready
  <2>3. made' \in [Loggers -> {None} \cup (Nat \X Days)]
    BY <1>2
  <2>4. QED
    BY <1>1, <1>2, <2>1, <2>2, <2>3 DEF LogsTypeOK
<1>8. StopOK'
  BY <1>2 DEF StopOK
<1>9. WriterOK'
  <2>1. Days' = Days
    BY <1>2 DEF Days
  <2>2. QED
    BY <1>2, <1>6, <2>1 DEF WriterOK, Ready
<1>10. w'.level = w.level /\ w'.other = w.other
  BY <1>6 DEF SameRest
<1>11. LevelsOK'
  BY <1>1, <1>2, <1>10, LevelsKept
<1>12. OtherOK'
  BY <1>1, <1>2, <1>10, OtherKept
<1>13. (\A d \in Days : HeldOK(d))'
  <2> SUFFICES ASSUME NEW d \in Days PROVE HeldOK(d)'
    BY <1>2 DEF Days
  <2>1. HeldOK(d)
    BY DEF LogsInv
  <2>2. \A j \in DOMAIN done'[d] : \A i \in 1 .. 2 :
          Contains(Held(w', d), Text(done'[d][j])[i]) \/ Text(done'[d][j])[i] \in w'.hurt
    BY <1>2, <1>6, <2>1 DEF HeldOK
  <2>3. d \notin w'.torn => IsPrefix(AllText(done'[d]), Held(w', d))
    <3>1. d \notin w'.torn => d \notin w.torn
      BY <1>6
    <3>2. d \notin w'.torn => Held(w, d) = AllText(done[d])
      BY <1>2, <2>1, <3>1 DEF HeldOK
    <3>3. QED
      BY <1>2, <1>6, <3>2
  <2>4. QED
    BY <1>2, <2>2, <2>3 DEF HeldOK
<1>14. QED
  BY <1>7, <1>8, <1>9, <1>11, <1>12, <1>13 DEF LogsInv

(* The log thread takes a message.                                         *)
LEMMA ProcessMessageKeeps ==
  ASSUME LogsInv, ProcessMessage
  PROVE  LogsInv'
<1>1. LogsTypeOK /\ StopOK /\ WriterOK /\ LevelsOK /\ OtherOK
  BY DEF LogsInv
<1>2. /\ load' = load /\ app' = app /\ made' = made /\ loggers' = loggers /\ at' = at /\ today' = today
      /\ number' = number /\ asked' = asked /\ queue # <<>> /\ queue' = Tail(queue) /\ at \in {"loop", "draining"}
  BY DEF ProcessMessage
<1>3. PICK message : message = Head(queue)
  OBVIOUS
<1>4. /\ w' \in UNION {LogCheckAndFlushBuffer(o) : o \in Processed(w, message)}
      /\ done' = IF message.kind = "log" /\ message.kept THEN Done(message.message) ELSE done
  BY <1>3, Zenon DEF ProcessMessage
<1>5. PICK o \in Processed(w, message) : w' \in LogCheckAndFlushBuffer(o)
  BY <1>4, Zenon
<1>6. Ready(w) /\ load \in Loads /\ today \in Days /\ w.open /\ w \in Writer
  BY <1>1, <1>2, WriterReady DEF WriterOK
<1>7. message \in Posted /\ queue' \in Seq(Posted)
  BY <1>1, <1>2, <1>3, TailFacts DEF LogsTypeOK
<1>8. app # "dead" /\ app # "ended"
  BY <1>1, <1>2 DEF StopOK
<1>9. ASSUME Ready(o), o.open
      PROVE  Ready(w') /\ w'.open /\ SameRest(o, w') /\ Carries(o, w')
  BY <1>5, <1>6, <1>9, LogCheckAndFlushBufferFacts
<1>10. StopOK'
  BY <1>1, <1>2, <1>8 DEF StopOK
<1>11. ASSUME Ready(w'), w'.open
       PROVE  WriterOK'
  <2>1. Days' = Days
    BY <1>2 DEF Days
  <2>2. QED
    BY <1>2, <1>11, <2>1 DEF WriterOK, Ready
<1>12. ASSUME Ready(w'), done' \in [Days -> Seq(Messages)]
       PROVE  LogsTypeOK'
  <2>1. Days' = Days /\ Messages' = Messages /\ Writer' = Writer /\ Posted' = Posted
    BY <1>2 DEF Days, Messages, Writer, Posted
  <2>2. w' \in Writer
    BY <1>12 DEF Ready
  <2>3. QED
    BY <1>1, <1>2, <1>7, <1>12, <2>1, <2>2 DEF LogsTypeOK
<1>13. done \in [Days -> Seq(Messages)]
  BY <1>1 DEF LogsTypeOK
<1>14. CASE message.kind = "log"
  <2>1. PICK m : m = message.message
    OBVIOUS
  <2>2. m \in Messages /\ message.kept \in BOOLEAN
    <3>1. message.message \in Nat \X Days /\ message.kept \in BOOLEAN
      BY <1>7, <1>14 DEF Posted, FileTexts
    <3>2. QED
      BY <3>1, <2>1 DEF Messages
  <2>3. o \in DoMessageLog(w, m)
    BY <1>5, <1>14, <2>1 DEF Processed
  <2>4. message.kept = (Level(m) <= w.level)
    BY <1>1, <1>2, <1>3, <1>14, <2>1, KeptAsWritten
  <2>5. Ready(o) /\ SameRest(w, o)
    BY <1>6, <2>2, <2>3, DoMessageLogFacts
  <2>6. o.open
    <3>1. CASE Level(m) > w.level
      BY <3>1, <1>6, <2>2, <2>3, DoMessageLogFacts
    <3>2. CASE ~(Level(m) > w.level)
      BY <3>2, <1>6, <2>2, <2>3, DoMessageLogFacts
    <3>3. QED
      BY <3>1, <3>2
  <2>7. Ready(w') /\ w'.open /\ SameRest(o, w') /\ Carries(o, w')
    BY <1>9, <2>5, <2>6
  <2>8. w'.level = w.level /\ w'.other = w.other
    BY <2>5, <2>7 DEF SameRest
  <2>9. LevelsOK'
    BY <1>1, <1>2, <1>3, <1>14, <2>8, LevelsTail
  <2>10. OtherOK'
    BY <1>1, <1>2, <1>3, <1>14, <2>8, OtherTail
  <2>11. done' \in [Days -> Seq(Messages)] /\ (\A d \in Days : HeldOK(d))'
    <3>1. CASE message.kept
      <4>1. done' = Done(m)
        BY <1>4, <1>14, <2>1, <3>1, Zenon
      <4>2. ~(Level(m) > w.level)
        <5>1. Level(m) \in Int /\ w.level \in Int
          BY <1>6 DEF Level, Writer
        <5>2. Level(m) <= w.level
          BY <2>4, <3>1
        <5>3. QED
          BY <5>1, <5>2
      <4>3. Adds(w, o, m)
        BY <4>2, <1>6, <2>2, <2>3, DoMessageLogFacts
      <4>4. Adds(w, w', m)
        BY <4>3, <2>7, AddsAndCarries
      <4>5. (\A d \in Days : HeldOK(d))'
        BY <1>1, <1>2, <1>8, <2>2, <4>1, <4>4, HeldAdds DEF LogsInv
      <4>6. QED
        BY <1>1, <2>2, <4>1, <4>5, DoneFacts
    <3>2. CASE ~message.kept
      <4>1. done' = done
        BY <1>4, <3>2, Zenon
      <4>2. Level(m) > w.level
        <5>1. Level(m) \in Int /\ w.level \in Int
          BY <1>6 DEF Level, Writer
        <5>2. ~(Level(m) <= w.level)
          BY <2>4, <3>2
        <5>3. QED
          BY <5>1, <5>2
      <4>3. o = w
        BY <4>2, <1>6, <2>2, <2>3, DoMessageLogFacts
      <4>4. (\A d \in Days : HeldOK(d))'
        BY <1>2, <2>7, <4>1, <4>3, HeldKept DEF LogsInv
      <4>5. QED
        BY <1>13, <4>1, <4>4
    <3>3. QED
      BY <3>1, <3>2
  <2>12. QED
    BY <1>10, <1>11, <1>12, <2>7, <2>9, <2>10, <2>11 DEF LogsInv
<1>15. CASE message.kind = "level"
  <2>1. o = [w EXCEPT !.level = message.level]
    BY <1>5, <1>15 DEF Processed, SetLevel
  <2>2. message.level \in {0, 9}
    BY <1>7, <1>15 DEF Posted, FileTexts
  <2>3. /\ o \in Writer /\ o.level = message.level /\ o.other = w.other /\ o.open = w.open /\ o.day = w.day
        /\ o.buffer = w.buffer /\ o.files = w.files /\ SameHistory(w, o)
    BY <1>6, <2>1, <2>2 DEF Writer, SameHistory
  <2>4. Ready(o) /\ o.open /\ Carries(w, o)
    BY <1>6, <2>3, SameHeld DEF Ready
  <2>5. Ready(w') /\ w'.open /\ SameRest(o, w') /\ Carries(o, w')
    BY <1>9, <2>4
  <2>6. w'.level = message.level /\ w'.other = w.other
    BY <2>3, <2>5 DEF SameRest
  <2>7. LevelsOK'
    BY <1>1, <1>2, <1>3, <1>15, <2>6, LevelsTail
  <2>8. OtherOK'
    BY <1>1, <1>2, <1>3, <1>15, <2>6, OtherTail
  <2>9. done' = done
    BY <1>4, <1>15
  <2>10. Carries(w, w')
    BY <2>4, <2>5, CarriesAgain
  <2>11. (\A d \in Days : HeldOK(d))'
    BY <1>2, <2>9, <2>10, HeldKept DEF LogsInv
  <2>12. QED
    BY <1>10, <1>11, <1>12, <1>13, <2>5, <2>7, <2>8, <2>9, <2>11 DEF LogsInv
<1>16. CASE message.kind = "file"
  <2>1. o = [w EXCEPT !.other = Append(IF message.mode = "Truncate" THEN <<>> ELSE @, message.id)]
    BY <1>5, <1>16 DEF Processed, DoMessageRewriteFile
  <2>2. PICK other : other = Append(IF message.mode = "Truncate" THEN <<>> ELSE w.other, message.id)
    OBVIOUS
  <2>3. o = [w EXCEPT !.other = other]
    BY <2>1, <2>2
  <2>4. other \in Seq(Nat)
    <3>1. message.id \in Nat
      BY <1>7, <1>16 DEF Posted, FileTexts
    <3>2. PICK before \in Seq(Nat) : before = IF message.mode = "Truncate" THEN <<>> ELSE w.other
      <4>1. w.other \in Seq(Nat) /\ <<>> \in Seq(Nat)
        BY <1>6, EmptySequence DEF Writer
      <4>2. QED
        BY <4>1
    <3>3. Append(before, message.id) \in Seq(Nat)
      BY <3>1, AppendFacts
    <3>4. QED
      BY <2>2, <3>2, <3>3, Zenon
  <2>5. /\ o \in Writer /\ o.level = w.level /\ o.other = other /\ o.open = w.open /\ o.day = w.day
        /\ o.buffer = w.buffer /\ o.files = w.files /\ SameHistory(w, o)
    BY <1>6, <2>3, <2>4 DEF Writer, SameHistory
  <2>6. Ready(o) /\ o.open /\ Carries(w, o)
    BY <1>6, <2>5, SameHeld DEF Ready
  <2>7. Ready(w') /\ w'.open /\ SameRest(o, w') /\ Carries(o, w')
    BY <1>9, <2>6
  <2>8. w'.level = w.level /\ w'.other = other
    BY <2>5, <2>7 DEF SameRest
  <2>9. LevelsOK'
    BY <1>1, <1>2, <1>3, <1>16, <2>8, LevelsTail
  <2>10. OtherOK'
    BY <1>1, <1>2, <1>3, <1>16, <2>2, <2>8, OtherTailFile
  <2>11. done' = done
    BY <1>4, <1>16
  <2>12. Carries(w, w')
    BY <2>6, <2>7, CarriesAgain
  <2>13. (\A d \in Days : HeldOK(d))'
    BY <1>2, <2>11, <2>12, HeldKept DEF LogsInv
  <2>14. QED
    BY <1>10, <1>11, <1>12, <1>13, <2>7, <2>9, <2>10, <2>11, <2>13 DEF LogsInv
<1>17. QED
  BY <1>7, <1>14, <1>15, <1>16 DEF Posted, FileTexts

(* The invariant holds in every state.                                     *)
THEOREM LogsInvariant == LogsSpec => []LogsInv
<1>1. LogsInit => LogsInv
  BY LogsInvInit
<1>2. LogsInv /\ [LogsNext]_logsVars => LogsInv'
  <2> SUFFICES ASSUME LogsInv, [LogsNext]_logsVars PROVE LogsInv'
    OBVIOUS
  <2>1. CASE OnThreadStarted \/ OnThreadFinishing
    BY <2>1, OwnMessageKeeps
  <2>2. CASE ProcessMessage
    BY <2>2, ProcessMessageKeeps
  <2>3. CASE OnIdleFlush
    BY <2>3, OnIdleFlushKeeps
  <2>4. CASE OnThreadFinished
    BY <2>4, OnThreadFinishedKeeps
  <2>5. CASE PosixDeathSignal
    BY <2>5, PosixDeathSignalKeeps
  <2>6. CASE \E level \in {0, 9} : SetLogLevel(level)
    BY <2>6, SetLogLevelKeeps
  <2>7. CASE \E mode \in {"Truncate", "Append"} : WriteToFile(mode)
    BY <2>7, WriteToFileKeeps
  <2>8. CASE \E l \in Loggers : WriteLog(l)
    BY <2>8, WriteLogKeeps
  <2>9. CASE \/ StopMain \/ StopLog \/ NextDay \/ FlushTimeout
             \/ \E l \in Loggers : Create(l) \/ LoggerEnds(l)
             \/ UNCHANGED logsVars
    BY <2>9, QuietKeeps
  <2>10. QED
    BY <2>1, <2>2, <2>3, <2>4, <2>5, <2>6, <2>7, <2>8, <2>9 DEF LogsNext, LogThread
<1>3. QED
  BY <1>1, <1>2, PTL DEF LogsSpec

(* How many texts for the other file have been written.                    *)
LEMMA TextsWrittenFacts ==
  ASSUME LogsTypeOK, OtherOK
  PROVE  w.other = OtherFile(TextsWritten)
<1>1. PICK n \in 0 .. Len(asked.texts) : TextsLeft(n) /\ w.other = OtherFile(n)
  BY DEF OtherOK
<1>2. PICK last \in Nat : last = Len(asked.texts)
  BY AskedFacts
<1>3. n \in 0 .. last
  BY <1>2
<1>4. PICK S : S = {queue[i].id : i \in {j \in DOMAIN queue : queue[j].kind = "file"}} \cup {Len(asked.texts) + 1}
  OBVIOUS
<1>5. \A x \in S : x \in n + 1 .. last \/ x = last + 1
  BY <1>1, <1>2, <1>4 DEF TextsLeft
<1>6. S \in SUBSET Int /\ \A x \in S : n + 1 <= x
  BY <1>3, <1>5
<1>7. n + 1 \in S
  <2>1. CASE n = last
    BY <2>1, <1>2, <1>4
  <2>2. CASE n # last
    <3>1. n + 1 \in n + 1 .. last
      BY <2>2, <1>3
    <3>2. PICK i \in DOMAIN queue : queue[i].kind = "file" /\ queue[i].id = n + 1
      BY <3>1, <1>1, <1>2 DEF TextsLeft
    <3>3. QED
      BY <3>2, <1>4
  <2>3. QED
    BY <2>1, <2>2
<1>8. Min(S) = n + 1
  BY <1>6, <1>7, MinIs
<1>9. TextsWritten = n
  <2>1. TextsWritten = Min(S) - 1
    BY <1>4, Zenon DEF TextsWritten
  <2>2. QED
    BY <2>1, <1>3, <1>8
<1>10. QED
  BY <1>1, <1>9

(* The files are in order: in each day's file, or in the buffer behind it, *)
(* is what the log thread took for that day and nothing else, and the      *)
(* other file holds the texts since the one that emptied it last.  This is *)
(* so whatever writes stop short, with texts of one and of two bytes a     *)
(* character and on any day, save in a file torn by a flush that stopped   *)
(* short with characters of two bytes before it, twice or on a later day.  *)
THEOREM LogsFilesInOrder == LogsSpec => []FilesInOrder
<1>1. LogsInv => FilesInOrder
  <2> SUFFICES ASSUME LogsInv PROVE FilesInOrder
    OBVIOUS
  <2>1. \A d \in Days \ w.torn :
          IF app = "dead" THEN IsPrefix(AllText(done[d]), Held(w, d)) ELSE Held(w, d) = AllText(done[d])
    BY DEF LogsInv, HeldOK
  <2>2. w.other = OtherFile(TextsWritten)
    BY TextsWrittenFacts DEF LogsInv
  <2>3. QED
    BY <2>1, <2>2 DEF FilesInOrder
<1>2. QED
  BY <1>1, LogsInvariant, PTL

(* Nothing is lost: when the application has ended, or a signal ended it,  *)
(* what the log thread took is in the files and not in the buffer, and in  *)
(* the first case nothing is left that a thread had posted or made.  Lost  *)
(* are only characters in the buffer of a flush that stopped short behind  *)
(* one of two bytes, or whose repeat stopped short as well.                *)
THEOREM LogsNothingLost == LogsSpec => []NothingLost
<1>1. LogsInv => NothingLost
  <2> SUFFICES ASSUME LogsInv PROVE NothingLost
    OBVIOUS
  <2>1. LogsTypeOK /\ StopOK /\ WriterOK /\ \A d \in Days : HeldOK(d)
    BY DEF LogsInv
  <2>2. app = "ended" => queue = <<>> /\ \A l \in Loggers : made[l] = None
    BY <2>1 DEF StopOK
  <2>3. ASSUME app \in {"ended", "dead"}
        PROVE  /\ w.buffer = <<>>
               /\ \A d \in Days : \A j \in DOMAIN done[d] : \A i \in 1 .. 2 :
                    Contains(w.files[d], Text(done[d][j])[i]) \/ Text(done[d][j])[i] \in w.hurt
    <3>1. w.buffer = <<>>
      BY <2>1, <2>3 DEF StopOK, WriterOK
    <3>2. w \in Writer
      BY <2>1 DEF LogsTypeOK
    <3>3. \A d \in Days : Held(w, d) = w.files[d]
      <4> TAKE d \in Days
      <4>1. PICK before \in Seq(Characters) : before = w.files[d]
        BY <3>2, WriterFields
      <4>2. before \o <<>> = before
        BY JoinEmpty
      <4>3. QED
        BY <3>1, <4>1, <4>2 DEF Held
    <3>4. QED
      BY <2>1, <3>1, <3>3 DEF HeldOK
  <2>4. QED
    BY <2>2, <2>3 DEF NothingLost
<1>2. QED
  BY <1>1, LogsInvariant, PTL

(***************************************************************************)
(* ThreadTimer, for every delay, any time the clock may reach and any      *)
(* number of bytes in the timer's pipe.                                    *)
(***************************************************************************)
USE TimerAssumption DEF ownerVars, loopVars

LEMMA TimerInitInv == TimerInit => TimerInv
<1> SUFFICES ASSUME TimerInit
             PROVE  TimerInv
  OBVIOUS
<1>1. Len(shots) = 0 /\ stop.place = 0 /\ isTerminated = FALSE
  BY DEF TimerInit
<1>2. TimerTypeOK
  <2>1. pipe \in Seq({"SignalWakeUp", "SignalTerminate"}) /\ shots \in Seq(Nat)
    BY DEF TimerInit
  <2>2. QED
    BY <2>1 DEF TimerInit, TimerTypeOK
<1>3. QED
  BY <1>1, <1>2
     DEF TimerInv, ShotSpacing, NextShotNotEarly, ShotEndsSingle, SingleShotOnce,
         TerminatedNotPolling, StopBudget

LEMMA TimerStepType == TimerTypeOK /\ [TimerNext]_timerVars => TimerTypeOK'
<1> SUFFICES ASSUME TimerTypeOK, [TimerNext]_timerVars
             PROVE  TimerTypeOK'
  OBVIOUS
<1> USE DEF TimerTypeOK
<1>1. CASE Tick
  BY <1>1 DEF Tick
<1>2. CASE StartTimer
  BY <1>2 DEF StartTimer
<1>3. CASE PostToTimer
  BY <1>3 DEF PostToTimer
<1>4. CASE StopTimer
  BY <1>4 DEF StopTimer
<1>5. CASE LoopTest
  BY <1>5 DEF LoopTest
<1>6. CASE PollTimeout
  BY <1>6 DEF PollTimeout
<1>7. CASE PollSignal
  <2>1. isTerminated' \in BOOLEAN
    BY <1>7, Zenon DEF PollSignal
  <2>2. pipe' \in Seq({"SignalWakeUp", "SignalTerminate"})
    BY <1>7 DEF PollSignal
  <2>3. QED
    BY <1>7, <2>1, <2>2 DEF PollSignal
<1>8. CASE OnIdle
  <2>1. isTerminated' \in BOOLEAN
    BY <1>8, Zenon DEF OnIdle
  <2>2. shots' \in Seq(Nat)
    BY <1>8 DEF OnIdle
  <2>3. QED
    BY <1>8, <2>1, <2>2 DEF OnIdle
<1>9. CASE NoIdle
  BY <1>9 DEF NoIdle
<1>10. CASE Rearm
  BY <1>10 DEF Rearm
<1>11. CASE UNCHANGED timerVars
  BY <1>11 DEF timerVars
<1>12. QED
  BY <1>1, <1>2, <1>3, <1>4, <1>5, <1>6, <1>7, <1>8, <1>9, <1>10, <1>11
     DEF TimerNext, TimerStep, TimerDone

(* Only OnIdle makes a shot; what it appends is not early.                 *)
LEMMA OnIdleShot ==
  ASSUME TimerInv, TimerTypeOK', OnIdle
  PROVE  (ShotSpacing /\ NextShotNotEarly /\ ShotEndsSingle /\ SingleShotOnce)'
<1>1. /\ shots' = Append(shots, now) /\ now' = now /\ pc' = "rearm" /\ pc = "polled"
      /\ multiShot' = multiShot /\ (~multiShot => isTerminated' = TRUE)
      /\ pollResult = 0 \/ nextCallIdle < now
  BY DEF OnIdle
<1>2. shots \in Seq(Nat) /\ Len(shots) \in Nat /\ now \in Nat /\ nextCallIdle \in Nat
  BY DEF TimerInv, TimerTypeOK
<1>3. /\ Len(shots') = Len(shots) + 1 /\ shots'[Len(shots) + 1] = now
      /\ \A i \in 1 .. Len(shots) : shots'[i] = shots[i]
  BY <1>1, <1>2
<1>4. Len(shots) > 0 => shots[Len(shots)] \in Nat /\ shots[Len(shots)] + Delay <= now
  BY <1>1, <1>2 DEF TimerInv, NextShotNotEarly, LastShot
<1>5. ASSUME NEW i \in 1 .. Len(shots') - 1
      PROVE  shots'[i + 1] - shots'[i] >= Delay
  <2>1. CASE i = Len(shots)
    BY <1>2, <1>3, <1>4, <2>1
  <2>2. CASE i \in 1 .. Len(shots) - 1
    BY <1>2, <1>3, <2>2 DEF TimerInv, ShotSpacing
  <2>3. QED
    BY <1>2, <1>3, <2>1, <2>2
<1>6. NextShotNotEarly'
  BY <1>1, <1>2, <1>3 DEF NextShotNotEarly, LastShot
<1>7. ~multiShot => Len(shots) = 0
  BY <1>1, <1>2 DEF TimerInv, ShotEndsSingle
<1>8. SingleShotOnce' /\ ShotEndsSingle'
  BY <1>1, <1>2, <1>3, <1>7 DEF ShotEndsSingle, SingleShotOnce
<1>9. QED
  BY <1>5, <1>6, <1>8 DEF ShotSpacing

(* The other steps keep the shots and the time of the next one.            *)
LEMMA OtherShots ==
  ASSUME TimerInv, TimerTypeOK', [TimerNext]_timerVars, ~OnIdle
  PROVE  (ShotSpacing /\ NextShotNotEarly /\ ShotEndsSingle /\ SingleShotOnce)'
<1>1. shots' = shots /\ multiShot' = multiShot
  BY DEF TimerNext, TimerStep, TimerDone, Tick, StartTimer, PostToTimer, StopTimer, LoopTest,
         PollTimeout, PollSignal, NoIdle, Rearm, timerVars
<1>2. ShotSpacing' /\ SingleShotOnce'
  BY <1>1 DEF TimerInv, ShotSpacing, SingleShotOnce
<1>3. ShotEndsSingle'
  BY <1>1
     DEF TimerInv, ShotEndsSingle, TimerNext, TimerStep, TimerDone, Tick, StartTimer, PostToTimer,
         StopTimer, LoopTest, PollTimeout, PollSignal, NoIdle, Rearm, timerVars
<1>4. CASE Len(shots) > 0
  <2>1. LastShot \in Nat /\ LastShot' = LastShot
    <3>1. shots \in Seq(Nat)
      BY DEF TimerInv, TimerTypeOK
    <3>2. QED
      BY <1>1, <1>4, <3>1 DEF LastShot
  <2>2. /\ LastShot <= now
        /\ pc # "rearm" => LastShot + Delay <= nextCallIdle
        /\ pc = "polling" => LastShot <= pollStart
        /\ pc = "polled" /\ pollResult = 0 => LastShot + Delay <= now
    BY <1>4 DEF TimerInv, NextShotNotEarly
  <2>3. now \in Nat /\ nextCallIdle \in Nat /\ pollStart \in Nat
    BY DEF TimerInv, TimerTypeOK
  <2>4. /\ LastShot <= now'
        /\ pc' # "rearm" => LastShot + Delay <= nextCallIdle'
        /\ pc' = "polling" => LastShot <= pollStart'
        /\ pc' = "polled" /\ pollResult' = 0 => LastShot + Delay <= now'
    <3>1. CASE Tick
      BY <2>1, <2>2, <2>3, <3>1 DEF Tick
    <3>2. CASE StartTimer \/ PostToTimer \/ StopTimer \/ NoIdle \/ UNCHANGED timerVars
      BY <2>1, <2>2, <2>3, <3>2 DEF StartTimer, PostToTimer, StopTimer, NoIdle, timerVars
    <3>3. CASE LoopTest
      BY <2>1, <2>2, <2>3, <3>3 DEF LoopTest
    <3>4. CASE PollTimeout
      BY <2>1, <2>2, <2>3, <3>4 DEF PollTimeout
    <3>5. CASE PollSignal
      BY <2>1, <2>2, <2>3, <3>5 DEF PollSignal
    <3>6. CASE Rearm
      BY <2>1, <2>2, <2>3, <3>6 DEF Rearm
    <3>7. QED
      BY <3>1, <3>2, <3>3, <3>4, <3>5, <3>6 DEF TimerNext, TimerStep, TimerDone
  <2>5. QED
    BY <1>2, <1>3, <2>1, <2>4 DEF NextShotNotEarly
<1>5. CASE ~(Len(shots) > 0)
  BY <1>1, <1>2, <1>3, <1>5 DEF NextShotNotEarly
<1>6. QED
  BY <1>4, <1>5

LEMMA StepTerminated == TimerInv /\ [TimerNext]_timerVars => TerminatedNotPolling'
BY DEF TimerInv, TerminatedNotPolling, TimerNext, TimerStep, TimerDone, Tick, StartTimer, PostToTimer,
       StopTimer, LoopTest, PollTimeout, PollSignal, OnIdle, NoIdle, Rearm, timerVars

(* Every byte the timer reads, and every shot, uses up the budget that     *)
(* stopTimer() has left it.                                                *)
LEMMA StepBudget ==
  ASSUME TimerInv, TimerTypeOK', [TimerNext]_timerVars
  PROVE  StopBudget'
<1> USE DEF ShotsLeft
<1>1. /\ Len(shots) \in Nat /\ Len(pipe) \in Nat /\ stop.shots \in Nat /\ stop.place \in Nat
      /\ pipe \in Seq({"SignalWakeUp", "SignalTerminate"}) /\ shots \in Seq(Nat)
  <2>1. /\ pipe \in Seq({"SignalWakeUp", "SignalTerminate"}) /\ shots \in Seq(Nat)
        /\ stop \in [shots : Nat, place : Nat]
    BY DEF TimerInv, TimerTypeOK
  <2>2. QED
    BY <2>1
<1>2. CASE StopTimer
  <2>1. /\ pipe' = Append(pipe, "SignalTerminate") /\ stop'.shots = Len(shots)
        /\ stop'.place = Len(pipe) + 1 /\ shots' = shots
        /\ pc' = pc /\ isTerminated' = isTerminated
    BY <1>2 DEF StopTimer
  <2>2. PICK n \in Nat : n = Len(pipe) + 1
    BY <1>1
  <2>3. n \in 1 .. Len(pipe') /\ pipe'[n] = "SignalTerminate"
    BY <1>1, <2>1, <2>2
  <2>4. Len(shots') - stop'.shots + ShotsLeft(n)' <= stop'.place + 1
    BY <1>1, <2>1, <2>2
  <2>5. Len(shots') - stop'.shots + ShotsLeft(0)' <= stop'.place + 1
    BY <1>1, <2>1
  <2>6. QED
    BY <2>3, <2>4, <2>5 DEF StopBudget
<1>3. CASE ~StopTimer /\ stop.place = 0
  <2>1. stop' = stop
    BY <1>3
       DEF TimerNext, TimerStep, TimerDone, Tick, StartTimer, PostToTimer, LoopTest, PollTimeout,
           PollSignal, OnIdle, NoIdle, Rearm, timerVars
  <2>2. QED
    BY <1>3, <2>1, <1>1 DEF StopBudget
<1>4. CASE ~StopTimer /\ stop.place > 0 /\ isTerminated
  <2>1. Len(shots) - stop.shots + ShotsLeft(0) <= stop.place + 1
    BY <1>4 DEF TimerInv, StopBudget
  <2>2. pc # "polling"
    BY <1>4 DEF TimerInv, TerminatedNotPolling
  <2>3. isTerminated' /\ stop' = stop
    BY <1>4, <2>2
       DEF TimerNext, TimerStep, TimerDone, Tick, StartTimer, PostToTimer, LoopTest, PollTimeout,
           PollSignal, OnIdle, NoIdle, Rearm, timerVars
  <2>4. Len(shots') - stop.shots + ShotsLeft(0)' <= stop.place + 1
    <3>1. CASE OnIdle
      BY <1>1, <2>1, <3>1 DEF OnIdle
    <3>2. CASE LoopTest
      BY <1>1, <1>4, <2>1, <3>2 DEF LoopTest
    <3>3. CASE ~OnIdle /\ ~LoopTest
      <4>1. shots' = shots /\ (pc' = "polled" => pc = "polled")
        BY <1>4, <2>2, <3>3
           DEF TimerNext, TimerStep, TimerDone, Tick, StartTimer, PostToTimer, PollTimeout,
               PollSignal, NoIdle, Rearm, timerVars
      <4>2. QED
        BY <1>1, <2>1, <4>1
    <3>4. QED
      BY <3>1, <3>2, <3>3
  <2>5. QED
    BY <2>3, <2>4 DEF StopBudget
<1>5. CASE ~StopTimer /\ stop.place > 0 /\ ~isTerminated
  <2>1. PICK i \in 1 .. Len(pipe) :
          pipe[i] = "SignalTerminate" /\ Len(shots) - stop.shots + ShotsLeft(i) <= stop.place + 1
    BY <1>5 DEF TimerInv, StopBudget
  <2>2. CASE PollSignal
    <3>1. /\ pc = "polling" /\ pc' = "polled" /\ pipe' = Tail(pipe) /\ shots' = shots /\ stop' = stop
      BY <2>2 DEF PollSignal
    <3>2. CASE i = 1
      <4>1. isTerminated' = TRUE
        BY <2>1, <2>2, <3>2, <1>1 DEF PollSignal
      <4>2. QED
        BY <1>1, <2>1, <3>1, <3>2, <4>1 DEF StopBudget
    <3>3. CASE i # 1
      <4>1. i - 1 \in 1 .. Len(pipe') /\ pipe'[i - 1] = "SignalTerminate"
        BY <1>1, <2>1, <3>1, <3>3
      <4>2. Len(shots') - stop'.shots + ShotsLeft(i - 1)' <= stop'.place + 1
        BY <1>1, <2>1, <3>1
      <4>3. Len(shots') - stop'.shots + ShotsLeft(0)' <= stop'.place + 1
        BY <1>1, <2>1, <3>1
      <4>4. QED
        BY <4>1, <4>2, <4>3 DEF StopBudget
    <3>4. QED
      BY <3>2, <3>3
  <2>3. CASE PostToTimer
    <3>1. /\ pipe' = Append(pipe, "SignalWakeUp") /\ shots' = shots /\ stop' = stop
          /\ pc' = pc /\ isTerminated' = isTerminated
      BY <2>3 DEF PostToTimer
    <3>2. i \in 1 .. Len(pipe') /\ pipe'[i] = "SignalTerminate"
      BY <1>1, <2>1, <3>1
    <3>3. Len(shots') - stop'.shots + ShotsLeft(i)' <= stop'.place + 1
      BY <2>1, <3>1
    <3>4. QED
      BY <1>5, <3>1, <3>2, <3>3 DEF StopBudget
  <2>4. CASE OnIdle
    <3>1. /\ pipe' = pipe /\ shots' = Append(shots, now) /\ stop' = stop
          /\ pc = "polled" /\ pc' = "rearm"
      BY <2>4 DEF OnIdle
    <3>2. Len(shots') = Len(shots) + 1
      BY <1>1, <3>1
    <3>3. Len(shots') - stop'.shots + ShotsLeft(i)' <= stop'.place + 1
      <4>1. ShotsLeft(i) = i + 1 /\ ShotsLeft(i)' = i
        BY <3>1
      <4>2. QED
        BY <1>1, <2>1, <3>1, <3>2, <4>1
    <3>4. Len(shots') - stop'.shots + ShotsLeft(0)' <= stop'.place + 1
      BY <1>1, <2>1, <3>1, <3>2
    <3>5. QED
      BY <2>1, <3>1, <3>3, <3>4 DEF StopBudget
  <2>5. CASE ~PollSignal /\ ~PostToTimer /\ ~OnIdle
    <3>1. pipe # <<>>
      BY <1>1, <2>1
    <3>2. /\ pipe' = pipe /\ shots' = shots /\ stop' = stop /\ isTerminated' = isTerminated
          /\ pc' = "polled" => pc = "polled"
      BY <1>5, <2>5, <3>1
         DEF TimerNext, TimerStep, TimerDone, Tick, StartTimer, LoopTest, PollTimeout, NoIdle,
             Rearm, timerVars
    <3>3. Len(shots') - stop'.shots + ShotsLeft(i)' <= stop'.place + 1
      <4>1. ShotsLeft(i)' <= ShotsLeft(i) /\ ShotsLeft(i) \in Nat /\ ShotsLeft(i)' \in Nat
        BY <3>2
      <4>2. QED
        BY <1>1, <2>1, <3>2, <4>1
    <3>4. QED
      BY <1>5, <2>1, <3>2, <3>3 DEF StopBudget
  <2>6. QED
    BY <2>2, <2>3, <2>4, <2>5
<1>6. QED
  BY <1>1, <1>2, <1>3, <1>4, <1>5

LEMMA TimerStepInv == TimerInv /\ [TimerNext]_timerVars => TimerInv'
<1> SUFFICES ASSUME TimerInv, [TimerNext]_timerVars
             PROVE  TimerInv'
  OBVIOUS
<1>1. TimerTypeOK'
  BY TimerStepType DEF TimerInv
<1>2. (ShotSpacing /\ NextShotNotEarly /\ ShotEndsSingle /\ SingleShotOnce)'
  BY <1>1, OnIdleShot, OtherShots
<1>3. StopBudget' /\ TerminatedNotPolling'
  BY <1>1, StepBudget, StepTerminated
<1>4. QED
  BY <1>1, <1>2, <1>3 DEF TimerInv

(* No two shots of a timer are closer than its delay.                      *)
THEOREM ShotSpacingHolds == TimerSpec => []ShotSpacing
<1>1. TimerInv => ShotSpacing
  BY DEF TimerInv
<1>2. QED
  BY <1>1, TimerInitInv, TimerStepInv, PTL DEF TimerSpec

(* A single-shot timer shoots at most once.                                *)
THEOREM SingleShotOnceHolds == TimerSpec => []SingleShotOnce
<1>1. TimerInv => SingleShotOnce
  BY DEF TimerInv
<1>2. QED
  BY <1>1, TimerInitInv, TimerStepInv, PTL DEF TimerSpec

(* What is left of a timer after stopTimer() is bounded by its pipe.       *)
THEOREM FewShotsAfterStopHolds == TimerSpec => []FewShotsAfterStop
<1>1. TimerInv => FewShotsAfterStop
  <2> SUFFICES ASSUME TimerInv, stop.place > 0
               PROVE  Len(shots) - stop.shots <= stop.place + 1
    BY DEF FewShotsAfterStop
  <2>1. Len(shots) \in Nat /\ stop.shots \in Nat /\ stop.place \in Nat
    BY DEF TimerInv, TimerTypeOK
  <2>2. \E i \in Nat : Len(shots) - stop.shots + ShotsLeft(i) <= stop.place + 1
    BY DEF TimerInv, StopBudget
  <2>3. QED
    BY <2>1, <2>2 DEF ShotsLeft
<1>2. QED
  BY <1>1, TimerInitInv, TimerStepInv, PTL DEF TimerSpec
=============================================================================
