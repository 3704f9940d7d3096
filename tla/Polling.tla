-------------------------------- MODULE Polling --------------------------------
(***************************************************************************)
(* Threads/PollingsLinux: the list of pollers, the array of their pollfd   *)
(* structures, and the rounds of poll(), with a thread that registers and  *)
(* unregisters pollers and opens their descriptors between rounds, and     *)
(* closes them at any time, in the slots of a round too.                   *)
(*                                                                         *)
(* A descriptor number is given again after close(), so every opened file  *)
(* has a number of its own, its generation, as history.                    *)
(***************************************************************************)
EXTENDS Integers, FiniteSets, Sequences, SequencesExt, Sublists

CONSTANTS
  Pollers,     \* PollerBase objects
  Descriptors, \* numbers the system gives
  MaxOpens     \* bound: descriptors opened

ASSUME PollingAssumption ==
  Descriptors \subseteq Nat /\ IsFiniteSet(Descriptors) /\ MaxOpens \in Nat

VARIABLES
  list,     \* _pollers
  fd,       \* _descriptor of each poller
  array,    \* _pollStructArray: descriptor and, as history, poller and file
  revents,  \* revents of its entries
  next,     \* entry the round is at, 0 outside
  file,     \* generation of the file each descriptor stands for, 0 for none
  ready,    \* files with an event that nobody has handled
  opens,    \* bound counter, and the last generation
  handled   \* history: the last entry that had an event, as <<poller, file, poller called, its file>>

pollingVars == <<list, fd, array, revents, next, file, ready, opens, handled>>

INVALID == -1
NoEntry == [fd |-> 0, poller |-> "none", file |-> 0]
FileOf(d) == IF d = INVALID THEN 0 ELSE file[d]

Init ==
  /\ list = <<>> /\ array = <<>> /\ revents = <<>> /\ next = 0 /\ opens = 0
  /\ fd = [p \in Pollers |-> INVALID]
  /\ file = [d \in Descriptors |-> 0]
  /\ ready = {} /\ handled = <<>>

(***************************************************************************)
(* The list.                                                               *)
(***************************************************************************)
(* indexOfDescriptor(), 0 for none.                                        *)
IndexOfDescriptor(d) == SelectInSeq(list, LAMBDA p : fd[p] = d)

Resize == array' = [i \in 1 .. Len(list') |-> IF i <= Len(array) THEN array[i] ELSE NoEntry]

RegisterPoller(p) ==
  LET index == IndexOfDescriptor(fd[p])
  IN  /\ list' = IF index > 0 THEN [list EXCEPT ![index] = p] ELSE Append(list, p)
      /\ Resize

UnregisterPoller(p) ==
  /\ list' = Sublist(list, {i \in DOMAIN list : list[i] # p})
  /\ Resize

(***************************************************************************)
(* The thread between rounds.                                              *)
(***************************************************************************)
(* Closed pollers are found by their common number INVALID: a thread has   *)
(* one at a time when it registers one.                                    *)
Register(p) ==
  /\ next = 0
  /\ fd[p] = INVALID => ~\E i \in DOMAIN list : fd[list[i]] = INVALID
  /\ RegisterPoller(p)
  /\ UNCHANGED <<fd, revents, next, file, ready, opens, handled>>

Unregister(p) ==
  /\ next = 0 /\ Contains(list, p)
  /\ UnregisterPoller(p)
  /\ UNCHANGED <<fd, revents, next, file, ready, opens, handled>>

(* open() of a handler: the system gives the lowest number that is free.   *)
OpenDescriptor(p) ==
  LET free == {d \in Descriptors : file[d] = 0}
  IN  /\ next = 0 /\ fd[p] = INVALID /\ free # {} /\ opens < MaxOpens
      /\ \E d \in free :
           /\ \A e \in free : d <= e
           /\ fd' = [fd EXCEPT ![p] = d]
           /\ file' = [file EXCEPT ![d] = opens + 1]
      /\ opens' = opens + 1
      /\ UNCHANGED <<list, array, revents, next, ready, handled>>

Close(p) ==
  /\ fd[p] # INVALID
  /\ fd' = [fd EXCEPT ![p] = INVALID]
  /\ file' = [file EXCEPT ![fd[p]] = 0]
  /\ ready' = ready \ {FileOf(fd[p])}

CloseDescriptor(p) ==
  /\ next = 0
  /\ Close(p)
  /\ UNCHANGED <<list, array, revents, next, opens, handled>>

(***************************************************************************)
(* A round.                                                                *)
(***************************************************************************)
Assign(p) == [fd |-> fd[p], poller |-> p, file |-> FileOf(fd[p])]

HasEvent(entry) == entry.fd # INVALID /\ (entry.fd \notin Descriptors \/ file[entry.fd] \in ready \cup {0})

(* A signal that interrupts the wait has it begin again.                   *)
Poll ==
  LET filled == [i \in 1 .. Len(array) |-> Assign(list[i])]
  IN  /\ next = 0 /\ Len(array) > 0
      /\ array' = filled
      /\ revents' = [i \in 1 .. Len(array) |-> HasEvent(filled[i])]
      /\ next' = IF \E i \in 1 .. Len(array) : HasEvent(filled[i]) THEN 1 ELSE 0
      /\ UNCHANGED <<list, fd, file, ready, opens, handled>>

Advance == next' = IF next = Len(array) THEN 0 ELSE next + 1

(* What the slots of the poller do next.                                   *)
Callback ==
  \/ UNCHANGED <<fd, file>>
  \/ \E q \in Pollers :
       /\ fd[q] # INVALID
       /\ fd' = [fd EXCEPT ![q] = INVALID]
       /\ file' = [file EXCEPT ![fd[q]] = 0]

(* Mutant of ProcessEvent: the event's descriptor is not compared.         *)
ProcessEventAny ==
  /\ next # 0 /\ revents[next]
  /\ LET p == list[next]
     IN  /\ handled' = <<array[next].poller, array[next].file, p, FileOf(fd[p])>>
         /\ Callback
         /\ ready' = {g \in ready \ {array[next].file} : \E d \in Descriptors : file'[d] = g}
  /\ Advance
  /\ UNCHANGED <<list, array, revents, opens>>

(* PollerBase::process(): the poller refuses another's event.              *)
ProcessEvent ==
  /\ next # 0 /\ revents[next]
  /\ LET p == list[next]
     IN  IF array[next].fd = fd[p]
         THEN /\ handled' = <<array[next].poller, array[next].file, p, FileOf(fd[p])>>
              /\ Callback
              /\ ready' = {g \in ready \ {array[next].file} : \E d \in Descriptors : file'[d] = g}
         ELSE UNCHANGED <<fd, file, ready, handled>>
  /\ Advance
  /\ UNCHANGED <<list, array, revents, opens>>

ProcessNone ==
  /\ next # 0 /\ ~revents[next]
  /\ Advance
  /\ UNCHANGED <<list, fd, array, revents, file, ready, opens, handled>>

(* An event of a file that is open, from outside.                          *)
EventHappens ==
  /\ \E d \in Descriptors : file[d] # 0 /\ ready' = ready \cup {file[d]}
  /\ UNCHANGED <<list, fd, array, revents, next, file, opens, handled>>

Round == Poll \/ ProcessEvent \/ ProcessNone
Next ==
  \/ Round \/ EventHappens
  \/ \E p \in Pollers : Register(p) \/ Unregister(p) \/ OpenDescriptor(p) \/ CloseDescriptor(p)

Spec == Init /\ [][Next]_pollingVars

(***************************************************************************)
(* Properties.                                                             *)
(***************************************************************************)

(* An event is handled by the poller whose file it happened on, never by   *)
(* one that has the descriptor's number now (process() compares numbers,   *)
(* and nothing opens a descriptor within a round).                         *)
EventReachesOwner == handled # <<>> => handled[1] = handled[3] /\ handled[2] = handled[4]

(***************************************************************************)
(* The inductive invariant behind EventReachesOwner.                       *)
(***************************************************************************)
Entry == [fd : Int, poller : Pollers \cup {"none"}, file : Nat]

TypeOK ==
  /\ list \in Seq(Pollers) /\ array \in Seq(Entry) /\ Len(array) = Len(list)
  /\ fd \in [Pollers -> Descriptors \cup {INVALID}]
  /\ file \in [Descriptors -> 0 .. MaxOpens]
  /\ opens \in 0 .. MaxOpens /\ ready \subseteq 1 .. MaxOpens
  /\ next \in 0 .. Len(list)

(* An open poller has a descriptor of its own.                             *)
DescriptorsOK ==
  /\ \A p \in Pollers : fd[p] # INVALID => file[fd[p]] # 0
  /\ \A p, q \in Pollers : fd[p] = fd[q] /\ fd[p] # INVALID => p = q

(* In a round, an entry is that of the poller at its place; while the      *)
(* poller has the entry's descriptor, this stands for the entry's file.    *)
RoundOK ==
  next # 0 => \A i \in DOMAIN array :
    /\ array[i].poller = list[i]
    /\ i \in DOMAIN revents /\ (revents[i] => array[i].fd # INVALID)
    /\ array[i].fd = fd[list[i]] => array[i].file = FileOf(fd[list[i]]) \/ array[i].fd = INVALID

IInv == TypeOK /\ DescriptorsOK /\ RoundOK /\ EventReachesOwner

(* An event of a polled file is handled, unless it is closed or its poller *)
(* is taken off the list.                                                  *)
EventsHandled ==
  \A g \in 1 .. MaxOpens : (g \in ready) ~> (g \notin ready \/ ~\E i \in DOMAIN list : FileOf(fd[list[i]]) = g)
================================================================================
