---------------------------- MODULE QueueDataFrames ----------------------------
(***************************************************************************)
(* Frames/QueueDataFrames: frames collected by one writing thread, given   *)
(* out in packets to the reading thread that is bound to the queue, and    *)
(* removed when a ticket confirms their packet.                            *)
(*                                                                         *)
(* A frame is its number in the order of collection.  Every method but the *)
(* collecting ones holds the mutex, so a call is a step.  The class has no *)
(* caller in the repository: the reading threads (any of which may be      *)
(* bound) and their peers are modelled as its header describes them, and   *)
(* as ThreadDataFrames does it with its own queue.  A snapshot, made by    *)
(* each call that changes the queue, is stored at once in the queue's      *)
(* file; the program may end at any time and starts with what is there.    *)
(***************************************************************************)
EXTENDS Integers, FiniteSets, SequencesExt, Sublists

CONSTANTS
  Threads, NoThread,  \* threads that may be bound; the null pointer
  Priority, Length,   \* of frame 1, 2, ...: uint8_t and uint32_t
  MaximumPacketSize,  \* _maximumPacketSize
  MaxBinds,           \* bound: bindThread() and unbindThread()
  MaxResets           \* bound: connections lost and restarts of the program

Frames == DOMAIN Priority
FrameSizeType == 4    \* sizeof: the length in front of a frame
FirstPacketId == 1    \* every thread's factory of packets counts from here

ASSUME QueueAssumption ==
  /\ NoThread \notin Threads
  /\ Priority \in Seq(0 .. 255) /\ Length \in Seq(Nat) /\ Len(Length) = Len(Priority)
  /\ MaximumPacketSize \in Nat /\ MaxBinds \in Nat /\ MaxResets \in Nat

VARIABLES
  appendedFramesList, appendingMaximumPriority,
  queuedFramesList, queuedMaximumPriority,
  packetId,      \* of each frame: -1, or the packet it was given out in
  thread,        \* the bound thread
  file,          \* the last snapshot
  due,           \* threads that have a MessageQueue, a ticket or a new connection to act upon
  terminate,     \* threads asked to terminate
  nextId,        \* the next packet number of each thread
  sent,          \* packets under way to the peer
  tickets,       \* packets the peer has confirmed, ticket under way
  collected,     \* history: frames collected
  received,      \* history: frames in packets that the peer received
  unapplied,     \* history: frames collected but not applied when the program ended
  reused,        \* history: a packet was given a number that another thread's packet still has
  binds, resets  \* bound counters

queueVars  == <<appendedFramesList, appendingMaximumPriority, queuedFramesList, queuedMaximumPriority, packetId, thread, file>>
readerVars == <<due, terminate, nextId, sent, tickets, received>>
queueDataFramesVars == <<queueVars, readerVars, collected, unapplied, reused, binds, resets>>

Greatest(priorities) == CHOOSE p \in priorities : \A q \in priorities : q <= p
MaximumPriority(least, list) == Greatest({least} \cup {Priority[f] : f \in Range(list)})

Init ==
  /\ appendedFramesList = <<>> /\ appendingMaximumPriority = 1
  /\ queuedFramesList = <<>> /\ queuedMaximumPriority = 1
  /\ packetId = [f \in Frames |-> -1]
  /\ thread = NoThread /\ file = <<>>
  /\ due = {} /\ terminate = {} /\ nextId = [t \in Threads |-> FirstPacketId]
  /\ sent = {} /\ tickets = {}
  /\ collected = 0 /\ received = {} /\ unapplied = {} /\ reused = FALSE /\ binds = 0 /\ resets = 0

(***************************************************************************)
(* The writing thread.                                                     *)
(***************************************************************************)
Collect(list) ==
  /\ appendedFramesList' = appendedFramesList \o list
  /\ appendingMaximumPriority' = MaximumPriority(appendingMaximumPriority, list)
  /\ collected' = collected + Len(list)
  /\ UNCHANGED <<queuedFramesList, queuedMaximumPriority, packetId, thread, file, readerVars, unapplied, reused, binds, resets>>

CollectAppendingFrame == collected + 1 \in Frames /\ Collect(<<collected + 1>>)

CollectAppendingFramesList ==
  collected + 2 \in Frames /\ Collect(<<collected + 1, collected + 2>>)

(* Who finds a MessageQueue in its queue after notifyThreadQueueChanged(). *)
NotifyThreadQueueChanged(bound) == due' = due \cup ({bound} \ {NoThread})

(* Of every frame its length and its bytes; not its packet.                *)
MakeSnapshot(list) == [i \in DOMAIN list |-> [length |-> Length[list[i]], buffer |-> list[i]]]

(* parse() makes no frame of length 0.                                     *)
Parse(snapshot) ==
  LET valid == Sublist(snapshot, {i \in DOMAIN snapshot : snapshot[i].length > 0})
  IN  [i \in DOMAIN valid |-> valid[i].buffer]

ApplyCollectedFrames ==
  /\ appendedFramesList # <<>>
  /\ queuedFramesList' = queuedFramesList \o appendedFramesList
  /\ appendedFramesList' = <<>>
  /\ queuedMaximumPriority' = Greatest({queuedMaximumPriority, appendingMaximumPriority})
  /\ appendingMaximumPriority' = 1
  /\ file' = MakeSnapshot(queuedFramesList')
  /\ NotifyThreadQueueChanged(thread)
  /\ UNCHANGED <<packetId, thread, terminate, nextId, sent, tickets, collected, unapplied, reused, received, binds, resets>>

(***************************************************************************)
(* The reading threads.  A thread that was replaced learns of it only when *)
(* it handles its terminate event, and goes on until then.                 *)
(***************************************************************************)
BindThread(t) ==
  /\ binds < MaxBinds
  /\ terminate' = terminate \cup ({thread} \ {t, NoThread})
  /\ thread' = t
  /\ NotifyThreadQueueChanged(t)
  /\ binds' = binds + 1
  /\ UNCHANGED <<appendedFramesList, appendingMaximumPriority, queuedFramesList, queuedMaximumPriority, file, packetId, nextId, sent, tickets, collected, unapplied, reused, received, resets>>

UnbindThread(t) ==
  /\ thread = t /\ binds < MaxBinds
  /\ terminate' = terminate \cup {t}
  /\ thread' = NoThread
  /\ binds' = binds + 1
  /\ UNCHANGED <<appendedFramesList, appendingMaximumPriority, queuedFramesList, queuedMaximumPriority, file, packetId, due, nextId, sent, tickets, collected, unapplied, reused, received, resets>>

(* A thread that has terminated is gone with its connection.               *)
Terminated(t) ==
  /\ t \in terminate /\ t # thread
  /\ due' = due \ {t} /\ terminate' = terminate \ {t}
  /\ sent' = {p \in sent : p.thread # t} /\ tickets' = {p \in tickets : p.thread # t}
  /\ UNCHANGED <<queueVars, nextId, collected, unapplied, reused, received, binds, resets>>

(* nullptr == threadFor && _thread != threadFor: threadFor is never null.  *)
ServedThread(t) == t # NoThread \/ thread = t

SizeOf(list) == FoldLeft(LAMBDA size, f : size + Length[f] + FrameSizeType, 0, list)

(* Places of the frames that are in no packet and have the priority        *)
(* required for sending.                                                   *)
Candidates ==
  {i \in DOMAIN queuedFramesList :
     packetId[queuedFramesList[i]] < 1 /\ Priority[queuedFramesList[i]] >= queuedMaximumPriority}

(* Mutant of SendingList: a frame that does not fit is passed over.        *)
SendingListSkipping ==
  FoldLeft(LAMBDA list, f : IF SizeOf(Append(list, f)) < MaximumPacketSize THEN Append(list, f) ELSE list,
           <<>>, Sublist(queuedFramesList, Candidates))

(* The frames for the next packet: from the front, as long as they fit.    *)
SendingList ==
  LET candidates == Sublist(queuedFramesList, Candidates)
      fitting == {n \in 1 .. Len(candidates) : SizeOf(SubSeq(candidates, 1, n)) < MaximumPacketSize}
  IN  SubSeq(candidates, 1, Cardinality(fitting))

(* The numbers that thread t has used since the program started.           *)
Used(t) == FirstPacketId .. nextId[t] - 1

(* Another thread has used the number: its ticket may still come, or a     *)
(* queued frame still has it.  Tickets tell packets by their number alone. *)
InUse(t, id) ==
  \E u \in Threads \ {t} :
    /\ id \in Used(u)
    /\ \/ \E f \in Range(queuedFramesList) : packetId[f] = id
       \/ \E p \in sent \cup tickets : p.thread = u /\ p.id = id

PrepareSendingList(t) ==
  /\ t \in due /\ ServedThread(t)
  /\ due' = due \ {t}
  /\ packetId' = [f \in Frames |-> IF f \in Range(SendingList) THEN nextId[t] ELSE packetId[f]]
  /\ IF SendingList = <<>>
     THEN UNCHANGED <<sent, nextId, reused>>
     ELSE /\ sent' = sent \cup {[thread |-> t, id |-> nextId[t], frames |-> SendingList]}
          /\ nextId' = [nextId EXCEPT ![t] = @ + 1]
          /\ reused' = (reused \/ InUse(t, nextId[t]))
  /\ UNCHANGED <<appendedFramesList, appendingMaximumPriority, queuedFramesList, queuedMaximumPriority, file, thread, terminate, tickets, collected, unapplied, received, binds, resets>>

Oldest(p, packets) == p \in packets /\ \A q \in packets : q.thread = p.thread => p.id <= q.id

(* The peer receives a packet and answers with a ticket.                   *)
PeerReceive(p) ==
  /\ Oldest(p, sent)
  /\ sent' = sent \ {p} /\ tickets' = tickets \cup {p}
  /\ received' = received \cup Range(p.frames)
  /\ UNCHANGED <<queueVars, due, terminate, nextId, collected, unapplied, reused, binds, resets>>

(* Mutant of Unconfirmed: a ticket confirms all that was given out.        *)
UnconfirmedAny(id) == SelectSeq(queuedFramesList, LAMBDA f : packetId[f] < 1)

Unconfirmed(id) ==
  Sublist(queuedFramesList, {i \in DOMAIN queuedFramesList : packetId[queuedFramesList[i]] # id})

(* Mutant of ApplyTicket: the maximum is never lowered.                    *)
ApplyTicketKeepingMaximum(p) ==
  /\ Oldest(p, tickets) /\ ServedThread(p.thread)
  /\ tickets' = tickets \ {p}
  /\ queuedFramesList' = Unconfirmed(p.id)
  /\ file' = MakeSnapshot(Unconfirmed(p.id))
  /\ due' = due \cup {p.thread}
  /\ UNCHANGED <<appendedFramesList, appendingMaximumPriority, queuedMaximumPriority, packetId, thread, terminate, nextId, sent, collected, unapplied, reused, received, binds, resets>>

ApplyTicket(p) ==
  /\ Oldest(p, tickets) /\ ServedThread(p.thread)
  /\ tickets' = tickets \ {p}
  /\ queuedFramesList' = Unconfirmed(p.id)
  /\ queuedMaximumPriority' = MaximumPriority(1, Unconfirmed(p.id))
  /\ file' = MakeSnapshot(Unconfirmed(p.id))
  /\ due' = due \cup {p.thread}
  /\ UNCHANGED <<appendedFramesList, appendingMaximumPriority, packetId, thread, terminate, nextId, sent, collected, unapplied, reused, received, binds, resets>>

(* Mutant of Reset: only the frame at the front is given out again.        *)
ResetFirst(t) ==
  /\ t = thread /\ resets < MaxResets
  /\ packetId' = [f \in Frames |-> IF queuedFramesList # <<>> /\ f = Head(queuedFramesList) THEN -1 ELSE packetId[f]]
  /\ sent' = {p \in sent : p.thread # t}
  /\ tickets' = {p \in tickets : p.thread # t}
  /\ due' = due \cup {t}
  /\ resets' = resets + 1
  /\ UNCHANGED <<appendedFramesList, appendingMaximumPriority, queuedFramesList, queuedMaximumPriority, file, thread, terminate, nextId, collected, unapplied, reused, received, binds>>

(* A new connection of the bound thread: what was under way is lost, but   *)
(* for tickets already read; reset() gives every frame out again.          *)
Reset(t) ==
  /\ t = thread /\ resets < MaxResets
  /\ packetId' = [f \in Frames |-> IF f \in Range(queuedFramesList) THEN -1 ELSE packetId[f]]
  /\ sent' = {p \in sent : p.thread # t}
  /\ \E read \in SUBSET tickets :
       /\ \A p \in tickets : p.thread # t => p \in read
       /\ tickets' = read
  /\ due' = due \cup {t}
  /\ resets' = resets + 1
  /\ UNCHANGED <<appendedFramesList, appendingMaximumPriority, queuedFramesList, queuedMaximumPriority, file, thread, terminate, nextId, collected, unapplied, reused, received, binds>>

(* The program has ended and starts again: it collects the frames of the   *)
(* file, as loadFromFile() reads them.  (Those without data lose their     *)
(* definition and so their priority: module DataFrames.)                   *)
Restart ==
  /\ resets < MaxResets
  /\ appendedFramesList' = Parse(file)
  /\ appendingMaximumPriority' = MaximumPriority(1, Parse(file))
  /\ queuedFramesList' = <<>> /\ queuedMaximumPriority' = 1
  /\ packetId' = [f \in Frames |-> -1]
  /\ thread' = NoThread /\ due' = {} /\ terminate' = {} /\ nextId' = [t \in Threads |-> FirstPacketId]
  /\ sent' = {} /\ tickets' = {}
  /\ unapplied' = unapplied \cup (Range(appendedFramesList) \ Range(Parse(file)))
  /\ binds' = 0 /\ resets' = resets + 1
  /\ UNCHANGED <<file, collected, received, reused>>

Writer == CollectAppendingFrame \/ CollectAppendingFramesList \/ ApplyCollectedFrames

Next ==
  \/ Writer \/ Restart
  \/ \E t \in Threads : BindThread(t) \/ UnbindThread(t) \/ Terminated(t) \/ PrepareSendingList(t) \/ Reset(t)
  \/ \E p \in sent : PeerReceive(p)
  \/ \E p \in tickets : ApplyTicket(p)

Spec == Init /\ [][Next]_queueDataFramesVars

(***************************************************************************)
(* Properties.                                                             *)
(***************************************************************************)

(* Where a frame is that the queue was given.                              *)
Kept(f) == f \in Range(appendedFramesList) \cup Range(queuedFramesList) \cup received \cup unapplied

(* A frame leaves the queue only after the peer received it, whatever      *)
(* tickets come late (applyTicket()), as long as no thread gives out the   *)
(* number of a packet that a thread before it gave out and that is not yet *)
(* done with.  One thread never does, over all its connections.  The end   *)
(* of the program loses only what was collected and never applied: every   *)
(* snapshot holds all that is owed, frames in a packet under way included  *)
(* (makeSnapshot()).                                                       *)
NoFrameLost == ~reused => \A f \in 1 .. collected : Kept(f)

(* What the header says of applyTicket(), of any thread: it removes frames *)
(* that were confirmed, and checks that the thread is the active one       *)
(* (QueueDataFrames.h:101, :104).  The check never fires, so the ticket of *)
(* a thread that was replaced removes what its successor gave out under    *)
(* the same number.                                                        *)
RemovedWereConfirmed == \A f \in 1 .. collected : Kept(f)

(* Frames stay in the order of collection, each once, and among frames of  *)
(* one priority none is given out before one that was queued earlier: a    *)
(* frame that does not fit holds back those behind it (the append in       *)
(* applyCollectedFrames(), the break of prepareSendingList()).  The        *)
(* priority required for sending is that of some queued frame: were it     *)
(* higher, nothing would be sent any more; were it lower, a frame of low   *)
(* priority would go before one of high priority (applyTicket()).          *)
FifoPerPriority ==
  /\ LET all == queuedFramesList \o appendedFramesList
     IN  \A i, j \in 1 .. Len(all) : i < j => all[i] < all[j]
  /\ \A i, j \in 1 .. Len(queuedFramesList) :
       LET f == queuedFramesList[i]  g == queuedFramesList[j]
       IN  i < j /\ Priority[f] = Priority[g] /\ packetId[g] # -1 => packetId[f] # -1
  /\ queuedMaximumPriority = MaximumPriority(1, queuedFramesList)

(* Fairness: the bound thread acts upon its messages, the peer and the     *)
(* network deliver, and the writer applies what it collected.              *)
Fairness ==
  /\ WF_queueDataFramesVars(ApplyCollectedFrames)
  /\ \A t \in Threads : WF_queueDataFramesVars(PrepareSendingList(t))
  /\ WF_queueDataFramesVars(\E p \in sent : PeerReceive(p))
  /\ WF_queueDataFramesVars(\E p \in tickets : ApplyTicket(p))

FairSpec == Spec /\ Fairness

(* When one thread is bound for good (a thread that replaces another finds *)
(* frames given out that nobody will confirm), every frame is received and *)
(* confirmed: the notifications of bindThread() and applyCollectedFrames() *)
(* and the reset of a new connection leave none behind.  Those that a      *)
(* reused number removed before a restart stay lost.                       *)
FrameConfirmed ==
  []<>\/ binds # 1 \/ reused
      \/ (1 .. collected) \ unapplied \subseteq received \ Range(appendedFramesList \o queuedFramesList)

(***************************************************************************)
(* The inductive invariant of the queue, from which NoFrameLost and        *)
(* FifoPerPriority follow.                                                 *)
(***************************************************************************)
Packet == [thread : Threads, id : Nat, frames : Seq(Frames)]
SavedFrame == [length : Nat, buffer : Frames]

TypeOK ==
  /\ appendedFramesList \in Seq(Frames) /\ queuedFramesList \in Seq(Frames)
  /\ appendingMaximumPriority \in Nat /\ queuedMaximumPriority \in Nat
  /\ packetId \in [Frames -> Nat \cup {-1}]
  /\ thread \in Threads \cup {NoThread}
  /\ file \in Seq(SavedFrame)
  /\ due \subseteq Threads /\ terminate \subseteq Threads
  /\ nextId \in [Threads -> Nat \ {0}]
  /\ sent \subseteq Packet /\ tickets \subseteq Packet
  /\ collected \in 0 .. Len(Priority)
  /\ received \subseteq Frames /\ unapplied \subseteq Frames /\ reused \in BOOLEAN
  /\ binds \in Nat /\ resets \in 0 .. MaxResets

Increasing(list) == \A i, j \in DOMAIN list : i < j => list[i] < list[j]

(* The lists hold frames in the order of collection, each once.            *)
OrderOK ==
  /\ Increasing(queuedFramesList) /\ Increasing(appendedFramesList)
  /\ \A f \in Range(queuedFramesList), g \in Range(appendedFramesList) : f < g
  /\ Range(queuedFramesList) \cup Range(appendedFramesList) \subseteq 1 .. collected

(* The file holds what the queue holds, and may hold what has left it only *)
(* while the queue is empty, after a restart.                              *)
FileOK ==
  /\ \A i, j \in DOMAIN file : i < j => file[i].buffer < file[j].buffer
  /\ \A i \in DOMAIN file : file[i].buffer <= collected
  /\ \A f \in Range(queuedFramesList) : \E i \in DOMAIN file : file[i] = [length |-> Length[f], buffer |-> f]

(* Only queued frames are in packets, and among frames of one priority     *)
(* none without one that was queued earlier.                               *)
GivenOutOK ==
  /\ \A f \in Frames : f > collected \/ f \in Range(appendedFramesList) => packetId[f] = -1
  /\ \A i, j \in DOMAIN queuedFramesList :
       LET f == queuedFramesList[i]  g == queuedFramesList[j]
       IN  i < j /\ Priority[f] = Priority[g] /\ packetId[g] # -1 => packetId[f] # -1

PriorityOK ==
  /\ appendingMaximumPriority = MaximumPriority(1, appendedFramesList)
  /\ queuedMaximumPriority = MaximumPriority(1, queuedFramesList)

(* A packet that is under way or confirmed holds every queued frame with   *)
(* its number, while no number was reused; what is confirmed was received. *)
PacketsOK ==
  /\ \A f \in Frames : packetId[f] = -1 \/ \E t \in Threads : packetId[f] \in Used(t)
  /\ \A p \in sent \cup tickets : p.id \in Used(p.thread)
  /\ ~reused => \A p \in sent \cup tickets : \A f \in Range(queuedFramesList) :
                 packetId[f] = p.id => f \in Range(p.frames)
  /\ \A p \in tickets : Range(p.frames) \subseteq received

IInv ==
  /\ TypeOK /\ OrderOK /\ FileOK /\ GivenOutOK /\ PriorityOK /\ PacketsOK /\ NoFrameLost

(* A frame of length 0 is invalid (DataFrameRawData) and not collected.    *)
FramesValid == \A f \in Frames : Length[f] > 0

=============================================================================
