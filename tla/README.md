# A TLA+ development of threader

threader is a C++/Qt framework for daemons: a tree of threads that exchange
messages, with polling of descriptors, timers, TCP/UDP/serial connection
handlers, a protocol of data frames with tickets, a queue of frames, logging, a
generator of code from frame definitions, and demonstration programs. This
directory holds TLA+ modules of it, TLC configurations that model-check them on
small instances, and theorems about its core whose proofs TLAPS checks.

    tlc -config ThreadBase.cfg MCThreadBase     # one run
    tlapm ThreadBaseProofs.tla                  # one proof module

## 1. The system

| Component | State | Operations | Interacts by | Correct when |
|---|---|---|---|---|
| **ThreadBase**, QueueMessages, PollerThread (`src/Threads`) | `_isTerminated`, `_childThreadsList`, `_queue` (mutex), signal pipe (non-blocking), QThread's running/finished | `run`, `postMessage(s)`, `postTerminateEvent`, `registerAndStartChildThread`, `terminateChildThread(s)`, `destroyTerminatedChildThreads`, `processMessages`, slots of the three signals | messages and one-byte signals between parent and child; pointers to children; queued Qt signals in EventLoop mode | threads stop from the leaves to the root; nothing is used after its delete; messages are FIFO and wake their thread; stop completes |
| **ThreadTimer** | `_multiShot`, `_delay`, `_nextCallIdle`, `_shotCount` | `onIdle`, `startTimer`, `stopTimer` | `MessageTimer` to its owner | shots are a delay apart; single shot is single; stop ends it |
| **AppMain / Service / ThreadMainDaemon** | main and log thread | start, stop, console reader, watchdog, statistics snapshot | `postTerminateEvent` until finished | stop completes; logs outlive the main thread |
| **Polling** (Linux, Windows) | list of pollers, pollfd array / event list | register, unregister, `poll` | virtual `assign`/`process` of each poller | every event reaches the poller it happened on |
| **ListThreads** | list of threads, statistics by address | register, unregister, accumulate, snapshot | mutex, lazily created singleton | statistics of running threads only, each its own |
| **ThreadHandler**, HandlerTcp/Udp/SerialPort, SocketUtils, SerialUtils, TrafficCounter | connection state, descriptor, input and output buffers | open, close, process, sendPacket, reconnect | Polling, packet factory, messages | no bytes of an old connection in a new one; a lost connection is opened again; a descriptor held exactly when open |
| **ThreadListenSocket**, PollerListenSocket | listening descriptor | initialise, accept | signals to its thread, a child per connection | each accepted descriptor is owned or closed |
| **ThreadDataFrames**, DataFramesPackets | packet id, outgoing queue, waiting ticket | sendFrame, onPacketReceived, applyTicket, onConnected | packets and tickets between two peers | what is acknowledged was received; order is kept over reconnections |
| **Packet factories** | none (bytes) | build, `tryExtractPacket` | the input buffer of a handler | what was sent comes out, once and in order, however it was cut |
| **QueueDataFrames** | collected, sending and sent lists, bound thread | append, prepare, applyTicket, reset, bind, snapshot | mutex; notifies the bound thread | no frame is lost before its ticket, a restart included |
| **DataFrames**, atoms, masks, raw data, DataFramesFactory | capacity, index and values of a frame; definitions and atoms of a factory | write, parse, resize, set, match, register | | parse inverts write; a factory deletes what it owns, once |
| **Contract builder** (`Demo/FramesContractBuilder`) | document, definitions, two output files | read, generate, write | | every generated function sets each atom of its frame |
| **ThreadLogs**, WriterLogs | buffer, file of the day, level | doMessageLog, flush, rotation | messages from every thread, deadly signals | no line is lost or reordered |
| **Utils** (IpMask, CrcUtils, DataStream, ...) | | pure functions | | agree with a reference definition |
| **Demonstrations** (SimpleClient, SimpleServer, Udp) | time of the last packets | hello, welcome, alive, echo | TCP, UDP | a peer is given up only with its connection; echoes are whole and in order |

What is hard here: the two-step post (enqueue under the mutex, then a byte in
the pipe), a pipe whose overflow is ignored, children deleted by a parent that
handles messages in the middle of stopping them, the window between a child's
last signal and `isFinished()`, idle calls that race the bytes of the pipe,
connections lost between a packet and its ticket, partial writes, functions that
call each other in a circle (`setConnectionState`, `close`, `setDescriptor`),
descriptors that the system gives again, and functions of a dozen system calls
any of which may fail. `PROJECT.json` lists these hazards at their lines, each
with the properties that would catch it.

## 2. Modules

| Module | What it is |
|---|---|
| `ThreadBase` | the tree of threads and the stop loop of the application |
| `ThreadTree` | abstract: the life of a tree of threads (begin, finish, delete) |
| `Mailbox` | abstract: FIFO mailboxes, closed by a thread that has none of its children's messages pending |
| `MCThreadBase` | trees and bounds for TLC |
| `ThreadBaseProofs` | theorems about `ThreadBase`: types, lives and order of stopping; mail and wake-ups |
| `EventLoopThread` | a thread in `ThreadRunMode::EventLoop` |
| `ThreadTimer` | a timer, its owner and the clock |
| `DataFramesLink` | two `ThreadDataFrames` and the connections between them |
| `TicketChannel` | abstract: frames received in order, confirmed after receipt |
| `DataFramesLinkProofs` | theorems about `DataFramesLink` |
| `QueueDataFrames` | the queue of frames, the threads that are bound to it, its snapshots and restarts |
| `QueueDataFramesProofs` | theorems about `QueueDataFrames` |
| `Sublists`, `SublistsProofs` | what a loop leaves of a list, by place, and rows of numbers in turn; lemmas about them and about sequences |
| `ThreadHandler`, `HandlersWindows` | a handler thread with its device, buffers and reconnection, on Linux and on Windows |
| `ThreadHandlerProofs` | theorems about `ThreadHandler` and `HandlersWindows` |
| `Opening` | the system calls that make a descriptor, each of which may fail |
| `ListenSocket`, `ListenSocketWindows` | the listening socket with its children and descriptors; the same on Windows |
| `Polling`, `PollingWindows` | rounds of `poll()`; rounds over Windows events |
| `NetworkProofs` | theorems about `ListenSocket` and `PacketStream` |
| `ThreadLogs` | the log thread, its buffer and files, and the order of stopping |
| `ServicesProofs` | theorems about `Polling`, `ThreadLogs` and `ThreadTimer` |
| `ListThreads` | the registry of threads and the statistics file |
| `PacketStream` | the three packet factories under the receiving loop |
| `DataFrames`, `DataAtoms`, `DataFramesFactory`, `DataFramesMask` | frames as data; rows of values; who owns definitions and atoms; masks of names |
| `FramesContract` | the contract builder and what the generated functions do |
| `IpMask`, `Crc`, `TrafficCounter` | address masks; check sums; counter of traffic |
| `SimpleExchange`, `UdpEcho` | the conversations of two demonstrations |
| `MCDataFramesLink`, `MCQueueDataFrames`, `MCThreadHandler`, `MCThreadLogs` | values for TLC |
| `MCSockets` | `Polling`, `PollingWindows` and `ListenSocket` in one run; the initial state chooses one |
| `MCParts` | the timer and fifteen other small modules in one run; the initial state chooses one |
| `PartsProofs` | theorems about the device and the event loop of `MCParts`, and listening on Windows |

The head of each module says what one step of it is and what is abstracted; the
correspondence of the larger ones follows. `PROJECT.json`, "map", gives every
definition the lines it stands for.

### ThreadBase

One TLA+ action is the code between two accesses to state that another thread
can reach. A thread `t` is at `pc[t]`; `ret[t]` says where `processMessages()`
or `destroyTerminatedChildThreads()` returns to, and `index[t]` is the loop
variable over the child list (1-based; 0 is the end).

    off -> started -> waiting -> (a slot) -> events -> collect -> waiting ...
                  \                                       \
                   join <-> joinWait -> delete -> drained -> exit -> off
    processMessages -> batch <-> handling: entered from a slot, join, joinWait, delete

| Code | Model |
|---|---|
| `qthread` | QThread: new, running, finished; deleted after `delete` |
| `_queue`, local `messages` of `processMessages()` | `queue`, `batch` |
| bytes in the pipe | `pipe`, at most `PipeCapacity`; a write to a full pipe does nothing |
| `postMessage()` | `PostMessage` (enqueue), then `SignalEventWakeUp`; other threads may step in between |
| virtual functions (`onThreadStarted`, `onBeforeWaitEvents`, `processMessage`, other pollers, `onIdle`) | the places `CallbackLocs`, where `Callback(t)` may post, start, stop a child or terminate, any number of times |
| `while (!thread->isFinished()) processMessages();` | `JoinBusyWait` while the queue is not empty, `JoinFinished` |
| child's signal, return of `run()` | `NotifyParent`, `RunReturn`: only the latter makes `isFinished()` true |
| stop loop of `AppMain` / `Service` | `AppStop`, `AppPostTerminate`, `AppStopped` |

Abstractions: the content of a message is its sender and number; the
once-a-second test of the collector is a choice (`CollectDue` /
`CollectNotDue`); `onBeforeWaitEvents` and `poll()` are one place, since
nothing but the application's code happens between them; turns of the join's
busy wait that find an empty queue change nothing and are left out; the check
of `isFinished()` and the write to the pipe are one step (the object exists
for both: that is `NoUseAfterDelete`).

`LateCallbacks` states an assumption about the application: FALSE means that
message handlers leave the child list alone once their own thread is stopping
its children. The code does not enforce it (see section 6).

### ThreadTimer

The thread of the timer goes `loop -> polling -> polled -> rearm -> loop`. Any
time may pass between two steps (`Tick` is always possible), so a timer may be
arbitrarily late. The owner may post messages to the timer and stop it. The
delay is any natural number.

### DataFramesLink

The client is one object that reconnects and keeps its queue, current packet
and packet numbers; each connection `c` has a server object of its own. One
action is one call into an object (its thread calls nothing else meanwhile) or
an event of the connection.

| Code | Model |
|---|---|
| `_queuePackets`, `_currentPacket`, `_packetId`, `_nextPacketId` | `queue`, `currentPacket`, `packetId`, `nextPacketId`; the server's of connection `c` in `serverPacketId[c]`, `serverNextPacketId[c]` |
| `_outputBuffer`, the network, `_inputBuffer` | `toServer[c]`, `toClient[c]`; a broken connection keeps only a beginning of each |
| `isConnected()` | `session`: a side may believe itself connected after the break (`ClientDisconnected`, `ServerDisconnected` are its noticing) |
| `lastPacketSent() + 2000 < now` | `age = 2`; `Tick` is a second |
| `sendFrame()` with and without ticket | `SendFrame`, `ClientSendPlain`, `ServerSendPlain` |
| `onPacketReceived()` with `applyTicket()` and `processQueue()` | `ClientReceive`, `ServerReceive` |
| `_nextPacketId` without a value | a member of `Garbage` |

A frame is its number in the order of queueing. Packet numbers stay
below `IdLimit` (0x1FFFFFFF in the code) and begin again at 1. The stream is a
sequence of whole packets: a packet that arrives in part is lost with the connection.
`write()` is taken to accept what is sent. Only the client queues frames; a
server's queue would be the same code, but it dies with its connection.
"Received" is receipt as the ticket confirms it: the code does not read the
frames of a packet that needs a ticket.

### QueueDataFrames

| Code | Model |
|---|---|
| `_appendedFramesList`, `_queuedFramesList` and their maximum priorities | variables of these names |
| `packetId()` of a frame | `packetId`, -1 where it is in no packet |
| `applyCollectedFrames`, `prepareSendingList`, `applyTicket`, `reset`, `bindThread`, `unbindThread` | one action each: each holds the mutex |
| `makeSnapshot()` and what the caller does with it | `MakeSnapshot` into `file`, in the same step |
| `loadFromFile()` at the next start | `Restart`, by way of `Parse` |

The class has no caller in the repository. The threads that read from it and
their peers follow its header and `ThreadDataFrames`, which does the same with a
queue of its own. The header leaves the storing of a snapshot to the caller,
outside the lock: two callers could store them in the wrong order; the model
stores at once.

Every thread has a packet factory of its own, and these number from 1
(`FirstPacketId`), so threads that follow each other on one queue give out the same
numbers. The history variable `reused` says that a thread has given out the number of
a packet of another thread which is still under way: from then on a ticket may meet
the wrong packet.

### ThreadHandler and HandlersWindows

The thread goes round `onBeforeWaitEvents` (`BeforeWaitOpen`), `assign`, `poll`,
`process` and idle; its application sends and closes in callbacks between them.
`h` holds the fields of ThreadHandler and of its HandlerBase; the socket's side
(`sock`, what is on the wire, what the peer sent) is the environment. The three
functions that call each other, `setConnectionState`, `close` and
`setDescriptor`, are operators on `h` that say what each does in the end,
callbacks included. A packet that is written behind the end of a cleared buffer
leaves `Garbage` in front of it, as in the code. `HandlersWindows` replaces `poll` by an event object:
there `events()`, which fills the array, writes, reads and closes as well, and an
operation on `h` is the set of what it may leave.

`Opening` gives `open()` its outcomes: every call of `openTcpClientSocket`,
`createUdpSocket`, `openSerial`, `createTcpServerSocket` and their Windows
halves may fail, and `HeldIfOpen` says what is left of it.

### ListenSocket

A descriptor is a number in one table that the thread, its children and their
pipes share, so that a number that is closed is given again. The thread's round
is split where clients, children and the terminate request can come between:
`BeforeWait` (open or open again), `PollListener`, `ReadSignal`, `Process`, `Accept`,
`AfterWait`, and at the end `AskChild`, `JoinDone`. Each of `socket`/`bind`,
`accept` and the socket itself may fail, `MaxFailures` times.

### ThreadLogs

`Create` and `WriteLog` are the two halves of logging a line (the clock is read
before the message is posted); `ProcessMessage`, `OnIdleFlush`,
`OnThreadFinishing`, `OnThreadFinished` are the log thread; `FlushPartial` is a
flush whose write stops short, anywhere in the text, also in the middle of a
character, and whose second write may stop as well; `StopMain` and `StopLog` the
order of `AppMain::stop`; `PosixDeathSignal` the handler of a deadly signal, taken
between two steps of the log thread, whose flush may stop like any other.

The code counts what was written in bytes and takes as many characters off its buffer.
The history in `w` says what that harms: `hurt` holds the characters a short write had
before it, `torn` the days whose file may lack some of them or hold some twice. A short
write behind characters of one byte, whose rest is then written whole on the same day,
harms nothing.

### EventLoopThread

`stack` holds the calls the thread is in. A handler may post to itself, which
runs the slot inside the post, or run an event loop of its own, in which slots
are called while the outer batch waits. `Rows` lines up where messages are: those
handled, what each call has left, the queue. `events` is Qt's queue; before
`InitializeThread` has connected the signals there is nothing to queue them.

## 3. Runs

| Run | Question | Bounds | Why they are enough |
|---|---|---|---|
| `threads` | lives, shutdown order, use after delete, lost wake-ups, refinement of `ThreadTree` | main thread, child, grandchild; one message each to the parent; pipe of 2; the middle thread may stop itself | a thread that is parent and child at once, lists that shrink while gone over, a pipe that is just large enough |
| `threads_live` | refinement of `Mailbox`; stop completes, finished children are collected, queued messages are taken | parent and child, one message each in every direction, also to themselves; both may stop themselves; pipe of 3 | FIFO over two senders, a stop from outside and from inside; no byte is lost, as in a pipe of 65536 |
| `link` | refinement of `TicketChannel`, meaning of a reported gap, every queued frame is confirmed | two frames with ticket, one without from each side, two connections, one reset, four packet numbers that the servers' packets use up, two packets on the wire | a ticket of a lost connection, of a reset packet and of a plain frame can each meet the wrong packet |
| `queue_frames` | nothing lost before numbers meet, order and priorities, confirmation | four frames, priorities 1 2 1 1, the third too large to go with the first; two threads, two binds, one reset or restart | an urgent frame overtakes, a large one holds back; a ticket of a replaced thread, of an old connection; an end of the program with frames in a packet |
| `handler` | state against descriptor, order on the wire, whole packets, reconnection, output drains | four kinds on two systems; two openings, one to three packets of two bytes, up to four bytes from the peer | a packet arrives in parts, is written in parts, and the connection changes in between |
| `sockets` | an event reaches the poller it happened on, and is handled; descriptors owned, clients served, the thread ends | two pollers, two descriptors, three openings; on Windows three pollers, three registrations, three requests; of the listening socket two clients, eight descriptors, two failures | a descriptor given again within a round; an event set at any point of a round; both connections with their pipes just fill the table, and numbers are given again; with one less `pipe2()` fails, and `EveryDescriptorOwned` with it (section 6) |
| `logs` | files in order, nothing lost, written in the end | two threads, two or three messages, two days, characters of two bytes, two failing writes, two changes of level, three texts, a signal (eight loads of some of these each) | a write stops within the text of a line and within a character, the second write as well; a message crosses midnight |
| `parts` | sixteen smaller modules, listed below | see `MCParts` | |
| `garbage`, `identifier`, `queue_replaced`, `short_write` | four places where the code does not do what it says (below) | | |

The parts of `parts`, each with its property: packets out of a stream that the
network cuts anywhere, with noise between them (`ReceivedInOrder`,
`AllExtracted`); frames out of packets and cut files, by a reader with the same,
fewer or other definitions, and rows of values that are resized (`FramesRead`);
all masks of up to two lines over two-byte addresses, a field that begins with a
star being a wild one whatever follows, and all settings of two words over five
names (`MaskDecides`, of the names without a star); all documents of up to four elements out
of nine, and a factory's registrations and deletions (`ContractKept`); every run
of damaged bits up to the width of the sum (`DamagedRefused`); each system call
of each opening failing (`HeldIfOpen`); threads that register, end and have their
addresses given again while snapshots are taken, and a counter of traffic over
six seconds (`SnapshotTrue`); a thread with an event loop, and listening on
Windows with two failures (`EventsDelivered`); the demonstrations
(`ConversationKept`); a timer with a delay of two, over nine ticks, woken three
times and stopped at any time (`ShotSpacing`, `FewShotsAfterStop`). They are one run because each is small; the parts share no
state and the initial state chooses one. `DecidesAsWritten`, `AnswersAsWritten`,
`Refuses` and `AgreedFramesRead` compare the translated algorithm with a
definition of what its input means, written apart from it.

Every bound is a constant of its module or of `MCParts`; those named `Max...`
count environment events (posts, failures, connections, bytes) that the code
does not bound. `PipeCapacity` is 65536 in the code: the small value only makes
the pipe fill with fewer messages. `CHECK_DEADLOCK FALSE` stands where the
program really ends or its input is used up.

**Fairness.** Nothing forces the application's decisions, the environment's
failures or what a peer sends. What is forced:

* `threads_live`: every thread that can take a step of the framework takes one
  (`WF` of `Step(t)`: the operating system's scheduler, and callbacks that
  return); `SF` of `CollectDue`: a thread that keeps going round its loop finds
  again and again that a second has passed; `WF` of the application's start and
  stop loop.
* `link`: both threads read what arrives, time passes, a lost client connects
  again (`_reconnectTimeout` > 0), and the subclass calls `processQueue()` again
  and again, as the protected method and its resend timer intend. The last
  connection does not break: nothing is confirmed over connections that always
  break too early.
* `queue_frames`: the bound thread acts on its messages, packets and tickets
  arrive, the writer applies what it collected. `FrameConfirmed` asks this of a
  queue with one thread bound for good.
* `handler`: the thread goes round, time passes, a connect ends one way or the
  other (the system's limit of attempts).
* `sockets`: a thread that polls ends its round and begins another. Which event
  Windows returns is fixed: the first that is set, so events can starve those
  behind them; the run has finitely many. Of the listening socket the threads run, time
  passes, and of several signals in the pipe none waits for ever (`SF` of `ReadSignal`).
* `logs`: the log thread goes round and the time for flushing comes.

**Four runs expect a violation** (`PROJECT.json`, findings): `garbage`, because
the search for the start of a packet compares with the empty text, so that
small bytes before a packet make it unreadable; `identifier`, because a GUID is
declared four bytes shorter than it is written; `queue_replaced`, because the
check of the thread in `applyTicket()` never fires, so that the late ticket of a
thread that was replaced removes what its successor gave out under the same number,
unreceived; `short_write`, because the log counts written bytes as characters, so
that a write which stops behind a character of two bytes (as the repository's own log
lines have) loses text.

Every property of a passing run has a mutant of the code (the definitions
marked "Mutant" in the modules) that the run catches.

## 4. Proofs

Each theorem holds for every value of its module's constants, or under the
assumptions named with it. Each rests on an inductive invariant, which TLC checked
on the run's instance before it was proved: the runs' invariants are seldom
inductive as they stand. The named `ASSUME`s of the modules give the constants their
types, and TLC evaluates them in the runs.

| Theorem | Property | Assumes |
|---|---|---|
| `TypeCorrect` | `TypeOK` with `IndexInv` | |
| `LifeCorrect` | `LifeInv` | `~LateCallbacks` |
| `ShutdownOrderHolds`, `NoUseAfterDeleteHolds`, `StoppedBeforeDeleteHolds` | `ShutdownOrder`, `NoUseAfterDelete`, `StoppedBeforeDelete` | `~LateCallbacks` |
| `TreeRefinement` | `ImplementsThreadTree` | `~LateCallbacks` |
| `MailboxRefinement` | `ImplementsMailbox` | `~LateCallbacks` |
| `InductiveInvariantHolds`, `NoLostWakeUpHolds` | `IInv`, `NoLostWakeUp` | `~LateCallbacks`, `PipeRoom` |
| `ShotSpacingHolds`, `SingleShotOnceHolds`, `FewShotsAfterStopHolds` | the properties of these names | |
| `DiscontinuityExplainedHolds` | `DiscontinuityExplained` | |
| `TicketChannelRefinement` | `ImplementsTicketChannel` | `NumbersSuffice` |
| `QueueInvariantHolds`, `NoFrameLostHolds`, `FifoPerPriorityHolds` | `IInv`, `NoFrameLost`, `FifoPerPriority` of the queue | `FramesValid` |
| `EventReachesOwnerHolds` | `EventReachesOwner` | |
| `LogsInvariant`, `LogsNothingLost`, `LogsFilesInOrder` | `LogsInv`, `NothingLost`, `FilesInOrder` | |
| `HeldIfOpenHolds`, `EventsDeliveredHolds` | `HeldIfOpen`, `EventsDelivered` | |
| `HandlersInvariantHolds`, `StateMatchesDescriptorHolds`, `WireInOrderHolds`, `PacketsWholeHolds` | `IInv` of a handler, `StateMatchesDescriptor`, `WireInOrder`, `PacketsWhole` | |
| `EveryDescriptorOwnedHolds` | `EveryDescriptorOwned` | `EnoughDescriptors` |
| `StreamInvariant`, `ReceivedInOrderHolds`, `AllExtractedHolds` | `StreamInv`, `ReceivedInOrder`, `AllExtracted` | `NoiseHarmless` |

**What the assumptions say of the code.**

* `~LateCallbacks`: message handlers leave the child list alone once their own
  thread is stopping its children. The code leaves this to the application (section 6).
* `PipeRoom`: a thread has fewer children than its pipe takes bytes (65536 on
  Linux). Otherwise a pipe full of `SignalTerminateChildThreads`, none of which
  looks at the queue, could swallow the byte that wakes the thread.
* `NumbersSuffice`: frames, frames without ticket and resets together are fewer than
  the packet numbers, of which the code has 0x1FFFFFFF. A ticket finds its packet by
  the number alone, so once numbers come round an old ticket may take another
  frame: with one number less than the assumption asks for, TLC finds
  `ImplementsTicketChannel` violated on the run's instance.
* `FramesValid`: a frame of length 0 is invalid in `DataFrameRawData` and is not
  collected.
* `EnoughDescriptors`: the table has room for standard input, the listening socket,
  and for each client a connection and the two ends of its thread's pipe. Without
  it `pipe2()` fails and the destructor of that `PollerThread` closes descriptor 0
  (section 6); the run checks the smallest table that fulfils it.
* `NoiseHarmless`: between packets come only bytes that the factory does not take for a
  part of one: for frames none that is a valid packet type, for simple packets none that
  is the first byte of the tag, for lines only CR and LF. The streams of `parts` fulfil
  it, and `garbage` has one that does not: there TLC finds `AllExtracted` violated. For
  frames this is more than a protocol with a tag should ask for, and is the code's own
  limit, since it does not search for the tag; a simple packet's second tag byte is not
  looked at either, and a line has no mark to tell it from noise.

**Lives of threads.** `TypeOK` needs that an index in use lies inside the child list
(otherwise `childThreads[t][index[t]]` is not a thread), so the two are proved
together; they hold whatever message handlers do. `ShutdownOrder` is not inductive: that
`run()` returns with no running child follows from what each stage of the shutdown
knows of the list (`StageOK`: while joining, the children behind `index` have
finished; while deleting, those behind it are deleted; then all are), from the
list holding every started child (`Registered`), each once and only the thread's own
(`ListOK`), and from where the thread is (`ControlOK`, `IndexOK`). `SignalOK` adds
whom a thread between enqueue and signal can have in hand. Steps are split into
local ones, which change only where a thread is (`LocalStep`), and those that
change lives. Every step is then a step of `ThreadTree` or a stutter (`TreeStep`).

**Mail.** The mailbox is the batch followed by the queue. That it closes with
no message of a child in it is `NoChildMail`: after the last `dequeueAll()` of `run()`
the queue holds no child's message, because all children have finished by then and each
child's posts end before. `BatchOK` says that a batch is only `processMessages()`'s.

**Wake-ups.** A thread may sleep with messages while a poster is still between enqueue
and signal, so the invariant is about who will look (`WakeOK`): the thread itself, a
byte in the pipe, or a poster about to write one. The last needs room in the pipe:
`OneByteEach` counts the bytes that do not make the thread look at its queue, one for
each child at most.

**Timer.** `TimerInv` bounds the time of the next shot (`NextShotNotEarly`) and the
shots still possible after a stop (`StopBudget`).

**Link.** `NumberedInv`: along each connection the packets under way are numbered one
after another, from what the reader expects to what the sender gave last, as
long as nothing was sent again; it holds for every range of numbers. `ChannelInv`
is the protocol: the queue holds just the unconfirmed frames, and only its first has a
number, while it is the current packet (`QueueShape`); a packet with the current
number carries the current frame, a ticket for that number means that the frame
arrived, and a frame under way has all before it confirmed (`GoodPackets`,
`GoodAnswers`); and a count of the numbers given and still to be given (`NumbersOK`,
where a number is paid for by a frame, a reset, or a frame without ticket of either
side) shows that each is new. Queue, receipt and ticket are then the steps of
`TicketChannel`.

**Queue of frames.** `IInv` says that the two lists are in the order of collection
(`OrderOK`), what the file holds of them (`FileOK`), that of one priority the earlier frame
is given out first (`GivenOutOK`), what the maximum priorities are (`PriorityOK`),
and, as long as no number was `reused`, that a packet or ticket under way holds every
queued frame with its number (`PacketsOK`). One thread numbers upwards, so a number can
only meet that of another thread's packet; the proof has one case where it does, which
sets `reused`, and one where it does not. The proof asks nothing of
`SizeOf` (a fold): whatever the sizes, what goes into a packet is a prefix of the
candidates (lemma `SendingListFacts`).

**Handlers.** The theorems are about `HandlersSpec`, a handler of any kind on either
system with any number of connections, packets and bytes. `StateOK` is the state
machine: which state goes with a descriptor, and that the application was told of it.
`OutputOK` keeps wire and buffer one row of bytes, behind the garbage that a position
left by `clear()` causes, with the position at the buffer's end as soon as a packet was
sent on the connection; before that it may be anywhere, and that is where garbage
comes from. `InputOK` lets what was read and what has arrived continue the
packets. Neither is inductive without `ConnectingOK`: nothing has gone either way on a
connection that is not made yet, since `onConnected()` clears both buffers. That a
handler never reads while it is connecting is `DeviceOK` on Linux (readable comes with
writable, and the connection is made first) and follows from the selected conditions on
Windows. `EventsOK` says which devices have an event. On Windows `events()` runs inside
`close()`, `registerEvent()` and `process()` and may write, read and close; each
operation is shown to leave an object as `After` states, so that a sequence of them
does too (`AfterTransitive`).

**Polling.** `RoundOK` ties the array of the round to the list and the descriptors as
they are now (entry by entry: the same poller, and the same file wherever the number is
still the poller's), `DescriptorsOK` says that pollers never share a number.

**Log.** `LogsInv` carries both properties through a flush in parts. `HeldOK` says of each
day that its file and, if it is the writer's day, the buffer hold the messages taken for
it; a day on which a short write has torn the file claims no order, and of each text only the
characters no short write has hurt. `HeldOK` needs an open file as soon as there is something to write (`WriterOK`) and, when
the application has ended, an empty queue (`StopOK`: the log thread outlives the
loggers). Whether a message is kept is decided by its sender's time, not by the time it
is taken: `LevelsOK` finds for every queued message the level the writer will have
then. `OtherOK` says that the texts still queued are the rest of those asked for. The
writer's operations are shown to carry what a file and the buffer hold (`Carries`) or to add
one message to it (`Adds`).

**Opening.** `OpeningInv`: until a call fails, what the calls so far gave is held, and
each call of a function undoes, when it fails, at least what those before it gave
(`CallsInOrder`, shown for each function on each system). The theorem is about all
outcomes of all functions.

**Event loop and listening on Windows.** `EventsInv` is about who will look: while the queue
holds a message whose sender has signalled, a wake-up is on its way (`WokenFor`), and
a request to end is queued once or was obeyed (`EndsOnceAsked`). That no message is
lost or taken twice through nested loops, and that they overtake only in a handler,
is `InTurn` of the rows of messages, of which each step moves one element, opens a
row or closes one (lemmas `RowAdded`, `RowHandled`, `RowsTaken`, `RowsOpened`,
`RowsClosed`). `ListenInv`: a thread that waits has its event set, or nobody waits and the next
visitor will set it. The bounds that `MCParts` gives these modules are not used in the proofs.

**Listening socket.** `OwnersOK` is the property's table read in both directions,
`ChildrenOK` and `BacklogOK` say which children and clients there are, and a counting
argument shows that a free descriptor remains while the table has room.

**Packets out of a stream.** `StreamInv`: the packets still to come are those expected
behind those received; in the bytes of the buffer followed by those of the wire they lie
whole, in order, at places that do not overlap, and every other byte is a filler (noise,
and for lines CR and LF); while the loop does not run, the first of them ends beyond the
buffer. The last part is what `AllExtracted` needs, and it holds because the loop
stops only when a call has given nothing. What remains is to show of each factory that
on bytes lying so it takes only fillers and whole first packets off the buffer (`Takes`, the
lemmas `FramesTakes`, `SimpleTakes` and `LinesTakes`). A line's LF may arrive apart
from its CR, so a line is known by its CR and the LF is a filler. Of the check sum only
that it is a function of the data is used. A packet's data are those of the model, at most
two bytes, each zero or the tag; packets, noise and arrivals may be any number.

**Lists without recursion.** `Sublist` states what a removing loop leaves by rank and
place instead of by `SelectSeq`, whose recursion the provers cannot unfold for every
list; `SublistsProofs` derives order, membership and length from cardinalities.

## 5. Only model-checked

Liveness in every run (fairness is out of the prover's reach), and of the properties
of `parts` `FramesRead`, `MaskDecides`, `ContractKept`,
`DamagedRefused`, `SnapshotTrue` and `ConversationKept`. What the recursive and
folded definitions of `DataFrames`, `FramesContract`, `Crc`, `TrafficCounter` and the
masks compute needs induction over data and is compared with references over
bounded inputs only.

## 6. Known differences and limits of the code

Met while modelling. The models behave as described, or avoid the case where it
says so. Where the code contradicts its own words, four runs show it (section 3); the
others are only told here.

*Threads.* A write to a full pipe fails silently, and `terminateChildThread()`
asks once: a child with a full pipe is waited for without end (the runs give the
pipe room). A child that a message handler starts while its parent waits for
another child is deleted while it runs (`LateCallbacks`). A timer shoots at once
when a byte ends its first wait, since `_nextCallIdle` is still 0 (`ShotSpacing`
is about the time between shots). In EventLoop mode, posts to oneself run
inside the post, signals before `connect()` are lost, `exit()` before `exec()` is
forgotten. `ListThreads::instance()` may be made twice by two first threads.
`ThreadBase::setLogLevel` and `ThreadLogs::setLogLevel` are different levels.
`ThreadMainDaemon` overwrites settings it could not read with defaults.

*Polling.* When `pipe2()` fails for lack of descriptors, the child can be
neither woken nor stopped, and its destructor closes descriptor 0. Registering or
unregistering within a round shifts the list the round goes over; a closed poller
that is replaced keeps its old pollfd for the round; the first poller registered
on Windows may be registered twice (index 0 means not found).

*Handlers.* A failed open can leave the state at Connecting, and nothing opens it
again (`Stuck`). `clearBuffers()` keeps the stream's position, and bytes
nobody wrote appear in the buffer. An immediate TCP connect on Linux leaves the
error code uninitialised and the address list allocated; on Windows a failing
`WSAEventSelect` keeps the socket, which a later `initialize()` loses; without
`WSAStartup` the error code is unset. IPv6 host names resolve to 0.0.0.0.
`ThreadHandler` posts `Device.Error` to itself on every read.
`HandlerBase::writeString()` sends as many bytes as there are characters. UDP: a
datagram from anybody redirects all further writes; output over 65507 bytes is
never sent and stays; an empty datagram ends the read loop. Windows:
`FD_CONNECT` and `FD_CLOSE` with an error only call `doError()`; a failing
`setWaitMask` leaves a dead port Connected; a failing `WaitCommEvent` makes
`close()`, `unregisterEvent()` and `events()` call each other; a callback that
closes inside `events()` leaves an empty vector that is indexed.
`PollerListenSocket` leaks its event when it is initialised again. The Windows
models take it that `WSAEventSelect()` reports conditions that hold already.

*Frames.* `_nextPacketId` of a server's object is read uninitialised. Frames of
a packet with a ticket are never read from it. `prepareSendingList()` and
`applyTicket()` of the queue turn away a thread only if it is null and another one than
the queue's, so that the check never fires for a thread (run `queue_replaced`).
`DataFramesMask::allow()` asks the masks of every name, though a comment where they are
set (DataFramesMask.cpp:65-66) says that a name with a `*` belongs to a service frame and
must not be exchanged; `MaskDecides` leaves these names out. `toString()` of a raw frame without data
is empty, so commands loaded from a file lose definition and priority. The raw
path rejects names whose first letter is not ASCII (signed `char`) and arrays of
more rows than bytes. `read(stream, capacity)` passes over the scalar behind an
array group and leaves the frame's `_capacity` unlike its atoms', so the next
`write()` declares a wrong number; `readItem()` makes a byte array atom larger
for good; a frame's index at or above the capacity and its atoms' indices part
ways; `calcCapacityFromAtoms()` is wrong for a frame of more than one row
(`RowsKept` leaves these out and says so). A reader with a longer definition
takes bytes of the next frame (`AgreedFramesRead` asks for agreed definitions).
`releaseAtomsStorage()` leaves dangling atoms; a replaced atom leaks;
`readFromXml()` into a caller's storage overwrites it. Contract builder:
"FloatDataAtom" does not exist; a missing source file still truncates both
outputs; an XML error silently shortens the contract; an atom before the first
frame dereferences null; priority 256 becomes 0. The length of a check sum is
narrowed to 16 bits.

*Log and utilities.* A file that fails to open is not tried again that day (the
model opens every file); a write that stops short loses characters of several bytes
(run `short_write`), and at a change of day it doubles lines (`FilesInOrder` and
`NothingLost` ask nothing of what such writes have torn or hurt);
the handler of a deadly signal touches the buffer while the log thread may be in
it, a data race that the model does not have. `TrafficCounter::clear()` keeps
the speed, a clock set back removes wrong entries, an age of 0 seconds divides
by zero. `IpMask` accepts "1.2.3.4.5", and takes every
field that begins with a `*` for a wild one, "*5" too. Dates lose up to a millisecond.

## 7. Not modelled

Vendored code (`src/ThirdParty`: qtservice, mustache). Thin wrappers that only
read or format: accessors, `toString()`, colours and the wording of log lines,
`threadByClassName()`, `lastResult()`, look-up of host names, the speed,
parity and timeouts of the serial line. The console reader and
the service commands of qtservice, which only call the start and stop that are
modelled. A queue of frames on the server's side of a link, which is the same
code and dies with its connection.
The demonstrations' main threads, which start the threads that are modelled.
