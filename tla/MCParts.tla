------------------------------ MODULE MCParts ------------------------------
(***************************************************************************)
(* Parts of the program that are small enough to be checked together, each *)
(* on its own: packets out of a stream, frames out of a packet or file,    *)
(* the decisions of an address mask and of a mask of names, the contract   *)
(* that is built from a document, check sums, the opening of a device, the *)
(* registry of threads, a thread with an event loop, a timer, what a       *)
(* factory owns, the rows of a frame, listening on Windows, a counter of   *)
(* traffic, and the conversations of two demonstrations.  The initial      *)
(* state chooses one of them.                                              *)
(***************************************************************************)
EXTENDS PacketStream, ThreadTimer, TLC

CONSTANTS
  Parts, Definitions, Receivers, Frames, MaxBytes, MaxFrames, Bits, Masks,
  Settings, Names, Documents, Types, Blocks, Objects, Daemon, Interval, MaxListTime, MaxRuns

VARIABLES
  part, data, written, receiver, path, position, frames, ended,
  mask, line, prohibited, allowed, parsed,
  setting, masksProhibited, masksAllowed, knownNames, asked,
  outputPath, document, elements, framesHash, dataFrame, contract, files, stage, reported,
  sum, block, damage, summed, sentSum, receivedSum,
  system, function, calls, held, result, errorCode, descriptor, failure, opened, isSocketsInitialized,
  listNow, lists, instance, thread, due, rightNow, taken, statisticFile, order, expected,
  eventPc, queue, events, stack, exiting, posting, posted, handled, early, inside, stops,
  client, servers, net, wires, rounds, dead, gaveUp,
  storage, isOwning, registry, living, storages, replaced, misused, lastRead, life, invocations,
  at, socket, isInitialized, selected, event, recording, unknown, waiting, visitor, start, ending, mishaps,
  historyList, total, currentSpeed, second, appended, actual,
  remoteAddress, unread, outputBuffer, sentBy, empty, echoes,
  layout, capacity, currentIndex, atomsVector, inRange, last, table, tabled, made

Reading == INSTANCE DataFrames
Masking == INSTANCE IpMask WITH Bytes <- 2, Loopback <- {"low"}
Naming  == INSTANCE DataFramesMask
Building == INSTANCE FramesContract
Factory == INSTANCE DataFramesFactory
             WITH BaseTypes <- {"uint8", "string"}, CustomTypes <- {"string", "angle"}, MaxCalls <- 3,
                  Files <- [first |-> [A |-> TRUE, B |-> FALSE], second |-> [B |-> TRUE]], Given <- [C |-> TRUE]
RowLayouts ==
  LET scalar == [isScalar |-> TRUE, isFixed |-> FALSE]
      rows   == [isScalar |-> FALSE, isFixed |-> FALSE]
      bytes  == [isScalar |-> FALSE, isFixed |-> TRUE]
  IN {<<scalar, rows, rows>>, <<rows, scalar, rows>>, <<bytes, rows>>}
Filling == INSTANCE DataAtoms WITH Values <- {8}, MaxCapacity <- 3, MaxCalls <- 4,
             Layouts <- RowLayouts
Listening == INSTANCE ListenSocketWindows WITH Visitors <- {"one", "two", "three"}, MaxFailures <- 2
Traffic == INSTANCE TrafficCounter WITH SecondsToStore <- 2, Counts <- {1, 4}, MaxSeconds <- 6, MaxAppends <- 4
Sums    == INSTANCE Crc
Device  == INSTANCE Opening WITH reported <- failure, ended <- opened
Registry == INSTANCE ListThreads WITH now <- listNow, MaxTime <- MaxListTime
Looping == INSTANCE EventLoopThread WITH pc <- eventPc, MaxMessages <- 3, MaxDepth <- 3
Exchange == INSTANCE SimpleExchange
              WITH AliveInterval <- 2, Silence <- 6, Reconnect <- 2, MaxDelay <- 2, MaxConnections <- 2
Echo    == INSTANCE UdpEcho WITH Peers <- {"near", "far"}, Sizes <- {0, 1, 2}, MaximumDataSize <- 3, MaxBytes <- 2

framesVars == <<data, written, receiver, path, position, frames, ended>>
maskVars == <<mask, line, prohibited, allowed, parsed>>
namesVars == <<setting, masksProhibited, masksAllowed, knownNames, asked>>
contractVars == <<outputPath, document, elements, framesHash, dataFrame, contract, files, stage, reported>>
crcVars == <<sum, block, damage, summed, sentSum, receivedSum>>
openingVars == <<system, function, calls, held, result, errorCode, descriptor, failure, opened, isSocketsInitialized>>
eventVars == <<eventPc, queue, events, stack, exiting, posting, posted, handled, early, inside, stops>>
exchangeVars == <<client, servers, net, wires, rounds, dead, gaveUp>>
factoryVars == <<storage, isOwning, registry, living, storages, replaced, misused, lastRead, life, invocations>>
windowsListenVars ==
  <<at, socket, isInitialized, selected, event, recording, unknown, waiting, visitor, start, ending, mishaps>>
trafficVars == <<historyList, total, currentSpeed, second, appended, actual>>
udpVars == <<remoteAddress, unread, outputBuffer, sentBy, empty, echoes>>
rowVars == <<layout, capacity, currentIndex, atomsVector, inRange, last, table, tabled, made>>
listVars == <<listNow, lists, instance, thread, due, rightNow, taken, statisticFile, order, expected>>

Chosen(name) == part = name

(* Of the parts not chosen one initial state is enough.                    *)
MCInit ==
  /\ part \in Parts
  /\ IF Chosen("packets") THEN TRUE ELSE stream = CHOOSE s \in Streams : TRUE
  /\ IF Chosen("frames") THEN TRUE ELSE receiver = CHOOSE r \in Receivers : TRUE
  /\ IF Chosen("addresses") THEN TRUE ELSE mask = <<>>
  /\ IF Chosen("names") THEN TRUE ELSE setting = <<>>
  /\ IF Chosen("contract") THEN TRUE ELSE document = <<>>
  /\ IF Chosen("sums") THEN TRUE ELSE sum = "Crc8" /\ damage = {0}
  /\ IF Chosen("device") THEN TRUE ELSE system = "Linux" /\ function = "openSerial" /\ isSocketsInitialized = TRUE
  /\ IF Chosen("rows") THEN TRUE ELSE layout = CHOOSE l \in RowLayouts : TRUE
  /\ IF Chosen("timer") THEN TRUE ELSE multiShot = TRUE
  /\ TimerInit /\ StreamInit /\ Reading!Init /\ Masking!Init /\ Naming!Init
  /\ Building!Init /\ Sums!Init /\ Device!Init /\ Registry!Init
  /\ Looping!Init /\ Exchange!Init /\ Echo!Init /\ Factory!Init /\ Listening!Init /\ Traffic!Init /\ Filling!Init

MCNext ==
  /\ UNCHANGED part
  /\ \/ /\ Chosen("packets") /\ StreamNext
        /\ UNCHANGED <<timerVars, framesVars, maskVars, namesVars, contractVars, crcVars, openingVars, listVars, eventVars, exchangeVars, udpVars, factoryVars, windowsListenVars, trafficVars, rowVars>>
     \/ /\ Chosen("frames") /\ Reading!Next
        /\ UNCHANGED <<timerVars, streamVars, maskVars, namesVars, contractVars, crcVars, openingVars, listVars, eventVars, exchangeVars, udpVars, factoryVars, windowsListenVars, trafficVars, rowVars>>
     \/ /\ Chosen("addresses") /\ Masking!Next
        /\ UNCHANGED <<timerVars, streamVars, framesVars, namesVars, contractVars, crcVars, openingVars, listVars, eventVars, exchangeVars, udpVars, factoryVars, windowsListenVars, trafficVars, rowVars>>
     \/ /\ Chosen("names") /\ Naming!Next
        /\ UNCHANGED <<timerVars, streamVars, framesVars, maskVars, contractVars, crcVars, openingVars, listVars, eventVars, exchangeVars, udpVars, factoryVars, windowsListenVars, trafficVars, rowVars>>
     \/ /\ Chosen("contract") /\ Building!Next
        /\ UNCHANGED <<timerVars, streamVars, framesVars, maskVars, namesVars, crcVars, openingVars, listVars, eventVars, exchangeVars, udpVars, factoryVars, windowsListenVars, trafficVars, rowVars>>
     \/ /\ Chosen("sums") /\ Sums!Next
        /\ UNCHANGED <<timerVars, streamVars, framesVars, maskVars, namesVars, contractVars, openingVars, listVars, eventVars, exchangeVars, udpVars, factoryVars, windowsListenVars, trafficVars, rowVars>>
     \/ /\ Chosen("device") /\ Device!Next
        /\ UNCHANGED <<timerVars, streamVars, framesVars, maskVars, namesVars, contractVars, crcVars, listVars, eventVars, exchangeVars, udpVars, factoryVars, windowsListenVars, trafficVars, rowVars>>
     \/ /\ Chosen("registry") /\ Registry!Next
        /\ UNCHANGED <<timerVars, streamVars, framesVars, maskVars, namesVars, contractVars, crcVars, openingVars, eventVars, exchangeVars, udpVars, factoryVars, windowsListenVars, trafficVars, rowVars>>
     \/ /\ Chosen("events") /\ Looping!Next
        /\ UNCHANGED <<timerVars, streamVars, framesVars, maskVars, namesVars, contractVars, crcVars, openingVars, listVars, exchangeVars, udpVars, factoryVars, windowsListenVars, trafficVars, rowVars>>
     \/ /\ Chosen("conversation") /\ Exchange!Next
        /\ UNCHANGED <<timerVars, streamVars, framesVars, maskVars, namesVars, contractVars, crcVars, openingVars, listVars, eventVars, udpVars, factoryVars, windowsListenVars, trafficVars, rowVars>>
     \/ /\ Chosen("echo") /\ Echo!Next
        /\ UNCHANGED <<timerVars, streamVars, framesVars, maskVars, namesVars, contractVars, crcVars, openingVars, listVars, eventVars, exchangeVars, factoryVars, windowsListenVars, trafficVars, rowVars>>
     \/ /\ Chosen("factory") /\ Factory!Next
        /\ UNCHANGED <<timerVars, streamVars, framesVars, maskVars, namesVars, contractVars, crcVars, openingVars, listVars, eventVars, exchangeVars, udpVars, windowsListenVars, trafficVars, rowVars>>
     \/ /\ Chosen("listening") /\ Listening!Next
        /\ UNCHANGED <<timerVars, streamVars, framesVars, maskVars, namesVars, contractVars, crcVars, openingVars, listVars, eventVars, exchangeVars, udpVars, factoryVars, trafficVars, rowVars>>
     \/ /\ Chosen("traffic") /\ Traffic!Next
        /\ UNCHANGED <<timerVars, streamVars, framesVars, maskVars, namesVars, contractVars, crcVars, openingVars, listVars, eventVars, exchangeVars, udpVars, factoryVars, windowsListenVars, rowVars>>
     \/ /\ Chosen("rows") /\ Filling!Next
        /\ UNCHANGED <<timerVars, streamVars, framesVars, maskVars, namesVars, contractVars, crcVars, openingVars, listVars, eventVars, exchangeVars, udpVars, factoryVars, windowsListenVars, trafficVars>>
     \/ /\ Chosen("timer") /\ TimerNext
        /\ UNCHANGED <<streamVars, framesVars, maskVars, namesVars, contractVars, crcVars, openingVars, listVars, eventVars, exchangeVars, udpVars, factoryVars, windowsListenVars, trafficVars, rowVars>>

MCSpec == MCInit /\ [][MCNext]_<<part, timerVars, streamVars, framesVars, maskVars, namesVars, contractVars, crcVars, openingVars, listVars, eventVars, exchangeVars, udpVars, factoryVars, windowsListenVars, trafficVars, rowVars>>

(* What a reader gets out of a packet or file is what was written, in its  *)
(* order, whatever frames it does not know and wherever the file ends; and *)
(* a value set in a row of a frame stays there, whatever is resized.       *)
FramesRead == Reading!AgreedFramesRead /\ Filling!RowsKept

(* An address mask lets in the addresses its text says, no more, no fewer, *)
(* and a mask of names the frames without a star in their names, whatever  *)
(* was asked before.                                                       *)
MaskDecides == Masking!DecidesAsWritten /\ Naming!AnswersAsWritten

(* A contract written without a report has a function for every frame that *)
(* sets each of its atoms as the document says; the factory it is made of  *)
(* deletes its own things, once.                                           *)
ContractKept == Building!KeepsContract /\ Factory!OwnsWhatItDeletes

(* Data damaged in a run of bits no longer than their sum are refused.     *)
DamagedRefused == Sums!Refuses

(* Whichever call of the system fails, a handler holds a descriptor        *)
(* exactly when one is open.                                               *)
HeldIfOpen == Device!HeldIfOpen

(* A snapshot of the threads shows those that run, each with what it said  *)
(* itself, and a counter of traffic what went through.                     *)
SnapshotTrue == Registry!ShowsRunningThreads /\ Traffic!SpeedOfLastSeconds

(* A thread with an event loop that waits has been asked for nothing it    *)
(* has not done; no connection waits unseen at one that listens on Windows.*)
EventsDelivered == Looping!EventsDelivered /\ Listening!NobodyWaitsUnseen

(* The demonstrations: a peer is given up only with its connection, and    *)
(* what was sent by UDP comes back whole and in order.                     *)
ConversationKept == Exchange!SilenceMeansDeath /\ Echo!EchoesInOrder

---------------------------------------------------------------------------
(* Each factory with the noise it gets over.                               *)
MCStreams ==
  {[factory |-> "frames", noise |-> {7}, noises |-> 2, packets |-> 2, body |-> 2, chunk |-> 8],
   [factory |-> "simple", noise |-> {0}, noises |-> 1, packets |-> 3, body |-> 2, chunk |-> 7],
   [factory |-> "lines",  noise |-> {},  noises |-> 0, packets |-> 4, body |-> 2, chunk |-> 5]}

(* Frames behind bytes that pass for a packet's type.                      *)
MCGarbage ==
  {[factory |-> "frames", noise |-> {0}, noises |-> 3, packets |-> 2, body |-> 2, chunk |-> 8]}

Atom(type, isScalar) == [type |-> type, isScalar |-> isScalar]
Definition(isArray, atoms) == [isArray |-> isArray, atoms |-> atoms]

(* Frame 65 has fields of fixed and of free length, 66 is an array, 67 a   *)
(* command without atoms, 68 has an identifier, 69 a date.                 *)
MCDefinitions ==
  65 :> Definition(FALSE, <<Atom("uint8", TRUE), Atom("string", TRUE)>>)
  @@ 66 :> Definition(TRUE, <<Atom("uint8", FALSE), Atom("bytearray", TRUE)>>)
  @@ 67 :> Definition(FALSE, <<>>)
  @@ 68 :> Definition(FALSE, <<Atom("guid", TRUE)>>)
  @@ 69 :> Definition(FALSE, <<Atom("datetime", TRUE)>>)

Only(names) == [name \in names |-> MCDefinitions[name]]

(* The same definitions, one less, or another version of one.              *)
MCReceivers ==
  {MCDefinitions, Only({65, 66}), Only({66, 67}),
   [MCDefinitions EXCEPT ![65].atoms = Append(@, Atom("uint8", TRUE))],
   [MCDefinitions EXCEPT ![65].atoms = <<Head(@)>>]}

MCFrames ==
  {[name |-> 65, capacity |-> 1, items |-> <<<<1>>, <<>>>>],
   [name |-> 65, capacity |-> 1, items |-> <<<<0>>, <<2>>>>],
   [name |-> 66, capacity |-> 1, items |-> <<<<1>>, <<>>>>],
   [name |-> 66, capacity |-> 2, items |-> <<<<1>>, <<0>>, <<3>>>>],
   [name |-> 67, capacity |-> 1, items |-> <<>>],
   [name |-> 69, capacity |-> 1, items |-> <<<<2>>>>]}

MCIdentifiers == {[name |-> 68, capacity |-> 1, items |-> <<<<1, 2>>>>]}

AnyByte == {"*"}
Fields == SUBSET Bits \cup {AnyByte}
WrongFields == {<<{"other"}>>, <<{}, {"other"}>>, <<{}>>, <<{}, {}, {}>>}
StarAndMore == {<<{"*", "high"}>>, <<{}, {"*", "other"}>>}
Line == [prohibited : BOOLEAN,
         fields : [1 .. 2 -> Fields] \cup {<<AnyByte>>} \cup StarAndMore \cup WrongFields]
MCMasks == UNION {[1 .. n -> Line] : n \in 0 .. 2}

Word(prohibits, pattern) == [prohibits |-> prohibits, pattern |-> pattern]
MCSettings ==
  BoundedSeq({Word(prohibits, pattern) :
                prohibits \in BOOLEAN, pattern \in {<<"*">>, <<"a">>, <<"A", "*">>, <<"*", "B">>}}, 2)
MCNames == {<<"a">>, <<"A">>, <<"a", "B">>, <<"b", "b">>, <<"A", "*">>}

(* Names in two spellings, frames in two versions, a frame that is not to  *)
(* be exchanged, atoms of three types and an error of the text.            *)
Element(tag, name, type, priority) == [tag |-> tag, name |-> name, type |-> type, priority |-> priority]
Name(text, first, rest) == [text |-> text, first |-> first, rest |-> rest]
MCElements ==
  {Element("DataFrame", Name("A", "upper", "lower"), "", 0), Element("DataFrame", Name("A", "lower", "lower"), "", 255),
   Element("DataFrame", Name("B", "upper", "lower"), "", 2), Element("DataFrame", Name("*", "upper", "lower"), "", 1),
   Element("DataAtom", Name("X", "upper", "lower"), "uint8", 0), Element("DataAtom", Name("X", "lower", "lower"), "string", 0),
   Element("DataAtom", Name("Y", "lower", "upper"), "string", 0), Element("DataAtom", Name("Y", "lower", "upper"), "single", 0),
   Element("error", Name("", "", ""), "", 0)}
MCDocuments == BoundedSeq(MCElements, 4)

(* As many bytes as the widest damage needs to reach over two of them.     *)
MCBlocks ==
  LET bytes == <<{0, 2}, {}, {7}, {1, 5}, {}>>
  IN [Crc8 |-> {SubSeq(bytes, 1, 3)}, Crc16 |-> {SubSeq(bytes, 1, 3)},
      Crc16OfLength |-> {SubSeq(bytes, 1, 3)}, Crc32 |-> {bytes}]
=============================================================================
