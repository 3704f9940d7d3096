----------------------------- MODULE DataFrames -----------------------------
(***************************************************************************)
(* Frames written to data and read back (Frames/DataFrames, DataAtoms,     *)
(* DataFrameRawData, DataFramesFactory, Utils/DataStream).                 *)
(*                                                                         *)
(* A frame is a name, a capacity and the items of its atoms, one behind    *)
(* the other.  A value of one byte, a size, a character and a date are one *)
(* number of the data.  Frames are appended to the data by way of                 *)
(* DataFrame::dataFrameRawData(); then the data are read, as a packet by   *)
(* DataFramesFactory::readFrames() or as a file that may have been cut, by *)
(* DataFrameRawData::parse() and readFrame().  A step is a frame written   *)
(* or a turn of one of the two loops.                                      *)
(***************************************************************************)
EXTENDS Integers, FiniteSets, SequencesExt, TLC

CONSTANTS
  Definitions, \* the writer's frames: name -> [isArray, atoms]
  Receivers,   \* definitions a reader may have, of names and in the form of Definitions
  Frames,      \* frames of Definitions: [name, capacity, items]
  MaxBytes,    \* bound on the data
  MaxFrames    \* bound on the frames written

VARIABLES
  data,     \* the bytes of the packet or file
  written,  \* history: the frames appended to it
  receiver, \* the reader's definitions, one of Receivers
  path,     \* "none", then "packet" or "file"
  position, \* of the stream, or parse()'s
  frames,   \* the frames read
  ended     \* the loop has ended

framesVars == <<data, written, receiver, path, position, frames, ended>>

NUL == 0
SPACE == 32

(* setCapacity(): a byte array keeps one item.                             *)
FixedCapacity == {"bytearray"}
AtomCapacity(atom, capacity) ==
  IF atom.isScalar \/ atom.type \in FixedCapacity THEN 1 ELSE capacity

ItemTypes(definition, capacity) ==
  FlattenSeq([i \in DOMAIN definition.atoms |->
                LET atom == definition.atoms[i]
                IN [j \in 1 .. AtomCapacity(atom, capacity) |-> atom.type]])

(* A date is a number of milliseconds, in the data a number of days with a *)
(* fraction: 16 steps of it for 10 milliseconds stand for its precision.   *)
ToDays(milliseconds) == (milliseconds * 16 + 5) \div 10
FromDays(days) == (days * 10) \div 16

(* What an item needs in the data, and what its size() says. *)
WriteByteArray(bytes) == <<Len(bytes)>> \o bytes
WriteGuid(bytes) == WriteByteArray(bytes)
WriteItem(type, item) ==
  CASE type = "uint8" -> item
    [] type = "string" -> Append(item, NUL)
    [] type = "bytearray" -> WriteByteArray(item)
    [] type = "guid" -> WriteGuid(item)
    [] type = "datetime" -> <<ToDays(item[1])>>

GuidSize(item) == Len(item)
StringAtomSize(item) == Len(item) + 1
ValueSize(type, item) ==
  CASE type = "string" -> StringAtomSize(item)
    [] type = "guid" -> GuidSize(item)
    [] type = "bytearray" -> Len(item) + 1
    [] OTHER -> 1

Capacity(frame) == IF Definitions[frame.name].isArray THEN <<frame.capacity>> ELSE <<>>

TypesOf(frame) == ItemTypes(Definitions[frame.name], frame.capacity)
AtomsSize(frame) == FoldLeftDomain(LAMBDA sum, i : sum + ValueSize(TypesOf(frame)[i], frame.items[i]), 0, TypesOf(frame))
WriteAtoms(frame) == FlattenSeq([i \in DOMAIN frame.items |-> WriteItem(TypesOf(frame)[i], frame.items[i])])

Size(frame) == 2 + Len(Capacity(frame)) + AtomsSize(frame)

(* DataFrame::write *)
Written(frame) == <<Size(frame), frame.name, NUL>> \o Capacity(frame) \o WriteAtoms(frame)

(* Reading an item goes on from what is left of the data.  A byte array    *)
(* takes what there is; a string ends with the data.                       *)
StringSize(rest) == IF Contains(rest, NUL) THEN SelectInSeq(rest, LAMBDA c : c = NUL) ELSE Len(rest)
ArraySize(rest) == IF rest[1] < Len(rest) THEN rest[1] ELSE Len(rest) - 1

CanRead(rest, type) ==
  \/ type = "string"
  \/ rest # <<>> /\ (type \in {"uint8", "datetime"} \/ rest[1] = 0 \/ Len(rest) > 1)

ReadGuid(bytes) == IF Len(bytes) = 2 THEN bytes ELSE <<0, 0>>

ReadItem(state, type) ==
  LET rest == state.rest
      Got(size, item) == [rest |-> SubSeq(rest, size + 1, Len(rest)), items |-> Append(state.items, item), ok |-> TRUE]
      bytes == SubSeq(rest, 2, ArraySize(rest) + 1)
  IN IF ~state.ok \/ ~CanRead(rest, type) THEN [state EXCEPT !.ok = FALSE]
     ELSE CASE type = "uint8" -> Got(1, <<rest[1]>>)
            [] type = "string" ->
                 Got(StringSize(rest), SelectSeq(SubSeq(rest, 1, StringSize(rest)), LAMBDA c : c # NUL))
            [] type = "bytearray" -> Got(1 + Len(bytes), bytes)
            [] type = "guid" -> Got(1 + Len(bytes), ReadGuid(bytes))
            [] type = "datetime" -> Got(1, <<FromDays(rest[1])>>)

(* DataFrame::read: the items, or nothing.                                 *)
ReadAtoms(name, rest) ==
  LET isArray  == receiver[name].isArray
      capacity == IF isArray /\ rest[1] > 1 THEN rest[1] ELSE 1
      start    == [rest |-> IF isArray THEN Tail(rest) ELSE rest, items |-> <<>>, ok |-> TRUE]
      state    == FoldLeft(ReadItem, start, ItemTypes(receiver[name], capacity))
  IN IF isArray => rest # <<>> /\ rest[1] < Len(rest)
     THEN IF state.ok THEN <<[name |-> name, capacity |-> capacity, items |-> state.items]>> ELSE <<>>
     ELSE <<>>

(* The factory's readFrame() behind a size: the frame the receiver knows   *)
(* under the name the data begin with, if the data are enough for it.      *)
ReadFrame(bytes) ==
  LET size == StringSize(bytes)
      name == SelectSeq(SubSeq(bytes, 1, size), LAMBDA c : c # NUL)
  IN IF \E known \in DOMAIN receiver : name = <<known>>
     THEN ReadAtoms(name[1], SubSeq(bytes, size + 1, Len(bytes))) ELSE <<>>

(* A DataFrameRawData out of bytes: its name ends at the first NUL, and    *)
(* toString() is the name if anything is behind it.                        *)
RawFrame(bytes) ==
  LET zero == SelectInSeq(bytes, LAMBDA c : c = NUL)
  IN [isValid |-> bytes # <<>> /\ bytes[1] > SPACE,
      buffer |-> bytes,
      text |-> IF zero > 1 /\ zero < Len(bytes) THEN SubSeq(bytes, 1, zero - 1) ELSE <<>>]

(* loadFromFile() gives a frame the definition, and so the priority, that  *)
(* toString() names.                                                       *)
Defined(raw) == \E known \in DOMAIN receiver : raw.text = <<known>>

SetPosition(value) == IF value > Len(data) THEN Len(data) ELSE value

---------------------------------------------------------------------------

Init ==
  /\ data = <<>> /\ written = <<>> /\ receiver \in Receivers
  /\ path = "none" /\ position = 0 /\ frames = <<>> /\ ended = FALSE

(* dataFrameRawData() and appendByteArray(): the raw frame is what the     *)
(* size of the written one says.                                           *)
AppendFrame(frame) ==
  /\ path = "none"
  /\ Len(written) < MaxFrames
  /\ LET raw == SubSeq(Written(frame), 2, 1 + Written(frame)[1])
     IN /\ Len(data) + 1 + Len(raw) <= MaxBytes
        /\ data' = data \o <<Len(raw)>> \o raw
  /\ written' = Append(written, frame)
  /\ UNCHANGED <<receiver, path, position, frames, ended>>

ReceivePacket ==
  /\ path = "none"
  /\ path' = "packet"
  /\ UNCHANGED <<data, written, receiver, position, frames, ended>>

(* External: the file ends anywhere. *)
OpenFile(n) ==
  /\ path = "none"
  /\ path' = "file"
  /\ data' = SubSeq(data, 1, n)
  /\ UNCHANGED <<written, receiver, position, frames, ended>>

(* Mutant of NextFrame: the size itself is not counted. *)
NextFrameUncounted(size) == position + size

(* Where the next frame begins, whatever was read of this one. *)
NextFrame(size) == position + 1 + size

(* A turn of readFrames().  setPosition() does not leave the data.         *)
ReadFromPacket ==
  /\ path = "packet" /\ ~ended
  /\ IF position >= Len(data) THEN ended' = TRUE /\ UNCHANGED <<position, frames>>
     ELSE LET size  == data[position + 1]
              frame == ReadFrame(SubSeq(data, position + 2, Len(data)))
          IN /\ frames' = frames \o [i \in DOMAIN frame |-> frame[i] @@ [defined |-> TRUE]]
             /\ position' = SetPosition(NextFrame(size))
             /\ ended' = (frame = <<>>)
  /\ UNCHANGED <<data, written, receiver, path>>

(* A turn of parse(); an invalid frame, or one the receiver does not know, *)
(* is left out.                                                            *)
ParseFile ==
  /\ path = "file" /\ ~ended
  /\ LET start == position + 1
     IN IF position + 1 > Len(data) \/ start + data[position + 1] > Len(data)
        THEN ended' = TRUE /\ UNCHANGED <<position, frames>>
        ELSE LET raw   == RawFrame(SubSeq(data, start + 1, start + data[position + 1]))
                 frame == IF raw.isValid THEN ReadFrame(raw.buffer) ELSE <<>>
             IN /\ frames' = frames \o [i \in DOMAIN frame |-> frame[i] @@ [defined |-> Defined(raw)]]
                /\ position' = start + Len(raw.buffer)
                /\ UNCHANGED ended
  /\ UNCHANGED <<data, written, receiver, path>>

Next ==
  \/ \E frame \in Frames : AppendFrame(frame)
  \/ ReceivePacket
  \/ \E n \in 0 .. Len(data) : OpenFile(n)
  \/ ReadFromPacket
  \/ ParseFile

Spec == Init /\ [][Next]_framesVars

---------------------------------------------------------------------------

(* Frames both sides define alike. *)
Agreed(frame) == frame.name \in DOMAIN receiver /\ receiver[frame.name] = Definitions[frame.name]

(* How many of the frames written are whole in the data. *)
WholeFrames ==
  Cardinality({n \in DOMAIN written :
                 FoldLeft(LAMBDA sum, frame : sum + 1 + Size(frame), 0, SubSeq(written, 1, n)) <= Len(data)})

(* A packet is read up to the first frame that the sides do not agree on. *)
Readable ==
  LET whole == SubSeq(written, 1, WholeFrames)
      other == SelectInSeq(whole, LAMBDA frame : ~Agreed(frame))
  IN IF path = "packet" /\ other # 0 THEN SubSeq(whole, 1, other - 1) ELSE SelectSeq(whole, Agreed)

(* A date may come back a millisecond early.                               *)
IsRead(frame, original) ==
  LET types == TypesOf(original)
  IN /\ frame.name = original.name /\ frame.capacity = original.capacity
     /\ Len(frame.items) = Len(original.items)
     /\ \A i \in DOMAIN types :
          IF types[i] = "datetime" THEN original.items[i][1] - frame.items[i][1] \in {0, 1}
          ELSE frame.items[i] = original.items[i]

(* Reading returns the frames as they were written, in their order: a cut  *)
(* file loses the cut frame alone, and a frame that one side does not know *)
(* or defines otherwise does not disturb those behind it.  Only a frame    *)
(* without data comes out of a file without its definition.                *)
AgreedFramesRead ==
  LET read == SelectSeq(frames, Agreed)
      originals == SelectSeq(SubSeq(written, 1, WholeFrames), Agreed)
  IN /\ path # "none" => /\ Len(read) <= Len(originals)
                         /\ \A i \in DOMAIN read : IsRead(read[i], originals[i])
     /\ ended => Len(read) >= Len(Readable)
     /\ \A i \in DOMAIN frames : frames[i].defined \/ frames[i].items = <<>>
=============================================================================
