------------------------------- MODULE ThreadLogs -------------------------------
(***************************************************************************)
(* Threads/ThreadLogs with its WriterLog, and the order in which           *)
(* DaemonApplication stops it: messages that threads log, on days that     *)
(* change, are buffered and written to one file for each day, by writes    *)
(* that may fail.  The level of the messages to keep goes through the same *)
(* queue, and so do texts for a file of their own.  A fatal signal ends    *)
(* the application after a last flush (Utils/PosixHandler.cpp).            *)
(*                                                                         *)
(* A message is <<number, day>>; its text is two characters, each written  *)
(* as one byte or, in the messages of load.wide, two.  The writer is the   *)
(* record w.  A write may stop at any byte, and the one that repeats it    *)
(* behind any character.  Message3 of the writer is the number 0.  open()  *)
(* of a file succeeds.                                                     *)
(***************************************************************************)
EXTENDS Integers, FiniteSets, SequencesExt, FiniteSetsExt

CONSTANTS
  Loggers,      \* the main thread and others that it stops before it ends
  Loads,        \* what the log may have to write
  MaxMessages   \* bound: messages

(* In a load: the messages with characters of two bytes, those of level 9, *)
(* whether a signal may come, and bounds on the messages, on the days, on  *)
(* the writes that fail, on the changes of the level and on the texts for  *)
(* another file.                                                           *)
ASSUME LogsAssumption ==
  /\ Loads \subseteq [wide : SUBSET Nat, debug : SUBSET Nat, signals : BOOLEAN, days : Nat \ {0}, failures : Nat,
                     messages : 0 .. MaxMessages, changes : Nat, rewrites : Nat]
  /\ MaxMessages \in Nat

VARIABLES
  load,     \* one of Loads
  app,      \* AppMain
  made,     \* each logger's message that is created and not yet posted, or none
  loggers,  \* those that run
  queue,    \* the log thread's queue
  at,       \* where the log thread is
  w,        \* the writer and its files
  today, number, \* the clock, the last message's number
  asked,    \* history: the level, its changes and the texts that were asked for
  done      \* history: of each day, messages the log thread has taken that were to be kept

logsVars == <<load, app, made, loggers, queue, at, w, today, number, asked, done>>

None == <<>>
Days == 1 .. load.days
Text(m) == <<<<m[1], 1>>, <<m[1], 2>>>>
Bytes(c) == IF c[1] \in load.wide THEN 2 ELSE 1
ByteCount(text) == Len(text) + Cardinality({i \in DOMAIN text : Bytes(text[i]) = 2})

(* The writer keeps level 9 from the start; the log's own messages and     *)
(* most others have level 0.  Its own have a third field.                  *)
Level(m) == IF m[1] \in load.debug /\ Len(m) = 2 THEN 9 ELSE 0

LogsInit ==
  /\ load \in Loads
  /\ app = "running" /\ made = [l \in Loggers |-> None] /\ loggers = Loggers /\ queue = <<>>
  /\ at = "starting" /\ today = 1 /\ number = 0 /\ done = [d \in Days |-> <<>>]
  /\ asked = [level |-> 9, changes |-> 0, texts |-> <<>>]
  /\ w = [buffer |-> <<>>, open |-> FALSE, day |-> 0, due |-> FALSE, level |-> 9,
          files |-> [d \in Days |-> <<>>], other |-> <<>>, failures |-> 0,
          torn |-> {}, hurt |-> {}] \* history: see FlushPartial

(***************************************************************************)
(* The writer: what it may be after each of its operations.                *)
(***************************************************************************)
Write(o, text) == IF o.open THEN [o EXCEPT !.files[o.day] = @ \o text] ELSE o

LogRecreateFile(o) == [o EXCEPT !.open = TRUE]

(* logFlushBuffer() when write() takes all it is given.                    *)
FlushWhole(o) ==
  IF o.buffer = <<>> \/ ~o.open
  THEN [o EXCEPT !.due = FALSE]
  ELSE [Write(o, o.buffer) EXCEPT !.buffer = <<>>, !.due = FALSE]

(* Message3 goes the way of every message: to the buffer, behind a file of *)
(* its day, when it is made on another day.  (The flush for that writes    *)
(* again what is still in the buffer; if it stops short as well, so much   *)
(* less comes twice.)                                                      *)
LogMessage3(o) ==
  [IF o.day = today THEN o ELSE LogRecreateFile([FlushWhole(o) EXCEPT !.day = today])
     EXCEPT !.buffer = @ \o Text(<<0, today>>)]

(* What is behind the first n characters of the buffer.                    *)
Behind(o, n) == SubSeq(o.buffer, n + 1, Len(o.buffer))

(* Where the writes of a flush may stop: behind n characters and perhaps a *)
(* byte of the next; and of what is then left in the buffer, the repeat    *)
(* writes m characters.                                                    *)
WrittenCount(o, s) == ByteCount(SubSeq(o.buffer, 1, s.n)) + s.more
Left(o, s) == Behind(o, WrittenCount(o, s))
Failed(o, s) == IF s.m = Len(Left(o, s)) THEN 1 ELSE 2
Stops(o) ==
  {s \in [n : 0 .. Len(o.buffer) - 1, more : {0, 1}, m : 0 .. Len(o.buffer)] :
     /\ s.more < Bytes(o.buffer[s.n + 1])
     /\ s.m <= Len(Left(o, s)) /\ o.failures + Failed(o, s) <= load.failures}

(* As many characters leave the buffer as bytes were written, nobody looks *)
(* at what the repeat writes, and in the end the buffer is cleared.        *)
(* History: such a flush may lose the characters it has hurt, and a file   *)
(* is torn that may lack some or have them twice.                          *)
FlushPartial(o, s) ==
  LET lossless == WrittenCount(o, s) = s.n /\ s.m = Len(Left(o, s))
      again    == LogRecreateFile([Write(o, SubSeq(o.buffer, 1, s.n)) EXCEPT !.buffer = Left(o, s)])
  IN  [LogMessage3(Write(again, SubSeq(again.buffer, 1, s.m))) EXCEPT
         !.buffer = <<>>, !.due = FALSE, !.failures = @ + Failed(o, s),
         !.torn = IF lossless /\ o.day = today THEN @ ELSE @ \cup {o.day},
         !.hurt = IF lossless THEN @ ELSE @ \cup Range(Behind(o, s.n))]

LogFlushBuffer(o) == {FlushWhole(o)} \cup (IF o.open /\ o.failures < load.failures THEN {FlushPartial(o, s) : s \in Stops(o)} ELSE {})

DoMessageLog(o, m) ==
  IF Level(m) > o.level THEN {o}
  ELSE {[r EXCEPT !.buffer = @ \o Text(m)] :
          r \in IF o.day = m[2] THEN {o} ELSE {LogRecreateFile([f EXCEPT !.day = m[2]]) : f \in LogFlushBuffer(o)}}

DoMessageRewriteFile(o, text) == [o EXCEPT !.other = Append(IF text.mode = "Truncate" THEN <<>> ELSE @, text.id)]

SetLevel(o, level) == [o EXCEPT !.level = level]

LogCheckAndFlushBuffer(o) == IF o.buffer = <<>> \/ ~o.due THEN {o} ELSE LogFlushBuffer(o)

(***************************************************************************)
(* The threads that log.                                                   *)
(***************************************************************************)
(* created() is the time of the constructor.                               *)
Create(l) ==
  /\ l \in loggers /\ made[l] = None /\ number < load.messages
  /\ number' = number + 1
  /\ made' = [made EXCEPT ![l] = <<number', today>>]
  /\ UNCHANGED <<load, app, loggers, queue, at, w, today, asked, done>>

(* What is posted notes whether the level asked for last lets it pass.     *)
MessageLog(m) == [kind |-> "log", message |-> m, kept |-> Level(m) <= asked.level]
MessageLogLevel(level) == [kind |-> "level", level |-> level]
MessageWriteToFile(mode, id) == [kind |-> "file", mode |-> mode, id |-> id]

(* writeLog() in its three forms: a text that is formatted, and posted to  *)
(* the log thread, which outlives the loggers.  The sender's own level,    *)
(* ThreadBase::_logLevel, stays at 9.                                      *)
WriteLog(l) ==
  /\ made[l] # None
  /\ queue' = Append(queue, MessageLog(made[l]))
  /\ made' = [made EXCEPT ![l] = None]
  /\ UNCHANGED <<load, app, loggers, at, w, today, number, asked, done>>

(* Mutant of SetLogLevel: the writer's level is set by the caller.         *)
SetLogLevelAtOnce(level) ==
  /\ loggers # {} /\ asked.changes < load.changes
  /\ asked' = [asked EXCEPT !.level = level, !.changes = @ + 1]
  /\ w' = SetLevel(w, level)
  /\ UNCHANGED <<load, app, made, loggers, queue, at, today, number, done>>

(* ThreadLogs::setLogLevel(): a MessageLogLevel to the log thread.         *)
SetLogLevel(level) ==
  /\ loggers # {} /\ asked.changes < load.changes
  /\ asked' = [asked EXCEPT !.level = level, !.changes = @ + 1]
  /\ queue' = Append(queue, MessageLogLevel(level))
  /\ UNCHANGED <<load, app, made, loggers, at, w, today, number, done>>

(* A MessageWriteToFile for one file beside the log.                       *)
WriteToFile(mode) ==
  /\ loggers # {} /\ Len(asked.texts) < load.rewrites
  /\ LET text == MessageWriteToFile(mode, Len(asked.texts) + 1)
     IN /\ asked' = [asked EXCEPT !.texts = Append(@, text)]
        /\ queue' = Append(queue, text)
  /\ UNCHANGED <<load, app, made, loggers, at, w, today, number, done>>

(* The main thread ends after its children (ThreadBase).                   *)
LoggerEnds(l) ==
  /\ app = "stopping" /\ l \in loggers /\ made[l] = None
  /\ loggers' = loggers \ {l}
  /\ UNCHANGED <<load, app, made, queue, at, w, today, number, asked, done>>

(***************************************************************************)
(* AppMain: the main thread is stopped, then the log thread.               *)
(***************************************************************************)
StopMain ==
  /\ app = "running"
  /\ app' = "stopping"
  /\ UNCHANGED <<load, made, loggers, queue, at, w, today, number, asked, done>>

(* Mutant of StopLog: the main thread is not waited for.                   *)
StopLogAtOnce ==
  /\ app = "stopping"
  /\ app' = "stoppingLog"
  /\ UNCHANGED <<load, made, loggers, queue, at, w, today, number, asked, done>>

StopLog ==
  /\ app = "stopping" /\ loggers = {}
  /\ app' = "stoppingLog"
  /\ UNCHANGED <<load, made, loggers, queue, at, w, today, number, asked, done>>

(***************************************************************************)
(* The log thread.                                                         *)
(***************************************************************************)
Own == <<number + 1, today, "own">>
Done(m) == [done EXCEPT ![m[2]] = Append(@, m)]

OnThreadStarted ==
  /\ at = "starting" /\ at' = "loop"
  /\ number' = number + 1 /\ done' = Done(Own)
  /\ w' \in DoMessageLog(w, Own)
  /\ UNCHANGED <<load, app, made, loggers, queue, today, asked>>

Processed(o, message) ==
  CASE message.kind = "log"   -> DoMessageLog(o, message.message)
    [] message.kind = "file"  -> {DoMessageRewriteFile(o, message)}
    [] message.kind = "level" -> {SetLevel(o, message.level)}

ProcessMessage ==
  /\ at \in {"loop", "draining"} /\ queue # <<>>
  /\ queue' = Tail(queue)
  /\ LET message == Head(queue)
     IN /\ w' \in UNION {LogCheckAndFlushBuffer(o) : o \in Processed(w, message)}
        /\ done' = IF message.kind = "log" /\ message.kept THEN Done(message.message) ELSE done
  /\ UNCHANGED <<load, app, made, loggers, at, today, number, asked>>

OnIdleFlush ==
  /\ at = "loop"
  /\ w' \in LogCheckAndFlushBuffer(w)
  /\ UNCHANGED <<load, app, made, loggers, queue, at, today, number, asked, done>>

(* The terminate byte is read; messages left are processed by run().       *)
OnThreadFinishing ==
  /\ at = "loop" /\ app = "stoppingLog"
  /\ at' = "draining"
  /\ number' = number + 1 /\ done' = Done(Own)
  /\ w' \in DoMessageLog(w, Own)
  /\ UNCHANGED <<load, app, made, loggers, queue, today, asked>>

(* Mutant of OnThreadFinished: what is left waits for the next flush.      *)
OnThreadFinishedDue ==
  /\ at = "draining" /\ queue = <<>>
  /\ at' = "finished" /\ app' = "ended"
  /\ number' = number + 1 /\ done' = Done(Own)
  /\ \E o \in DoMessageLog(w, Own) : \E r \in LogCheckAndFlushBuffer(o) : w' = [r EXCEPT !.open = FALSE]
  /\ UNCHANGED <<load, made, loggers, queue, today, asked>>

OnThreadFinished ==
  /\ at = "draining" /\ queue = <<>>
  /\ at' = "finished" /\ app' = "ended"
  /\ number' = number + 1 /\ done' = Done(Own)
  /\ \E o \in DoMessageLog(w, Own) : \E r \in LogFlushBuffer(o) : w' = [r EXCEPT !.open = FALSE]
  /\ UNCHANGED <<load, made, loggers, queue, today, asked>>

(***************************************************************************)
(* posix_death_signal(): whichever thread is struck flushes the log, and   *)
(* the process dies.  A flush that the log thread was struck in has        *)
(* written the buffer already.  The log thread is not changing the buffer  *)
(* at that moment, which for another thread's signal the code leaves to    *)
(* luck.                                                                   *)
(***************************************************************************)
PosixDeathSignal ==
  /\ load.signals /\ app \notin {"ended", "dead"}
  /\ app' = "dead" /\ at' = "dead" /\ loggers' = {} /\ made' = [l \in Loggers |-> None]
  /\ w' \in UNION {LogFlushBuffer(o) : o \in {w} \cup {Write(o, o.buffer) : o \in {o \in {w} : o.due /\ at # "starting"}}}
  /\ UNCHANGED <<load, queue, today, number, asked, done>>

(***************************************************************************)
(* Time.                                                                   *)
(***************************************************************************)
NextDay ==
  /\ today < load.days
  /\ today' = today + 1
  /\ UNCHANGED <<load, app, made, loggers, queue, at, w, number, asked, done>>

FlushTimeout ==
  /\ ~w.due /\ at # "dead"
  /\ w' = [w EXCEPT !.due = TRUE]
  /\ UNCHANGED <<load, app, made, loggers, queue, at, today, number, asked, done>>

LogThread == OnThreadStarted \/ ProcessMessage \/ OnIdleFlush \/ OnThreadFinishing \/ OnThreadFinished
LogsNext ==
  \/ StopMain \/ StopLog \/ LogThread \/ NextDay \/ FlushTimeout \/ PosixDeathSignal
  \/ \E level \in {0, 9} : SetLogLevel(level)
  \/ \E mode \in {"Truncate", "Append"} : WriteToFile(mode)
  \/ \E l \in Loggers : Create(l) \/ WriteLog(l) \/ LoggerEnds(l)

LogsSpec == LogsInit /\ [][LogsNext]_logsVars

(* The log thread and the timer go on; it reads its pipe again and again.  *)
LogsFairSpec ==
  /\ LogsSpec /\ WF_logsVars(OnThreadStarted) /\ WF_logsVars(ProcessMessage) /\ WF_logsVars(OnIdleFlush)
  /\ WF_logsVars(OnThreadFinishing) /\ WF_logsVars(OnThreadFinished) /\ WF_logsVars(FlushTimeout)

(***************************************************************************)
(* Properties.                                                             *)
(***************************************************************************)
AllText(ms) == [i \in 1 .. 2 * Len(ms) |-> Text(ms[(i + 1) \div 2])[2 - (i % 2)]]

(* What goes to a day's file: it is there, or in the buffer.               *)
Held(o, d) == IF o.day = d THEN o.files[d] \o o.buffer ELSE o.files[d]

(* The other file when n texts have been written, and how many have been:  *)
(* those in the queue have not.                                            *)
Emptied(n) == Max({1} \cup {i \in 1 .. n : asked.texts[i].mode = "Truncate"})
OtherFile(n) == [i \in 1 .. n - Emptied(n) + 1 |-> asked.texts[Emptied(n) + i - 1].id]
TextsWritten ==
  Min({queue[i].id : i \in {j \in DOMAIN queue : queue[j].kind = "file"}} \cup {Len(asked.texts) + 1}) - 1

(* A day's file holds the day's messages and no others, whole, once and in *)
(* the order the log thread took them, up to what is still in the buffer:  *)
(* late messages of the day before go back to its file.  Those are left    *)
(* out that the level forbade which was set last before they were sent.  A *)
(* fatal signal may double the end, and the other file begins with the     *)
(* text that emptied it last.  A file is torn only by a write that stops   *)
(* short behind a character of two bytes, twice or on another day.         *)
FilesInOrder ==
  /\ \A d \in Days \ w.torn :
       IF app = "dead" THEN IsPrefix(AllText(done[d]), Held(w, d)) ELSE Held(w, d) = AllText(done[d])
  /\ w.other = OtherFile(TextsWritten)

(* When the application has ended, everything its threads logged is in the *)
(* files (stop order, final processMessages() and flush); when a signal    *)
(* ended it, everything the log thread had taken: save what a flush that   *)
(* stopped short behind a character of two bytes, or twice, had before it. *)
NothingLost ==
  /\ app = "ended" => queue = <<>> /\ \A l \in Loggers : made[l] = None
  /\ app \in {"ended", "dead"} =>
       /\ w.buffer = <<>>
       /\ \A d \in Days : \A j \in DOMAIN done[d] : \A i \in 1 .. 2 :
            Contains(w.files[d], Text(done[d][j])[i]) \/ Text(done[d][j])[i] \in w.hurt

(* What leaves the buffer has been written.  ("remove from the buffer the  *)
(* data that were written", WriterLogs.cpp.)                               *)
TextKept ==
  \A d \in Days : \A j \in DOMAIN done[d] : \A i \in 1 .. 2 : Contains(Held(w, d), Text(done[d][j])[i])

(* A message that a thread has posted is in a file after some time, unless *)
(* the level forbids it, the application dies or a flush has hurt it.      *)
Written ==
  \A n \in 1 .. MaxMessages :
    (\E i \in DOMAIN queue : queue[i].kind = "log" /\ queue[i].kept /\ queue[i].message[1] = n)
      ~> (app = "dead" \/ <<n, 2>> \in w.hurt \/ \E d \in Days : Contains(w.files[d], <<n, 2>>))

(***************************************************************************)
(* The inductive invariant behind them.                                    *)
(***************************************************************************)
Characters == Nat \X {1, 2}
Messages == (Nat \X Days) \cup (Nat \X Days \X {"own"})
Writer ==
  [buffer : Seq(Characters), open : BOOLEAN, day : Days \cup {0}, due : BOOLEAN, level : {0, 9},
   files : [Days -> Seq(Characters)], other : Seq(Nat), failures : Nat,
   torn : SUBSET Days, hurt : SUBSET Characters]
FileTexts == [kind : {"file"}, mode : {"Truncate", "Append"}, id : Nat]
Posted ==
  FileTexts \cup [kind : {"level"}, level : {0, 9}] \cup [kind : {"log"}, message : Nat \X Days, kept : BOOLEAN]

LogsTypeOK ==
  /\ load \in Loads /\ app \in {"running", "stopping", "stoppingLog", "ended", "dead"}
  /\ made \in [Loggers -> {None} \cup (Nat \X Days)] /\ loggers \subseteq Loggers
  /\ queue \in Seq(Posted) /\ at \in {"starting", "loop", "draining", "finished", "dead"}
  /\ w \in Writer /\ today \in Days /\ number \in Nat
  /\ asked \in [level : {0, 9}, changes : Nat, texts : Seq(FileTexts)]
  /\ done \in [Days -> Seq(Messages)]

(* The log thread outlives the loggers and empties its queue.              *)
StopOK ==
  /\ app = "ended" <=> at = "finished"
  /\ app = "dead" <=> at = "dead"
  /\ at = "draining" => app = "stoppingLog"
  /\ app \in {"stoppingLog", "ended", "dead"} => loggers = {}
  /\ \A l \in Loggers : made[l] # None => l \in loggers
  /\ app = "ended" => queue = <<>>

(* The file of a day is open as long as there is something to write.       *)
WriterOK ==
  /\ at = "starting" => w.day = 0
  /\ at \in {"loop", "draining"} => w.open
  /\ w.open => w.day \in Days
  /\ at \in {"starting", "finished", "dead"} => w.buffer = <<>>

(* The level the writer will have when it comes to the queue's place i.    *)
LevelAt(i, level) ==
  \/ /\ w.level = level
     /\ \A k \in 1 .. i - 1 : queue[k].kind # "level"
  \/ \E j \in 1 .. i - 1 : /\ queue[j].kind = "level" /\ queue[j].level = level
                           /\ \A k \in j + 1 .. i - 1 : queue[k].kind # "level"

LevelsOK ==
  /\ LevelAt(Len(queue) + 1, asked.level)
  /\ \A i \in DOMAIN queue : queue[i].kind = "log" =>
       \E level \in {0, 9} : LevelAt(i, level) /\ queue[i].kept = (Level(queue[i].message) <= level)

(* After n texts for the other file, the rest is in the queue.             *)
TextsLeft(n) ==
  /\ n \in 0 .. Len(asked.texts)
  /\ \A i \in DOMAIN queue : queue[i].kind = "file" => queue[i].id \in n + 1 .. Len(asked.texts)
  /\ \A i \in DOMAIN queue : queue[i].kind = "file" => queue[i] = asked.texts[queue[i].id]
  /\ \A k \in n + 1 .. Len(asked.texts) : \E i \in DOMAIN queue : queue[i].kind = "file" /\ queue[i].id = k
  /\ \A i, j \in DOMAIN queue : i < j /\ queue[i].kind = "file" /\ queue[j].kind = "file" => queue[i].id < queue[j].id

OtherOK ==
  /\ \A n \in DOMAIN asked.texts : asked.texts[n].id = n
  /\ \E n \in 0 .. Len(asked.texts) :
       TextsLeft(n) /\ Emptied(n) \in {1} \cup 1 .. n /\ w.other = OtherFile(n)

HeldOK(d) ==
  /\ \A j \in DOMAIN done[d] : \A i \in 1 .. 2 :
       Contains(Held(w, d), Text(done[d][j])[i]) \/ Text(done[d][j])[i] \in w.hurt
  /\ d \notin w.torn =>
       IF app = "dead" THEN IsPrefix(AllText(done[d]), Held(w, d)) ELSE Held(w, d) = AllText(done[d])

LogsInv == LogsTypeOK /\ StopOK /\ WriterOK /\ LevelsOK /\ OtherOK /\ \A d \in Days : HeldOK(d)
=============================================================================
