------------------------------ MODULE ListenSocket ------------------------------
(***************************************************************************)
(* Threads/ThreadListenSocket and PollerListenSocket with the server's     *)
(* threads of Demo/SimpleServer (Linux): a socket that listens, fails and  *)
(* listens again, a child thread for every connection accepted, and the    *)
(* process's table of descriptors they all share.                          *)
(*                                                                         *)
(* A descriptor is a number; files says what it stands for.  A child has   *)
(* its connection and the two ends of its PollerThread's pipe.  Clients,   *)
(* the port and the rest of the process's descriptors are the environment. *)
(***************************************************************************)
EXTENDS Integers, Sequences, FiniteSets, FiniteSetsExt, Sublists

CONSTANTS
  Clients,      \* each connects once
  Table,        \* the table of descriptors: 0 .. n
  MayRefuse,    \* onAcceptConnectionRequest() may refuse
  MaxFailures   \* bound: errors of bind(), accept() and the socket

ASSUME ListenAssumption ==
  /\ 0 \in Table /\ Table \subseteq Nat /\ IsFiniteSet(Table)
  /\ MayRefuse \in BOOLEAN /\ MaxFailures \in Nat

VARIABLES
  pc,         \* where the listening thread is
  listener,   \* _isInitialized, the descriptor, whether _nextStartListening has passed
  pollEvents, \* what poll() reported for it
  signals,    \* bytes in the thread's pipe
  terminated, \* _isTerminated
  children,   \* _childThreadsList
  child,      \* each client's thread
  client,     \* each client
  backlog,    \* connections the system has made and accept() has not returned
  files,      \* what each descriptor stands for
  failures    \* bound counter

listenVars == <<pc, listener, pollEvents, signals, terminated, children, child, client, backlog, files, failures>>

INVALID_DESCRIPTOR == -1
Free == {d \in Table : files[d] = <<"free">>}
NoPipe == <<0, 0>>   \* PollerThread: memset() of _pipeDescriptors

ListenInit ==
  /\ pc = "loop" /\ pollEvents = {} /\ signals = {} /\ terminated = FALSE /\ failures = 0
  /\ listener = [initialized |-> FALSE, fd |-> INVALID_DESCRIPTOR, due |-> TRUE]
  /\ children = <<>> /\ backlog = <<>>
  /\ child = [c \in Clients |-> [life |-> "none", fd |-> INVALID_DESCRIPTOR, pipe |-> NoPipe, asked |-> FALSE]]
  /\ client = [c \in Clients |-> "out"]
  /\ files = [d \in Table |-> IF d = 0 THEN <<"stdin">> ELSE <<"free">>]

Closed(fs, ds) == [d \in Table |-> IF d \in ds THEN <<"free">> ELSE fs[d]]
Fails == failures < MaxFailures /\ failures' = failures + 1

(***************************************************************************)
(* The listening socket.                                                   *)
(***************************************************************************)
(* createTcpServerSocket() closes what it cannot bind.                     *)
InitializeFails ==
  /\ \/ Free = {} /\ UNCHANGED failures
     \/ Fails
  /\ listener' = [listener EXCEPT !.due = FALSE]
  /\ UNCHANGED files

InitializeDone ==
  /\ Free # {}
  /\ listener' = [listener EXCEPT !.initialized = TRUE, !.fd = Min(Free)]
  /\ files' = [files EXCEPT ![Min(Free)] = <<"listener">>]
  /\ UNCHANGED failures

BeforeWait ==
  /\ pc = "loop" /\ ~terminated
  /\ pc' = "poll"
  /\ IF listener.initialized \/ ~listener.due
     THEN UNCHANGED <<listener, files, failures>>
     ELSE InitializeFails \/ InitializeDone
  /\ UNCHANGED <<pollEvents, signals, terminated, children, child, client, backlog>>

(* The system resets the connections that were not accepted.               *)
Finalize ==
  /\ listener' = [listener EXCEPT !.initialized = FALSE, !.fd = INVALID_DESCRIPTOR]
  /\ files' = Closed(files, {listener.fd})
  /\ client' = [c \in Clients |-> IF client[c] = "backlog" THEN "closed" ELSE client[c]]
  /\ backlog' = <<>>

(***************************************************************************)
(* The children.                                                           *)
(***************************************************************************)
(* Mutant of DestroyFinished: the last child is looked at first and only.  *)
DestroyFinishedLast ==
  LET dead == {c \in Clients : children # <<>> /\ c = children[Len(children)] /\ child[c].life = "finished"}
  IN  /\ children' = SelectSeq(children, LAMBDA c : c \notin dead)
      /\ child' = [c \in Clients |-> IF c \in dead THEN [child[c] EXCEPT !.life = "deleted"] ELSE child[c]]
      /\ files' = Closed(files, UNION {{child[c].pipe[1], child[c].pipe[2]} : c \in dead})

(* destroyTerminatedChildThreads(): ~PollerThread() closes both numbers.   *)
DestroyFinished ==
  LET dead == {children[i] : i \in {j \in DOMAIN children : child[children[j]].life = "finished"}}
  IN  /\ children' = Sublist(children, {i \in DOMAIN children : children[i] \notin dead})
      /\ child' = [c \in Clients |-> IF c \in dead THEN [child[c] EXCEPT !.life = "deleted"] ELSE child[c]]
      /\ files' = Closed(files, UNION {{child[c].pipe[1], child[c].pipe[2]} : c \in dead})

(* PollerThread(): pipe2(), or no pipe.                                    *)
OpenPipe(fs, c) ==
  LET free == {d \in Table : fs[d] = <<"free">>}
      first == Min(free)
      second == Min(free \ {first})
  IN  IF Cardinality(free) < 2
      THEN [pipe |-> NoPipe, files |-> fs]
      ELSE [pipe |-> <<first, second>>,
            files |-> [fs EXCEPT ![first] = <<"pipe", c>>, ![second] = <<"pipe", c>>]]

StartChild(c, d) ==
  LET opened == OpenPipe([files EXCEPT ![d] = <<"connection", c>>], c)
  IN  /\ files' = opened.files
      /\ child' = [child EXCEPT ![c] = [life |-> "running", fd |-> d, pipe |-> opened.pipe, asked |-> FALSE]]
      /\ children' = Append(children, c)
      /\ client' = [client EXCEPT ![c] = "connected"]

(* The child's loop ends on its terminate byte or at the client's silence  *)
(* or close; its handler closes the connection.                            *)
ChildEnds(c) ==
  /\ child[c].life = "running"
  /\ client[c] = "left" \/ (child[c].asked /\ child[c].pipe # NoPipe)
  /\ child' = [child EXCEPT ![c].life = "finished", ![c].fd = INVALID_DESCRIPTOR]
  /\ files' = Closed(files, {child[c].fd})
  /\ client' = [client EXCEPT ![c] = "closed"]
  /\ signals' = IF pc = "ended" THEN signals ELSE signals \cup {"ChildTerminated"}
  /\ UNCHANGED <<pc, listener, pollEvents, terminated, children, backlog, failures>>

(***************************************************************************)
(* poll() and what it leads to.                                            *)
(***************************************************************************)
PollListener ==
  /\ pc = "poll"
  /\ \/ /\ pollEvents' = IF listener.initialized /\ backlog # <<>> THEN {"IN"} ELSE {}
        /\ UNCHANGED failures
     \/ /\ listener.initialized /\ Fails
        /\ pollEvents' \in {{"ERR"}, {"IN", "ERR"}}
  /\ pc' = "signal"
  /\ UNCHANGED <<listener, signals, terminated, children, child, client, backlog, files>>

(* The thread's own poller comes first and reads one byte.                 *)
ReadSignal ==
  /\ pc = "signal"
  /\ pc' = "process"
  /\ \/ signals = {} /\ UNCHANGED <<signals, terminated, children, child, files>>
     \/ \E s \in signals :
          /\ signals' = signals \ {s}
          /\ terminated' = (terminated \/ s = "Terminate")
          /\ IF s = "ChildTerminated" THEN DestroyFinished ELSE UNCHANGED <<children, child, files>>
  /\ UNCHANGED <<listener, pollEvents, client, backlog, failures>>

Process ==
  /\ pc = "process"
  /\ pc' = IF "IN" \in pollEvents THEN "accepting" ELSE "after"
  /\ IF "ERR" \in pollEvents THEN Finalize ELSE UNCHANGED <<listener, files, client, backlog>>
  /\ UNCHANGED <<pollEvents, signals, terminated, children, child, failures>>

(* accept() has nothing to return, or fails (EBADF, EMFILE, ...).          *)
AcceptEnds ==
  /\ pc = "accepting"
  /\ pc' = "after"
  /\ \/ (listener.fd = INVALID_DESCRIPTOR \/ backlog = <<>> \/ Free = {}) /\ UNCHANGED failures
     \/ Fails
  /\ UNCHANGED <<listener, pollEvents, signals, terminated, children, child, client, backlog, files>>

(* Mutant of Refuse: a refused connection is not closed.                   *)
RefuseOpen(c, d) ==
  /\ files' = [files EXCEPT ![d] = <<"connection", c>>]
  /\ client' = [client EXCEPT ![c] = "closed"]
  /\ UNCHANGED <<child, children>>

Refuse(c, d) ==
  /\ client' = [client EXCEPT ![c] = "closed"]
  /\ UNCHANGED <<child, children, files>>

(* One round of processConnectionRequests().                               *)
Accept ==
  /\ pc = "accepting" /\ listener.fd # INVALID_DESCRIPTOR /\ backlog # <<>> /\ Free # {}
  /\ backlog' = Tail(backlog)
  /\ \/ StartChild(Head(backlog), Min(Free))
     \/ MayRefuse /\ Refuse(Head(backlog), Min(Free))
  /\ UNCHANGED <<pc, listener, pollEvents, signals, terminated, failures>>

AfterWait ==
  /\ pc = "after"
  /\ pc' = "loop"
  /\ DestroyFinished \/ UNCHANGED <<children, child, files>>
  /\ UNCHANGED <<listener, pollEvents, signals, terminated, client, backlog, failures>>

(***************************************************************************)
(* The end: terminateChildThreads().                                       *)
(***************************************************************************)
(* Mutant of EndLoop: the socket is left open.                             *)
EndLoopListening ==
  /\ pc = "loop" /\ terminated
  /\ pc' = "joining"
  /\ UNCHANGED <<listener, pollEvents, signals, terminated, children, child, client, backlog, files, failures>>

EndLoop ==
  /\ pc = "loop" /\ terminated
  /\ pc' = "joining"
  /\ IF listener.fd # INVALID_DESCRIPTOR THEN Finalize ELSE UNCHANGED <<listener, files, client, backlog>>
  /\ UNCHANGED <<pollEvents, signals, terminated, children, child, failures>>

Unfinished == {i \in DOMAIN children : child[children[i]].life # "finished"}

(* Mutant of AskChild: only one child is asked.                            *)
AskChildOnce ==
  /\ pc = "joining" /\ Unfinished # {}
  /\ \A c \in Clients : ~child[c].asked
  /\ child' = [child EXCEPT ![children[Max(Unfinished)]].asked = TRUE]
  /\ UNCHANGED <<pc, listener, pollEvents, signals, terminated, children, client, backlog, files, failures>>

(* From the last to the first, each waited for before the next is asked.   *)
AskChild ==
  /\ pc = "joining" /\ Unfinished # {}
  /\ ~child[children[Max(Unfinished)]].asked
  /\ child' = [child EXCEPT ![children[Max(Unfinished)]].asked = TRUE]
  /\ UNCHANGED <<pc, listener, pollEvents, signals, terminated, children, client, backlog, files, failures>>

JoinDone ==
  /\ pc = "joining" /\ Unfinished = {}
  /\ pc' = "ended"
  /\ DestroyFinished
  /\ UNCHANGED <<listener, pollEvents, signals, terminated, client, backlog, failures>>

(***************************************************************************)
(* The environment.                                                        *)
(***************************************************************************)
Connect(c) ==
  /\ client[c] = "out" /\ listener.initialized
  /\ client' = [client EXCEPT ![c] = "backlog"]
  /\ backlog' = Append(backlog, c)
  /\ UNCHANGED <<pc, listener, pollEvents, signals, terminated, children, child, files, failures>>

Leave(c) ==
  /\ client[c] = "connected"
  /\ client' = [client EXCEPT ![c] = "left"]
  /\ UNCHANGED <<pc, listener, pollEvents, signals, terminated, children, child, backlog, files, failures>>

ReopenTimeout ==
  /\ ~listener.due
  /\ listener' = [listener EXCEPT !.due = TRUE]
  /\ UNCHANGED <<pc, pollEvents, signals, terminated, children, child, client, backlog, files, failures>>

AskToTerminate ==
  /\ ~terminated /\ "Terminate" \notin signals
  /\ signals' = signals \cup {"Terminate"}
  /\ UNCHANGED <<pc, listener, pollEvents, terminated, children, child, client, backlog, files, failures>>

Thread == BeforeWait \/ PollListener \/ ReadSignal \/ Process \/ AcceptEnds \/ Accept \/ AfterWait \/ EndLoop \/ AskChild \/ JoinDone
ListenNext == Thread \/ ReopenTimeout \/ AskToTerminate \/ \E c \in Clients : ChildEnds(c) \/ Connect(c) \/ Leave(c)

ListenSpec == ListenInit /\ [][ListenNext]_listenVars

(***************************************************************************)
(* Properties.                                                             *)
(***************************************************************************)

(* Every open descriptor has one owner that knows its number, and every    *)
(* owner's number is open: no accepted connection, pipe or socket is lost, *)
(* and none is used after it was closed or given to another.  When the     *)
(* thread has ended nothing of it is left open, no connection waits in the *)
(* backlog, and every child was deleted after it had finished.             *)
EveryDescriptorOwned ==
  /\ listener.initialized = (listener.fd # INVALID_DESCRIPTOR)
  /\ \A d \in Table :
       /\ (files[d] = <<"listener">>) = (d = listener.fd)
       /\ \A c \in Clients :
            /\ (files[d] = <<"connection", c>>) = (d = child[c].fd)
            /\ (files[d] = <<"pipe", c>>) = (child[c].life \in {"running", "finished"} /\ d \in {child[c].pipe[1], child[c].pipe[2]})
  /\ pc = "ended" => /\ \A d \in Table : files[d] \in {<<"free">>, <<"stdin">>}
                     /\ backlog = <<>> /\ \A c \in Clients : child[c].life \in {"none", "deleted"}

(***************************************************************************)
(* The inductive invariant behind EveryDescriptorOwned, which holds where  *)
(* the table of descriptors never runs short.                              *)
(***************************************************************************)
Lives == {"none", "running", "finished", "deleted"}
InList == {"running", "finished"}
Child == [life : Lives, fd : Table \cup {INVALID_DESCRIPTOR}, pipe : Table \X Table, asked : BOOLEAN]
Files == {<<"free">>, <<"stdin">>, <<"listener">>} \cup ({"connection", "pipe"} \X Clients)

ListenTypeOK ==
  /\ listener \in [initialized : BOOLEAN, fd : Table \cup {INVALID_DESCRIPTOR}, due : BOOLEAN]
  /\ children \in Seq(Clients) /\ backlog \in Seq(Clients)
  /\ child \in [Clients -> Child]
  /\ client \in [Clients -> {"out", "backlog", "connected", "left", "closed"}]
  /\ files \in [Table -> Files]

ListenerOK ==
  /\ listener.initialized <=> listener.fd # INVALID_DESCRIPTOR
  /\ backlog # <<>> => listener.fd # INVALID_DESCRIPTOR
  /\ pc \in {"joining", "ended"} => listener.fd = INVALID_DESCRIPTOR
  /\ pc = "ended" => children = <<>>

(* The backlog holds clients that wait, each once, and their threads are   *)
(* still to be started.                                                    *)
BacklogOK ==
  /\ \A i \in DOMAIN backlog : client[backlog[i]] = "backlog"
  /\ \A i, j \in DOMAIN backlog : backlog[i] = backlog[j] => i = j
  /\ \A c \in Clients : client[c] \in {"out", "backlog"} => child[c].life = "none"

(* The list holds the children that were started and not deleted; each has *)
(* a pipe, and its connection while it runs.                               *)
ChildrenOK ==
  \A c \in Clients :
    /\ child[c].life \in InList <=> \E i \in DOMAIN children : children[i] = c
    /\ child[c].life = "running" <=> child[c].fd # INVALID_DESCRIPTOR
    /\ child[c].life \in InList => child[c].pipe[1] # child[c].pipe[2]

OwnersOK ==
  \A d \in Table :
    /\ files[d] = <<"stdin">> <=> d = 0
    /\ files[d] = <<"listener">> <=> d = listener.fd
    /\ \A c \in Clients :
         /\ files[d] = <<"connection", c>> <=> d = child[c].fd
         /\ files[d] = <<"pipe", c>> <=> child[c].life \in InList /\ d \in {child[c].pipe[1], child[c].pipe[2]}

ListenInv == ListenTypeOK /\ ListenerOK /\ BacklogOK /\ ChildrenOK /\ OwnersOK

(* Standard input, the socket, and for every client a connection and the   *)
(* two ends of its thread's pipe.                                          *)
EnoughDescriptors ==
  IsFiniteSet(Clients) /\ Cardinality(Table) >= 2 + 3 * Cardinality(Clients)

(* A client whose connection waits in the backlog is accepted, refused or  *)
(* reset in the end, whatever accept() reports meanwhile.                  *)
Served == \A c \in Clients : (client[c] = "backlog") ~> (client[c] # "backlog")

(* A thread that is asked to terminate ends, and its children with it.     *)
Stops == ("Terminate" \in signals) ~> (pc = "ended")
================================================================================
