------------------------------ MODULE NetworkProofs ------------------------------
(***************************************************************************)
(* Theorems about what comes over the network.  ListenSocket: while the    *)
(* table of descriptors does not run short, every open descriptor has the  *)
(* owner that knows its number.  PacketStream: the packets that a factory  *)
(* makes of a stream are those that were written to it.                    *)
(***************************************************************************)
EXTENDS ListenSocket, PacketStream, SublistsProofs, FiniteSetTheorems, TLAPS

(* The start.                                                              *)
LEMMA ListenInvInit == ListenInit => ListenInv
BY ListenAssumption
   DEF ListenInit, ListenInv, ListenTypeOK, ListenerOK, BacklogOK, ChildrenOK, OwnersOK, Child, Files, Lives, InList, INVALID_DESCRIPTOR, NoPipe

(***************************************************************************)
(* The numbers the system gives.                                           *)
(***************************************************************************)
(* The least of a finite set of numbers is in it.                          *)
LEMMA LeastIn ==
  ASSUME NEW S \in SUBSET Nat, IsFiniteSet(S), S # {}
  PROVE  Min(S) \in S
<1>1. Cardinality(S) \in Nat /\ Cardinality(S) # 0
  BY FS_CardinalityType, FS_EmptySet
<1>2. 1 \in 1 .. Cardinality(S)
  BY <1>1
<1> DEFINE least == Place(S, 1)
<1>3. least \in S
  BY <1>2, PlaceFacts
<1>4. ASSUME NEW y \in S
      PROVE  least <= y
  <2>1. PICK n \in 1 .. Cardinality(S) : y = Place(S, n)
    BY PlaceFacts
  <2>2. 1 < n \/ n = 1
    BY <1>1
  <2>3. 1 < n => least < y
    BY <1>2, <2>1, PlaceFacts
  <2>4. least \in Nat /\ y \in Nat
    BY <1>3
  <2> HIDE DEF least
  <2>5. QED
    BY <2>1, <2>2, <2>3, <2>4 DEF least
<1> HIDE DEF least
<1>5. QED
  BY <1>3, <1>4 DEF Min

(* At most as many as both together.                                       *)
LEMMA UnionSize ==
  ASSUME NEW S, IsFiniteSet(S), NEW T, IsFiniteSet(T)
  PROVE  /\ IsFiniteSet(S \cup T) /\ Cardinality(S \cup T) \in Nat
         /\ Cardinality(S \cup T) <= Cardinality(S) + Cardinality(T)
<1>1. /\ IsFiniteSet(S \cup T)
      /\ Cardinality(S \cup T) = Cardinality(S) + Cardinality(T) - Cardinality(S \cap T)
  BY FS_Union
<1>2. IsFiniteSet(S \cap T)
  BY FS_Subset, S \cap T \in SUBSET S
<1>3. Cardinality(S) \in Nat /\ Cardinality(T) \in Nat /\ Cardinality(S \cap T) \in Nat
  BY <1>2, FS_CardinalityType
<1>4. Cardinality(S \cup T) \in Nat
  BY <1>1, FS_CardinalityType
<1>5. QED
  BY <1>1, <1>3, <1>4

(* A client that has no thread leaves three numbers of the table free.     *)
LEMMA EnoughFree ==
  ASSUME ListenInv, EnoughDescriptors, NEW c \in Clients, child[c].life = "none"
  PROVE  IsFiniteSet(Free) /\ Cardinality(Free) \in Nat /\ Cardinality(Free) >= 3
<1> DEFINE others == Clients \ {c}
           fds == {child[e].fd : e \in others}
           firsts == {child[e].pipe[1] : e \in others}
           seconds == {child[e].pipe[2] : e \in others}
           pipes == firsts \cup seconds
           owned == fds \cup pipes
           own == {0, listener.fd}
           used == own \cup owned
<1>1. ListenTypeOK /\ OwnersOK /\ ChildrenOK
  BY DEF ListenInv
<1>2. IsFiniteSet(Clients) /\ Cardinality(Clients) \in Nat
  BY FS_CardinalityType DEF EnoughDescriptors
<1>3. IsFiniteSet(Table) /\ Cardinality(Table) \in Nat
  BY ListenAssumption, FS_CardinalityType
<1>4. Cardinality(Table) >= 2 + 3 * Cardinality(Clients)
  BY DEF EnoughDescriptors
<1>5. /\ IsFiniteSet(others) /\ Cardinality(others) \in Nat
      /\ Cardinality(others) = Cardinality(Clients) - 1
  BY <1>2, FS_RemoveElement, FS_CardinalityType
<1>6. \A e \in others : child[e] \in Child
  BY <1>1 DEF ListenTypeOK
<1>7. IsFiniteSet(fds) /\ Cardinality(fds) \in Nat /\ Cardinality(fds) <= Cardinality(others)
  <2> DEFINE f == [e \in others |-> child[e].fd]
  <2>1. f \in Surjection(others, fds)
    BY DEF Surjection
  <2> HIDE DEF f, others, fds
  <2>2. IsFiniteSet(fds) /\ Cardinality(fds) <= Cardinality(others)
    BY <1>5, <2>1, FS_Surjection
  <2>3. QED
    BY <2>2, FS_CardinalityType
<1>8. IsFiniteSet(firsts) /\ Cardinality(firsts) \in Nat /\ Cardinality(firsts) <= Cardinality(others)
  <2> DEFINE f == [e \in others |-> child[e].pipe[1]]
  <2>1. f \in Surjection(others, firsts)
    BY DEF Surjection
  <2> HIDE DEF f, others, firsts
  <2>2. IsFiniteSet(firsts) /\ Cardinality(firsts) <= Cardinality(others)
    BY <1>5, <2>1, FS_Surjection
  <2>3. QED
    BY <2>2, FS_CardinalityType
<1>9. IsFiniteSet(seconds) /\ Cardinality(seconds) \in Nat /\ Cardinality(seconds) <= Cardinality(others)
  <2> DEFINE f == [e \in others |-> child[e].pipe[2]]
  <2>1. f \in Surjection(others, seconds)
    BY DEF Surjection
  <2> HIDE DEF f, others, seconds
  <2>2. IsFiniteSet(seconds) /\ Cardinality(seconds) <= Cardinality(others)
    BY <1>5, <2>1, FS_Surjection
  <2>3. QED
    BY <2>2, FS_CardinalityType
<1>10. IsFiniteSet(own) /\ Cardinality(own) \in Nat /\ Cardinality(own) <= 2
  <2>1. own = {0} \cup {listener.fd}
    OBVIOUS
  <2>2. IsFiniteSet({0}) /\ Cardinality({0}) = 1 /\ IsFiniteSet({listener.fd}) /\ Cardinality({listener.fd}) = 1
    BY FS_Singleton
  <2> HIDE DEF own
  <2>3. QED
    BY <2>1, <2>2, UnionSize
<1>11. Table \ Free \in SUBSET used
  <2>1. SUFFICES ASSUME NEW d \in Table, files[d] # <<"free">>
                 PROVE  d \in used
    BY DEF Free
  <2>2. files[d] \in Files
    BY <1>1 DEF ListenTypeOK
  <2>3. CASE files[d] = <<"stdin">>
    BY <1>1, <2>3 DEF OwnersOK
  <2>4. CASE files[d] = <<"listener">>
    BY <1>1, <2>4 DEF OwnersOK
  <2>5. ASSUME NEW e \in Clients, files[d] = <<"connection", e>>
        PROVE  d \in used
    <3>1. d = child[e].fd
      BY <1>1, <2>5 DEF OwnersOK
    <3>2. d # INVALID_DESCRIPTOR
      BY ListenAssumption DEF INVALID_DESCRIPTOR
    <3>3. child[e].life = "running"
      BY <1>1, <3>1, <3>2 DEF ChildrenOK
    <3>4. e # c
      BY <3>3
    <3>5. QED
      BY <3>1, <3>4
  <2>6. ASSUME NEW e \in Clients, files[d] = <<"pipe", e>>
        PROVE  d \in used
    <3>1. child[e].life \in InList /\ d \in {child[e].pipe[1], child[e].pipe[2]}
      BY <1>1, <2>6 DEF OwnersOK
    <3>2. e # c
      BY <3>1 DEF InList
    <3>3. QED
      BY <3>1, <3>2
  <2>7. files[d] \in {"connection", "pipe"} \X Clients
        => \E e \in Clients : files[d] = <<"connection", e>> \/ files[d] = <<"pipe", e>>
    OBVIOUS
  <2>8. QED
    BY <2>1, <2>2, <2>3, <2>4, <2>5, <2>6, <2>7 DEF Files
<1> HIDE DEF fds, firsts, seconds, own, others
<1>12. IsFiniteSet(pipes) /\ Cardinality(pipes) \in Nat /\ Cardinality(pipes) <= 2 * Cardinality(others)
  BY <1>5, <1>8, <1>9, UnionSize
<1> HIDE DEF pipes
<1>13. IsFiniteSet(owned) /\ Cardinality(owned) \in Nat /\ Cardinality(owned) <= 3 * Cardinality(others)
  <2>1. IsFiniteSet(owned) /\ Cardinality(owned) \in Nat /\ Cardinality(owned) <= Cardinality(fds) + Cardinality(pipes)
    BY <1>7, <1>12, UnionSize
  <2> HIDE DEF owned
  <2>2. QED
    BY <1>5, <1>7, <1>12, <2>1
<1> HIDE DEF owned
<1>14. IsFiniteSet(used) /\ Cardinality(used) \in Nat /\ Cardinality(used) <= 2 + 3 * Cardinality(others)
  BY <1>5, <1>10, <1>13, UnionSize
<1> HIDE DEF used
<1>15. /\ IsFiniteSet(Table \ Free) /\ Cardinality(Table \ Free) \in Nat
       /\ Cardinality(Table \ Free) <= 2 + 3 * Cardinality(others)
  <2>1. IsFiniteSet(Table \ Free) /\ Cardinality(Table \ Free) <= Cardinality(used)
    BY <1>11, <1>14, FS_Subset
  <2>2. Cardinality(Table \ Free) \in Nat
    BY <2>1, FS_CardinalityType
  <2>3. QED
    BY <1>5, <1>14, <2>1, <2>2
<1>16. IsFiniteSet(Free) /\ Cardinality(Free) \in Nat
  BY <1>3, FS_Subset, FS_CardinalityType, Free \in SUBSET Table DEF Free
<1>17. Cardinality(Table) <= Cardinality(Table \ Free) + Cardinality(Free)
  <2>1. Table = (Table \ Free) \cup Free
    BY DEF Free
  <2>2. QED
    BY <1>15, <1>16, <2>1, UnionSize
<1>18. QED
  BY <1>2, <1>3, <1>4, <1>5, <1>15, <1>16, <1>17

(* Where two numbers are free, a thread's pipe has two of its own.         *)
LEMMA PipeNumbers ==
  ASSUME NEW fs, NEW c, Cardinality({d \in Table : fs[d] = <<"free">>}) \in Nat,
         Cardinality({d \in Table : fs[d] = <<"free">>}) >= 2
  PROVE  \E p, q \in Table :
           /\ p # q /\ fs[p] = <<"free">> /\ fs[q] = <<"free">>
           /\ OpenPipe(fs, c).pipe = <<p, q>>
           /\ OpenPipe(fs, c).files = [fs EXCEPT ![p] = <<"pipe", c>>, ![q] = <<"pipe", c>>]
<1> DEFINE free == {d \in Table : fs[d] = <<"free">>}
           first == Min(free)
           second == Min(free \ {first})
<1>1. free \in SUBSET Nat /\ free \in SUBSET Table /\ \A d \in free : fs[d] = <<"free">>
  BY ListenAssumption
<1>2. Cardinality(free) \in Nat /\ Cardinality(free) >= 2
  OBVIOUS
<1>3. OpenPipe(fs, c) = [pipe |-> <<first, second>>,
                         files |-> [fs EXCEPT ![first] = <<"pipe", c>>, ![second] = <<"pipe", c>>]]
  BY <1>2 DEF OpenPipe
<1>4. IsFiniteSet(free)
  BY <1>1, ListenAssumption, FS_Subset
<1> HIDE DEF free
<1>5. free # {}
  BY <1>2, FS_EmptySet
<1>6. first \in free
  BY <1>1, <1>4, <1>5, LeastIn
<1> HIDE DEF first
<1>7. free \ {first} # {}
  <2>1. IsFiniteSet(free \ {first}) /\ Cardinality(free \ {first}) = Cardinality(free) - 1
    BY <1>4, <1>6, FS_RemoveElement
  <2>2. Cardinality(free \ {first}) # 0
    BY <1>2, <2>1
  <2>3. QED
    BY <2>2, FS_EmptySet
<1>8. second \in free \ {first}
  <2>1. IsFiniteSet(free \ {first}) /\ free \ {first} \in SUBSET Nat
    BY <1>1, <1>4, FS_Subset
  <2>2. QED
    BY <1>7, <2>1, LeastIn
<1> HIDE DEF second
<1>9. /\ first \in Table /\ second \in Table /\ first # second
      /\ fs[first] = <<"free">> /\ fs[second] = <<"free">>
  BY <1>1, <1>6, <1>8
<1>10. /\ OpenPipe(fs, c).pipe = <<first, second>>
       /\ OpenPipe(fs, c).files = [fs EXCEPT ![first] = <<"pipe", c>>, ![second] = <<"pipe", c>>]
  BY <1>3
<1>11. QED
  BY <1>9, <1>10

(***************************************************************************)
(* The listening socket.                                                   *)
(***************************************************************************)
LEMMA BeforeWaitStep == ListenInv /\ BeforeWait => ListenInv'
<1>1. SUFFICES ASSUME ListenInv, BeforeWait
               PROVE  ListenInv'
  OBVIOUS
<1>2. ListenTypeOK /\ ListenerOK /\ BacklogOK /\ ChildrenOK /\ OwnersOK
  BY <1>1 DEF ListenInv
<1>3. /\ pc = "loop" /\ pc' = "poll"
      /\ UNCHANGED <<children, child, client, backlog>>
  BY <1>1 DEF BeforeWait
<1>4. BacklogOK' /\ ChildrenOK'
  BY <1>2, <1>3 DEF BacklogOK, ChildrenOK
<1>5. CASE UNCHANGED <<listener, files>> \/ InitializeFails
  <2>1. UNCHANGED files /\ listener'.initialized = listener.initialized /\ listener'.fd = listener.fd
    BY <1>2, <1>5 DEF InitializeFails, ListenTypeOK
  <2>2. listener' \in [initialized : BOOLEAN, fd : Table \cup {INVALID_DESCRIPTOR}, due : BOOLEAN]
    BY <1>2, <1>5 DEF InitializeFails, ListenTypeOK
  <2>3. ListenTypeOK' /\ ListenerOK' /\ OwnersOK'
    BY <1>2, <1>3, <2>1, <2>2 DEF ListenTypeOK, ListenerOK, OwnersOK
  <2>4. QED
    BY <1>4, <2>3 DEF ListenInv
<1>6. CASE InitializeDone /\ ~listener.initialized
  <2>1. PICK n : n = Min(Free)
    OBVIOUS
  <2>2. n \in Table /\ files[n] = <<"free">>
    <3>1. IsFiniteSet(Free) /\ Free \in SUBSET Nat
      BY ListenAssumption, FS_Subset, Free \in SUBSET Table DEF Free
    <3>2. n \in Free
      BY <1>6, <2>1, <3>1, LeastIn DEF InitializeDone
    <3>3. QED
      BY <3>2 DEF Free
  <2>3. /\ listener' = [listener EXCEPT !.initialized = TRUE, !.fd = n]
        /\ files' = [files EXCEPT ![n] = <<"listener">>]
    BY <1>6, <2>1 DEF InitializeDone
  <2>4. /\ listener'.initialized /\ listener'.fd = n
        /\ listener' \in [initialized : BOOLEAN, fd : Table \cup {INVALID_DESCRIPTOR}, due : BOOLEAN]
    BY <1>2, <2>2, <2>3 DEF ListenTypeOK
  <2>5. n # INVALID_DESCRIPTOR
    BY <2>2, ListenAssumption DEF INVALID_DESCRIPTOR
  <2>6. ListenerOK'
    BY <1>2, <1>3, <2>4, <2>5 DEF ListenerOK
  <2>7. files' \in [Table -> Files]
    BY <1>2, <2>2, <2>3 DEF ListenTypeOK, Files
  <2>8. ListenTypeOK'
    BY <1>2, <1>3, <2>4, <2>7 DEF ListenTypeOK
  <2>9. listener.fd = INVALID_DESCRIPTOR
    BY <1>2, <1>6 DEF ListenerOK
  <2>10. \A d \in Table : files'[d] = IF d = n THEN <<"listener">> ELSE files[d]
    BY <1>2, <2>3 DEF ListenTypeOK
  <2>11. \A d \in Table : d # INVALID_DESCRIPTOR
    BY ListenAssumption DEF INVALID_DESCRIPTOR
  <2>12. OwnersOK'
    <3>1. SUFFICES ASSUME NEW d \in Table
                   PROVE  /\ files'[d] = <<"stdin">> <=> d = 0
                          /\ files'[d] = <<"listener">> <=> d = n
                          /\ \A c \in Clients :
                               /\ files'[d] = <<"connection", c>> <=> d = child[c].fd
                               /\ files'[d] = <<"pipe", c>> <=> child[c].life \in InList /\ d \in {child[c].pipe[1], child[c].pipe[2]}
      BY <1>3, <2>4 DEF OwnersOK
    <3>2. CASE d # n
      BY <1>2, <2>9, <2>10, <2>11, <3>2 DEF OwnersOK
    <3>3. CASE d = n
      BY <1>2, <2>2, <2>10, <3>3 DEF OwnersOK
    <3>4. QED
      BY <3>2, <3>3
  <2>13. QED
    BY <1>4, <2>6, <2>8, <2>12 DEF ListenInv
<1>7. QED
  BY <1>1, <1>5, <1>6 DEF BeforeWait

(* Closing the socket also empties the backlog.                            *)
LEMMA FinalizeStep ==
  ASSUME ListenInv, Finalize, UNCHANGED <<children, child>>, pc' # "ended"
  PROVE  ListenInv' /\ listener'.fd = INVALID_DESCRIPTOR
<1>1. ListenTypeOK /\ ListenerOK /\ BacklogOK /\ ChildrenOK /\ OwnersOK
  BY DEF ListenInv
<1>2. /\ listener'.initialized = FALSE /\ listener'.fd = INVALID_DESCRIPTOR
      /\ listener' \in [initialized : BOOLEAN, fd : Table \cup {INVALID_DESCRIPTOR}, due : BOOLEAN]
  BY <1>1 DEF Finalize, ListenTypeOK
<1>3. \A d \in Table : files'[d] = IF d = listener.fd THEN <<"free">> ELSE files[d]
  BY DEF Finalize, Closed
<1>4. files' \in [Table -> Files]
  BY <1>1 DEF Finalize, Closed, ListenTypeOK, Files
<1>5. /\ \A c \in Clients : client'[c] = IF client[c] = "backlog" THEN "closed" ELSE client[c]
      /\ client' \in [Clients -> {"out", "backlog", "connected", "left", "closed"}]
  BY <1>1 DEF Finalize, ListenTypeOK
<1>6. backlog' = <<>> /\ backlog' \in Seq(Clients)
  BY DEF Finalize
<1>7. ListenTypeOK'
  BY <1>1, <1>2, <1>4, <1>5, <1>6 DEF ListenTypeOK
<1>8. ListenerOK'
  BY <1>2, <1>6 DEF ListenerOK
<1>9. BacklogOK' /\ ChildrenOK'
  BY <1>1, <1>5, <1>6 DEF BacklogOK, ChildrenOK
<1>10. \A d \in Table : d # INVALID_DESCRIPTOR
  BY ListenAssumption DEF INVALID_DESCRIPTOR
<1>11. OwnersOK'
  BY <1>1, <1>2, <1>3, <1>10 DEF OwnersOK
<1>12. QED
  BY <1>2, <1>7, <1>8, <1>9, <1>11 DEF ListenInv


(***************************************************************************)
(* The children.                                                           *)
(***************************************************************************)
(* What is finished is in the list: it is deleted, its two numbers are     *)
(* closed, and the list keeps the others.                                  *)
LEMMA DestroyStep ==
  ASSUME ListenInv, DestroyFinished, UNCHANGED <<listener, client, backlog>>
  PROVE  /\ ListenTypeOK' /\ BacklogOK' /\ ChildrenOK' /\ OwnersOK'
         /\ Unfinished = {} \/ children = <<>> => children' = <<>>
<1>1. ListenTypeOK /\ ListenerOK /\ BacklogOK /\ ChildrenOK /\ OwnersOK
  BY DEF ListenInv
<1> DEFINE dead == {children[i] : i \in {j \in DOMAIN children : child[children[j]].life = "finished"}}
           kept == {i \in DOMAIN children : children[i] \notin dead}
<1>2. \A i \in DOMAIN children : children[i] \in Clients
  BY <1>1 DEF ListenTypeOK
<1>3. \A c \in Clients : c \in dead <=> child[c].life = "finished"
  <2>1. SUFFICES ASSUME NEW c \in Clients
                 PROVE  c \in dead <=> child[c].life = "finished"
    OBVIOUS
  <2>2. child[c].life = "finished" => \E i \in DOMAIN children : children[i] = c
    BY <1>1 DEF ChildrenOK, InList
  <2>3. QED
    BY <2>2
<1>4. dead \in SUBSET Clients
  BY <1>2
<1>5. /\ children' = Sublist(children, kept)
      /\ child' = [c \in Clients |-> IF c \in dead THEN [child[c] EXCEPT !.life = "deleted"] ELSE child[c]]
      /\ files' = Closed(files, UNION {{child[c].pipe[1], child[c].pipe[2]} : c \in dead})
  BY DEF DestroyFinished
<1>6. kept \in SUBSET DOMAIN children /\ \A i \in DOMAIN children : i \in kept <=> children[i] \notin dead
  OBVIOUS
<1> HIDE DEF dead, kept
<1>7. \A c \in Clients : child'[c] = IF child[c].life = "finished" THEN [child[c] EXCEPT !.life = "deleted"] ELSE child[c]
  BY <1>3, <1>5
<1>8. \A d \in Table :
        files'[d] = IF \E c \in Clients : child[c].life = "finished" /\ d \in {child[c].pipe[1], child[c].pipe[2]}
                    THEN <<"free">> ELSE files[d]
  <2>1. SUFFICES ASSUME NEW d \in Table
                 PROVE  files'[d] = IF \E c \in Clients : child[c].life = "finished" /\ d \in {child[c].pipe[1], child[c].pipe[2]}
                                    THEN <<"free">> ELSE files[d]
    OBVIOUS
  <2>2. files'[d] = IF d \in UNION {{child[c].pipe[1], child[c].pipe[2]} : c \in dead} THEN <<"free">> ELSE files[d]
    BY <1>5 DEF Closed
  <2>3. d \in UNION {{child[c].pipe[1], child[c].pipe[2]} : c \in dead}
        <=> \E c \in dead : d \in {child[c].pipe[1], child[c].pipe[2]}
    OBVIOUS
  <2>4. (\E c \in dead : d \in {child[c].pipe[1], child[c].pipe[2]})
        <=> \E c \in Clients : child[c].life = "finished" /\ d \in {child[c].pipe[1], child[c].pipe[2]}
    BY <1>3, <1>4
  <2>5. QED
    BY <2>2, <2>3, <2>4
<1>9. \A c \in Clients : child[c] \in Child
  BY <1>1 DEF ListenTypeOK
<1>10. \A c \in Clients : /\ child'[c].life = IF child[c].life = "finished" THEN "deleted" ELSE child[c].life
                          /\ child'[c].fd = child[c].fd /\ child'[c].pipe = child[c].pipe
                          /\ child'[c] \in Child
  <2>1. \A x \in Child : /\ [x EXCEPT !.life = "deleted"].life = "deleted"
                         /\ [x EXCEPT !.life = "deleted"].fd = x.fd
                         /\ [x EXCEPT !.life = "deleted"].pipe = x.pipe
                         /\ [x EXCEPT !.life = "deleted"] \in Child
    BY DEF Child, Lives
  <2>2. SUFFICES ASSUME NEW c \in Clients
                 PROVE  /\ child'[c].life = IF child[c].life = "finished" THEN "deleted" ELSE child[c].life
                        /\ child'[c].fd = child[c].fd /\ child'[c].pipe = child[c].pipe
                        /\ child'[c] \in Child
    OBVIOUS
  <2>3. CASE child[c].life = "finished"
    <3>1. child'[c] = [child[c] EXCEPT !.life = "deleted"] /\ child[c] \in Child
      BY <1>7, <1>9, <2>3
    <3>2. QED
      BY <2>1, <2>3, <3>1
  <2>4. CASE child[c].life # "finished"
    BY <1>7, <1>9, <2>4
  <2>5. QED
    BY <2>3, <2>4
<1>11. /\ children' \in Seq(Clients) /\ Len(children') = Cardinality(kept)
       /\ \A i \in kept : children[i] \in Range(children')
       /\ \A f \in Range(children') : \E i \in kept : f = children[i]
  <2>1. \A list \in Seq(Clients) : \A k \in SUBSET DOMAIN list :
          /\ Sublist(list, k) \in Seq(Clients) /\ Len(Sublist(list, k)) = Cardinality(k)
          /\ \A i \in k : list[i] \in Range(Sublist(list, k))
          /\ \A f \in Range(Sublist(list, k)) : \E i \in k : f = list[i]
    BY SublistFacts
  <2>2. children \in Seq(Clients)
    BY <1>1 DEF ListenTypeOK
  <2>3. QED
    BY <1>5, <1>6, <2>1, <2>2
<1>12. ListenTypeOK'
  <2>1. child' \in [Clients -> Child]
    BY <1>5, <1>10
  <2>2. files' \in [Table -> Files]
    <3>1. \A d \in Table : files'[d] \in Files
      BY <1>1, <1>8 DEF ListenTypeOK, Files
    <3>2. QED
      BY <1>5, <3>1 DEF Closed
  <2>3. QED
    BY <1>1, <1>11, <2>1, <2>2 DEF ListenTypeOK
<1>13. BacklogOK'
  BY <1>1, <1>10 DEF BacklogOK
<1>14. ChildrenOK'
  <2>1. SUFFICES ASSUME NEW c \in Clients
                 PROVE  /\ child'[c].life \in InList <=> \E i \in DOMAIN children' : children'[i] = c
                        /\ child'[c].life = "running" <=> child'[c].fd # INVALID_DESCRIPTOR
                        /\ child'[c].life \in InList => child'[c].pipe[1] # child'[c].pipe[2]
    BY DEF ChildrenOK
  <2>2. /\ child[c].life \in InList <=> \E i \in DOMAIN children : children[i] = c
        /\ child[c].life = "running" <=> child[c].fd # INVALID_DESCRIPTOR
        /\ child[c].life \in InList => child[c].pipe[1] # child[c].pipe[2]
    BY <1>1 DEF ChildrenOK
  <2>3. (\E i \in DOMAIN children' : children'[i] = c) <=> c \in Range(children')
    BY DEF Range
  <2>4. c \in Range(children') <=> \E i \in DOMAIN children : children[i] = c /\ child[c].life # "finished"
    <3>1. \A i \in kept : i \in DOMAIN children /\ (children[i] = c => child[c].life # "finished")
      BY <1>3, <1>6
    <3>2. \A i \in DOMAIN children : children[i] = c /\ child[c].life # "finished" => i \in kept
      BY <1>3, <1>6
    <3>3. QED
      BY <1>11, <3>1, <3>2
  <2>5. child'[c].life \in InList <=> child[c].life \in InList /\ child[c].life # "finished"
    BY <1>10 DEF InList
  <2>6. QED
    BY <1>10, <2>2, <2>3, <2>4, <2>5
<1>15. OwnersOK'
  <2>1. SUFFICES ASSUME NEW d \in Table
                 PROVE  /\ files'[d] = <<"stdin">> <=> d = 0
                        /\ files'[d] = <<"listener">> <=> d = listener.fd
                        /\ \A c \in Clients :
                             /\ files'[d] = <<"connection", c>> <=> d = child'[c].fd
                             /\ files'[d] = <<"pipe", c>> <=> child'[c].life \in InList /\ d \in {child'[c].pipe[1], child'[c].pipe[2]}
    BY DEF OwnersOK
  <2>2. /\ files[d] = <<"stdin">> <=> d = 0
        /\ files[d] = <<"listener">> <=> d = listener.fd
        /\ \A c \in Clients :
             /\ files[d] = <<"connection", c>> <=> d = child[c].fd
             /\ files[d] = <<"pipe", c>> <=> child[c].life \in InList /\ d \in {child[c].pipe[1], child[c].pipe[2]}
    BY <1>1 DEF OwnersOK
  <2>3. CASE \E e \in Clients : child[e].life = "finished" /\ d \in {child[e].pipe[1], child[e].pipe[2]}
    <3>1. PICK e \in Clients : child[e].life = "finished" /\ d \in {child[e].pipe[1], child[e].pipe[2]}
      BY <2>3
    <3>2. files[d] = <<"pipe", e>> /\ files'[d] = <<"free">>
      BY <1>8, <2>2, <2>3, <3>1 DEF InList
    <3>3. d # 0 /\ d # listener.fd /\ \A c \in Clients : d # child[c].fd
      BY <2>2, <3>2
    <3>4. \A c \in Clients : ~(child'[c].life \in InList /\ d \in {child'[c].pipe[1], child'[c].pipe[2]})
      <4>1. SUFFICES ASSUME NEW c \in Clients, child'[c].life \in InList, d \in {child'[c].pipe[1], child'[c].pipe[2]}
                     PROVE  FALSE
        OBVIOUS
      <4>2. child[c].life \in InList /\ child[c].life # "finished" /\ child'[c].pipe = child[c].pipe
        BY <1>10, <4>1 DEF InList
      <4>3. files[d] = <<"pipe", c>>
        BY <2>2, <4>1, <4>2
      <4>4. c = e
        BY <3>2, <4>3
      <4>5. QED
        BY <3>1, <4>2, <4>4
    <3>5. QED
      BY <1>10, <3>2, <3>3, <3>4
  <2>4. CASE ~\E e \in Clients : child[e].life = "finished" /\ d \in {child[e].pipe[1], child[e].pipe[2]}
    <3>1. files'[d] = files[d]
      BY <1>8, <2>4
    <3>2. \A c \in Clients : /\ child'[c].fd = child[c].fd
                             /\ (child'[c].life \in InList /\ d \in {child'[c].pipe[1], child'[c].pipe[2]})
                                <=> (child[c].life \in InList /\ d \in {child[c].pipe[1], child[c].pipe[2]})
      BY <1>10, <2>4 DEF InList
    <3>3. QED
      BY <2>2, <3>1, <3>2
  <2>5. QED
    BY <2>3, <2>4
<1>16. ASSUME Unfinished = {} \/ children = <<>>
       PROVE  children' = <<>>
  <2>1. \A i \in DOMAIN children : child[children[i]].life = "finished"
    BY <1>16 DEF Unfinished
  <2>2. kept = {}
    BY <1>2, <1>3, <1>6, <2>1
  <2>3. Len(children') = 0
    BY <1>11, <2>2, FS_EmptySet
  <2>4. QED
    BY <1>11, <2>3
<1>17. QED
  BY <1>12, <1>13, <1>14, <1>15, <1>16


(* A destruction while the thread goes on.                                 *)
LEMMA ReadSignalStep == ListenInv /\ ReadSignal => ListenInv'
<1>1. SUFFICES ASSUME ListenInv, ReadSignal
               PROVE  ListenInv'
  OBVIOUS
<1>2. ListenTypeOK /\ ListenerOK /\ BacklogOK /\ ChildrenOK /\ OwnersOK
  BY <1>1 DEF ListenInv
<1>3. pc' = "process" /\ UNCHANGED <<listener, client, backlog>>
  BY <1>1 DEF ReadSignal
<1>4. CASE DestroyFinished
  <2>1. ListenTypeOK' /\ BacklogOK' /\ ChildrenOK' /\ OwnersOK'
    BY <1>1, <1>3, <1>4, DestroyStep
  <2>2. ListenerOK'
    BY <1>2, <1>3 DEF ListenerOK
  <2>3. QED
    BY <2>1, <2>2 DEF ListenInv
<1>5. CASE UNCHANGED <<children, child, files>>
  BY <1>2, <1>3, <1>5 DEF ListenInv, ListenTypeOK, ListenerOK, BacklogOK, ChildrenOK, OwnersOK
<1>6. QED
  BY <1>1, <1>4, <1>5 DEF ReadSignal

(* What the listener's wait for an event leads to.                         *)
LEMMA AfterWaitStep == ListenInv /\ AfterWait => ListenInv'
<1>1. SUFFICES ASSUME ListenInv, AfterWait
               PROVE  ListenInv'
  OBVIOUS
<1>2. ListenTypeOK /\ ListenerOK /\ BacklogOK /\ ChildrenOK /\ OwnersOK
  BY <1>1 DEF ListenInv
<1>3. pc' = "loop" /\ UNCHANGED <<listener, client, backlog>>
  BY <1>1 DEF AfterWait
<1>4. CASE DestroyFinished
  <2>1. ListenTypeOK' /\ BacklogOK' /\ ChildrenOK' /\ OwnersOK'
    BY <1>1, <1>3, <1>4, DestroyStep
  <2>2. ListenerOK'
    BY <1>2, <1>3 DEF ListenerOK
  <2>3. QED
    BY <2>1, <2>2 DEF ListenInv
<1>5. CASE UNCHANGED <<children, child, files>>
  BY <1>2, <1>3, <1>5 DEF ListenInv, ListenTypeOK, ListenerOK, BacklogOK, ChildrenOK, OwnersOK
<1>6. QED
  BY <1>1, <1>4, <1>5 DEF AfterWait

(* The last one leaves an empty list.                                      *)
LEMMA JoinDoneStep == ListenInv /\ JoinDone => ListenInv'
<1>1. SUFFICES ASSUME ListenInv, JoinDone
               PROVE  ListenInv'
  OBVIOUS
<1>2. ListenerOK
  BY <1>1 DEF ListenInv
<1>3. /\ pc = "joining" /\ Unfinished = {} /\ pc' = "ended"
      /\ UNCHANGED <<listener, client, backlog>> /\ DestroyFinished
  BY <1>1 DEF JoinDone
<1>4. ListenTypeOK' /\ BacklogOK' /\ ChildrenOK' /\ OwnersOK' /\ children' = <<>>
  BY <1>1, <1>3, DestroyStep
<1>5. ListenerOK'
  BY <1>2, <1>3, <1>4 DEF ListenerOK
<1>6. QED
  BY <1>4, <1>5 DEF ListenInv

(* A child that ends closes its connection and keeps its pipe.             *)
LEMMA ChildEndsStep == ASSUME NEW c \in Clients PROVE ListenInv /\ ChildEnds(c) => ListenInv'
<1>1. SUFFICES ASSUME ListenInv, ChildEnds(c)
               PROVE  ListenInv'
  OBVIOUS
<1>2. ListenTypeOK /\ ListenerOK /\ BacklogOK /\ ChildrenOK /\ OwnersOK
  BY <1>1 DEF ListenInv
<1>3. /\ child[c].life = "running"
      /\ child' = [child EXCEPT ![c].life = "finished", ![c].fd = INVALID_DESCRIPTOR]
      /\ files' = Closed(files, {child[c].fd})
      /\ client' = [client EXCEPT ![c] = "closed"]
      /\ UNCHANGED <<pc, listener, children, backlog>>
  BY <1>1 DEF ChildEnds
<1>4. /\ child'[c].life = "finished" /\ child'[c].fd = INVALID_DESCRIPTOR /\ child'[c].pipe = child[c].pipe
      /\ child'[c] \in Child
      /\ \A e \in Clients : e # c => child'[e] = child[e]
  <2>1. child[c] \in Child
    BY <1>2 DEF ListenTypeOK
  <2>2. \A x \in Child : /\ [[x EXCEPT !.life = "finished"] EXCEPT !.fd = INVALID_DESCRIPTOR].life = "finished"
                         /\ [[x EXCEPT !.life = "finished"] EXCEPT !.fd = INVALID_DESCRIPTOR].fd = INVALID_DESCRIPTOR
                         /\ [[x EXCEPT !.life = "finished"] EXCEPT !.fd = INVALID_DESCRIPTOR].pipe = x.pipe
                         /\ [[x EXCEPT !.life = "finished"] EXCEPT !.fd = INVALID_DESCRIPTOR] \in Child
    BY DEF Child, Lives
  <2>3. child'[c] = [[child[c] EXCEPT !.life = "finished"] EXCEPT !.fd = INVALID_DESCRIPTOR]
    BY <1>2, <1>3 DEF ListenTypeOK
  <2>4. \A e \in Clients : e # c => child'[e] = child[e]
    BY <1>2, <1>3 DEF ListenTypeOK
  <2>5. QED
    BY <2>1, <2>2, <2>3, <2>4
<1>5. \A d \in Table : files'[d] = IF d = child[c].fd THEN <<"free">> ELSE files[d]
  BY <1>3 DEF Closed
<1>6. ListenTypeOK'
  <2>1. child' \in [Clients -> Child]
    <3>1. child' \in [Clients -> {child'[e] : e \in Clients}]
      BY <1>2, <1>3 DEF ListenTypeOK
    <3>2. \A e \in Clients : child'[e] \in Child
      BY <1>2, <1>4 DEF ListenTypeOK
    <3>3. QED
      BY <3>1, <3>2
  <2>2. files' \in [Table -> Files]
    BY <1>2, <1>3 DEF Closed, ListenTypeOK, Files
  <2>3. client' \in [Clients -> {"out", "backlog", "connected", "left", "closed"}]
    BY <1>2, <1>3 DEF ListenTypeOK
  <2>4. QED
    BY <1>2, <1>3, <2>1, <2>2, <2>3 DEF ListenTypeOK
<1>7. ListenerOK'
  BY <1>2, <1>3 DEF ListenerOK
<1>8. client[c] \notin {"out", "backlog"} /\ \A e \in Clients : client'[e] = IF e = c THEN "closed" ELSE client[e]
  BY <1>2, <1>3 DEF BacklogOK, ListenTypeOK
<1>9. BacklogOK'
  <2>1. \A i \in DOMAIN backlog : backlog[i] \in Clients /\ client[backlog[i]] = "backlog"
    BY <1>2 DEF ListenTypeOK, BacklogOK
  <2>2. \A i \in DOMAIN backlog : client'[backlog[i]] = "backlog"
    BY <1>8, <2>1
  <2>3. \A e \in Clients : client'[e] \in {"out", "backlog"} => child'[e].life = "none"
    BY <1>2, <1>4, <1>8 DEF BacklogOK
  <2>4. \A i, j \in DOMAIN backlog : backlog[i] = backlog[j] => i = j
    BY <1>2 DEF BacklogOK
  <2>5. QED
    BY <1>3, <2>2, <2>3, <2>4 DEF BacklogOK
<1>10. ChildrenOK'
  <2>1. SUFFICES ASSUME NEW e \in Clients
                 PROVE  /\ child'[e].life \in InList <=> \E i \in DOMAIN children : children[i] = e
                        /\ child'[e].life = "running" <=> child'[e].fd # INVALID_DESCRIPTOR
                        /\ child'[e].life \in InList => child'[e].pipe[1] # child'[e].pipe[2]
    BY <1>3 DEF ChildrenOK
  <2>2. /\ child[e].life \in InList <=> \E i \in DOMAIN children : children[i] = e
        /\ child[e].life = "running" <=> child[e].fd # INVALID_DESCRIPTOR
        /\ child[e].life \in InList => child[e].pipe[1] # child[e].pipe[2]
    BY <1>2 DEF ChildrenOK
  <2>3. child[c].life \in InList /\ "finished" \in InList
    BY <1>3 DEF InList
  <2>4. CASE e = c
    BY <1>4, <2>2, <2>3, <2>4
  <2>5. CASE e # c
    BY <1>4, <2>2, <2>5
  <2>6. QED
    BY <2>4, <2>5
<1>11. OwnersOK'
  <2>1. SUFFICES ASSUME NEW d \in Table
                 PROVE  /\ files'[d] = <<"stdin">> <=> d = 0
                        /\ files'[d] = <<"listener">> <=> d = listener.fd
                        /\ \A e \in Clients :
                             /\ files'[d] = <<"connection", e>> <=> d = child'[e].fd
                             /\ files'[d] = <<"pipe", e>> <=> child'[e].life \in InList /\ d \in {child'[e].pipe[1], child'[e].pipe[2]}
    BY <1>3 DEF OwnersOK
  <2>2. d # INVALID_DESCRIPTOR
    BY ListenAssumption DEF INVALID_DESCRIPTOR
  <2>3. \A e \in Clients : child'[e].pipe = child[e].pipe /\ (child'[e].life \in InList <=> child[e].life \in InList)
    BY <1>3, <1>4 DEF InList
  <2>4. CASE d = child[c].fd
    <3>1. files[d] = <<"connection", c>> /\ files'[d] = <<"free">>
      BY <1>2, <1>5, <2>4 DEF OwnersOK
    <3>2. d # 0 /\ d # listener.fd /\ \A e \in Clients : /\ e # c => d # child[e].fd
                                                        /\ ~(child[e].life \in InList /\ d \in {child[e].pipe[1], child[e].pipe[2]})
      BY <1>2, <3>1 DEF OwnersOK
    <3>3. \A e \in Clients : d # child'[e].fd
      BY <1>4, <2>2, <3>2
    <3>4. QED
      BY <2>3, <3>1, <3>2, <3>3
  <2>5. CASE d # child[c].fd
    <3>1. files'[d] = files[d]
      BY <1>5, <2>5
    <3>2. \A e \in Clients : d = child'[e].fd <=> d = child[e].fd
      BY <1>4, <2>2, <2>5
    <3>3. QED
      BY <1>2, <2>3, <3>1, <3>2 DEF OwnersOK
  <2>6. QED
    BY <2>4, <2>5
<1>12. QED
  BY <1>6, <1>7, <1>9, <1>10, <1>11 DEF ListenInv


(***************************************************************************)
(* A connection accepted.                                                  *)
(***************************************************************************)
(* The client that is taken from the backlog waits there no more.          *)
LEMMA TakenFromBacklog ==
  ASSUME ListenInv, backlog # <<>>, backlog' = Tail(backlog),
         client'[Head(backlog)] \in {"connected", "closed"},
         \A c \in Clients : c # Head(backlog) => client'[c] = client[c] /\ child'[c] = child[c]
  PROVE  /\ Head(backlog) \in Clients /\ client[Head(backlog)] = "backlog" /\ child[Head(backlog)].life = "none"
         /\ backlog' \in Seq(Clients) /\ BacklogOK'
<1>1. ListenTypeOK /\ BacklogOK
  BY DEF ListenInv
<1>2. backlog \in Seq(Clients) /\ Len(backlog) \in Nat /\ Len(backlog) # 0
  BY <1>1 DEF ListenTypeOK
<1>3. /\ Head(backlog) = backlog[1] /\ 1 \in DOMAIN backlog /\ Head(backlog) \in Clients
      /\ backlog' \in Seq(Clients)
      /\ \A i \in DOMAIN backlog' : backlog'[i] = backlog[i + 1] /\ i + 1 \in DOMAIN backlog /\ i \in Nat /\ i # 0
  <2>1. \A s \in Seq(Clients) :
          Len(s) # 0 => /\ Head(s) = s[1] /\ 1 \in DOMAIN s /\ Head(s) \in Clients /\ Tail(s) \in Seq(Clients)
                        /\ \A i \in DOMAIN Tail(s) : Tail(s)[i] = s[i + 1] /\ i + 1 \in DOMAIN s /\ i \in Nat /\ i # 0
    OBVIOUS
  <2>2. QED
    BY <1>2, <2>1
<1>4. client[Head(backlog)] = "backlog" /\ child[Head(backlog)].life = "none"
  BY <1>1, <1>3 DEF BacklogOK
<1>5. ASSUME NEW i \in DOMAIN backlog'
      PROVE  client'[backlog'[i]] = "backlog"
  <2>1. backlog'[i] = backlog[i + 1] /\ i + 1 \in DOMAIN backlog /\ i + 1 # 1
    BY <1>3
  <2>2. backlog[i + 1] # backlog[1] /\ client[backlog[i + 1]] = "backlog"
    BY <1>1, <1>3, <2>1 DEF BacklogOK
  <2>3. backlog[i + 1] \in Clients
    BY <1>2, <2>1
  <2>4. QED
    BY <1>3, <2>1, <2>2, <2>3
<1>6. ASSUME NEW i \in DOMAIN backlog', NEW j \in DOMAIN backlog', backlog'[i] = backlog'[j]
      PROVE  i = j
  <2>1. i + 1 = j + 1
    BY <1>1, <1>3, <1>6 DEF BacklogOK
  <2>2. i \in Nat /\ j \in Nat
    BY <1>3
  <2>3. QED
    BY <2>1, <2>2
<1>7. \A c \in Clients : client'[c] \in {"out", "backlog"} => child'[c].life = "none"
  BY <1>1 DEF BacklogOK
<1>8. QED
  BY <1>3, <1>4, <1>5, <1>6, <1>7 DEF BacklogOK

(* A connection gets a thread of its own.                                  *)
LEMMA StartChildStep ==
  ASSUME ListenInv, EnoughDescriptors, backlog # <<>>, backlog' = Tail(backlog), Free # {},
         StartChild(Head(backlog), Min(Free)), UNCHANGED <<pc, listener>>, pc # "ended", listener.fd # INVALID_DESCRIPTOR
  PROVE  ListenInv'
<1>1. ListenTypeOK /\ ListenerOK /\ BacklogOK /\ ChildrenOK /\ OwnersOK
  BY DEF ListenInv
<1>2. PICK c : c = Head(backlog)
  OBVIOUS
<1>3. PICK n : n = Min(Free)
  OBVIOUS
<1> DEFINE fs == [files EXCEPT ![n] = <<"connection", c>>]
           rest == {d \in Table : fs[d] = <<"free">>}
<1>4. /\ files' = OpenPipe(fs, c).files
      /\ child' = [child EXCEPT ![c] = [life |-> "running", fd |-> n, pipe |-> OpenPipe(fs, c).pipe, asked |-> FALSE]]
      /\ children' = Append(children, c)
      /\ client' = [client EXCEPT ![c] = "connected"]
  BY <1>2, <1>3 DEF StartChild
<1>5. c \in Clients
  BY <1>1, <1>2 DEF ListenTypeOK
<1>6. client'[c] = "connected" /\ \A e \in Clients : e # c => client'[e] = client[e] /\ child'[e] = child[e]
  BY <1>1, <1>4, <1>5 DEF ListenTypeOK
<1>7. client[c] = "backlog" /\ child[c].life = "none" /\ backlog' \in Seq(Clients) /\ BacklogOK'
  BY <1>2, <1>6, TakenFromBacklog
<1>8. IsFiniteSet(Free) /\ Cardinality(Free) \in Nat /\ Cardinality(Free) >= 3
  BY <1>5, <1>7, EnoughFree
<1>9. n \in Table /\ files[n] = <<"free">> /\ n \in Free
  <2>1. Free \in SUBSET Nat
    BY ListenAssumption DEF Free
  <2>2. n \in Free
    BY <1>3, <1>8, <2>1, LeastIn
  <2>3. QED
    BY <2>2 DEF Free
<1>10. fs \in [Table -> Files] /\ \A d \in Table : fs[d] = IF d = n THEN <<"connection", c>> ELSE files[d]
  BY <1>1, <1>5 DEF ListenTypeOK, Files
<1>11. Cardinality(rest) \in Nat /\ Cardinality(rest) >= 2
  <2>1. rest = Free \ {n}
    BY <1>9, <1>10 DEF Free
  <2>2. IsFiniteSet(Free \ {n}) /\ Cardinality(Free \ {n}) = Cardinality(Free) - 1
    BY <1>8, <1>9, FS_RemoveElement
  <2> HIDE DEF rest
  <2>3. QED
    BY <1>8, <2>1, <2>2
<1>12. \E p, q \in Table :
         /\ p # q /\ fs[p] = <<"free">> /\ fs[q] = <<"free">>
         /\ OpenPipe(fs, c).pipe = <<p, q>>
         /\ OpenPipe(fs, c).files = [fs EXCEPT ![p] = <<"pipe", c>>, ![q] = <<"pipe", c>>]
  <2> HIDE DEF fs
  <2>1. QED
    BY <1>11, PipeNumbers
<1>13. PICK p, q \in Table :
         /\ p # q /\ fs[p] = <<"free">> /\ fs[q] = <<"free">>
         /\ OpenPipe(fs, c).pipe = <<p, q>>
         /\ OpenPipe(fs, c).files = [fs EXCEPT ![p] = <<"pipe", c>>, ![q] = <<"pipe", c>>]
  BY <1>12
<1>14. p # n /\ q # n /\ files[p] = <<"free">> /\ files[q] = <<"free">>
  BY <1>10, <1>13
<1>15. \A d \in Table : files'[d] = IF d \in {p, q} THEN <<"pipe", c>>
                                          ELSE IF d = n THEN <<"connection", c>> ELSE files[d]
  BY <1>4, <1>10, <1>13
<1>16. /\ child'[c].life = "running" /\ child'[c].fd = n /\ child'[c].pipe[1] = p /\ child'[c].pipe[2] = q
       /\ child'[c] \in Child
  <2>1. child'[c] = [life |-> "running", fd |-> n, pipe |-> <<p, q>>, asked |-> FALSE]
    BY <1>1, <1>4, <1>5, <1>13 DEF ListenTypeOK
  <2>2. QED
    BY <1>9, <1>13, <2>1 DEF Child, Lives
<1>17. n # INVALID_DESCRIPTOR /\ \A d \in Table : d # INVALID_DESCRIPTOR
  BY <1>9, ListenAssumption DEF INVALID_DESCRIPTOR
<1>18. child[c].fd = INVALID_DESCRIPTOR
  BY <1>1, <1>5, <1>7 DEF ChildrenOK
<1> HIDE DEF fs
<1>19. ListenTypeOK'
  <2>1. child' \in [Clients -> Child]
    <3>1. child' \in [Clients -> {child'[e] : e \in Clients}]
      BY <1>1, <1>4 DEF ListenTypeOK
    <3>2. \A e \in Clients : child'[e] \in Child
      BY <1>1, <1>6, <1>16 DEF ListenTypeOK
    <3>3. QED
      BY <3>1, <3>2
  <2>2. files' \in [Table -> Files]
    BY <1>4, <1>5, <1>10, <1>13 DEF Files
  <2>3. client' \in [Clients -> {"out", "backlog", "connected", "left", "closed"}]
    BY <1>1, <1>4 DEF ListenTypeOK
  <2>4. children' \in Seq(Clients)
    BY <1>1, <1>4, <1>5 DEF ListenTypeOK
  <2>5. QED
    BY <1>1, <1>7, <2>1, <2>2, <2>3, <2>4 DEF ListenTypeOK
<1>20. ListenerOK'
  <2>1. pc \notin {"joining", "ended"}
    BY <1>1 DEF ListenerOK
  <2>2. QED
    BY <1>1, <2>1 DEF ListenerOK
<1>21. ChildrenOK'
  <2>1. SUFFICES ASSUME NEW e \in Clients
                 PROVE  /\ child'[e].life \in InList <=> \E i \in DOMAIN children' : children'[i] = e
                        /\ child'[e].life = "running" <=> child'[e].fd # INVALID_DESCRIPTOR
                        /\ child'[e].life \in InList => child'[e].pipe[1] # child'[e].pipe[2]
    BY DEF ChildrenOK
  <2>2. (\E i \in DOMAIN children' : children'[i] = e) <=> e = c \/ \E i \in DOMAIN children : children[i] = e
    <3>1. \A s \in Seq(Clients) : \A x, y \in Clients :
            (\E i \in DOMAIN Append(s, x) : Append(s, x)[i] = y) <=> y = x \/ \E i \in DOMAIN s : s[i] = y
      <4>1. SUFFICES ASSUME NEW s \in Seq(Clients), NEW x \in Clients, NEW y \in Clients
                     PROVE  (\E i \in DOMAIN Append(s, x) : Append(s, x)[i] = y) <=> y = x \/ \E i \in DOMAIN s : s[i] = y
        OBVIOUS
      <4>2. /\ DOMAIN Append(s, x) = 1 .. Len(s) + 1 /\ DOMAIN s = 1 .. Len(s) /\ Len(s) \in Nat
            /\ Append(s, x)[Len(s) + 1] = x /\ \A i \in 1 .. Len(s) : Append(s, x)[i] = s[i]
        OBVIOUS
      <4>3. \A i \in 1 .. Len(s) + 1 : i = Len(s) + 1 \/ i \in 1 .. Len(s)
        BY <4>2
      <4>4. Len(s) + 1 \in 1 .. Len(s) + 1 /\ \A i \in 1 .. Len(s) : i \in 1 .. Len(s) + 1
        BY <4>2
      <4>5. QED
        BY <4>2, <4>3, <4>4
    <3>2. children \in Seq(Clients)
      BY <1>1 DEF ListenTypeOK
    <3>3. (\E i \in DOMAIN Append(children, c) : Append(children, c)[i] = e)
          <=> e = c \/ \E i \in DOMAIN children : children[i] = e
      BY <1>5, <3>1, <3>2
    <3>4. QED
      BY <1>4, <3>3
  <2>3. CASE e = c
    BY <1>13, <1>16, <1>17, <2>2, <2>3 DEF InList
  <2>4. CASE e # c
    BY <1>1, <1>6, <2>2, <2>4 DEF ChildrenOK
  <2>5. QED
    BY <2>3, <2>4
<1>22. OwnersOK'
  <2>1. SUFFICES ASSUME NEW d \in Table
                 PROVE  /\ files'[d] = <<"stdin">> <=> d = 0
                        /\ files'[d] = <<"listener">> <=> d = listener.fd
                        /\ \A e \in Clients :
                             /\ files'[d] = <<"connection", e>> <=> d = child'[e].fd
                             /\ files'[d] = <<"pipe", e>> <=> child'[e].life \in InList /\ d \in {child'[e].pipe[1], child'[e].pipe[2]}
    BY DEF OwnersOK
  <2>2. /\ files[d] = <<"stdin">> <=> d = 0
        /\ files[d] = <<"listener">> <=> d = listener.fd
        /\ \A e \in Clients :
             /\ files[d] = <<"connection", e>> <=> d = child[e].fd
             /\ files[d] = <<"pipe", e>> <=> child[e].life \in InList /\ d \in {child[e].pipe[1], child[e].pipe[2]}
    BY <1>1 DEF OwnersOK
  <2>3. (child'[c].life \in InList /\ d \in {child'[c].pipe[1], child'[c].pipe[2]}) <=> d \in {p, q}
    BY <1>16 DEF InList
  <2>4. child[c].life \notin InList /\ d # child[c].fd
    BY <1>7, <1>17, <1>18 DEF InList
  <2>5. CASE d \in {p, q} \/ d = n
    <3>1. files[d] = <<"free">>
      BY <1>9, <1>14, <2>5
    <3>2. d # 0 /\ d # listener.fd /\ \A e \in Clients : /\ d # child[e].fd
                                                        /\ ~(child[e].life \in InList /\ d \in {child[e].pipe[1], child[e].pipe[2]})
      BY <2>2, <3>1
    <3>3. CASE d \in {p, q}
      <4>1. files'[d] = <<"pipe", c>> /\ d # n
        BY <1>14, <1>15, <3>3
      <4>2. \A e \in Clients : d # child'[e].fd
        BY <1>6, <1>16, <3>2, <4>1
      <4>3. \A e \in Clients : e = c <=> child'[e].life \in InList /\ d \in {child'[e].pipe[1], child'[e].pipe[2]}
        BY <1>6, <2>3, <3>2, <3>3
      <4>4. QED
        BY <3>2, <4>1, <4>2, <4>3
    <3>4. CASE d \notin {p, q}
      <4>1. files'[d] = <<"connection", c>> /\ d = n
        BY <1>15, <2>5, <3>4
      <4>2. \A e \in Clients : e = c <=> d = child'[e].fd
        BY <1>6, <1>16, <3>2, <4>1
      <4>3. \A e \in Clients : ~(child'[e].life \in InList /\ d \in {child'[e].pipe[1], child'[e].pipe[2]})
        BY <1>6, <2>3, <3>2, <3>4
      <4>4. QED
        BY <3>2, <4>1, <4>2, <4>3
    <3>5. QED
      BY <3>3, <3>4
  <2>6. CASE d \notin {p, q} /\ d # n
    <3>1. files'[d] = files[d]
      BY <1>15, <2>6
    <3>2. \A e \in Clients : d = child'[e].fd <=> d = child[e].fd
      BY <1>6, <1>16, <2>4, <2>6
    <3>3. \A e \in Clients : (child'[e].life \in InList /\ d \in {child'[e].pipe[1], child'[e].pipe[2]})
                             <=> (child[e].life \in InList /\ d \in {child[e].pipe[1], child[e].pipe[2]})
      BY <1>6, <2>3, <2>4, <2>6
    <3>4. QED
      BY <2>2, <3>1, <3>2, <3>3
  <2>7. QED
    BY <2>5, <2>6
<1>23. QED
  BY <1>7, <1>19, <1>20, <1>21, <1>22 DEF ListenInv


(* A connection is accepted.                                               *)
LEMMA AcceptStep == EnoughDescriptors /\ ListenInv /\ Accept => ListenInv'
<1>1. SUFFICES ASSUME EnoughDescriptors, ListenInv, Accept
               PROVE  ListenInv'
  OBVIOUS
<1>2. /\ pc = "accepting" /\ listener.fd # INVALID_DESCRIPTOR /\ backlog # <<>> /\ Free # {}
      /\ backlog' = Tail(backlog) /\ UNCHANGED <<pc, listener>>
      /\ StartChild(Head(backlog), Min(Free)) \/ Refuse(Head(backlog), Min(Free))
  BY <1>1 DEF Accept
<1>3. CASE StartChild(Head(backlog), Min(Free))
  BY <1>1, <1>2, <1>3, StartChildStep
<1>4. CASE Refuse(Head(backlog), Min(Free))
  <2>1. ListenTypeOK /\ ListenerOK /\ BacklogOK /\ ChildrenOK /\ OwnersOK
    BY <1>1 DEF ListenInv
  <2>2. PICK c : c = Head(backlog)
    OBVIOUS
  <2>3. c \in Clients
    BY <1>2, <2>1, <2>2 DEF ListenTypeOK
  <2>4. client' = [client EXCEPT ![c] = "closed"] /\ UNCHANGED <<child, children, files>>
    BY <1>4, <2>2 DEF Refuse
  <2>5. client'[c] = "closed" /\ \A e \in Clients : e # c => client'[e] = client[e] /\ child'[e] = child[e]
    BY <2>1, <2>3, <2>4 DEF ListenTypeOK
  <2>6. backlog' \in Seq(Clients) /\ BacklogOK'
    BY <1>1, <1>2, <2>2, <2>5, TakenFromBacklog
  <2>7. client' \in [Clients -> {"out", "backlog", "connected", "left", "closed"}]
    BY <2>1, <2>4 DEF ListenTypeOK
  <2>8. ListenTypeOK' /\ ListenerOK' /\ ChildrenOK' /\ OwnersOK'
    BY <1>2, <2>1, <2>4, <2>6, <2>7 DEF ListenTypeOK, ListenerOK, ChildrenOK, OwnersOK
  <2>9. QED
    BY <2>6, <2>8 DEF ListenInv
<1>5. QED
  BY <1>2, <1>3, <1>4

(***************************************************************************)
(* The other steps.                                                        *)
(***************************************************************************)
LEMMA ProcessStep == ListenInv /\ Process => ListenInv'
<1>1. SUFFICES ASSUME ListenInv, Process
               PROVE  ListenInv'
  OBVIOUS
<1>2. UNCHANGED <<children, child>> /\ pc = "process" /\ pc' \in {"accepting", "after"}
  BY <1>1 DEF Process
<1>3. CASE Finalize
  BY <1>1, <1>2, <1>3, FinalizeStep
<1>4. CASE UNCHANGED <<listener, files, client, backlog>>
  BY <1>1, <1>2, <1>4 DEF ListenInv, ListenTypeOK, ListenerOK, BacklogOK, ChildrenOK, OwnersOK
<1>5. QED
  BY <1>1, <1>3, <1>4 DEF Process

(* The loop ends.                                                          *)
LEMMA EndLoopStep == ListenInv /\ EndLoop => ListenInv'
<1>1. SUFFICES ASSUME ListenInv, EndLoop
               PROVE  ListenInv'
  OBVIOUS
<1>2. UNCHANGED <<children, child>> /\ pc = "loop" /\ pc' = "joining"
  BY <1>1 DEF EndLoop
<1>3. CASE Finalize
  BY <1>1, <1>2, <1>3, FinalizeStep
<1>4. CASE listener.fd = INVALID_DESCRIPTOR /\ UNCHANGED <<listener, files, client, backlog>>
  BY <1>1, <1>2, <1>4 DEF ListenInv, ListenTypeOK, ListenerOK, BacklogOK, ChildrenOK, OwnersOK
<1>5. QED
  BY <1>1, <1>3, <1>4 DEF EndLoop

(* A thread is asked to stop.                                              *)
LEMMA AskChildStep == ListenInv /\ AskChild => ListenInv'
<1>1. SUFFICES ASSUME ListenInv, AskChild
               PROVE  ListenInv'
  OBVIOUS
<1>2. ListenTypeOK /\ ListenerOK /\ BacklogOK /\ ChildrenOK /\ OwnersOK
  BY <1>1 DEF ListenInv
<1>3. PICK e : e = children[Max(Unfinished)]
  OBVIOUS
<1>4. /\ child' = [child EXCEPT ![e].asked = TRUE]
      /\ UNCHANGED <<pc, listener, children, client, backlog, files>>
  BY <1>1, <1>3 DEF AskChild
<1>5. \A x \in Child : /\ [x EXCEPT !.asked = TRUE].life = x.life /\ [x EXCEPT !.asked = TRUE].fd = x.fd
                       /\ [x EXCEPT !.asked = TRUE].pipe = x.pipe /\ [x EXCEPT !.asked = TRUE] \in Child
  BY DEF Child
<1>6. \A c \in Clients : child[c] \in Child /\ (child'[c] = child[c] \/ child'[c] = [child[c] EXCEPT !.asked = TRUE])
  BY <1>2, <1>4 DEF ListenTypeOK
<1>7. \A c \in Clients : /\ child'[c].life = child[c].life /\ child'[c].fd = child[c].fd
                         /\ child'[c].pipe = child[c].pipe /\ child'[c] \in Child
  BY <1>5, <1>6
<1>8. child' \in [Clients -> {child'[c] : c \in Clients}]
  BY <1>2, <1>4 DEF ListenTypeOK
<1>9. child' \in [Clients -> Child]
  BY <1>7, <1>8
<1>10. ListenTypeOK' /\ ListenerOK'
  BY <1>2, <1>4, <1>9 DEF ListenTypeOK, ListenerOK
<1>11. BacklogOK' /\ ChildrenOK'
  BY <1>2, <1>4, <1>7 DEF BacklogOK, ChildrenOK
<1>12. OwnersOK'
  BY <1>2, <1>4, <1>7 DEF OwnersOK
<1>13. QED
  BY <1>10, <1>11, <1>12 DEF ListenInv

(* A client comes.                                                         *)
LEMMA ConnectStep == ASSUME NEW c \in Clients PROVE ListenInv /\ Connect(c) => ListenInv'
<1>1. SUFFICES ASSUME ListenInv, Connect(c)
               PROVE  ListenInv'
  OBVIOUS
<1>2. ListenTypeOK /\ ListenerOK /\ BacklogOK /\ ChildrenOK /\ OwnersOK
  BY <1>1 DEF ListenInv
<1>3. /\ client[c] = "out" /\ listener.initialized
      /\ client' = [client EXCEPT ![c] = "backlog"] /\ backlog' = Append(backlog, c)
      /\ UNCHANGED <<pc, listener, children, child, files>>
  BY <1>1 DEF Connect
<1>4. backlog \in Seq(Clients)
  BY <1>2 DEF ListenTypeOK
<1>5. /\ DOMAIN backlog' = 1 .. Len(backlog) + 1 /\ DOMAIN backlog = 1 .. Len(backlog) /\ Len(backlog) \in Nat
      /\ backlog'[Len(backlog) + 1] = c
      /\ \A i \in DOMAIN backlog : backlog'[i] = backlog[i] /\ backlog[i] \in Clients
      /\ backlog' \in Seq(Clients)
  BY <1>3, <1>4
<1>6. \A i \in DOMAIN backlog' : i = Len(backlog) + 1 \/ i \in DOMAIN backlog
  BY <1>5
<1>7. \A i \in DOMAIN backlog : backlog[i] # c
  BY <1>2, <1>3 DEF BacklogOK
<1>8. client'[c] = "backlog" /\ \A e \in Clients : e # c => client'[e] = client[e]
  BY <1>2, <1>3 DEF ListenTypeOK
<1>9. \A i \in DOMAIN backlog' : client'[backlog'[i]] = "backlog"
  BY <1>2, <1>5, <1>6, <1>7, <1>8 DEF BacklogOK
<1>10. \A i, j \in DOMAIN backlog' : backlog'[i] = backlog'[j] => i = j
  BY <1>2, <1>5, <1>6, <1>7 DEF BacklogOK
<1>11. BacklogOK'
  BY <1>2, <1>3, <1>8, <1>9, <1>10 DEF BacklogOK
<1>12. client' \in [Clients -> {"out", "backlog", "connected", "left", "closed"}]
  BY <1>2, <1>3 DEF ListenTypeOK
<1>13. ListenTypeOK' /\ ListenerOK' /\ ChildrenOK' /\ OwnersOK'
  BY <1>2, <1>3, <1>5, <1>12 DEF ListenTypeOK, ListenerOK, ChildrenOK, OwnersOK
<1>14. QED
  BY <1>11, <1>13 DEF ListenInv

(* A client leaves.                                                        *)
LEMMA LeaveStep == ASSUME NEW c \in Clients PROVE ListenInv /\ Leave(c) => ListenInv'
<1>1. SUFFICES ASSUME ListenInv, Leave(c)
               PROVE  ListenInv'
  OBVIOUS
<1>2. ListenTypeOK /\ ListenerOK /\ BacklogOK /\ ChildrenOK /\ OwnersOK
  BY <1>1 DEF ListenInv
<1>3. /\ client[c] = "connected" /\ client' = [client EXCEPT ![c] = "left"]
      /\ UNCHANGED <<pc, listener, children, child, backlog, files>>
  BY <1>1 DEF Leave
<1>4. /\ client' \in [Clients -> {"out", "backlog", "connected", "left", "closed"}]
      /\ client'[c] = "left" /\ \A e \in Clients : e # c => client'[e] = client[e]
  BY <1>2, <1>3 DEF ListenTypeOK
<1>5. \A i \in DOMAIN backlog : backlog[i] \in Clients
  BY <1>2 DEF ListenTypeOK
<1>6. BacklogOK'
  BY <1>2, <1>3, <1>4, <1>5 DEF BacklogOK
<1>7. ListenTypeOK' /\ ListenerOK' /\ ChildrenOK' /\ OwnersOK'
  BY <1>2, <1>3, <1>4 DEF ListenTypeOK, ListenerOK, ChildrenOK, OwnersOK
<1>8. QED
  BY <1>6, <1>7 DEF ListenInv

(* The time to open again has come.                                        *)
LEMMA ReopenTimeoutStep == ListenInv /\ ReopenTimeout => ListenInv'
<1>1. SUFFICES ASSUME ListenInv, ReopenTimeout
               PROVE  ListenInv'
  OBVIOUS
<1>2. /\ listener' = [listener EXCEPT !.due = TRUE]
      /\ UNCHANGED <<pc, children, child, client, backlog, files>>
  BY <1>1 DEF ReopenTimeout
<1>3. /\ listener' \in [initialized : BOOLEAN, fd : Table \cup {INVALID_DESCRIPTOR}, due : BOOLEAN]
      /\ listener'.initialized = listener.initialized /\ listener'.fd = listener.fd
  BY <1>1, <1>2 DEF ListenInv, ListenTypeOK
<1>4. QED
  BY <1>1, <1>2, <1>3 DEF ListenInv, ListenTypeOK, ListenerOK, BacklogOK, ChildrenOK, OwnersOK

(* What none of them touches.                                              *)
LEMMA QuietStep ==
  ASSUME ListenInv, UNCHANGED <<listener, children, child, client, backlog, files>>,
         pc' = pc \/ pc' \in {"signal", "after"}
  PROVE  ListenInv'
BY DEF ListenInv, ListenTypeOK, ListenerOK, BacklogOK, ChildrenOK, OwnersOK

(* Every step keeps the invariant.                                         *)
LEMMA ListenInvNext == EnoughDescriptors /\ ListenInv /\ [ListenNext]_listenVars => ListenInv'
<1>1. SUFFICES ASSUME EnoughDescriptors, ListenInv, [ListenNext]_listenVars
               PROVE  ListenInv'
  OBVIOUS
<1>2. CASE Thread
  <2>1. CASE BeforeWait
    BY <1>1, <2>1, BeforeWaitStep
  <2>2. CASE PollListener
    BY <1>1, <2>2, QuietStep DEF PollListener
  <2>3. CASE ReadSignal
    BY <1>1, <2>3, ReadSignalStep
  <2>4. CASE Process
    BY <1>1, <2>4, ProcessStep
  <2>5. CASE AcceptEnds
    BY <1>1, <2>5, QuietStep DEF AcceptEnds
  <2>6. CASE Accept
    BY <1>1, <2>6, AcceptStep
  <2>7. CASE AfterWait
    BY <1>1, <2>7, AfterWaitStep
  <2>8. CASE EndLoop
    BY <1>1, <2>8, EndLoopStep
  <2>9. CASE AskChild
    BY <1>1, <2>9, AskChildStep
  <2>10. CASE JoinDone
    BY <1>1, <2>10, JoinDoneStep
  <2>11. QED
    BY <1>2, <2>1, <2>2, <2>3, <2>4, <2>5, <2>6, <2>7, <2>8, <2>9, <2>10 DEF Thread
<1>3. CASE ReopenTimeout
  BY <1>1, <1>3, ReopenTimeoutStep
<1>4. CASE AskToTerminate
  BY <1>1, <1>4, QuietStep DEF AskToTerminate
<1>5. CASE \E c \in Clients : ChildEnds(c) \/ Connect(c) \/ Leave(c)
  BY <1>1, <1>5, ChildEndsStep, ConnectStep, LeaveStep
<1>6. CASE UNCHANGED listenVars
  BY <1>1, <1>6, QuietStep DEF listenVars
<1>7. QED
  BY <1>1, <1>2, <1>3, <1>4, <1>5, <1>6 DEF ListenNext

(* The invariant gives the property.                                       *)
LEMMA ListenInvOwned == ListenInv => EveryDescriptorOwned
<1>1. SUFFICES ASSUME ListenInv
               PROVE  EveryDescriptorOwned
  OBVIOUS
<1>2. ListenTypeOK /\ ListenerOK /\ BacklogOK /\ ChildrenOK /\ OwnersOK
  BY <1>1 DEF ListenInv
<1>3. listener.initialized = (listener.fd # INVALID_DESCRIPTOR)
  <2>1. listener.initialized \in BOOLEAN
    BY <1>2 DEF ListenTypeOK
  <2>2. listener.initialized <=> listener.fd # INVALID_DESCRIPTOR
    BY <1>2 DEF ListenerOK
  <2>3. QED
    BY <2>1, <2>2, Zenon
<1>4. ASSUME NEW d \in Table
      PROVE  /\ (files[d] = <<"listener">>) = (d = listener.fd)
             /\ \A c \in Clients :
                  /\ (files[d] = <<"connection", c>>) = (d = child[c].fd)
                  /\ (files[d] = <<"pipe", c>>) = (child[c].life \in {"running", "finished"} /\ d \in {child[c].pipe[1], child[c].pipe[2]})
  BY <1>2, Zenon DEF OwnersOK, InList
<1>5. ASSUME pc = "ended"
      PROVE  /\ \A d \in Table : files[d] \in {<<"free">>, <<"stdin">>}
             /\ backlog = <<>> /\ \A c \in Clients : child[c].life \in {"none", "deleted"}
  <2>1. listener.fd = INVALID_DESCRIPTOR /\ backlog = <<>> /\ children = <<>>
    BY <1>2, <1>5 DEF ListenerOK
  <2>2. \A c \in Clients : child[c].life \in {"none", "deleted"}
    <3>1. \A c \in Clients : child[c].life \notin InList
      BY <1>2, <2>1 DEF ChildrenOK
    <3>2. \A c \in Clients : child[c] \in Child
      BY <1>2 DEF ListenTypeOK
    <3>3. QED
      BY <3>1, <3>2 DEF Child, Lives, InList
  <2>3. ASSUME NEW d \in Table
        PROVE  files[d] \in {<<"free">>, <<"stdin">>}
    <3>1. d # INVALID_DESCRIPTOR
      BY ListenAssumption DEF INVALID_DESCRIPTOR
    <3>2. \A c \in Clients : child[c].life \notin InList /\ child[c].life # "running"
      BY <2>2 DEF InList
    <3>3. \A c \in Clients : child[c].fd = INVALID_DESCRIPTOR
      BY <1>2, <3>2 DEF ChildrenOK
    <3>4. /\ files[d] # <<"listener">>
          /\ \A c \in Clients : files[d] # <<"connection", c>> /\ files[d] # <<"pipe", c>>
      BY <1>2, <2>1, <3>1, <3>2, <3>3 DEF OwnersOK
    <3>5. files[d] \in Files
      BY <1>2 DEF ListenTypeOK
    <3>6. files[d] \in {"connection", "pipe"} \X Clients
          => \E c \in Clients : files[d] = <<"connection", c>> \/ files[d] = <<"pipe", c>>
      OBVIOUS
    <3>7. QED
      BY <3>4, <3>5, <3>6 DEF Files
  <2>4. QED
    BY <2>1, <2>2, <2>3
<1>6. QED
  BY <1>3, <1>4, <1>5 DEF EveryDescriptorOwned

(***************************************************************************)
(* For any clients and any number of failures, where the table holds all   *)
(* that the server may open at once: every open descriptor has one owner   *)
(* that knows its number, a number that was closed is known to nobody, and *)
(* nothing stays open or unjoined when the thread has ended.               *)
(***************************************************************************)
THEOREM EveryDescriptorOwnedHolds ==
  ASSUME EnoughDescriptors
  PROVE  ListenSpec => []EveryDescriptorOwned
<1>1. ListenInv /\ [ListenNext]_listenVars => ListenInv'
  BY ListenInvNext
<1>2. QED
  BY <1>1, ListenInvInit, ListenInvOwned, PTL DEF ListenSpec

(***************************************************************************)
(* Sequences of bytes.                                                     *)
(***************************************************************************)
(* A sequence of m elements of S.                                          *)
Sized(s, S, m) == s \in Seq(S) /\ Len(s) = m /\ m \in Nat

(* What a sequence is.                                                     *)
LEMMA SizedFacts ==
  ASSUME NEW S, NEW s \in Seq(S)
  PROVE  Sized(s, S, Len(s)) /\ Len(s) \in Nat
  BY DEF Sized

(* The first m elements of part are those of s behind place n.            *)
Shifted(part, s, m, n) == \A i \in 1 .. m : part[i] = s[n + i]

(* A part of a sequence, from behind place n to place b.                   *)
LEMMA CutFacts ==
  ASSUME NEW S, NEW s, NEW m, Sized(s, S, m), NEW n \in 0 .. m, NEW b \in n .. m
  PROVE  Sized(SubSeq(s, n + 1, b), S, b - n) /\ Shifted(SubSeq(s, n + 1, b), s, b - n, n)
  BY DEF Sized, Shifted

(* A sequence without its first n elements.                                *)
LEMMA DropFacts ==
  ASSUME NEW S, NEW s, NEW m, Sized(s, S, m), NEW n \in 0 .. m
  PROVE  Sized(Drop(s, n), S, m - n) /\ Shifted(Drop(s, n), s, m - n, n)
  BY DEF Drop, Sized, Shifted

(* A sequence of two parts.                                                *)
Joined(all, s, m, t, n) ==
  /\ \A i \in 1 .. m : all[i] = s[i]
  /\ \A i \in m + 1 .. m + n : all[i] = t[i - m]

(* Places of a sequence of two parts.                                      *)
LEMMA JoinPlaces ==
  ASSUME NEW S, NEW s, NEW t, NEW m, NEW n, Sized(s, S, m), Sized(t, S, n)
  PROVE  Sized(s \o t, S, m + n) /\ Joined(s \o t, s, m, t, n)
  BY DEF Sized, Joined

(* Sequences of the same length are the same that agree at every place.    *)
LEMMA SizedSame ==
  ASSUME NEW S, NEW s, NEW t, NEW m, Sized(s, S, m), Sized(t, S, m), \A i \in 1 .. m : s[i] = t[i]
  PROVE  s = t
  BY DEF Sized

(* The second of two parts of a sequence.                                  *)
Follows(rest, got, all) == all = got \o rest

(* What is removed from the first of two parts.                            *)
LEMMA DropJoin ==
  ASSUME NEW S, NEW s, NEW t, NEW k, NEW l, Sized(s, S, k), Sized(t, S, l), NEW n \in 0 .. k
  PROVE  Follows(t, Drop(s, n), Drop(s \o t, n))
<1> DEFINE d == Drop(s, n)
           all == s \o t
<1>1. Sized(all, S, k + l) /\ Joined(all, s, k, t, l)
  BY JoinPlaces, Zenon
<1>2. Sized(d, S, k - n) /\ Shifted(d, s, k - n, n)
  BY DropFacts, Zenon
<1> HIDE DEF d, all
<1>3. k \in Nat /\ l \in Nat /\ n \in Nat /\ n <= k /\ n \in 0 .. k + l
  BY DEF Sized
<1>4. Sized(Drop(all, n), S, k + l - n) /\ Shifted(Drop(all, n), all, k + l - n, n)
  BY <1>1, <1>3, DropFacts
<1>5. Sized(d \o t, S, k - n + l) /\ Joined(d \o t, d, k - n, t, l)
  BY <1>2, JoinPlaces, Zenon
<1>6. ASSUME NEW i \in 1 .. k + l - n
      PROVE  Drop(all, n)[i] = (d \o t)[i]
  <2>1. CASE i <= k - n
    <3>1. i \in 1 .. k - n /\ n + i \in 1 .. k
      BY <1>3, <2>1
    <3>2. QED
      BY <1>1, <1>2, <1>4, <1>5, <3>1, Zenon DEF Joined, Shifted
  <2>2. CASE i > k - n
    <3>1. i \in k - n + 1 .. k - n + l /\ n + i \in k + 1 .. k + l /\ i - (k - n) = (n + i) - k
      BY <1>3, <2>2
    <3>2. Drop(all, n)[i] = all[n + i]
      BY <1>4, Zenon DEF Shifted
    <3>3. all[n + i] = t[(n + i) - k]
      BY <1>1, <3>1, Zenon DEF Joined
    <3>4. (d \o t)[i] = t[i - (k - n)]
      BY <1>5, <3>1, Zenon DEF Joined
    <3>5. QED
      BY <3>1, <3>2, <3>3, <3>4, Zenon
  <2>3. i <= k - n \/ i > k - n
    BY <1>3
  <2>4. QED
    BY <2>1, <2>2, <2>3, Zenon
<1>7. k - n + l = k + l - n
  BY <1>3
<1>8. Drop(all, n) = d \o t
  BY <1>4, <1>5, <1>6, <1>7, SizedSame, Zenon
<1>9. QED
  BY <1>8, Zenon DEF Follows, all, d

(* What is read moves from the front of one sequence to the end of another.*)
LEMMA ReadJoin ==
  ASSUME NEW S, NEW s, NEW t, NEW k, NEW l, Sized(s, S, k), Sized(t, S, l), NEW n \in 0 .. l
  PROVE  /\ Follows(Drop(t, n), s \o SubSeq(t, 1, n), s \o t)
         /\ Sized(s \o SubSeq(t, 1, n), S, k + n) /\ Sized(Drop(t, n), S, l - n)
<1> DEFINE u == SubSeq(t, 1, n)
           r == Drop(t, n)
<1>1. /\ k \in Nat /\ l \in Nat /\ n \in Nat /\ n <= l
      /\ 0 \in 0 .. l /\ n \in 0 .. l /\ 0 + 1 = 1
  BY DEF Sized
<1>3. Sized(SubSeq(t, 0 + 1, n), S, n - 0) /\ Shifted(SubSeq(t, 0 + 1, n), t, n - 0, 0)
  BY <1>1, CutFacts, Zenon
<1>4. Sized(r, S, l - n) /\ Shifted(r, t, l - n, n)
  BY DropFacts, Zenon
<1>5. Sized(s \o t, S, k + l) /\ Joined(s \o t, s, k, t, l)
  BY JoinPlaces, Zenon
<1>6. n - 0 = n /\ \A i \in 1 .. n : 0 + i = i
  BY <1>1
<1>7. Sized(u, S, n) /\ \A i \in 1 .. n : u[i] = t[i]
  BY <1>1, <1>3, <1>6, Zenon DEF Shifted
<1> HIDE DEF u, r
<1> DEFINE v == s \o u
<1>8. Sized(v, S, k + n) /\ Joined(v, s, k, u, n)
  BY <1>7, JoinPlaces, Zenon
<1> HIDE DEF v
<1>9. Sized(v \o r, S, k + n + (l - n)) /\ Joined(v \o r, v, k + n, r, l - n)
  BY <1>4, <1>8, JoinPlaces, Zenon
<1>10. ASSUME NEW i \in 1 .. k + l
       PROVE  (v \o r)[i] = (s \o t)[i]
  <2>1. CASE i <= k
    <3>1. i \in 1 .. k /\ i \in 1 .. k + n
      BY <1>1, <2>1
    <3>2. QED
      BY <1>5, <1>8, <1>9, <3>1, Zenon DEF Joined, Shifted
  <2>2. CASE i > k /\ i <= k + n
    <3>1. i \in k + 1 .. k + n /\ i \in 1 .. k + n /\ i - k \in 1 .. n /\ i \in k + 1 .. k + l
      BY <1>1, <2>2
    <3>2. (v \o r)[i] = v[i]
      BY <1>9, <3>1, Zenon DEF Joined, Shifted
    <3>3. v[i] = u[i - k]
      BY <1>8, <3>1, Zenon DEF Joined, Shifted
    <3>4. (s \o t)[i] = t[i - k]
      BY <1>5, <3>1, Zenon DEF Joined, Shifted
    <3>5. u[i - k] = t[i - k]
      BY <1>7, <3>1, Zenon
    <3>6. QED
      BY <3>2, <3>3, <3>4, <3>5, Zenon
  <2>3. CASE i > k + n
    <3>1. /\ i \in k + n + 1 .. k + n + (l - n) /\ i \in k + 1 .. k + l
          /\ i - (k + n) \in 1 .. l - n /\ n + (i - (k + n)) = i - k
      BY <1>1, <2>3
    <3>2. QED
      BY <1>4, <1>5, <1>9, <3>1, Zenon DEF Joined, Shifted
  <2>4. i <= k \/ (i > k /\ i <= k + n) \/ i > k + n
    BY <1>1
  <2>5. QED
    BY <2>1, <2>2, <2>3, <2>4, Zenon
<1>11. k + n + (l - n) = k + l
  BY <1>1
<1>12. v \o r = s \o t
  BY <1>5, <1>9, <1>10, <1>11, SizedSame, Zenon
<1>13. QED
  BY <1>4, <1>8, <1>12, Zenon DEF Follows, u, r, v

(* An element more at the end of the second part.                          *)
LEMMA AppendJoin ==
  ASSUME NEW S, NEW s \in Seq(S), NEW t \in Seq(S), NEW e \in S
  PROVE  Follows(Append(t, e), s, Append(s \o t, e))
  BY DEF Follows

(***************************************************************************)
(* A packet's bytes.                                                       *)
(***************************************************************************)
LEMMA StreamFacts ==
  ASSUME NEW s \in Streams
  PROVE  /\ s.factory = "frames" \/ s.factory = "simple" \/ s.factory = "lines"
         /\ s.noise \in SUBSET (0 .. 9) /\ s.body \in 0 .. 2
<1>1. s \in [factory : {"frames", "simple", "lines"}, noise : SUBSET (0 .. 9),
             noises : Nat, packets : Nat, body : 0 .. 2, chunk : Nat \ {0}]
  BY PacketStreamAssumption
<1>2. QED
  BY <1>1

(* At most two bytes, zeros and tags.                                      *)
LEMMA DataFacts ==
  ASSUME NEW data \in Datas
  PROVE  /\ Len(data) \in 0 .. 2 /\ data \in Seq({0, TAG}) /\ Sized(data, Bytes, Len(data))
         /\ \A i \in 1 .. Len(data) : data[i] \in {0, TAG}
<1>1. PICK m \in 0 .. 2 : data \in [1 .. m -> {0, TAG}]
  BY DEF Datas, BoundedSeq, SeqOf
<1>2. data \in Seq({0, TAG}) /\ Len(data) = m
  BY <1>1, SequenceOf
<1>3. {0, TAG} \subseteq Bytes
  BY DEF Bytes, TAG
<1>4. data \in [1 .. m -> Bytes]
  BY <1>1, <1>3
<1>5. data \in Seq(Bytes)
  BY <1>4, SequenceOf
<1>6. QED
  BY <1>1, <1>2, <1>5 DEF Sized

(* What a packet is made of are bytes.                                     *)
LEMMA BytesFacts ==
  /\ TAG \in Bytes /\ TAG2 \in Bytes /\ PacketNeedsTicket \in Bytes /\ CR \in Bytes /\ LF \in Bytes
  /\ 0 .. 9 \subseteq Bytes
  /\ \A data \in Datas : Len(data) \in Bytes /\ Crc16(data) \in Bytes
<1>1. \A data \in Datas : Len(data) \in 0 .. 9
  BY DataFacts
<1>2. QED
  BY <1>1 DEF Bytes, TAG, TAG2, PacketNeedsTicket, CR, LF

(* The bytes of a packet that are not data, before it and behind it.       *)
Offset(s) == IF s.factory = "frames" THEN 5 ELSE IF s.factory = "simple" THEN 4 ELSE 0
Trailer(s) == IF s.factory = "lines" THEN 1 ELSE 0
Size(s, data) == Offset(s) + Len(data) + Trailer(s)

FramesWhole(w, c, data) == <<TAG, TAG, PacketNeedsTicket, w, c>> \o data
SimpleWhole(w, c, data) == <<TAG, TAG2, w, c>> \o data

(* The bytes of each factory's packets.                                    *)
LEMMA FramesBytes ==
  ASSUME NEW w \in Bytes, NEW c \in Bytes, NEW data, NEW n, Sized(data, Bytes, n),
         NEW all, all = FramesWhole(w, c, data)
  PROVE  /\ Sized(all, Bytes, 5 + n) /\ Shifted(data, all, n, 5)
         /\ all[1] = TAG /\ all[2] = TAG /\ all[3] = PacketNeedsTicket /\ all[4] = w /\ all[5] = c
  BY BytesFacts DEF Sized, Shifted, FramesWhole

(* The same for PacketSimpleHeader.                                        *)
LEMMA SimpleBytes ==
  ASSUME NEW w \in Bytes, NEW c \in Bytes, NEW data, NEW n, Sized(data, Bytes, n),
         NEW all, all = SimpleWhole(w, c, data)
  PROVE  /\ Sized(all, Bytes, 4 + n) /\ Shifted(data, all, n, 4)
         /\ all[1] = TAG /\ all[3] = w /\ all[4] = c
  BY BytesFacts DEF Sized, Shifted, SimpleWhole

(* And for a line.                                                         *)
LEMMA LineBytes ==
  ASSUME NEW data, NEW n, Sized(data, Bytes, n)
  PROVE  /\ Sized(data \o <<CR>>, Bytes, n + 1)
         /\ Shifted(data, data \o <<CR>>, n, 0)
         /\ (data \o <<CR>>)[n + 1] = CR
  BY BytesFacts DEF Sized, Shifted

(* The bytes of a packet, whichever the factory.                           *)
LEMMA WholeFacts ==
  ASSUME NEW s \in Streams, NEW data \in Datas
  PROVE  /\ Sized(Whole(s, data), Bytes, Size(s, data))
         /\ Shifted(data, Whole(s, data), Len(data), Offset(s))
         /\ s.factory = "frames" =>
              /\ Whole(s, data)[1] = TAG /\ Whole(s, data)[2] = TAG /\ Whole(s, data)[3] = PacketNeedsTicket
              /\ Whole(s, data)[4] = Len(data) /\ Whole(s, data)[5] = Crc16(data)
         /\ s.factory = "simple" =>
              /\ Whole(s, data)[1] = TAG
              /\ Whole(s, data)[3] = Len(data) /\ Whole(s, data)[4] = Crc16(data)
         /\ s.factory = "lines" => Whole(s, data)[Len(data) + 1] = CR
<1>1. Sized(data, Bytes, Len(data)) /\ Len(data) \in Bytes /\ Crc16(data) \in Bytes /\ Len(data) \in 0 .. 2
  BY DataFacts, BytesFacts
<1>2. CASE s.factory = "frames"
  <2>1. Whole(s, data) = <<TAG, TAG, PacketNeedsTicket, Len(data), Crc16(data)>> \o data
    BY <1>2 DEF Whole
  <2>2. Size(s, data) = 5 + Len(data) /\ Offset(s) = 5
    BY <1>1, <1>2 DEF Size, Offset, Trailer
  <2>3. s.factory # "simple" /\ s.factory # "lines"
    BY <1>2
  <2> DEFINE all == Whole(s, data)
             n == Len(data)
             c == Crc16(data)
  <2>4. Sized(data, Bytes, n) /\ n \in Bytes /\ c \in Bytes /\ all = FramesWhole(n, c, data)
    BY <1>1, <2>1 DEF FramesWhole
  <2> HIDE DEF all, n, c
  <2>5. /\ Sized(all, Bytes, 5 + n) /\ Shifted(data, all, n, 5)
        /\ all[1] = TAG /\ all[2] = TAG /\ all[3] = PacketNeedsTicket /\ all[4] = n /\ all[5] = c
    BY <2>4, FramesBytes
  <2>6. QED
    BY <2>2, <2>3, <2>5, Zenon DEF all, n, c
<1>3. CASE s.factory = "simple"
  <2>1. Whole(s, data) = <<TAG, TAG2, Len(data), Crc16(data)>> \o data
    BY <1>3 DEF Whole
  <2>2. Size(s, data) = 4 + Len(data) /\ Offset(s) = 4
    BY <1>1, <1>3 DEF Size, Offset, Trailer
  <2>3. s.factory # "frames" /\ s.factory # "lines"
    BY <1>3
  <2> DEFINE all == Whole(s, data)
             n == Len(data)
             c == Crc16(data)
  <2>4. Sized(data, Bytes, n) /\ n \in Bytes /\ c \in Bytes /\ all = SimpleWhole(n, c, data)
    BY <1>1, <2>1 DEF SimpleWhole
  <2> HIDE DEF all, n, c
  <2>5. /\ Sized(all, Bytes, 4 + n) /\ Shifted(data, all, n, 4)
        /\ all[1] = TAG /\ all[3] = n /\ all[4] = c
    BY <2>4, SimpleBytes
  <2>6. QED
    BY <2>2, <2>3, <2>5, Zenon DEF all, n, c
<1>4. CASE s.factory = "lines"
  <2>1. Whole(s, data) = data \o <<CR>>
    BY <1>4 DEF Whole
  <2>2. Size(s, data) = Len(data) + 1 /\ Offset(s) = 0
    BY <1>1, <1>4 DEF Size, Offset, Trailer
  <2>3. s.factory # "frames" /\ s.factory # "simple"
    BY <1>4
  <2>4. QED
    BY <1>1, <2>1, <2>2, <2>3, LineBytes, Zenon
<1>5. QED
  BY <1>2, <1>3, <1>4, StreamFacts

(***************************************************************************)
(* Packets among fillers.                                                  *)
(***************************************************************************)
(* Lies, with the lengths of its sequences.                                *)
Fits(s, l, datas, k, places) == \A i \in 1 .. k : places[i] + Size(s, datas[i]) <= l + 1
Contents(s, bytes, datas, k, places) ==
  \A i \in 1 .. k : Shifted(Whole(s, datas[i]), bytes, Size(s, datas[i]), places[i] - 1)
InOrder(s, datas, k, places) == \A i, j \in 1 .. k : i < j => places[i] + Size(s, datas[i]) <= places[j]
Inside(s, datas, places, i, x) == places[i] <= x /\ x < places[i] + Size(s, datas[i])
Filled(s, bytes, l, datas, k, places) ==
  \A x \in 1 .. l : bytes[x] \in Filler(s) \/ \E i \in 1 .. k : Inside(s, datas, places, i, x)
NoneEmpty(s, datas, k) == s.factory = "lines" => \A i \in 1 .. k : datas[i] # <<>>

Laid(s, bytes, l, datas, k, places) ==
  /\ Sized(bytes, Bytes, l) /\ Sized(datas, Datas, k) /\ places \in [1 .. k -> Nat \ {0}]
  /\ Fits(s, l, datas, k, places) /\ Contents(s, bytes, datas, k, places) /\ InOrder(s, datas, k, places)
  /\ Filled(s, bytes, l, datas, k, places) /\ NoneEmpty(s, datas, k)

(* The places of a sequence.                                               *)
LEMMA SizedPlaces ==
  ASSUME NEW S, NEW s, NEW m, Sized(s, S, m)
  PROVE  DOMAIN s = 1 .. m /\ m \in Nat /\ \A i \in 1 .. m : s[i] \in S
  BY DEF Sized

(* A packet has at least one byte.                                         *)
LEMMA SizeFacts ==
  ASSUME NEW s \in Streams, NEW data \in Datas
  PROVE  /\ Size(s, data) \in Nat /\ Len(data) \in 0 .. 2 /\ Offset(s) \in Nat
         /\ Size(s, data) = Offset(s) + Len(data) + Trailer(s)
         /\ Size(s, data) > 0
         /\ Len(Whole(s, data)) = Size(s, data) /\ DOMAIN Whole(s, data) = 1 .. Size(s, data)
<1>1. Len(data) \in 0 .. 2
  BY DataFacts
<1>2. /\ Offset(s) \in Nat /\ Trailer(s) \in Nat
      /\ Offset(s) > 0 \/ Trailer(s) > 0
  BY StreamFacts DEF Offset, Trailer
<1>3. Sized(Whole(s, data), Bytes, Size(s, data))
  BY WholeFacts
<1>4. QED
  BY <1>1, <1>2, <1>3 DEF Sized, Size

(* Lies and Laid say the same.                                             *)
LEMMA LiesLaid ==
  ASSUME NEW s \in Streams, NEW bytes, NEW l, NEW datas, NEW k, NEW places,
         Sized(bytes, Bytes, l), Sized(datas, Datas, k), places \in [1 .. k -> Nat \ {0}]
  PROVE  Lies(s, bytes, datas, places) <=> Laid(s, bytes, l, datas, k, places)
<1>1. /\ DOMAIN bytes = 1 .. l /\ Len(bytes) = l /\ DOMAIN datas = 1 .. k
      /\ l \in Nat /\ k \in Nat /\ \A i \in 1 .. k : datas[i] \in Datas
  BY SizedPlaces DEF Sized
<1>2. \A i \in 1 .. k : /\ Size(s, datas[i]) \in Nat /\ Len(Whole(s, datas[i])) = Size(s, datas[i])
                        /\ DOMAIN Whole(s, datas[i]) = 1 .. Size(s, datas[i])
                        /\ places[i] \in Nat
  BY <1>1, SizeFacts
<1>3. \A i \in 1 .. k : Behind(s, datas, places, i) = places[i] + Size(s, datas[i])
  BY <1>2 DEF Behind
<1>4. (\A i \in DOMAIN datas : Behind(s, datas, places, i) <= Len(bytes) + 1) <=> Fits(s, l, datas, k, places)
  BY <1>1, <1>3 DEF Fits
<1>5. ASSUME NEW i \in 1 .. k
      PROVE  (\A j \in DOMAIN Whole(s, datas[i]) : bytes[places[i] + j - 1] = Whole(s, datas[i])[j])
               <=> Shifted(Whole(s, datas[i]), bytes, Size(s, datas[i]), places[i] - 1)
  <2>1. \A j \in 1 .. Size(s, datas[i]) : places[i] + j - 1 = (places[i] - 1) + j
    BY <1>2
  <2>2. QED
    BY <1>2, <2>1, Zenon DEF Shifted
<1>6. (\A i \in DOMAIN datas : \A j \in DOMAIN Whole(s, datas[i]) : bytes[places[i] + j - 1] = Whole(s, datas[i])[j])
         <=> Contents(s, bytes, datas, k, places)
  BY <1>1, <1>5, Zenon DEF Contents
<1>7. (\A i, j \in DOMAIN datas : i < j => Behind(s, datas, places, i) <= places[j]) <=> InOrder(s, datas, k, places)
  <2>1. ASSUME NEW i \in 1 .. k, NEW j \in 1 .. k
        PROVE  Behind(s, datas, places, i) <= places[j] <=> places[i] + Size(s, datas[i]) <= places[j]
    BY <1>3
  <2>2. (\A i, j \in DOMAIN datas : i < j => Behind(s, datas, places, i) <= places[j])
          <=> \A i, j \in 1 .. k : i < j => Behind(s, datas, places, i) <= places[j]
    BY <1>1
  <2>3. QED
    BY <2>1, <2>2, Zenon DEF InOrder
<1>8. (\A x \in DOMAIN bytes :
         bytes[x] \in Filler(s) \/ \E i \in DOMAIN datas : places[i] <= x /\ x < Behind(s, datas, places, i))
         <=> Filled(s, bytes, l, datas, k, places)
  <2>1. ASSUME NEW i \in 1 .. k, NEW x
        PROVE  places[i] <= x /\ x < Behind(s, datas, places, i) <=> Inside(s, datas, places, i, x)
    BY <1>3, Zenon DEF Inside
  <2>2. ASSUME NEW x
        PROVE  (\E i \in DOMAIN datas : places[i] <= x /\ x < Behind(s, datas, places, i))
                 <=> \E i \in 1 .. k : Inside(s, datas, places, i, x)
    BY <1>1, <2>1, Zenon
  <2>3. QED
    BY <1>1, <2>2, Zenon DEF Filled
<1>9. (s.factory = "lines" => \A i \in DOMAIN datas : datas[i] # <<>>) <=> NoneEmpty(s, datas, k)
  BY <1>1, Zenon DEF NoneEmpty
<1>10. QED
  BY <1>4, <1>6, <1>7, <1>8, <1>9, Zenon DEF Lies, Laid

(* A place within a part lies within the whole.                            *)
LEMMA WithinWhole ==
  ASSUME NEW l \in Nat, NEW p \in Nat \ {0}, NEW n \in Nat, p + n <= l + 1, NEW j \in 1 .. n
  PROVE  (p - 1) + j \in 1 .. l
OBVIOUS

(* A place of the whole within a part is a place of the part.              *)
LEMMA WithinPart ==
  ASSUME NEW x \in Nat, NEW p \in Nat, NEW n \in Nat, p <= x, x < p + n
  PROVE  x - (p - 1) \in 1 .. n /\ x - (p - 1) \in 1 .. n + 1 /\ (p - 1) + (x - (p - 1)) = x
OBVIOUS

(* A filler more at the end.                                               *)
LEMMA LaidFiller ==
  ASSUME NEW s \in Streams, NEW bytes, NEW l, NEW datas, NEW k, NEW places, Laid(s, bytes, l, datas, k, places),
         NEW byte \in Filler(s), byte \in Bytes
  PROVE  Laid(s, Append(bytes, byte), l + 1, datas, k, places)
<1>1. Sized(bytes, Bytes, l) /\ Sized(datas, Datas, k) /\ places \in [1 .. k -> Nat \ {0}]
  BY Zenon DEF Laid
<1>2. l \in Nat /\ k \in Nat /\ \A i \in 1 .. k : datas[i] \in Datas /\ Size(s, datas[i]) \in Nat
  BY <1>1, SizedPlaces, SizeFacts
<1> DEFINE all == Append(bytes, byte)
<1>3. Sized(all, Bytes, l + 1) /\ all[l + 1] = byte /\ \A x \in 1 .. l : all[x] = bytes[x]
  BY <1>1, AppendFacts DEF Sized
<1> HIDE DEF all
<1>4. Fits(s, l, datas, k, places) /\ Contents(s, bytes, datas, k, places) /\ Filled(s, bytes, l, datas, k, places)
  BY Zenon DEF Laid
<1>5. Fits(s, l + 1, datas, k, places)
  BY <1>1, <1>2, <1>4 DEF Fits
<1>6. Contents(s, all, datas, k, places)
  <2>1. ASSUME NEW i \in 1 .. k, NEW j \in 1 .. Size(s, datas[i])
        PROVE  (places[i] - 1) + j \in 1 .. l
    <3>1. places[i] \in Nat \ {0} /\ Size(s, datas[i]) \in Nat /\ l \in Nat
      BY <1>1, <1>2
    <3>2. places[i] + Size(s, datas[i]) <= l + 1
      BY <1>4, Zenon DEF Fits
    <3>3. QED
      BY <3>1, <3>2, WithinWhole
  <2>2. QED
    BY <1>3, <1>4, <2>1, Zenon DEF Contents, Shifted
<1>7. Filled(s, all, l + 1, datas, k, places)
  <2>1. \A x \in 1 .. l + 1 : x = l + 1 \/ x \in 1 .. l
    BY <1>2
  <2>2. QED
    BY <1>3, <1>4, <2>1, Zenon DEF Filled
<1>8. QED
  BY <1>1, <1>3, <1>5, <1>6, <1>7, Zenon DEF Laid, all

(* A packet more at the end.                                               *)
PlacesAdded(places, k, l) == [i \in 1 .. k + 1 |-> IF i = k + 1 THEN l + 1 ELSE places[i]]

(* Packets and fillers and the new packet.                                 *)
LEMMA LaidAdded ==
  ASSUME NEW s \in Streams, NEW bytes, NEW l, NEW datas, NEW k, NEW places, Laid(s, bytes, l, datas, k, places),
         NEW data \in Datas, s.factory = "lines" => data # <<>>
  PROVE  Laid(s, bytes \o Whole(s, data), l + Size(s, data), Append(datas, data), k + 1, PlacesAdded(places, k, l))
<1> DEFINE w == Whole(s, data)
           n == Size(s, data)
           all == bytes \o w
           more == Append(datas, data)
           at == PlacesAdded(places, k, l)
<1>1. Sized(bytes, Bytes, l) /\ Sized(datas, Datas, k) /\ places \in [1 .. k -> Nat \ {0}]
  BY Zenon DEF Laid
<1>2. l \in Nat /\ k \in Nat /\ \A i \in 1 .. k : datas[i] \in Datas /\ Size(s, datas[i]) \in Nat
  BY <1>1, SizedPlaces, SizeFacts
<1>3. Sized(w, Bytes, n) /\ n \in Nat
  BY WholeFacts, SizeFacts
<1>4. Sized(all, Bytes, l + n) /\ Joined(all, bytes, l, w, n)
  BY <1>1, <1>3, JoinPlaces, Zenon
<1>5. Sized(more, Datas, k + 1) /\ more[k + 1] = data /\ \A i \in 1 .. k : more[i] = datas[i]
  BY <1>1, AppendFacts DEF Sized
<1>6. /\ at \in [1 .. k + 1 -> Nat \ {0}] /\ at[k + 1] = l + 1
      /\ \A i \in 1 .. k : at[i] = places[i]
  BY <1>1, <1>2 DEF PlacesAdded
<1>7. \A i \in 1 .. k + 1 : i = k + 1 \/ i \in 1 .. k
  BY <1>2
<1>8. /\ Fits(s, l, datas, k, places) /\ Contents(s, bytes, datas, k, places) /\ InOrder(s, datas, k, places)
      /\ Filled(s, bytes, l, datas, k, places) /\ NoneEmpty(s, datas, k)
  BY Zenon DEF Laid
<1> HIDE DEF all, more, at
<1>9. Fits(s, l + n, more, k + 1, at)
  <2>1. at[k + 1] + Size(s, more[k + 1]) <= l + n + 1
    <3>1. at[k + 1] = l + 1 /\ Size(s, more[k + 1]) = n
      BY <1>5, <1>6, Zenon
    <3>2. l \in Nat /\ n \in Nat
      BY <1>2, <1>3, Zenon
    <3>3. QED
      BY <3>1, <3>2
  <2>2. ASSUME NEW i \in 1 .. k
        PROVE  at[i] + Size(s, more[i]) <= l + n + 1
    <3>1. at[i] = places[i] /\ more[i] = datas[i]
      BY <1>5, <1>6, Zenon
    <3>2. places[i] \in Nat /\ Size(s, datas[i]) \in Nat /\ l \in Nat /\ n \in Nat
      BY <1>1, <1>2, <1>3
    <3>3. places[i] + Size(s, datas[i]) <= l + 1
      BY <1>8, Zenon DEF Fits
    <3>4. QED
      BY <3>1, <3>2, <3>3
  <2>3. QED
    BY <1>7, <2>1, <2>2, Zenon DEF Fits
<1>10. Contents(s, all, more, k + 1, at)
  <2>1. Shifted(Whole(s, more[k + 1]), all, Size(s, more[k + 1]), at[k + 1] - 1)
    <3>1. ASSUME NEW j \in 1 .. n
          PROVE  w[j] = all[l + j]
      <4>1. l + j \in l + 1 .. l + n /\ (l + j) - l = j
        BY <1>2, <1>3
      <4>2. all[l + j] = w[(l + j) - l]
        BY <1>4, <4>1, Zenon DEF Joined
      <4>3. QED
        BY <4>1, <4>2, Zenon
    <3>2. at[k + 1] - 1 = l
      BY <1>2, <1>6
    <3>3. QED
      BY <1>5, <3>1, <3>2, Zenon DEF Shifted
  <2>2. ASSUME NEW i \in 1 .. k
        PROVE  Shifted(Whole(s, more[i]), all, Size(s, more[i]), at[i] - 1)
    <3>1. \A j \in 1 .. Size(s, datas[i]) : (places[i] - 1) + j \in 1 .. l
      <4>1. places[i] + Size(s, datas[i]) <= l + 1
        BY <1>8, Zenon DEF Fits
      <4>2. places[i] \in Nat \ {0} /\ Size(s, datas[i]) \in Nat /\ l \in Nat
        BY <1>1, <1>2
      <4>3. QED
        BY <4>1, <4>2
    <3>2. Shifted(Whole(s, datas[i]), all, Size(s, datas[i]), places[i] - 1)
      BY <1>4, <1>8, <3>1, Zenon DEF Contents, Shifted, Joined
    <3>3. QED
      BY <1>5, <1>6, <3>2, Zenon
  <2>3. QED
    BY <1>7, <2>1, <2>2, Zenon DEF Contents
<1>11. InOrder(s, more, k + 1, at)
  <2>1. \A i \in 1 .. k : at[i] + Size(s, more[i]) <= at[k + 1]
    BY <1>5, <1>6, <1>8, Zenon DEF Fits
  <2>2. \A i, j \in 1 .. k : i < j => at[i] + Size(s, more[i]) <= at[j]
    BY <1>5, <1>6, <1>8, Zenon DEF InOrder
  <2>3. \A i, j \in 1 .. k + 1 : i < j => i \in 1 .. k
    BY <1>2
  <2>4. QED
    BY <1>7, <2>1, <2>2, <2>3, Zenon DEF InOrder
<1>12. Filled(s, all, l + n, more, k + 1, at)
  <2>1. ASSUME NEW x \in 1 .. l
        PROVE  all[x] \in Filler(s) \/ \E i \in 1 .. k + 1 : Inside(s, more, at, i, x)
    <3>1. \A i \in 1 .. k : i \in 1 .. k + 1
      BY <1>2
    <3>2. QED
      BY <1>4, <1>5, <1>6, <1>8, <3>1, Zenon DEF Filled, Inside, Joined
  <2>2. ASSUME NEW x \in 1 .. l + n, x \notin 1 .. l
        PROVE  \E i \in 1 .. k + 1 : Inside(s, more, at, i, x)
    <3>1. k + 1 \in 1 .. k + 1 /\ l + 1 <= x /\ x < l + 1 + n
      BY <1>2, <1>3, <2>2
    <3>2. QED
      BY <1>5, <1>6, <3>1, Zenon DEF Inside
  <2>3. QED
    BY <2>1, <2>2, Zenon DEF Filled
<1>13. NoneEmpty(s, more, k + 1)
  BY <1>5, <1>7, <1>8, Zenon DEF NoneEmpty
<1>14. QED
  BY <1>4, <1>5, <1>6, <1>9, <1>10, <1>11, <1>12, <1>13, Zenon DEF Laid, all, more, at

(* The first m packets, and no part of another, are before place n.        *)
Between(s, datas, k, places, m, n) ==
  /\ \A i \in 1 .. m : places[i] + Size(s, datas[i]) <= n + 1
  /\ \A i \in m + 1 .. k : n < places[i]

(* These packets are removed.                                              *)
PlacesLeft(places, k, m, n) == [i \in 1 .. k - m |-> places[m + i] - n]

(* The other packets, at their new places.                                 *)
LEMMA LaidDropped ==
  ASSUME NEW s \in Streams, NEW bytes, NEW l, NEW datas, NEW k, NEW places, Laid(s, bytes, l, datas, k, places),
         NEW n \in 0 .. l, NEW m \in 0 .. k, Between(s, datas, k, places, m, n)
  PROVE  Laid(s, Drop(bytes, n), l - n, Drop(datas, m), k - m, PlacesLeft(places, k, m, n))
<1> DEFINE rest == Drop(bytes, n)
           others == Drop(datas, m)
           at == PlacesLeft(places, k, m, n)
<1>1. Sized(bytes, Bytes, l) /\ Sized(datas, Datas, k) /\ places \in [1 .. k -> Nat \ {0}]
  BY Zenon DEF Laid
<1>2. l \in Nat /\ k \in Nat /\ \A i \in 1 .. k : datas[i] \in Datas /\ Size(s, datas[i]) \in Nat
  BY <1>1, SizedPlaces, SizeFacts
<1>3. Sized(rest, Bytes, l - n) /\ Shifted(rest, bytes, l - n, n)
  BY <1>1, DropFacts, Zenon
<1>4. Sized(others, Datas, k - m) /\ Shifted(others, datas, k - m, m)
  BY <1>1, DropFacts, Zenon
<1>5. /\ n \in Nat /\ m \in Nat /\ n <= l /\ m <= k
      /\ \A i \in 1 .. k - m : m + i \in 1 .. k /\ m + i \in m + 1 .. k
      /\ \A i \in m + 1 .. k : i \in 1 .. k /\ i - m \in 1 .. k - m /\ m + (i - m) = i
  BY <1>2
<1>6. \A i \in 1 .. k - m : others[i] = datas[m + i]
  BY <1>4, Zenon DEF Shifted
<1>7. \A i \in m + 1 .. k : n < places[i]
  BY Zenon DEF Between
<1>8. \A i \in 1 .. k - m : places[m + i] \in Nat /\ n < places[m + i] /\ Size(s, datas[m + i]) \in Nat
  BY <1>1, <1>2, <1>5, <1>7
<1>9. at \in [1 .. k - m -> Nat \ {0}] /\ \A i \in 1 .. k - m : at[i] = places[m + i] - n
  BY <1>5, <1>8 DEF PlacesLeft
<1>10. /\ Fits(s, l, datas, k, places) /\ Contents(s, bytes, datas, k, places) /\ InOrder(s, datas, k, places)
       /\ Filled(s, bytes, l, datas, k, places) /\ NoneEmpty(s, datas, k)
  BY Zenon DEF Laid
<1> HIDE DEF rest, others, at
<1>11. Fits(s, l - n, others, k - m, at)
  <2>1. ASSUME NEW i \in 1 .. k - m
        PROVE  at[i] + Size(s, others[i]) <= l - n + 1
    <3>1. places[m + i] + Size(s, datas[m + i]) <= l + 1
      BY <1>5, <1>10, Zenon DEF Fits
    <3>2. (places[m + i] - n) + Size(s, datas[m + i]) <= l - n + 1
      BY <1>2, <1>5, <1>8, <3>1
    <3>3. QED
      BY <1>6, <1>9, <3>2, Zenon
  <2>2. QED
    BY <2>1, Zenon DEF Fits
<1>12. Contents(s, rest, others, k - m, at)
  <2>1. ASSUME NEW i \in 1 .. k - m, NEW j \in 1 .. Size(s, datas[m + i])
        PROVE  rest[((places[m + i] - n) - 1) + j] = Whole(s, datas[m + i])[j]
    <3>1. places[m + i] + Size(s, datas[m + i]) <= l + 1
      BY <1>5, <1>10, Zenon DEF Fits
    <3>2. /\ ((places[m + i] - n) - 1) + j \in 1 .. l - n
          /\ n + (((places[m + i] - n) - 1) + j) = (places[m + i] - 1) + j
      BY <1>2, <1>5, <1>8, <3>1
    <3>3. bytes[(places[m + i] - 1) + j] = Whole(s, datas[m + i])[j]
      BY <1>5, <1>10, Zenon DEF Contents, Shifted
    <3>4. rest[((places[m + i] - n) - 1) + j] = bytes[n + (((places[m + i] - n) - 1) + j)]
      BY <1>3, <3>2, Zenon DEF Shifted
    <3>5. QED
      BY <3>2, <3>3, <3>4, Zenon
  <2>2. ASSUME NEW i \in 1 .. k - m
        PROVE  Shifted(Whole(s, others[i]), rest, Size(s, others[i]), at[i] - 1)
    <3>1. others[i] = datas[m + i] /\ at[i] = places[m + i] - n
      BY <1>6, <1>9, Zenon
    <3>2. Shifted(Whole(s, datas[m + i]), rest, Size(s, datas[m + i]), (places[m + i] - n) - 1)
      BY <2>1, Zenon DEF Shifted
    <3>3. QED
      BY <3>1, <3>2, Zenon
  <2>3. QED
    BY <2>2, Zenon DEF Contents
<1>13. InOrder(s, others, k - m, at)
  <2>1. ASSUME NEW i \in 1 .. k - m, NEW j \in 1 .. k - m, i < j
        PROVE  at[i] + Size(s, others[i]) <= at[j]
    <3>1. m + i < m + j /\ m + i \in 1 .. k /\ m + j \in 1 .. k
      BY <1>5, <2>1
    <3>2. places[m + i] + Size(s, datas[m + i]) <= places[m + j]
      BY <1>10, <3>1, Zenon DEF InOrder
    <3>3. (places[m + i] - n) + Size(s, datas[m + i]) <= places[m + j] - n
      BY <1>5, <1>8, <3>2
    <3>4. QED
      BY <1>6, <1>9, <3>3, Zenon
  <2>2. QED
    BY <2>1, Zenon DEF InOrder
<1>14. Filled(s, rest, l - n, others, k - m, at)
  <2>1. ASSUME NEW x \in 1 .. l - n, rest[x] \notin Filler(s)
        PROVE  \E i \in 1 .. k - m : Inside(s, others, at, i, x)
    <3>1. n + x \in 1 .. l /\ n < n + x
      BY <1>2, <1>5
    <3>2. rest[x] = bytes[n + x]
      BY <1>3, Zenon DEF Shifted
    <3>3. PICK i \in 1 .. k : Inside(s, datas, places, i, n + x)
      BY <1>10, <2>1, <3>1, <3>2, Zenon DEF Filled
    <3>4. places[i] + Size(s, datas[i]) <= n + 1 => FALSE
      BY <1>1, <1>2, <1>5, <3>3 DEF Inside
    <3>5. i \notin 1 .. m
      BY <3>4, Zenon DEF Between
    <3>6. i \in m + 1 .. k
      BY <1>2, <1>5, <3>5
    <3>7. i - m \in 1 .. k - m /\ m + (i - m) = i
      BY <1>5, <3>6
    <3>8. at[i - m] = places[i] - n /\ others[i - m] = datas[i]
      BY <1>6, <1>9, <3>7, Zenon
    <3>9. places[i] - n <= x /\ x < (places[i] - n) + Size(s, datas[i])
      <4>1. places[i] <= n + x /\ n + x < places[i] + Size(s, datas[i])
        BY <3>3, Zenon DEF Inside
      <4>2. places[i] \in Nat /\ Size(s, datas[i]) \in Nat /\ n \in Nat /\ x \in Nat
        BY <1>1, <1>2, <1>5
      <4>3. QED
        BY <4>1, <4>2
    <3>10. QED
      BY <3>7, <3>8, <3>9, Zenon DEF Inside
  <2>2. QED
    BY <2>1, Zenon DEF Filled
<1>15. NoneEmpty(s, others, k - m)
  BY <1>5, <1>6, <1>10, Zenon DEF NoneEmpty
<1>16. QED
  BY <1>3, <1>4, <1>9, <1>11, <1>12, <1>13, <1>14, <1>15, Zenon DEF Laid, rest, others, at

(* What tryExtractPacket() is to do with data, the first l bytes: take the *)
(* first m packets and the bytes up to place n, and stop without a packet  *)
(* only where the first is not whole.                                      *)
Takes(s, data, l, datas, k, places, result, m, n) ==
  /\ m \in 0 .. k /\ n \in 0 .. l /\ Between(s, datas, k, places, m, n)
  /\ result.rest = Drop(data, n) /\ result.packets = SubSeq(datas, 1, m)
  /\ m = 0 /\ k # 0 => places[1] + Size(s, datas[1]) > l + 1

(* Bytes before the first packet are fillers.                              *)
LEMMA BeforeFirst ==
  ASSUME NEW s \in Streams, NEW bytes, NEW l, NEW datas, NEW k, NEW places, Laid(s, bytes, l, datas, k, places),
         NEW x \in 1 .. l, k # 0 => x < places[1]
  PROVE  bytes[x] \in Filler(s)
<1>1. Sized(datas, Datas, k) /\ places \in [1 .. k -> Nat \ {0}] /\ Filled(s, bytes, l, datas, k, places) /\ InOrder(s, datas, k, places)
  BY Zenon DEF Laid
<1>2. k \in Nat /\ \A i \in 1 .. k : datas[i] \in Datas /\ Size(s, datas[i]) \in Nat
  BY <1>1, SizedPlaces, SizeFacts
<1>3. ASSUME NEW i \in 1 .. k, Inside(s, datas, places, i, x)
      PROVE  FALSE
  <2>1. k # 0 /\ 1 \in 1 .. k /\ (i = 1 \/ 1 < i)
    BY <1>2
  <2>2. 1 < i => places[1] + Size(s, datas[1]) <= places[i]
    BY <1>1, <2>1, Zenon DEF InOrder
  <2>3. places[1] <= places[i]
    BY <1>1, <1>2, <2>1, <2>2
  <2>4. QED
    BY <1>1, <1>2, <1>3, <2>1, <2>3 DEF Inside
<1>4. QED
  BY <1>1, <1>3, Zenon DEF Filled

(* The first packet is before the others.                                  *)
LEMMA FirstIsFirst ==
  ASSUME NEW s \in Streams, NEW bytes, NEW l, NEW datas, NEW k, NEW places, Laid(s, bytes, l, datas, k, places), k # 0
  PROVE  /\ 1 \in 1 .. k /\ datas[1] \in Datas /\ places[1] \in Nat \ {0}
         /\ \A i \in 1 .. k : places[1] <= places[i]
         /\ \A i \in 2 .. k : places[1] + Size(s, datas[1]) <= places[i]
         /\ places[1] + Size(s, datas[1]) <= l + 1
         /\ Shifted(Whole(s, datas[1]), bytes, Size(s, datas[1]), places[1] - 1)
<1>1. /\ Sized(datas, Datas, k) /\ places \in [1 .. k -> Nat \ {0}] /\ InOrder(s, datas, k, places)
      /\ Fits(s, l, datas, k, places) /\ Contents(s, bytes, datas, k, places)
  BY Zenon DEF Laid
<1>2. k \in Nat /\ \A i \in 1 .. k : datas[i] \in Datas /\ Size(s, datas[i]) \in Nat
  BY <1>1, SizedPlaces, SizeFacts
<1>3. 1 \in 1 .. k /\ (\A i \in 1 .. k : i = 1 \/ i \in 2 .. k) /\ \A i \in 2 .. k : i \in 1 .. k /\ 1 < i
  BY <1>2
<1>4. \A i \in 2 .. k : places[1] + Size(s, datas[1]) <= places[i]
  BY <1>1, <1>3, Zenon DEF InOrder
<1>5. \A i \in 2 .. k : places[1] <= places[i]
  BY <1>1, <1>2, <1>3, <1>4
<1>6. places[1] <= places[1] /\ places[1] \in Nat \ {0}
  BY <1>1, <1>3
<1>7. \A i \in 1 .. k : places[1] <= places[i]
  BY <1>3, <1>5, <1>6, Zenon
<1>8. QED
  BY <1>1, <1>2, <1>3, <1>4, <1>6, <1>7, Zenon DEF Fits, Contents

(* The first elements of a sequence, none and one.                         *)
LEMMA FirstElements ==
  ASSUME NEW S, NEW s, NEW k, Sized(s, S, k)
  PROVE  SubSeq(s, 1, 0) = <<>> /\ (k # 0 => SubSeq(s, 1, 1) = <<s[1]>>)
<1>1. k \in Nat /\ 0 \in 0 .. k /\ 0 \in 0 .. k /\ 0 + 1 = 1 /\ 0 - 0 = 0 /\ 1 - 0 = 1
  BY DEF Sized
<1>2. Sized(SubSeq(s, 0 + 1, 0), S, 0 - 0)
  BY <1>1, CutFacts, Zenon
<1>3. SubSeq(s, 1, 0) \in Seq(S) /\ Len(SubSeq(s, 1, 0)) = 0
  BY <1>1, <1>2, Zenon DEF Sized
<1>4. SubSeq(s, 1, 0) = <<>>
  BY <1>3
<1>5. CASE k # 0
  <2>1. 1 \in 0 .. k /\ s[1] \in S /\ 0 + 1 = 1
    BY <1>1, <1>5, SizedPlaces
  <2>2. Sized(SubSeq(s, 0 + 1, 1), S, 1 - 0) /\ Shifted(SubSeq(s, 0 + 1, 1), s, 1 - 0, 0)
    BY <1>1, <2>1, CutFacts
  <2>3. Sized(SubSeq(s, 1, 1), S, 1) /\ SubSeq(s, 1, 1)[1] = s[1]
    BY <1>1, <2>2 DEF Shifted
  <2>4. Sized(<<s[1]>>, S, 1)
    BY <2>1 DEF Sized
  <2>5. \A i \in 1 .. 1 : SubSeq(s, 1, 1)[i] = <<s[1]>>[i]
    BY <2>3
  <2>6. QED
    BY <1>4, <2>3, <2>4, <2>5, SizedSame
<1>6. QED
  BY <1>4, <1>5

(* What is removed in two steps.                                           *)
LEMMA DropDrop ==
  ASSUME NEW S, NEW s, NEW l, Sized(s, S, l), NEW a \in 0 .. l, NEW b \in 0 .. l - a
  PROVE  Drop(Drop(s, a), b) = Drop(s, a + b)
<1>1. l \in Nat /\ a + b \in 0 .. l /\ l - a - b = l - (a + b) /\ a \in Nat /\ b \in Nat
  BY DEF Sized
<1>2. Sized(Drop(s, a), S, l - a) /\ Shifted(Drop(s, a), s, l - a, a)
  BY DropFacts, Zenon
<1> DEFINE d == Drop(s, a)
<1> HIDE DEF d
<1>3. Sized(Drop(d, b), S, l - a - b) /\ Shifted(Drop(d, b), d, l - a - b, b)
  BY <1>2, DropFacts, Zenon DEF d
<1>4. Sized(Drop(s, a + b), S, l - (a + b)) /\ Shifted(Drop(s, a + b), s, l - (a + b), a + b)
  BY <1>1, DropFacts, Zenon
<1>5. ASSUME NEW i \in 1 .. l - (a + b)
      PROVE  Drop(d, b)[i] = Drop(s, a + b)[i]
  <2>1. b + i \in 1 .. l - a /\ a + (b + i) = (a + b) + i /\ i \in 1 .. l - a - b
    BY <1>1
  <2>2. Drop(d, b)[i] = d[b + i] /\ d[b + i] = s[a + (b + i)]
    BY <1>2, <1>3, <2>1, Zenon DEF Shifted, d
  <2>3. Drop(s, a + b)[i] = s[(a + b) + i]
    BY <1>4, Zenon DEF Shifted
  <2>4. QED
    BY <2>1, <2>2, <2>3, Zenon
<1>6. Drop(d, b) = Drop(s, a + b)
  BY <1>1, <1>3, <1>4, <1>5, SizedSame, Zenon
<1>7. QED
  BY <1>6 DEF d

(***************************************************************************)
(* What tryExtractPacket() takes.                                          *)
(***************************************************************************)
(* A whole header at the start of the data.                                *)
LEMMA BodyTakes ==
  ASSUME stream \in Streams, stream.factory # "lines",
         NEW data, NEW w, NEW l, NEW v, NEW datas, NEW k, NEW places,
         Sized(data, Bytes, l), Sized(w, Bytes, v), Laid(stream, data \o w, l + v, datas, k, places),
         k # 0, NEW first \in Nat, first = places[1] - 1, first + Offset(stream) <= l
  PROVE  \E m, n \in Nat : Takes(stream, data, l, datas, k, places, Body(Drop(data, first)), m, n)
<1> DEFINE rest == Drop(data, first)
           h == Offset(stream)
           d == datas[1]
           length == Len(d)
           body == SubSeq(rest, h + 1, h + length)
<1>1. /\ 1 \in 1 .. k /\ d \in Datas /\ places[1] \in Nat \ {0}
      /\ \A i \in 1 .. k : places[1] <= places[i]
      /\ \A i \in 2 .. k : places[1] + Size(stream, d) <= places[i]
      /\ Shifted(Whole(stream, d), data \o w, Size(stream, d), places[1] - 1)
  BY FirstIsFirst, Zenon
<1>2. /\ l \in Nat /\ v \in Nat /\ k \in Nat
      /\ Joined(data \o w, data, l, w, v) /\ Sized(datas, Datas, k)
  BY JoinPlaces DEF Laid, Sized
<1>3. h \in Nat /\ h >= 4 /\ first + h <= l /\ h = HeaderSize /\ length \in 0 .. 2 /\ Size(stream, d) = h + length
  BY <1>1, StreamFacts, DataFacts DEF Offset, HeaderSize, Size, Trailer
<1>4. first \in 0 .. l
  BY <1>2, <1>3
<1>5. Sized(rest, Bytes, l - first) /\ Shifted(rest, data, l - first, first)
  BY <1>4, DropFacts, Zenon
<1>6. Sized(Whole(stream, d), Bytes, h + length) /\ Shifted(d, Whole(stream, d), length, h)
  BY <1>1, <1>3, WholeFacts
<1>7. Whole(stream, d)[h - 1] = length /\ Whole(stream, d)[h] = Crc16(d)
  BY <1>1, StreamFacts, WholeFacts DEF Offset
<1> HIDE DEF rest, h, d, length, body
<1>8. ASSUME NEW j \in 1 .. h + length, j <= l - first
      PROVE  rest[j] = Whole(stream, d)[j]
  <2>1. j \in 1 .. l - first /\ first + j \in 1 .. l /\ (places[1] - 1) + j = first + j
    BY <1>1, <1>2, <1>3, <1>4, <1>8
  <2>2. Whole(stream, d)[j] = (data \o w)[first + j]
    BY <1>1, <1>3, <2>1, Zenon DEF Shifted
  <2>3. rest[j] = data[first + j]
    BY <1>5, <2>1, Zenon DEF Shifted
  <2>4. QED
    BY <1>2, <2>1, <2>2, <2>3, Zenon DEF Joined
<1>9. rest[h - 1] = length /\ rest[h] = Crc16(d)
  <2>1. h - 1 \in 1 .. h + length /\ h - 1 <= l - first /\ h \in 1 .. h + length /\ h <= l - first
    BY <1>2, <1>3, <1>4
  <2>2. QED
    BY <1>7, <1>8, <2>1, Zenon
<1>10. Len(rest) = l - first
  BY <1>5, Zenon DEF Sized
<1>11. Between(stream, datas, k, places, 0, first)
  <2>1. \A i \in 1 .. k : first < places[i]
    BY <1>1, Sized(datas, Datas, k), places \in [1 .. k -> Nat \ {0}] DEF Laid
  <2>2. 0 + 1 = 1 /\ 1 .. 0 = {}
    OBVIOUS
  <2>3. QED
    BY <2>1, <2>2, Zenon DEF Between
<1>12. HeaderSize = h /\ first \in Nat
  BY <1>3
<1>13. CASE l - first < h + length
  <2>1. Body(rest) = Nothing(rest)
    BY <1>9, <1>10, <1>12, <1>13 DEF Body
  <2>2. Body(rest).rest = rest /\ Body(rest).packets = <<>>
    BY <2>1 DEF Nothing
  <2>3. 0 \in 0 .. k /\ places[1] + Size(stream, d) > l + 1
    BY <1>1, <1>2, <1>3, <1>4, <1>13
  <2>4. SubSeq(datas, 1, 0) = <<>>
    BY <1>2, FirstElements
  <2>5. Takes(stream, data, l, datas, k, places, Body(rest), 0, first)
    BY <1>4, <1>11, <2>2, <2>3, <2>4, Zenon DEF Takes, d, rest
  <2>6. QED
    BY <1>12, <2>5, Zenon DEF rest
<1>14. CASE l - first >= h + length
  <2>1. Sized(body, Bytes, (h + length) - h) /\ Shifted(body, rest, (h + length) - h, h)
    <3>1. h \in 0 .. l - first /\ h + length \in h .. l - first
      BY <1>2, <1>3, <1>4, <1>14
    <3>2. QED
      BY <1>5, <3>1, CutFacts, Zenon DEF body
  <2>2. (h + length) - h = length
    BY <1>3
  <2>3. ASSUME NEW i \in 1 .. length
        PROVE  body[i] = d[i]
    <3>1. h + i \in 1 .. h + length /\ h + i <= l - first
      BY <1>2, <1>3, <1>4, <1>14
    <3>2. body[i] = rest[h + i]
      BY <2>1, <2>2, Zenon DEF Shifted
    <3>3. rest[h + i] = Whole(stream, d)[h + i]
      BY <1>8, <3>1
    <3>4. d[i] = Whole(stream, d)[h + i]
      BY <1>6, Zenon DEF Shifted
    <3>5. QED
      BY <3>2, <3>3, <3>4, Zenon
  <2>4. Sized(d, Bytes, length)
    BY <1>1, DataFacts DEF length
  <2>5. body = d
    BY <2>1, <2>2, <2>3, <2>4, SizedSame, Zenon
  <2> DEFINE n == first + (h + length)
  <2>6. n \in 0 .. l /\ n \in Nat /\ h + length \in 0 .. l - first /\ ~(l - first < h + length)
    BY <1>2, <1>3, <1>4, <1>14
  <2>7. Drop(rest, h + length) = Drop(data, n)
    BY <1>4, <2>6, DropDrop DEF rest
  <2>8. Body(rest) = [packets |-> <<body>>, rest |-> Drop(rest, h + length)]
    BY <1>9, <1>10, <1>12, <2>5, <2>6, Zenon DEF Body, Drop, body
  <2>9. Body(rest).packets = <<d>> /\ Body(rest).rest = Drop(data, n)
    BY <2>5, <2>7, <2>8
  <2>10. SubSeq(datas, 1, 1) = <<d>>
    BY <1>1, <1>2, FirstElements DEF d
  <2>11. Between(stream, datas, k, places, 1, n)
    <3>1. \A i \in 1 .. 1 : i = 1
      OBVIOUS
    <3>2. places[1] + Size(stream, d) <= n + 1 /\ n < places[1] + Size(stream, d)
      BY <1>1, <1>2, <1>3, <1>4
    <3>3. n < places[1] + Size(stream, d) /\ 1 + 1 = 2 /\ \A i \in 2 .. k : places[i] \in Nat
      BY <3>2, <1>2 DEF Laid
    <3>4. \A i \in 2 .. k : n < places[i]
      BY <1>1, <1>3, <2>6, <3>3
    <3>5. QED
      BY <3>1, <3>2, <3>3, <3>4, Zenon DEF Between, d
  <2>12. Takes(stream, data, l, datas, k, places, Body(rest), 1, n)
    <3>1. 1 \in 0 .. k /\ 1 # 0
      BY <1>1, <1>2
    <3>2. QED
      BY <2>6, <2>9, <2>10, <2>11, <3>1, Zenon DEF Takes
  <2>13. QED
    BY <2>6, <2>12, Zenon DEF rest
<1>15. QED
  BY <1>2, <1>3, <1>4, <1>13, <1>14

(* Noise is not mistaken.                                                  *)
LEMMA FillerFacts ==
  ASSUME NoiseHarmless, NEW s \in Streams, NEW byte \in Filler(s)
  PROVE  /\ byte \in 0 .. 9
         /\ s.factory = "frames" => ~(byte < MaximumValue)
         /\ s.factory = "simple" => byte # TAG
         /\ s.factory = "lines" => byte \in {CR, LF}
<1>1. /\ s.factory = "frames" => s.noise \subseteq MaximumValue .. 9
      /\ s.factory = "simple" => TAG \notin s.noise
      /\ s.factory = "lines"  => s.noise \subseteq {CR, LF}
  BY DEF NoiseHarmless
<1>2. s.noise \in SUBSET (0 .. 9)
  BY StreamFacts
<1>3. s.factory # "lines" => byte \in s.noise
  BY DEF Filler
<1>4. s.factory = "lines" => byte \in s.noise \/ byte \in {CR, LF}
  BY DEF Filler
<1>5. CR \in 0 .. 9 /\ LF \in 0 .. 9
  BY DEF CR, LF
<1>6. byte \in 0 .. 9
  BY <1>2, <1>3, <1>4, <1>5
<1>7. s.factory = "frames" => s.factory # "lines"
  OBVIOUS
<1>8. s.factory = "frames" => ~(byte < MaximumValue)
  BY <1>1, <1>3, <1>6, <1>7 DEF MaximumValue
<1>9. s.factory = "simple" => byte # TAG
  BY <1>1, <1>3
<1>10. QED
  BY <1>1, <1>4, <1>6, <1>8, <1>9

(* No packet, and only fillers are removed.                                *)
LEMMA NothingTakes ==
  ASSUME NEW s \in Streams, NEW bytes, NEW all, NEW data, NEW l, NEW datas, NEW k, NEW places, Laid(s, bytes, all, datas, k, places),
         NEW n \in 0 .. l, l \in Nat,
         k # 0 => n < places[1] /\ places[1] + Size(s, datas[1]) > l + 1
  PROVE  \E m, b \in Nat : Takes(s, data, l, datas, k, places, Nothing(Drop(data, n)), m, b)
<1>1. Sized(datas, Datas, k) /\ k \in Nat /\ places \in [1 .. k -> Nat \ {0}]
  BY DEF Laid, Sized
<1>2. \A i \in 1 .. k : n < places[i]
  <2>1. ASSUME NEW i \in 1 .. k
        PROVE  n < places[i]
    <3>1. k # 0 /\ places[i] \in Nat
      BY <1>1
    <3>2. places[1] \in Nat /\ places[1] <= places[i]
      BY <3>1, FirstIsFirst
    <3>3. QED
      BY <3>1, <3>2
  <2>2. QED
    BY <2>1
<1>3. 0 + 1 = 1 /\ 1 .. 0 = {} /\ 0 \in 0 .. k /\ n \in Nat
  BY <1>1
<1>4. Between(s, datas, k, places, 0, n)
  BY <1>2, <1>3, Zenon DEF Between
<1>5. SubSeq(datas, 1, 0) = <<>>
  BY <1>1, FirstElements
<1>6. Nothing(Drop(data, n)).rest = Drop(data, n) /\ Nothing(Drop(data, n)).packets = <<>>
  BY DEF Nothing
<1>7. Takes(s, data, l, datas, k, places, Nothing(Drop(data, n)), 0, n)
  BY <1>3, <1>4, <1>5, <1>6, Zenon DEF Takes
<1>8. QED
  BY <1>3, <1>7

(* What a header's first bytes are, as far as they are in the data.        *)
LEMMA HeaderBytes ==
  ASSUME NEW s \in Streams, NEW data, NEW w, NEW l, NEW v, NEW datas, NEW k, NEW places,
         Sized(data, Bytes, l), Sized(w, Bytes, v), Laid(s, data \o w, l + v, datas, k, places),
         k # 0, NEW j \in 1 .. Size(s, datas[1]), places[1] + (j - 1) <= l
  PROVE  data[places[1] + (j - 1)] = Whole(s, datas[1])[j]
<1>1. /\ 1 \in 1 .. k /\ datas[1] \in Datas /\ places[1] \in Nat \ {0}
      /\ Shifted(Whole(s, datas[1]), data \o w, Size(s, datas[1]), places[1] - 1)
  BY FirstIsFirst, Zenon
<1>2. l \in Nat /\ Joined(data \o w, data, l, w, v) /\ Size(s, datas[1]) \in Nat
  BY <1>1, JoinPlaces, SizeFacts DEF Sized
<1>3. (places[1] - 1) + j = places[1] + (j - 1) /\ places[1] + (j - 1) \in 1 .. l
  BY <1>1, <1>2
<1>4. QED
  BY <1>1, <1>2, <1>3, Zenon DEF Shifted, Joined

(* Bytes before the first packet.                                          *)
LEMMA NoiseBytes ==
  ASSUME NEW s \in Streams, NEW data, NEW w, NEW l, NEW v, NEW datas, NEW k, NEW places,
         Sized(data, Bytes, l), Sized(w, Bytes, v), Laid(s, data \o w, l + v, datas, k, places),
         NEW x \in 1 .. l, k # 0 => x < places[1]
  PROVE  data[x] \in Filler(s)
<1>1. l \in Nat /\ v \in Nat /\ Joined(data \o w, data, l, w, v)
  BY JoinPlaces DEF Sized
<1>2. x \in 1 .. l + v
  BY <1>1
<1>3. (data \o w)[x] \in Filler(s)
  BY <1>2, BeforeFirst, Zenon
<1>4. QED
  BY <1>1, <1>3, Zenon DEF Joined

(* DataFramesPacketFactory.                                                *)
LEMMA FramesTakes ==
  ASSUME NoiseHarmless, stream \in Streams, stream.factory = "frames",
         NEW data, NEW w, NEW l, NEW v, NEW datas, NEW k, NEW places,
         Sized(data, Bytes, l), Sized(w, Bytes, v), Laid(stream, data \o w, l + v, datas, k, places)
  PROVE  \E m, n \in Nat : Takes(stream, data, l, datas, k, places, ExtractFrames(data), m, n)
<1> DEFINE place == IF k = 0 THEN l + v + 1 ELSE places[1]
           garbage == IF l < 5 THEN 0 ELSE IF l - 4 < place - 1 THEN l - 4 ELSE place - 1
           rest == Drop(data, garbage)
<1>1. /\ l \in Nat /\ v \in Nat /\ Len(data) = l /\ HeaderSize = 5 /\ Offset(stream) = 5
      /\ MaximumValue = 3 /\ TAG = 9 /\ PacketNeedsTicket = 1
  BY DEF Sized, HeaderSize, Offset, MaximumValue, TAG, PacketNeedsTicket
<1>2. k # 0 => places[1] \in Nat \ {0} /\ datas[1] \in Datas
  BY FirstIsFirst
<1>3. place \in Nat \ {0} /\ (k # 0 => place = places[1]) /\ (k = 0 => place > l)
  BY <1>1, <1>2
<1>4. ASSUME k # 0
      PROVE  /\ Size(stream, datas[1]) >= 5
             /\ Whole(stream, datas[1])[1] = 9 /\ Whole(stream, datas[1])[2] = 9 /\ Whole(stream, datas[1])[3] = 1
  BY <1>1, <1>2, <1>4, WholeFacts, DataFacts DEF Size, Trailer
<1> HIDE DEF place
<1>5. ASSUME k # 0, NEW j \in 1 .. 3, place + (j - 1) <= l
      PROVE  data[place + (j - 1)] = Whole(stream, datas[1])[j]
  <2>1. Size(stream, datas[1]) \in Nat /\ place = places[1]
    BY <1>2, <1>3, <1>5, SizeFacts
  <2>2. j \in 1 .. Size(stream, datas[1])
    BY <1>4, <1>5, <2>1
  <2>3. QED
    <3>1. k # 0 /\ places[1] + (j - 1) <= l
      BY <1>5, <2>1
    <3>2. data[places[1] + (j - 1)] = Whole(stream, datas[1])[j]
      BY <2>2, <3>1, HeaderBytes
    <3>3. QED
      BY <2>1, <3>2, Zenon
<1>6. ASSUME NEW x \in 1 .. l, x < place
      PROVE  ~(data[x] < MaximumValue)
  <2>1. data[x] \in Filler(stream)
    BY <1>3, <1>6, NoiseBytes
  <2>2. QED
    BY <2>1, FillerFacts
<1>7. garbage \in 0 .. l /\ garbage \in Nat /\ garbage < place
  BY <1>1, <1>3
<1>8. GarbageEnds(data, garbage)
  <2>1. CASE l - garbage < 5
    BY <1>1, <2>1 DEF GarbageEnds
  <2>2. CASE ~(l - garbage < 5)
    <3>1. garbage = place - 1 /\ garbage + 3 = place + (3 - 1) /\ place + (3 - 1) <= l /\ place <= l
      BY <1>1, <1>3, <2>2
    <3>2. k # 0
      BY <1>1, <1>3, <3>1
    <3>3. data[place + (3 - 1)] = 1
      BY <1>4, <1>5, <3>1, <3>2
    <3>4. QED
      BY <1>1, <3>1, <3>3 DEF GarbageEnds
  <2>3. QED
    BY <2>1, <2>2
<1>9. ASSUME NEW j \in 0 .. (garbage - 1)
      PROVE  ~GarbageEnds(data, j)
  <2>1. j + 3 \in 1 .. l /\ ~(l - j < 5) /\ j + 3 < place + 2
    BY <1>1, <1>3, <1>7
  <2>2. CASE j + 3 < place
    BY <1>1, <1>6, <2>1, <2>2 DEF GarbageEnds
  <2>3. CASE j + 3 = place + (1 - 1)
    <3>1. k # 0 /\ place + (1 - 1) <= l
      BY <1>1, <1>3, <2>1, <2>3
    <3>2. data[place + (1 - 1)] = 9
      BY <1>4, <1>5, <3>1
    <3>3. QED
      BY <1>1, <2>1, <2>3, <3>2 DEF GarbageEnds
  <2>4. CASE j + 3 = place + (2 - 1)
    <3>1. k # 0 /\ place + (2 - 1) <= l
      BY <1>1, <1>3, <2>1, <2>4
    <3>2. data[place + (2 - 1)] = 9
      BY <1>4, <1>5, <3>1
    <3>3. QED
      BY <1>1, <2>1, <2>4, <3>2 DEF GarbageEnds
  <2>5. QED
    BY <1>3, <2>1, <2>2, <2>3, <2>4
<1> HIDE DEF garbage
<1>10. Garbage(data) = garbage
  <2> DEFINE Good(g) == GarbageEnds(data, g) /\ \A j \in 0 .. (g - 1) : ~GarbageEnds(data, j)
  <2>1. ASSUME NEW g \in 0 .. Len(data), Good(g)
        PROVE  g = garbage
    <3>1. g < garbage => g \in 0 .. (garbage - 1)
      BY <1>1, <1>7
    <3>2. garbage < g => garbage \in 0 .. (g - 1)
      BY <1>1, <1>7
    <3>3. g < garbage \/ garbage < g \/ g = garbage
      BY <1>1, <1>7
    <3>4. QED
      BY <1>8, <1>9, <2>1, <3>1, <3>2, <3>3, Zenon
  <2>2. garbage \in 0 .. Len(data) /\ Good(garbage)
    BY <1>1, <1>7, <1>8, <1>9
  <2>3. Garbage(data) = CHOOSE g \in 0 .. Len(data) : Good(g)
    BY Zenon DEF Garbage
  <2> HIDE DEF Good
  <2>4. Garbage(data) \in 0 .. Len(data) /\ Good(Garbage(data))
    BY <2>2, <2>3, Zenon
  <2>5. QED
    BY <2>1, <2>4, Zenon
<1>11. ExtractFrames(data) = IF Len(rest) < HeaderSize THEN Nothing(rest) ELSE Body(rest)
  BY <1>10, Zenon DEF ExtractFrames
<1>12. Len(rest) = l - garbage
  <2>1. Sized(rest, Bytes, l - garbage)
    BY <1>7, DropFacts, Zenon
  <2>2. QED
    BY <2>1, Zenon DEF Sized
<1>13. CASE l - garbage < 5
  <2>1. ExtractFrames(data) = Nothing(rest)
    BY <1>1, <1>11, <1>12, <1>13
  <2>2. k # 0 => garbage < places[1] /\ places[1] + Size(stream, datas[1]) > l + 1
    <3>1. SUFFICES ASSUME k # 0 PROVE garbage < places[1] /\ places[1] + Size(stream, datas[1]) > l + 1
      OBVIOUS
    <3>2. Size(stream, datas[1]) \in Nat
      BY <1>2, <3>1, SizeFacts
    <3>3. QED
      BY <1>1, <1>3, <1>4, <1>7, <1>13, <3>1, <3>2 DEF garbage
  <2>3. \E m, b \in Nat : Takes(stream, data, l, datas, k, places, Nothing(Drop(data, garbage)), m, b)
    BY <1>1, <1>7, <2>2, NothingTakes, Zenon
  <2>4. QED
    BY <2>1, <2>3, Zenon
<1>14. CASE ~(l - garbage < 5)
  <2>1. ExtractFrames(data) = Body(rest)
    BY <1>1, <1>11, <1>12, <1>14
  <2>2. garbage = place - 1 /\ place <= l
    BY <1>1, <1>3, <1>14 DEF garbage
  <2>3. k # 0 /\ garbage = places[1] - 1 /\ garbage + Offset(stream) <= l
    BY <1>1, <1>3, <1>7, <1>14, <2>2
  <2>4. stream.factory # "lines"
    OBVIOUS
  <2>5. QED
    BY <1>7, <2>1, <2>3, <2>4, BodyTakes
<1>15. QED
  BY <1>13, <1>14

(* PacketFactorySimple.                                                    *)
LEMMA SimpleTakes ==
  ASSUME NoiseHarmless, stream \in Streams, stream.factory = "simple",
         NEW data, NEW w, NEW l, NEW v, NEW datas, NEW k, NEW places,
         Sized(data, Bytes, l), Sized(w, Bytes, v), Laid(stream, data \o w, l + v, datas, k, places)
  PROVE  \E m, n \in Nat : Takes(stream, data, l, datas, k, places, ExtractSimple(data), m, n)
<1> DEFINE tags == {i \in 1 .. Len(data) : data[i] = TAG}
<1>1. l \in Nat /\ Len(data) = l /\ HeaderSize = 4 /\ Offset(stream) = 4
  BY DEF Sized, HeaderSize, Offset
<1>2. ASSUME k # 0
      PROVE  /\ places[1] \in Nat \ {0} /\ Size(stream, datas[1]) \in Nat /\ Size(stream, datas[1]) >= 4
             /\ places[1] <= l => data[places[1]] = TAG
  <2>1. places[1] \in Nat \ {0} /\ datas[1] \in Datas
    BY <1>2, FirstIsFirst
  <2>2. Size(stream, datas[1]) \in Nat /\ Size(stream, datas[1]) >= 4 /\ Whole(stream, datas[1])[1] = TAG
    BY <1>1, <2>1, SizeFacts, WholeFacts, DataFacts DEF Trailer
  <2>3. 1 \in 1 .. Size(stream, datas[1]) /\ places[1] + (1 - 1) = places[1]
    BY <2>1, <2>2
  <2>4. places[1] + (1 - 1) <= l => data[places[1] + (1 - 1)] = Whole(stream, datas[1])[1]
    BY <1>2, <2>3, HeaderBytes
  <2>5. QED
    BY <2>1, <2>2, <2>3, <2>4
<1>3. \A x \in 1 .. l : data[x] = TAG => k # 0 /\ places[1] <= x
  <2>1. ASSUME NEW x \in 1 .. l, data[x] = TAG, k # 0 => x < places[1]
        PROVE  FALSE
    <3>1. data[x] \in Filler(stream)
      BY <2>1, NoiseBytes
    <3>2. QED
      BY <2>1, <3>1, FillerFacts
  <2>2. ASSUME NEW x \in 1 .. l, data[x] = TAG
        PROVE  k # 0 /\ places[1] <= x
    <3>1. k # 0
      BY <2>1, <2>2
    <3>2. QED
      BY <1>1, <1>2, <2>1, <2>2, <3>1
  <2>3. QED
    BY <2>2
<1>4. CASE ~Contains(data, TAG)
  <2>1. ExtractSimple(data) = Nothing(data)
    BY <1>4 DEF ExtractSimple
  <2>2. \A x \in 1 .. l : data[x] # TAG
    BY <1>1, <1>4, Zenon DEF Contains
  <2>3. k # 0 => 0 < places[1] /\ places[1] + Size(stream, datas[1]) > l + 1
    <3>1. SUFFICES ASSUME k # 0 PROVE 0 < places[1] /\ places[1] + Size(stream, datas[1]) > l + 1
      OBVIOUS
    <3>2. places[1] <= l => places[1] \in 1 .. l
      BY <1>1, <1>2, <3>1
    <3>3. ~(places[1] <= l)
      BY <1>2, <2>2, <3>1, <3>2
    <3>4. QED
      BY <1>1, <1>2, <3>1, <3>3
  <2>4. Drop(data, 0) = data /\ 0 \in 0 .. l
    BY <1>1 DEF Drop, Sized
  <2>5. \E m, b \in Nat : Takes(stream, data, l, datas, k, places, Nothing(Drop(data, 0)), m, b)
    BY <1>1, <2>3, <2>4, NothingTakes, Zenon
  <2>6. QED
    BY <2>1, <2>4, <2>5, Zenon
<1>5. CASE Contains(data, TAG)
  <2>1. PICK x \in 1 .. l : data[x] = TAG
    BY <1>1, <1>5, Zenon DEF Contains
  <2>2. k # 0 /\ places[1] <= l /\ places[1] \in 1 .. l /\ data[places[1]] = TAG
    BY <1>1, <1>2, <1>3, <2>1
  <2>3. places[1] \in tags /\ tags # {} /\ \A i \in tags : places[1] <= i /\ i \in Nat
    BY <1>1, <1>3, <2>2
  <2>4. SelectInSeq(data, LAMBDA byte : byte = TAG) = IF tags # {} THEN Min(tags) ELSE 0
    BY DEF SelectInSeq
  <2> HIDE DEF tags
  <2>5. Min(tags) = places[1]
    BY <2>3 DEF Min
  <2> DEFINE first == places[1] - 1
             rest == Drop(data, first)
  <2>6. ExtractSimple(data) = IF Len(rest) < HeaderSize THEN Nothing(rest) ELSE Body(rest)
    BY <1>5, <2>3, <2>4, <2>5 DEF ExtractSimple
  <2>7. first \in 0 .. l /\ first \in Nat /\ first < places[1]
    BY <1>1, <2>2
  <2>8. Len(rest) = l - first
    <3>1. Sized(rest, Bytes, l - first)
      BY <2>7, DropFacts, Zenon
    <3>2. QED
      BY <3>1, Zenon DEF Sized
  <2>9. CASE l - first < 4
    <3>1. ExtractSimple(data) = Nothing(rest)
      BY <1>1, <2>6, <2>8, <2>9
    <3>2. places[1] + Size(stream, datas[1]) > l + 1
      BY <1>1, <1>2, <2>2, <2>9
    <3>3. \E m, b \in Nat : Takes(stream, data, l, datas, k, places, Nothing(Drop(data, first)), m, b)
      BY <1>1, <2>7, <3>2, NothingTakes, Zenon
    <3>4. QED
      BY <3>1, <3>3, Zenon
  <2>10. CASE ~(l - first < 4)
    <3>1. ExtractSimple(data) = Body(rest)
      BY <1>1, <2>6, <2>8, <2>10
    <3>2. first + Offset(stream) <= l /\ stream.factory # "lines"
      BY <1>1, <2>7, <2>10
    <3>3. QED
      BY <2>2, <2>7, <3>1, <3>2, BodyTakes
  <2>11. QED
    BY <2>9, <2>10
<1>6. QED
  BY <1>4, <1>5

(***************************************************************************)
(* Lines.                                                                  *)
(***************************************************************************)
(* The greatest of a finite set of numbers.                                *)
LEMMA GreatestIn ==
  ASSUME NEW S \in SUBSET Nat, IsFiniteSet(S), S # {}
  PROVE  Max(S) \in S /\ \A i \in S : i <= Max(S)
<1> DEFINE c == Cardinality(S)
           g == Place(S, c)
<1>1. c \in Nat /\ c # 0
  BY FS_CardinalityType, FS_EmptySet
<1>2. c \in 1 .. c
  BY <1>1
<1>3. g \in S
  BY <1>2, PlaceFacts
<1>4. ASSUME NEW i \in S
      PROVE  i <= g
  <2>1. PICK n \in 1 .. c : i = Place(S, n)
    BY PlaceFacts
  <2>2. n < c \/ n = c
    BY <1>1
  <2>3. n < c => i < g
    BY <1>2, <2>1, PlaceFacts
  <2>4. i \in Nat /\ g \in Nat
    BY <1>3
  <2> HIDE DEF g, c
  <2>5. QED
    BY <2>1, <2>2, <2>3, <2>4 DEF g
<1> HIDE DEF g, c
<1>5. QED
  BY <1>3, <1>4 DEF Max

(* All the places, rising.                                                 *)
Rises(f, m, kept) ==
  /\ m \in Nat /\ f \in [1 .. m -> kept]
  /\ \A i, j \in 1 .. m : i < j => f[i] < f[j]
  /\ \A e \in kept : \E i \in 1 .. m : e = f[i]

(* A sublist by a rising row of its places.                                *)
LEMMA SublistOfPlaces ==
  ASSUME NEW S, NEW list, NEW l, Sized(list, S, l), NEW kept \in SUBSET (1 .. l), NEW f, NEW m, Rises(f, m, kept)
  PROVE  Sized(Sublist(list, kept), S, m) /\ \A i \in 1 .. m : Sublist(list, kept)[i] = list[f[i]]
<1>1. l \in Nat /\ kept \in SUBSET Nat /\ IsFiniteSet(kept) /\ list \in Seq(S) /\ kept \in SUBSET DOMAIN list
  <2>1. l \in Nat /\ list \in Seq(S) /\ DOMAIN list = 1 .. l
    BY SizedPlaces DEF Sized
  <2>2. IsFiniteSet(1 .. l)
    BY <2>1, IntervalSize
  <2>3. IsFiniteSet(kept)
    BY <2>2, FS_Subset
  <2>4. QED
    BY <2>1, <2>3
<1>0. /\ m \in Nat /\ \A i \in 1 .. m : f[i] \in kept /\ f[i] \in Nat
      /\ f \in [1 .. m -> kept]
      /\ \A i, j \in 1 .. m : i < j => f[i] < f[j]
      /\ \A e \in kept : \E i \in 1 .. m : e = f[i]
  BY <1>1 DEF Rises
<1>2. ASSUME NEW i \in 1 .. m
      PROVE  Rank(kept, f[i]) = i
  <2> DEFINE below == {e \in kept : e <= f[i]}
             g == [j \in 1 .. i |-> f[j]]
  <2>1. /\ \A j \in 1 .. i : j \in 1 .. m /\ (j = i \/ j < i)
        /\ \A j \in 1 .. m : j \notin 1 .. i => i < j
        /\ \A j, k \in 1 .. i : j = k \/ j < k \/ k < j
        /\ i \in Nat
    BY <1>0
  <2>2. \A j \in 1 .. i : f[j] \in below
    <3>1. ASSUME NEW j \in 1 .. i
          PROVE  f[j] <= f[i]
      <4>1. f[j] \in Nat /\ f[i] \in Nat /\ (j = i \/ j < i) /\ (j < i => f[j] < f[i])
        BY <1>0, <2>1
      <4>2. QED
        BY <4>1
    <3>2. QED
      BY <1>0, <2>1, <3>1
  <2>3. \A e \in below : \E j \in 1 .. i : e = f[j]
    <3>1. ASSUME NEW e \in below
          PROVE  \E j \in 1 .. i : e = f[j]
      <4>1. PICK j \in 1 .. m : e = f[j]
        BY <1>0
      <4>2. i < j => f[i] < f[j]
        BY <1>0
      <4>3. f[j] <= f[i] /\ f[i] \in Nat /\ f[j] \in Nat
        BY <1>0, <4>1
      <4>4. j \in 1 .. i
        BY <2>1, <4>2, <4>3
      <4>5. QED
        BY <4>1, <4>4
    <3>2. QED
      BY <3>1
  <2>4. \A j, k \in 1 .. i : j # k => f[j] # f[k]
    <3>1. ASSUME NEW j \in 1 .. i, NEW k \in 1 .. i, j < k
          PROVE  f[j] # f[k]
      <4>1. f[j] < f[k] /\ f[j] \in Nat /\ f[k] \in Nat
        BY <1>0, <2>1, <3>1
      <4>2. QED
        BY <4>1
    <3>2. QED
      BY <2>1, <3>1, Zenon
  <2> HIDE DEF below
  <2>5. g \in Bijection(1 .. i, below)
    BY <2>2, <2>3, <2>4 DEF Bijection, Injection, Surjection, IsInjective
  <2>6. IsFiniteSet(1 .. i) /\ Cardinality(1 .. i) = i
    BY <2>1, IntervalSize
  <2>7. Cardinality(below) = i
    BY <2>5, <2>6, FS_Bijection DEF ExistsBijection
  <2>8. QED
    BY <2>7 DEF below, Rank
<1>3. Cardinality(kept) = m
  <2>1. \A i, j \in 1 .. m : i = j \/ i < j \/ j < i
    OBVIOUS
  <2>2. \A i, j \in 1 .. m : i # j => f[i] # f[j]
    <3>1. ASSUME NEW i \in 1 .. m, NEW j \in 1 .. m, i < j
          PROVE  f[i] # f[j]
      <4>1. f[i] < f[j] /\ f[i] \in Nat /\ f[j] \in Nat
        BY <1>0, <3>1
      <4>2. QED
        BY <4>1
    <3>2. QED
      BY <2>1, <3>1, Zenon
  <2>3. f \in Bijection(1 .. m, kept)
    BY <1>0, <2>2 DEF Bijection, Injection, Surjection, IsInjective
  <2>4. IsFiniteSet(1 .. m) /\ Cardinality(1 .. m) = m
    BY <1>0, IntervalSize
  <2>5. QED
    BY <2>3, <2>4, FS_Bijection DEF ExistsBijection
<1>4. ASSUME NEW i \in 1 .. m
      PROVE  Place(kept, i) = f[i]
  <2>1. f[i] \in kept /\ Rank(kept, f[i]) = i
    BY <1>0, <1>2
  <2>2. Place(kept, i) \in kept /\ Rank(kept, Place(kept, i)) = i
    BY <2>1, Zenon DEF Place, Rank
  <2>3. PICK j \in 1 .. m : Place(kept, i) = f[j]
    BY <1>0, <2>2
  <2>4. Rank(kept, f[j]) = j
    BY <1>2
  <2>5. QED
    BY <2>2, <2>3, <2>4, Zenon
<1>5. /\ Sublist(list, kept) \in Seq(S) /\ Len(Sublist(list, kept)) = Cardinality(kept)
      /\ \A n \in 1 .. Cardinality(kept) : Sublist(list, kept)[n] = list[Place(kept, n)]
  <2>1. Sublist(list, kept) \in Seq(S)
    BY <1>1, SublistFacts, Zenon
  <2>2. Len(Sublist(list, kept)) = Cardinality(kept)
    BY <1>1, SublistFacts, Zenon
  <2>3. \A n \in 1 .. Cardinality(kept) : Sublist(list, kept)[n] = list[Place(kept, n)]
    BY <1>1, SublistFacts, Zenon
  <2>4. QED
    BY <2>1, <2>2, <2>3
<1>6. QED
  BY <1>0, <1>3, <1>4, <1>5, Zenon DEF Sized

(* A list's sublist when an element is appended, at place n.               *)
Grows(S, list, n, kept, e) ==
  /\ Sublist(list, kept) \in Seq(S)
  /\ Sublist(Append(list, e), kept) = Sublist(list, kept)
  /\ Sublist(Append(list, e), kept \cup {n}) = Append(Sublist(list, kept), e)

(* The sublist of a list with an element more.                             *)
LEMMA SublistAppended ==
  ASSUME NEW S, NEW list, NEW l, Sized(list, S, l), NEW kept \in SUBSET (1 .. l), NEW e \in S
  PROVE  Grows(S, list, l + 1, kept, e)
<1> DEFINE more == Append(list, e)
           c == Cardinality(kept)
           f == [i \in 1 .. c |-> Place(kept, i)]
           g == [i \in 1 .. c + 1 |-> IF i = c + 1 THEN l + 1 ELSE Place(kept, i)]
           s == Sublist(list, kept)
<1>1. /\ l \in Nat /\ list \in Seq(S) /\ DOMAIN list = 1 .. l /\ kept \in SUBSET Nat /\ kept \in SUBSET DOMAIN list
  BY SizedPlaces DEF Sized
<1>2. IsFiniteSet(kept) /\ c \in Nat /\ Sized(s, S, c)
  BY <1>1, SublistFacts DEF Sized
<1>3. /\ \A n \in 1 .. c : Place(kept, n) \in kept
      /\ \A m, n \in 1 .. c : m < n => Place(kept, m) < Place(kept, n)
      /\ \A i \in kept : \E n \in 1 .. c : i = Place(kept, n)
  BY <1>1, <1>2, PlaceFacts
<1>4. Sized(more, S, l + 1) /\ more[l + 1] = e /\ \A i \in 1 .. l : more[i] = list[i]
  BY <1>1, AppendFacts DEF Sized
<1> HIDE DEF more, c, s
<1>5. \A i \in 1 .. c : s[i] = list[Place(kept, i)] /\ list[Place(kept, i)] = more[Place(kept, i)]
  <2>1. \A i \in 1 .. c : s[i] = list[Place(kept, i)]
    BY <1>1, SublistFacts, Zenon DEF s, c
  <2>2. QED
    BY <1>3, <1>4, <2>1
<1>6. f \in [1 .. c -> kept] /\ \A i \in 1 .. c : f[i] = Place(kept, i)
  BY <1>3
<1> HIDE DEF f
<1>7. Rises(f, c, kept)
  BY <1>2, <1>3, <1>6, Zenon DEF Rises
<1>8. kept \in SUBSET (1 .. l + 1)
  BY <1>1
<1>9. Sized(Sublist(more, kept), S, c) /\ \A i \in 1 .. c : Sublist(more, kept)[i] = more[f[i]]
  BY <1>4, <1>7, <1>8, SublistOfPlaces
<1>10. Sublist(more, kept) = s
  BY <1>2, <1>5, <1>6, <1>9, SizedSame
<1> DEFINE kept2 == kept \cup {l + 1}
<1>11. \A i \in 1 .. c + 1 : i = c + 1 \/ i \in 1 .. c
  BY <1>2
<1>12. /\ kept2 \in SUBSET (1 .. l + 1) /\ g \in [1 .. c + 1 -> kept2]
       /\ g[c + 1] = l + 1 /\ \A i \in 1 .. c : g[i] = Place(kept, i)
  BY <1>1, <1>2, <1>3, <1>8, <1>11
<1> HIDE DEF g
<1>13. \A i, j \in 1 .. c + 1 : i < j => g[i] < g[j]
  <2>1. ASSUME NEW i \in 1 .. c + 1, NEW j \in 1 .. c + 1, i < j
        PROVE  g[i] < g[j]
    <3>1. i \in 1 .. c /\ g[i] = Place(kept, i) /\ g[i] \in 1 .. l
      BY <1>2, <1>3, <1>12, <2>1
    <3>2. CASE j = c + 1
      BY <1>1, <1>12, <3>1, <3>2
    <3>3. CASE j \in 1 .. c
      BY <1>3, <1>12, <2>1, <3>1, <3>3
    <3>4. QED
      BY <1>11, <3>2, <3>3
  <2>2. QED
    BY <2>1
<1>14. \A i \in kept2 : \E n \in 1 .. c + 1 : i = g[n]
  <2>1. \A n \in 1 .. c : n \in 1 .. c + 1
    BY <1>2
  <2>2. c + 1 \in 1 .. c + 1
    BY <1>2
  <2>3. QED
    BY <1>3, <1>12, <2>1, <2>2
<1> HIDE DEF kept2
<1>15. /\ Sized(Sublist(more, kept2), S, c + 1)
       /\ \A i \in 1 .. c + 1 : Sublist(more, kept2)[i] = more[g[i]]
  <2>1. c + 1 \in Nat
    BY <1>2
  <2>2. Rises(g, c + 1, kept2)
    BY <1>12, <1>13, <1>14, <2>1, Zenon DEF Rises
  <2>3. Sized(more, S, l + 1) /\ kept2 \in SUBSET (1 .. l + 1)
    BY <1>4, <1>12
  <2>4. QED
    BY <2>2, <2>3, SublistOfPlaces
<1>16. Sized(Append(s, e), S, c + 1) /\ Append(s, e)[c + 1] = e /\ \A i \in 1 .. c : Append(s, e)[i] = s[i]
  <2>1. s \in Seq(S) /\ Len(s) = c /\ c + 1 \in Nat
    BY <1>2 DEF Sized
  <2>2. QED
    BY <2>1, AppendFacts DEF Sized
<1>17. \A i \in 1 .. c + 1 : Sublist(more, kept2)[i] = Append(s, e)[i]
  <2>1. Sublist(more, kept2)[c + 1] = e
    <3>1. c + 1 \in 1 .. c + 1
      BY <1>2
    <3>2. QED
      BY <1>4, <1>12, <1>15, <3>1
  <2>2. ASSUME NEW i \in 1 .. c
        PROVE  Sublist(more, kept2)[i] = s[i]
    <3>1. i \in 1 .. c + 1
      BY <1>2
    <3>2. QED
      BY <1>5, <1>12, <1>15, <3>1, Zenon
  <2>3. QED
    BY <1>11, <1>16, <2>1, <2>2, Zenon
<1>18. Sublist(more, kept2) = Append(s, e)
  BY <1>15, <1>16, <1>17, SizedSame
<1>19. QED
  BY <1>2, <1>10, <1>18 DEF Sized, Grows, s, more, kept2

(* The last end of a line before a place.                                  *)
LEMMA EndBeforeFacts ==
  ASSUME NEW data, NEW l, Sized(data, Bytes, l), NEW i \in 1 .. l + 1
  PROVE  /\ EndBefore(data, i) \in 0 .. i - 1
         /\ EndBefore(data, i) = 0 \/ EndBefore(data, i) \in LineEnds(data)
         /\ \A e \in LineEnds(data) : e < i => e <= EndBefore(data, i)
<1> DEFINE ends == {0} \cup {e \in LineEnds(data) : e < i}
<1>1. l \in Nat /\ LineEnds(data) \in SUBSET (1 .. l) /\ i \in Nat
  BY SizedPlaces DEF LineEnds
<1>2. ends \in SUBSET Nat /\ ends # {} /\ ends \in SUBSET (0 .. l) /\ 0 .. l \in SUBSET Int
  BY <1>1
<1>3. IsFiniteSet(0 .. l)
  BY <1>1, FS_Interval, 0 \in Int, l \in Int
<1>4. IsFiniteSet(ends)
  BY <1>2, <1>3, FS_Subset
<1>5. EndBefore(data, i) = Max(ends)
  BY DEF EndBefore
<1> HIDE DEF ends
<1>6. Max(ends) \in ends /\ \A e \in ends : e <= Max(ends)
  BY <1>2, <1>4, GreatestIn
<1>7. QED
  BY <1>1, <1>5, <1>6 DEF ends

(* Where the CR of a line is.                                              *)
EndOf(datas, places, i) == places[i] + Len(datas[i])

(* The lines' places, seen from the ends in the first l bytes.             *)
LinePlaces(data, l, datas, k, places) ==
  /\ k \in Nat /\ \A i \in 1 .. k : datas[i] \in Datas /\ Len(datas[i]) \in 1 .. 2 /\ places[i] \in Nat \ {0}
  /\ \A i \in 1 .. k : \A x \in 1 .. l :
       places[i] <= x /\ x < EndOf(datas, places, i) => x \notin LineEnds(data) /\ data[x] = datas[i][x - (places[i] - 1)]
  /\ \A i \in 1 .. k : EndOf(datas, places, i) <= l => EndOf(datas, places, i) \in LineEnds(data)
  /\ \A x \in 1 .. l : x \in LineEnds(data) \/ \E i \in 1 .. k : places[i] <= x /\ x < EndOf(datas, places, i)
  /\ \A i, j \in 1 .. k : i < j => EndOf(datas, places, i) < places[j]

(* Packets of the factory of lines, by the ends of lines.                  *)
LEMMA LinesArePlaced ==
  ASSUME NoiseHarmless, NEW s \in Streams, s.factory = "lines",
         NEW data, NEW w, NEW l, NEW v, NEW datas, NEW k, NEW places,
         Sized(data, Bytes, l), Sized(w, Bytes, v), Laid(s, data \o w, l + v, datas, k, places)
  PROVE  LinePlaces(data, l, datas, k, places)
<1>1. /\ l \in Nat /\ v \in Nat /\ Joined(data \o w, data, l, w, v) /\ DOMAIN data = 1 .. l
  BY JoinPlaces, SizedPlaces DEF Sized
<1>2. /\ Sized(datas, Datas, k) /\ places \in [1 .. k -> Nat \ {0}]
      /\ Fits(s, l + v, datas, k, places) /\ Contents(s, data \o w, datas, k, places) /\ InOrder(s, datas, k, places)
      /\ Filled(s, data \o w, l + v, datas, k, places) /\ NoneEmpty(s, datas, k)
  BY Zenon DEF Laid
<1>3. k \in Nat /\ \A i \in 1 .. k : datas[i] \in Datas
  BY <1>2, SizedPlaces
<1>4. ASSUME NEW i \in 1 .. k
      PROVE  /\ Len(datas[i]) \in 1 .. 2 /\ datas[i] \in Seq({0, TAG}) /\ \A j \in 1 .. Len(datas[i]) : datas[i][j] \in {0, TAG}
             /\ Size(s, datas[i]) = Len(datas[i]) + 1 /\ places[i] \in Nat \ {0}
             /\ EndOf(datas, places, i) + 1 = places[i] + Size(s, datas[i])
  <2>1. /\ Len(datas[i]) \in 0 .. 2 /\ datas[i] \in Seq({0, TAG}) /\ \A j \in 1 .. Len(datas[i]) : datas[i][j] \in {0, TAG}
    BY <1>3, DataFacts
  <2>2. datas[i] # <<>>
    BY <1>2 DEF NoneEmpty
  <2>3. Len(datas[i]) # 0
    BY <2>1, <2>2
  <2>4. Size(s, datas[i]) = Len(datas[i]) + 1 /\ places[i] \in Nat \ {0}
    BY <1>2, <2>1 DEF Size, Offset, Trailer
  <2>5. QED
    BY <2>1, <2>3, <2>4 DEF EndOf
<1>5. ASSUME NEW i \in 1 .. k, NEW j \in 1 .. Len(datas[i]) + 1, (places[i] - 1) + j <= l
      PROVE  data[(places[i] - 1) + j] = Whole(s, datas[i])[j]
  <2>1. Shifted(Whole(s, datas[i]), data \o w, Size(s, datas[i]), places[i] - 1)
    BY <1>2 DEF Contents
  <2>2. (places[i] - 1) + j \in 1 .. l
    BY <1>1, <1>4, <1>5
  <2>3. QED
    BY <1>1, <1>4, <2>1, <2>2, Zenon DEF Shifted, Joined
<1>6. ASSUME NEW i \in 1 .. k
      PROVE  /\ Whole(s, datas[i])[Len(datas[i]) + 1] = CR
             /\ \A j \in 1 .. Len(datas[i]) : datas[i][j] = Whole(s, datas[i])[j]
  <2>1. Shifted(datas[i], Whole(s, datas[i]), Len(datas[i]), 0) /\ Whole(s, datas[i])[Len(datas[i]) + 1] = CR
    BY <1>3, WholeFacts DEF Offset
  <2>2. \A j \in 1 .. Len(datas[i]) : 0 + j = j
    BY <1>4
  <2>3. QED
    BY <2>1, <2>2, Zenon DEF Shifted
<1>7. ASSUME NEW i \in 1 .. k, NEW x \in 1 .. l, places[i] <= x, x < EndOf(datas, places, i)
      PROVE  x \notin LineEnds(data) /\ data[x] = datas[i][x - (places[i] - 1)]
  <2> DEFINE j == x - (places[i] - 1)
  <2>1. j \in 1 .. Len(datas[i]) /\ j \in 1 .. Len(datas[i]) + 1 /\ (places[i] - 1) + j = x
    <3>1. x < places[i] + Len(datas[i]) /\ places[i] <= x
      BY <1>7, Zenon DEF EndOf
    <3>2. x \in Nat /\ places[i] \in Nat /\ Len(datas[i]) \in Nat
      BY <1>1, <1>4
    <3>3. QED
      BY <3>1, <3>2, WithinPart, Zenon
  <2> HIDE DEF j
  <2>2. data[x] = datas[i][j]
    <3>1. (places[i] - 1) + j <= l
      <4>1. (places[i] - 1) + j = x /\ x \in 1 .. l /\ l \in Nat
        BY <1>1, <2>1, Zenon
      <4>2. QED
        BY <4>1
    <3>2. data[(places[i] - 1) + j] = Whole(s, datas[i])[j]
      BY <1>5, <2>1, <3>1, Zenon
    <3>3. datas[i][j] = Whole(s, datas[i])[j]
      BY <1>6, <2>1
    <3>4. QED
      BY <2>1, <3>2, <3>3
  <2>3. datas[i][j] \in {0, TAG}
    BY <1>4, <2>1, Zenon
  <2>4. data[x] \in {0, TAG}
    BY <2>2, <2>3, Zenon
  <2>5. 0 \notin {CR, LF} /\ TAG \notin {CR, LF}
    BY DEF CR, LF, TAG
  <2>6. data[x] \notin {CR, LF}
    BY <2>4, <2>5, Zenon
  <2>7. x \notin LineEnds(data)
    BY <2>6, Zenon DEF LineEnds
  <2>8. QED
    BY <2>2, <2>7, Zenon DEF j
<1>8. ASSUME NEW i \in 1 .. k, EndOf(datas, places, i) <= l
      PROVE  EndOf(datas, places, i) \in LineEnds(data)
  <2> DEFINE n == Len(datas[i])
             j == n + 1
  <2>0. n \in 1 .. 2 /\ places[i] \in Nat \ {0} /\ EndOf(datas, places, i) = places[i] + n /\ l \in Nat
    BY <1>1, <1>4 DEF EndOf
  <2> HIDE DEF n
  <2>1. j \in 1 .. j /\ (places[i] - 1) + j = EndOf(datas, places, i) /\ EndOf(datas, places, i) \in 1 .. l
    BY <1>8, <2>0
  <2>2. data[EndOf(datas, places, i)] = CR
    BY <1>5, <1>6, <1>8, <2>1 DEF n
  <2>3. QED
    BY <1>1, <2>1, <2>2 DEF LineEnds
<1>9. ASSUME NEW x \in 1 .. l, x \notin LineEnds(data)
      PROVE  \E i \in 1 .. k : places[i] <= x /\ x < EndOf(datas, places, i)
  <2>1. data[x] \notin Filler(s)
    BY <1>1, <1>9, FillerFacts DEF LineEnds
  <2>2. x \in 1 .. l + v /\ (data \o w)[x] = data[x]
    <3>1. x \in 1 .. l + v
      BY <1>1
    <3>2. QED
      BY <1>1, <3>1, Zenon DEF Joined
  <2>3. PICK i \in 1 .. k : Inside(s, datas, places, i, x)
    BY <1>2, <2>1, <2>2, Zenon DEF Filled
  <2>4. places[i] <= x /\ x <= EndOf(datas, places, i) /\ EndOf(datas, places, i) \in Nat
    BY <1>4, <2>3 DEF Inside, EndOf
  <2>5. x # EndOf(datas, places, i)
    BY <1>8, <1>9, <2>4
  <2>6. QED
    BY <2>4, <2>5
<1>10. ASSUME NEW i \in 1 .. k, NEW j \in 1 .. k, i < j
       PROVE  EndOf(datas, places, i) < places[j]
  <2>1. places[i] + Size(s, datas[i]) <= places[j]
    BY <1>2, <1>10, Zenon DEF InOrder
  <2>2. QED
    BY <1>4, <2>1 DEF EndOf
<1>11. QED
  BY <1>3, <1>4, <1>7, <1>8, <1>9, <1>10, Zenon DEF LinePlaces

(* The line that ends at a packet's CR is the packet's data.               *)
LEMMA LineOfPacket ==
  ASSUME NEW data, NEW l, NEW datas, NEW k, NEW places, Sized(data, Bytes, l), LinePlaces(data, l, datas, k, places),
         NEW i \in 1 .. k, EndOf(datas, places, i) <= l
  PROVE  SubSeq(data, EndBefore(data, EndOf(datas, places, i)) + 1, EndOf(datas, places, i) - 1) = datas[i]
<1> DEFINE e == EndOf(datas, places, i)
           b == EndBefore(data, e)
           p == places[i] - 1
           line == SubSeq(data, b + 1, e - 1)
           n == Len(datas[i])
<1>1. /\ l \in Nat /\ k \in Nat /\ datas[i] \in Datas /\ n \in 1 .. 2 /\ places[i] \in Nat \ {0}
      /\ \A j \in 1 .. k : Len(datas[j]) \in 1 .. 2 /\ places[j] \in Nat \ {0}
  BY DEF LinePlaces, Sized
<1>2. e \in 1 .. l /\ e = places[i] + n /\ p \in Nat /\ e \in 1 .. l + 1
  BY <1>1 DEF EndOf
<1>3. /\ b \in 0 .. e - 1 /\ (b = 0 \/ b \in LineEnds(data))
      /\ \A x \in LineEnds(data) : x < e => x <= b
  BY <1>2, EndBeforeFacts
<1>4. LineEnds(data) \in SUBSET (1 .. l)
  BY SizedPlaces DEF LineEnds
<1> HIDE DEF e, b, line, n
<1>5. b <= p
  <2>1. CASE b # 0 /\ places[i] <= b
    <3>1. b \in LineEnds(data) /\ b \in 1 .. l /\ b < EndOf(datas, places, i)
      BY <1>2, <1>3, <1>4, <2>1 DEF e
    <3>2. b \notin LineEnds(data)
      BY <2>1, <3>1, Zenon DEF LinePlaces
    <3>3. QED
      BY <3>1, <3>2
  <2>2. QED
    BY <1>1, <1>2, <1>3, <2>1
<1>6. p <= b
  <2>1. CASE p # 0
    <3>1. p \in 1 .. l /\ p < e
      BY <1>1, <1>2, <2>1
    <3>2. p \in LineEnds(data)
      <4>1. ASSUME NEW j \in 1 .. k, places[j] <= p, p < EndOf(datas, places, j)
            PROVE  FALSE
        <5>1. i < j => EndOf(datas, places, i) < places[j]
          BY Zenon DEF LinePlaces
        <5>2. j < i => EndOf(datas, places, j) < places[i]
          BY Zenon DEF LinePlaces
        <5>3. EndOf(datas, places, j) \in Nat /\ places[j] \in Nat
          BY <1>1 DEF EndOf
        <5>4. ~(i < j)
          BY <1>1, <1>2, <4>1, <5>1, <5>3 DEF e
        <5>5. ~(j < i)
          BY <1>1, <4>1, <5>2, <5>3
        <5>6. i = j
          BY <5>4, <5>5
        <5>7. QED
          BY <1>1, <4>1, <5>6
      <4>2. QED
        BY <3>1, <4>1, Zenon DEF LinePlaces
    <3>3. QED
      BY <1>3, <3>1, <3>2
  <2>2. QED
    BY <1>2, <1>3, <2>1
<1>7. b = p
  BY <1>2, <1>3, <1>5, <1>6
<1>8. Sized(line, Bytes, n) /\ \A j \in 1 .. n : line[j] = data[p + j]
  <2>0. b \in Nat /\ e \in Nat /\ e <= l /\ e = (b + 1) + n /\ n \in Nat /\ l \in Nat
    BY <1>1, <1>2, <1>7
  <2>1. b \in 0 .. l /\ e - 1 \in b .. l /\ e - 1 - b = n
    BY <2>0
  <2>2. Sized(line, Bytes, e - 1 - b) /\ Shifted(line, data, e - 1 - b, b)
    BY <2>1, CutFacts, Zenon DEF line
  <2>3. QED
    BY <1>7, <2>1, <2>2, Zenon DEF Shifted
<1>9. ASSUME NEW j \in 1 .. n
      PROVE  line[j] = datas[i][j]
  <2>1. p + j \in 1 .. l /\ places[i] <= p + j /\ p + j < EndOf(datas, places, i) /\ (p + j) - (places[i] - 1) = j
    BY <1>1, <1>2 DEF e
  <2>2. data[p + j] = datas[i][(p + j) - (places[i] - 1)]
    <3> HIDE DEF p
    <3>1. QED
      BY <2>1, Zenon DEF LinePlaces
  <2>3. QED
    BY <1>8, <2>1, <2>2
<1>10. Sized(datas[i], Bytes, n)
  BY <1>1, DataFacts DEF n
<1>11. line = datas[i]
  BY <1>8, <1>9, <1>10, SizedSame, Zenon
<1>12. QED
  BY <1>11 DEF line, b, e

(* The first m packets end in the first l bytes, the others later.         *)
EndIn(l, datas, k, places, m) ==
  /\ \A i \in 1 .. m : i \in 1 .. k /\ EndOf(datas, places, i) <= l
  /\ \A i \in m + 1 .. k : i \in 1 .. k /\ l < EndOf(datas, places, i)

(* Which packets end in the first l bytes.                                 *)
LEMMA LinesWhole ==
  ASSUME NEW data, NEW l, NEW datas, NEW k, NEW places, l \in Nat, LinePlaces(data, l, datas, k, places)
  PROVE  \E m \in 0 .. k : EndIn(l, datas, k, places, m)
<1> DEFINE whole == {i \in 1 .. k : EndOf(datas, places, i) <= l}
<1>1. /\ k \in Nat /\ \A i \in 1 .. k : places[i] \in Nat /\ EndOf(datas, places, i) \in Nat /\ places[i] < EndOf(datas, places, i)
  <2>1. k \in Nat /\ \A i \in 1 .. k : Len(datas[i]) \in 1 .. 2 /\ places[i] \in Nat \ {0}
    BY Zenon DEF LinePlaces
  <2>2. ASSUME NEW i \in 1 .. k
        PROVE  /\ places[i] \in Nat /\ EndOf(datas, places, i) \in Nat
               /\ places[i] < EndOf(datas, places, i)
    <3> DEFINE n == Len(datas[i])
    <3>1. n \in 1 .. 2 /\ places[i] \in Nat /\ EndOf(datas, places, i) = places[i] + n
      BY <2>1 DEF EndOf
    <3> HIDE DEF n
    <3>2. QED
      BY <3>1
  <2>3. QED
    BY <2>1, <2>2, Zenon
<1>2. CASE whole = {}
  <2>1. \A i \in 1 .. k : l < EndOf(datas, places, i)
    BY <1>1, <1>2
  <2>2. 0 \in 0 .. k /\ 0 + 1 = 1 /\ 1 .. 0 = {}
    BY <1>1
  <2>3. QED
    BY <2>1, <2>2, Zenon DEF EndIn
<1>3. CASE whole # {}
  <2>1. whole \in SUBSET Nat /\ whole \in SUBSET (1 .. k)
    BY <1>1
  <2>2. IsFiniteSet(whole)
    BY <1>1, <2>1, IntervalSize, FS_Subset
  <2> DEFINE m == Max(whole)
  <2>3. m \in whole /\ \A i \in whole : i <= m
    BY <1>3, <2>1, <2>2, GreatestIn
  <2> HIDE DEF m
  <2>4. m \in 1 .. k /\ EndOf(datas, places, m) <= l
    BY <2>3
  <2>5. ASSUME NEW i \in 1 .. m
        PROVE  i \in 1 .. k /\ EndOf(datas, places, i) <= l
    <3>1. i \in 1 .. k /\ (i = m \/ i < m)
      BY <1>1, <2>4
    <3>2. i < m => EndOf(datas, places, i) < places[m]
      BY <2>4, <3>1, Zenon DEF LinePlaces
    <3>3. QED
      BY <1>1, <2>4, <3>1, <3>2
  <2>6. ASSUME NEW i \in m + 1 .. k
        PROVE  i \in 1 .. k /\ l < EndOf(datas, places, i)
    <3>1. i \in 1 .. k /\ ~(i <= m)
      BY <1>1, <2>4
    <3>2. i \notin whole
      BY <2>3, <3>1
    <3>3. QED
      BY <1>1, <3>1, <3>2
  <2>7. m \in 0 .. k
    BY <2>4
  <2>8. QED
    BY <2>5, <2>6, <2>7, Zenon DEF EndIn
<1>4. QED
  BY <1>2, <1>3

(* The lines that end at each place, the places of those that are not      *)
(* empty, and the places where the first m packets end.                    *)
Lines(data) == [i \in DOMAIN data |-> SubSeq(data, EndBefore(data, i) + 1, i - 1)]
LinesKept(data) == {e \in LineEnds(data) : Lines(data)[e] # <<>>}
EndsOf(datas, places, m) == [i \in 1 .. m |-> EndOf(datas, places, i)]

(* Lines are sequences of bytes.                                           *)
LEMMA LinesAreBytes ==
  ASSUME NEW data, NEW l, Sized(data, Bytes, l)
  PROVE  /\ Sized(Lines(data), Seq(Bytes), l)
         /\ \A i \in 1 .. l : /\ Lines(data)[i] = SubSeq(data, EndBefore(data, i) + 1, i - 1)
                              /\ Lines(data)[i] # <<>> => EndBefore(data, i) < i - 1
<1> DEFINE lines == Lines(data)
<1>1. l \in Nat /\ DOMAIN data = 1 .. l
  BY SizedPlaces
<1>2. ASSUME NEW i \in 1 .. l
      PROVE  /\ SubSeq(data, EndBefore(data, i) + 1, i - 1) \in Seq(Bytes)
             /\ SubSeq(data, EndBefore(data, i) + 1, i - 1) # <<>> => EndBefore(data, i) < i - 1
  <2> DEFINE b == EndBefore(data, i)
  <2>1. i \in 1 .. l + 1
    BY <1>1
  <2>2. b \in 0 .. i - 1
    BY <2>1, EndBeforeFacts
  <2> HIDE DEF b
  <2>3. b \in 0 .. l /\ i - 1 \in b .. l /\ (i - 1 - b = 0 \/ b < i - 1)
    BY <1>1, <2>2
  <2>4. Sized(SubSeq(data, b + 1, i - 1), Bytes, i - 1 - b)
    BY <2>3, CutFacts, Zenon
  <2>5. SubSeq(data, b + 1, i - 1) \in Seq(Bytes) /\ Len(SubSeq(data, b + 1, i - 1)) = i - 1 - b
    BY <2>4, Zenon DEF Sized
  <2> DEFINE line == SubSeq(data, b + 1, i - 1)
  <2> HIDE DEF line
  <2>6. line \in Seq(Bytes) /\ Len(line) = i - 1 - b
    BY <2>5 DEF line
  <2>7. line # <<>> => Len(line) # 0
    BY <2>6
  <2>8. line \in Seq(Bytes) /\ (line # <<>> => b < i - 1)
    BY <2>3, <2>6, <2>7, Zenon
  <2>9. QED
    BY <2>8 DEF line, b
<1>3. lines \in [1 .. l -> Seq(Bytes)] /\ \A i \in 1 .. l : lines[i] = SubSeq(data, EndBefore(data, i) + 1, i - 1)
  BY <1>1, <1>2, Zenon DEF Lines
<1>4. Sized(lines, Seq(Bytes), l)
  BY <1>1, <1>3, SequenceOf DEF Sized
<1>5. QED
  BY <1>2, <1>3, <1>4, Zenon

(* The data of the first packets, as sequences of bytes.                   *)
LEMMA DatasAreBytes ==
  ASSUME NEW datas, NEW k, Sized(datas, Datas, k), NEW m \in 0 .. k
  PROVE  /\ Sized(SubSeq(datas, 1, m), Seq(Bytes), m) /\ Sized(SubSeq(datas, 1, m), Datas, m)
         /\ \A i \in 1 .. m : SubSeq(datas, 1, m)[i] = datas[i]
<1>1. k \in Nat /\ 0 \in 0 .. k /\ m - 0 = m /\ 0 + 1 = 1 /\ \A i \in 1 .. m : 0 + i = i
  BY DEF Sized
<1>2. m \in 0 .. k
  OBVIOUS
<1>3. Sized(SubSeq(datas, 0 + 1, m), Datas, m - 0) /\ Shifted(SubSeq(datas, 0 + 1, m), datas, m - 0, 0)
  BY <1>1, CutFacts, Zenon
<1> DEFINE first == SubSeq(datas, 1, m)
<1>4. Sized(first, Datas, m) /\ \A i \in 1 .. m : first[i] = datas[i]
  BY <1>1, <1>3, Zenon DEF Shifted
<1> HIDE DEF first
<1>5. Datas \subseteq Seq(Bytes)
  BY DataFacts DEF Sized
<1>6. Sized(first, Seq(Bytes), m)
  BY <1>4, <1>5 DEF Sized
<1>7. QED
  BY <1>4, <1>6 DEF first

(* What has a length is not empty.                                         *)
LEMMA NotEmpty ==
  ASSUME NEW s, Len(s) \in 1 .. 2
  PROVE  s # <<>>
  OBVIOUS

(* The lines that are not empty end where the packets do.                  *)
LEMMA LinesRise ==
  ASSUME NEW data, NEW l, NEW datas, NEW k, NEW places, Sized(data, Bytes, l), LinePlaces(data, l, datas, k, places),
         NEW m \in 0 .. k, EndIn(l, datas, k, places, m)
  PROVE  /\ Rises(EndsOf(datas, places, m), m, LinesKept(data))
         /\ \A i \in 1 .. m : Lines(data)[EndsOf(datas, places, m)[i]] = datas[i]
<1> DEFINE end == EndsOf(datas, places, m)
           lines == Lines(data)
           kept == LinesKept(data)
<1>0. /\ \A i \in 1 .. m : i \in 1 .. k /\ EndOf(datas, places, i) <= l
      /\ \A i \in m + 1 .. k : i \in 1 .. k /\ l < EndOf(datas, places, i)
  BY DEF EndIn
<1> HIDE DEF end, lines, kept
<1>1. /\ l \in Nat /\ k \in Nat /\ m \in Nat /\ LineEnds(data) \in SUBSET (1 .. l)
      /\ \A i \in 1 .. k : datas[i] \in Datas /\ Len(datas[i]) \in 1 .. 2 /\ places[i] \in Nat \ {0}
      /\ \A i, j \in 1 .. k : i < j => EndOf(datas, places, i) < places[j]
  BY SizedPlaces DEF LinePlaces, LineEnds
<1>2. ASSUME NEW i \in 1 .. k
      PROVE  EndOf(datas, places, i) \in Nat /\ places[i] < EndOf(datas, places, i) /\ datas[i] # <<>>
  <2> DEFINE n == Len(datas[i])
  <2>0. datas[i] \in Datas /\ n \in 1 .. 2 /\ places[i] \in Nat \ {0}
    BY <1>1, Zenon
  <2>01. datas[i] # <<>>
    BY <2>0, NotEmpty
  <2>1. n \in 1 .. 2 /\ places[i] \in Nat /\ EndOf(datas, places, i) = places[i] + n /\ datas[i] # <<>>
    BY <2>0, <2>01 DEF EndOf
  <2> HIDE DEF n
  <2>2. QED
    BY <2>1
<1>3. \A i \in 1 .. l : /\ lines[i] = SubSeq(data, EndBefore(data, i) + 1, i - 1)
                        /\ lines[i] # <<>> => EndBefore(data, i) < i - 1
  BY LinesAreBytes, Zenon DEF lines
<1>4. ASSUME NEW i \in 1 .. m
      PROVE  /\ EndOf(datas, places, i) \in LineEnds(data) /\ lines[EndOf(datas, places, i)] = datas[i]
             /\ EndOf(datas, places, i) \in kept
  <2>1. i \in 1 .. k /\ EndOf(datas, places, i) <= l
    BY <1>0
  <2>2. EndOf(datas, places, i) \in LineEnds(data)
    BY <2>1, Zenon DEF LinePlaces
  <2>3. SubSeq(data, EndBefore(data, EndOf(datas, places, i)) + 1, EndOf(datas, places, i) - 1) = datas[i]
    BY <2>1, LineOfPacket
  <2>4. lines[EndOf(datas, places, i)] = datas[i]
    BY <1>1, <1>3, <2>2, <2>3, Zenon
  <2>5. datas[i] # <<>>
    BY <1>2, <2>1
  <2>6. QED
    BY <2>2, <2>4, <2>5, Zenon DEF kept, LinesKept, lines
<1>5. ASSUME NEW i \in 1 .. m, NEW j \in 1 .. m, i < j
      PROVE  EndOf(datas, places, i) < EndOf(datas, places, j)
  <2>1. i \in 1 .. k /\ j \in 1 .. k
    BY <1>0
  <2>2. EndOf(datas, places, i) < places[j] /\ places[j] < EndOf(datas, places, j)
    BY <1>1, <1>2, <1>5, <2>1
  <2>3. EndOf(datas, places, i) \in Nat /\ EndOf(datas, places, j) \in Nat /\ places[j] \in Nat
    BY <1>1, <1>2, <2>1
  <2>4. QED
    BY <2>2, <2>3
<1>6. ASSUME NEW e \in kept
      PROVE  \E i \in 1 .. m : e = EndOf(datas, places, i)
  <2> DEFINE b == EndBefore(data, e)
  <2>0. e \in LineEnds(data) /\ lines[e] # <<>>
    BY Zenon DEF kept, LinesKept, lines
  <2>1. e \in LineEnds(data) /\ e \in 1 .. l /\ lines[e] # <<>> /\ e \in 1 .. l + 1
    BY <1>1, <2>0
  <2>2. b < e - 1 /\ b \in 0 .. e - 1 /\ \A x \in LineEnds(data) : x < e => x <= b
    BY <1>3, <2>1, EndBeforeFacts
  <2> HIDE DEF b
  <2>3. e - 1 \in 1 .. l /\ e - 1 < e /\ ~(e - 1 <= b)
    BY <1>1, <2>1, <2>2
  <2>4. e - 1 \notin LineEnds(data)
    BY <2>2, <2>3
  <2>5. PICK i \in 1 .. k : places[i] <= e - 1 /\ e - 1 < EndOf(datas, places, i)
    BY <2>3, <2>4, Zenon DEF LinePlaces
  <2>6. EndOf(datas, places, i) \in Nat /\ places[i] \in Nat
    BY <1>1, <1>2
  <2>7. places[i] <= e /\ (e < EndOf(datas, places, i) \/ e = EndOf(datas, places, i))
    BY <2>1, <2>5, <2>6
  <2>8. ~(e < EndOf(datas, places, i))
    BY <2>1, <2>7, Zenon DEF LinePlaces
  <2>9. e = EndOf(datas, places, i) /\ ~(l < EndOf(datas, places, i))
    BY <1>1, <2>1, <2>6, <2>7, <2>8
  <2>10. i \in 1 .. m
    BY <1>0, <1>1, <2>9
  <2>11. QED
    BY <2>9, <2>10
<1>7. end \in [1 .. m -> kept] /\ \A i \in 1 .. m : end[i] = EndOf(datas, places, i)
  BY <1>4 DEF end, EndsOf
<1>8. Rises(end, m, kept)
  BY <1>1, <1>5, <1>6, <1>7, Zenon DEF Rises
<1>9. QED
  BY <1>4, <1>7, <1>8, Zenon DEF end, kept, lines

(* The factory of lines.                                                   *)
LEMMA LinesTakes ==
  ASSUME NoiseHarmless, stream \in Streams, stream.factory = "lines",
         NEW data, NEW w, NEW l, NEW v, NEW datas, NEW k, NEW places,
         Sized(data, Bytes, l), Sized(w, Bytes, v), Laid(stream, data \o w, l + v, datas, k, places)
  PROVE  \E m, n \in Nat : Takes(stream, data, l, datas, k, places, ExtractLines(data), m, n)
<1> DEFINE lines == Lines(data)
           kept == LinesKept(data)
           n == EndBefore(data, l + 1)
           packets == Sublist(lines, kept)
<1>1. LinePlaces(data, l, datas, k, places)
  BY LinesArePlaced
<1>2. /\ l \in Nat /\ k \in Nat /\ Len(data) = l /\ LineEnds(data) \in SUBSET (1 .. l) /\ l + 1 \in 1 .. l + 1
      /\ Sized(datas, Datas, k)
      /\ \A i \in 1 .. k : datas[i] \in Datas /\ Len(datas[i]) \in 1 .. 2 /\ places[i] \in Nat \ {0}
  BY <1>1, SizedPlaces DEF LinePlaces, LineEnds, Sized, Laid
<1>0. PICK m \in 0 .. k : EndIn(l, datas, k, places, m)
  BY <1>1, <1>2, LinesWhole
<1>3. /\ \A i \in 1 .. m : i \in 1 .. k /\ EndOf(datas, places, i) <= l
      /\ \A i \in m + 1 .. k : i \in 1 .. k /\ l < EndOf(datas, places, i)
  BY <1>0, Zenon DEF EndIn
<1>4. n \in 0 .. l /\ (n = 0 \/ n \in LineEnds(data)) /\ \A e \in LineEnds(data) : e <= n
  <2>1. n \in 0 .. (l + 1) - 1 /\ (n = 0 \/ n \in LineEnds(data)) /\ \A e \in LineEnds(data) : e < l + 1 => e <= n
    BY <1>2, EndBeforeFacts
  <2>2. QED
    BY <1>2, <2>1
<1> DEFINE end == EndsOf(datas, places, m)
<1>5. Rises(end, m, kept) /\ \A i \in 1 .. m : lines[end[i]] = datas[i]
  BY <1>0, <1>1, LinesRise
<1>6. Sized(lines, Seq(Bytes), l)
  BY LinesAreBytes
<1>7. kept \in SUBSET (1 .. l)
  BY <1>2 DEF LinesKept
<1>8. ExtractLines(data).packets = packets /\ ExtractLines(data).rest = Drop(data, n)
  BY <1>2 DEF ExtractLines, LinesKept, Lines
<1> HIDE DEF lines, kept, n, packets, end
<1>9. Sized(packets, Seq(Bytes), m) /\ \A i \in 1 .. m : packets[i] = lines[end[i]]
  BY <1>5, <1>6, <1>7, SublistOfPlaces DEF packets
<1>10. \A i \in 1 .. m : packets[i] = datas[i]
  BY <1>5, <1>9, Zenon
<1>11. packets = SubSeq(datas, 1, m)
  <2>1. Sized(SubSeq(datas, 1, m), Seq(Bytes), m) /\ \A i \in 1 .. m : SubSeq(datas, 1, m)[i] = datas[i]
    BY <1>2, DatasAreBytes, Zenon
  <2>2. \A i \in 1 .. m : packets[i] = SubSeq(datas, 1, m)[i]
    BY <1>10, <2>1, Zenon
  <2>3. QED
    BY <1>9, <2>1, <2>2, SizedSame, Zenon
<1>12. ASSUME NEW i \in 1 .. k
       PROVE  /\ places[i] + Size(stream, datas[i]) = EndOf(datas, places, i) + 1
              /\ EndOf(datas, places, i) \in Nat /\ places[i] \in Nat
  <2> DEFINE b == Len(datas[i])
  <2>1. Size(stream, datas[i]) = 0 + b + 1 /\ EndOf(datas, places, i) = places[i] + b /\ b \in 1 .. 2 /\ places[i] \in Nat
    BY <1>2 DEF Size, Offset, Trailer, EndOf
  <2> HIDE DEF b
  <2>2. QED
    BY <2>1
<1>13. Between(stream, datas, k, places, m, n)
  <2>1. ASSUME NEW i \in 1 .. m
        PROVE  places[i] + Size(stream, datas[i]) <= n + 1
    <3>1. i \in 1 .. k /\ EndOf(datas, places, i) <= l
      BY <1>3
    <3>2. EndOf(datas, places, i) \in LineEnds(data)
      BY <1>1, <3>1, Zenon DEF LinePlaces
    <3>3. EndOf(datas, places, i) <= n
      BY <1>4, <3>2, Zenon
    <3>4. QED
      BY <1>4, <1>12, <3>1, <3>3
  <2>2. ASSUME NEW i \in m + 1 .. k
        PROVE  n < places[i]
    <3>1. i \in 1 .. k /\ l < EndOf(datas, places, i)
      BY <1>3
    <3>2. places[i] \in Nat \ {0} /\ EndOf(datas, places, i) \in Nat
      BY <1>2, <1>12, <3>1
    <3>3. ASSUME places[i] <= n
          PROVE  FALSE
      <4>1. n \in LineEnds(data) /\ n \in 1 .. l /\ n < EndOf(datas, places, i)
        BY <1>2, <1>4, <3>1, <3>2, <3>3
      <4>2. n \notin LineEnds(data)
        BY <1>1, <3>1, <3>3, <4>1, Zenon DEF LinePlaces
      <4>3. QED
        BY <4>1, <4>2
    <3>4. QED
      BY <1>2, <1>4, <3>2, <3>3
  <2>3. QED
    BY <2>1, <2>2, Zenon DEF Between
<1>14. m = 0 /\ k # 0 => places[1] + Size(stream, datas[1]) > l + 1
  <2>1. SUFFICES ASSUME m = 0, k # 0
                 PROVE  places[1] + Size(stream, datas[1]) > l + 1
    OBVIOUS
  <2>2. 1 \in m + 1 .. k /\ 1 \in 1 .. k
    BY <1>2, <2>1
  <2>3. l < EndOf(datas, places, 1)
    BY <1>3, <2>2
  <2>4. QED
    BY <1>2, <1>12, <2>2, <2>3
<1>15. Takes(stream, data, l, datas, k, places, ExtractLines(data), m, n)
  BY <1>4, <1>8, <1>11, <1>13, <1>14, Zenon DEF Takes
<1>16. m \in Nat /\ n \in Nat
  BY <1>2, <1>4
<1>17. QED
  BY <1>15, <1>16, Zenon

(* The factory's tryExtractPacket(), whichever it is.                      *)
LEMMA ExtractTakes ==
  ASSUME NoiseHarmless, stream \in Streams,
         NEW data, NEW w, NEW l, NEW v, NEW datas, NEW k, NEW places,
         Sized(data, Bytes, l), Sized(w, Bytes, v), Laid(stream, data \o w, l + v, datas, k, places)
  PROVE  \E m, n \in Nat : Takes(stream, data, l, datas, k, places, TryExtractPacket(data), m, n)
<1>1. CASE stream.factory = "frames"
  <2>1. TryExtractPacket(data) = ExtractFrames(data)
    BY <1>1 DEF TryExtractPacket
  <2>2. QED
    BY <1>1, <2>1, FramesTakes
<1>2. CASE stream.factory = "simple"
  <2>1. TryExtractPacket(data) = ExtractSimple(data)
    BY <1>2 DEF TryExtractPacket
  <2>2. QED
    BY <1>2, <2>1, SimpleTakes
<1>3. CASE stream.factory = "lines"
  <2>1. TryExtractPacket(data) = ExtractLines(data)
    BY <1>3 DEF TryExtractPacket
  <2>2. QED
    BY <1>3, <2>1, LinesTakes
<1>4. stream.factory = "frames" \/ stream.factory = "simple" \/ stream.factory = "lines"
  BY StreamFacts, Zenon
<1>5. QED
  BY <1>1, <1>2, <1>3, <1>4, Zenon

(***************************************************************************)
(* What is to be received.                                                 *)
(***************************************************************************)
(* What follows a prefix.                                                  *)
LEMMA PrefixFacts ==
  ASSUME NEW S, NEW got, NEW a, Sized(got, S, a), NEW all, NEW c, Sized(all, S, c), IsPrefix(got, all)
  PROVE  a \in 0 .. c /\ Sized(Drop(all, a), S, c - a) /\ Follows(Drop(all, a), got, all)
<1>1. a \in Nat /\ c \in Nat /\ Len(got) = a /\ Len(all) = c
  BY DEF Sized
<1>2. a <= c /\ SubSeq(got, 1, a) = SubSeq(all, 1, a)
  BY <1>1 DEF IsPrefix
<1>3. a \in 0 .. c /\ a \in 0 .. a /\ 0 \in 0 .. c /\ 0 \in 0 .. a /\ 0 + 1 = 1 /\ a - 0 = a /\ \A i \in 1 .. a : 0 + i = i
  BY <1>1, <1>2
<1>4. Shifted(SubSeq(got, 0 + 1, a), got, a - 0, 0) /\ Shifted(SubSeq(all, 0 + 1, a), all, a - 0, 0)
  BY <1>3, CutFacts, Zenon
<1>5. \A i \in 1 .. a : got[i] = all[i]
  BY <1>2, <1>3, <1>4, Zenon DEF Shifted
<1> DEFINE d == Drop(all, a)
<1>6. Sized(d, S, c - a) /\ Shifted(d, all, c - a, a)
  BY <1>3, DropFacts, Zenon
<1> HIDE DEF d
<1> DEFINE j == got \o d
<1>7. Sized(j, S, a + (c - a)) /\ Joined(j, got, a, d, c - a)
  BY <1>6, JoinPlaces, Zenon
<1> HIDE DEF j
<1>8. ASSUME NEW i \in 1 .. c
      PROVE  all[i] = j[i]
  <2>1. CASE i <= a
    <3>1. i \in 1 .. a
      BY <1>1, <2>1
    <3>2. QED
      BY <1>5, <1>7, <3>1, Zenon DEF Joined
  <2>2. CASE a < i
    <3>1. i \in a + 1 .. a + (c - a) /\ i - a \in 1 .. c - a /\ a + (i - a) = i
      BY <1>1, <2>2
    <3>2. QED
      BY <1>6, <1>7, <3>1, Zenon DEF Joined, Shifted
  <2>3. QED
    BY <1>1, <2>1, <2>2
<1>9. a + (c - a) = c
  BY <1>1
<1>10. all = j
  BY <1>7, <1>8, <1>9, SizedSame, Zenon
<1>11. QED
  BY <1>3, <1>6, <1>10, Zenon DEF Follows, d, j

(* A sequence is a prefix of itself and more.                              *)
LEMMA JoinPrefix ==
  ASSUME NEW S, NEW got, NEW a, Sized(got, S, a), NEW rest, NEW k, Sized(rest, S, k)
  PROVE  IsPrefix(got, got \o rest) /\ Drop(got \o rest, a) = rest
<1> DEFINE all == got \o rest
<1>1. Sized(all, S, a + k) /\ Joined(all, got, a, rest, k)
  BY JoinPlaces, Zenon
<1> HIDE DEF all
<1>2. a \in Nat /\ k \in Nat /\ Len(got) = a /\ Len(all) = a + k
  BY <1>1 DEF Sized
<1>3. /\ a \in 0 .. a + k /\ a \in 0 .. a /\ 0 \in 0 .. a + k /\ 0 \in 0 .. a
      /\ 0 + 1 = 1 /\ a - 0 = a /\ (a + k) - a = k /\ \A i \in 1 .. a : 0 + i = i
  BY <1>2
<1>4. /\ Sized(SubSeq(got, 0 + 1, a), S, a - 0) /\ Shifted(SubSeq(got, 0 + 1, a), got, a - 0, 0)
      /\ Sized(SubSeq(all, 0 + 1, a), S, a - 0) /\ Shifted(SubSeq(all, 0 + 1, a), all, a - 0, 0)
  BY <1>1, <1>3, CutFacts, Zenon
<1>5. Sized(SubSeq(got, 1, a), S, a) /\ Sized(SubSeq(all, 1, a), S, a)
  BY <1>3, <1>4, Zenon
<1>6. \A i \in 1 .. a : SubSeq(got, 1, a)[i] = SubSeq(all, 1, a)[i]
  BY <1>1, <1>3, <1>4, Zenon DEF Shifted, Joined
<1>7. SubSeq(got, 1, a) = SubSeq(all, 1, a)
  BY <1>5, <1>6, SizedSame, Zenon
<1>8. IsPrefix(got, all)
  BY <1>2, <1>7 DEF IsPrefix
<1>9. Sized(Drop(all, a), S, (a + k) - a) /\ Shifted(Drop(all, a), all, (a + k) - a, a)
  BY <1>1, <1>3, DropFacts, Zenon
<1>10. ASSUME NEW i \in 1 .. k
       PROVE  Drop(all, a)[i] = rest[i]
  <2>1. a + i \in a + 1 .. a + k /\ (a + i) - a = i
    BY <1>2
  <2>2. QED
    BY <1>1, <1>3, <1>9, <2>1, Zenon DEF Shifted, Joined
<1>11. Drop(all, a) = rest
  BY <1>3, <1>9, <1>10, SizedSame, Zenon
<1>12. QED
  BY <1>8, <1>11 DEF all

(* What the other side is to receive of a list, as Expected of sent.       *)
Wanted(s, list) == IF s.factory = "lines" THEN Sublist(list, {i \in DOMAIN list : list[i] # <<>>}) ELSE list

(* A packet more is a packet more to receive, if it is not an empty line.  *)
LEMMA WantedFacts ==
  ASSUME NEW s \in Streams, NEW list \in Seq(Datas), NEW data \in Datas
  PROVE  /\ Wanted(s, list) \in Seq(Datas)
         /\ s.factory = "lines" /\ data = <<>> => Wanted(s, Append(list, data)) = Wanted(s, list)
         /\ ~(s.factory = "lines" /\ data = <<>>) => Wanted(s, Append(list, data)) = Append(Wanted(s, list), data)
<1> DEFINE l == Len(list)
           more == Append(list, data)
           kept == {i \in DOMAIN list : list[i] # <<>>}
<1>1. Sized(list, Datas, l) /\ l \in Nat
  BY SizedFacts
<1>2. Sized(more, Datas, l + 1) /\ more[l + 1] = data /\ \A i \in 1 .. l : more[i] = list[i]
  BY AppendFacts DEF Sized
<1> HIDE DEF more, l
<1>3. /\ DOMAIN list = 1 .. l /\ DOMAIN more = 1 .. l + 1 /\ l + 1 \in 1 .. l + 1
      /\ \A i \in 1 .. l + 1 : i = l + 1 \/ i \in 1 .. l
      /\ \A i \in 1 .. l : i \in 1 .. l + 1
  BY <1>1, <1>2, SizedPlaces
<1>4. kept \in SUBSET (1 .. l)
  BY <1>3
<1>5. data = <<>> => {i \in DOMAIN more : more[i] # <<>>} = kept
  BY <1>2, <1>3
<1>6. data # <<>> => {i \in DOMAIN more : more[i] # <<>>} = kept \cup {l + 1}
  BY <1>2, <1>3
<1>7. s.factory = "lines" => /\ Wanted(s, list) = Sublist(list, kept)
                             /\ Wanted(s, more) = Sublist(more, {i \in DOMAIN more : more[i] # <<>>})
  BY Zenon DEF Wanted
<1> HIDE DEF kept
<1>12. Grows(Datas, list, l + 1, kept, data)
  BY <1>1, <1>4, SublistAppended, Zenon
<1>8. /\ Sublist(list, kept) \in Seq(Datas)
      /\ Sublist(more, kept) = Sublist(list, kept)
      /\ Sublist(more, kept \cup {l + 1}) = Append(Sublist(list, kept), data)
  BY <1>12, Zenon DEF Grows, more
<1>9. CASE s.factory = "lines"
  <2>1. Wanted(s, list) \in Seq(Datas)
    BY <1>7, <1>8, <1>9, Zenon
  <2>2. CASE data = <<>>
    BY <1>5, <1>7, <1>8, <1>9, <2>1, <2>2, Zenon DEF more
  <2>3. CASE data # <<>>
    BY <1>6, <1>7, <1>8, <1>9, <2>1, <2>3, Zenon DEF more
  <2>4. QED
    BY <2>2, <2>3
<1>10. CASE s.factory # "lines"
  <2>1. Wanted(s, list) = list /\ Wanted(s, Append(list, data)) = Append(list, data)
    BY <1>10, Zenon DEF Wanted
  <2>2. QED
    BY <1>10, <2>1, Zenon
<1>11. QED
  BY <1>9, <1>10

(***************************************************************************)
(* The inductive invariant, with the lengths of its sequences.             *)
(***************************************************************************)
(* The first packet is not whole while the loop does not run.              *)
Waits(s, l, busy, datas, k, places) == ~busy /\ k # 0 => places[1] + Size(s, datas[1]) > l + 1

(* all is got and the data of the packets among the bytes of b and w.      *)
Awaits(s, w, v, b, l, busy, all, got, datas, k, places) ==
  /\ Sized(w, Bytes, v) /\ Sized(b, Bytes, l) /\ got \in Seq(Datas)
  /\ Laid(s, b \o w, l + v, datas, k, places)
  /\ Follows(datas, got, all)
  /\ Waits(s, l, busy, datas, k, places)

(* StreamInv, but for the types of the variables.                          *)
Good(s, w, b, busy, all, got) ==
  /\ IsPrefix(got, all)
  /\ \E places \in [DOMAIN Drop(all, Len(got)) -> 1 .. (Len(b) + Len(w))] :
        /\ Lies(s, b \o w, Drop(all, Len(got)), places)
        /\ ~busy /\ Drop(all, Len(got)) # <<>> => Behind(s, Drop(all, Len(got)), places, 1) > Len(b) + 1

(* The one gives the other.                                                *)
LEMMA GoodAwaits ==
  ASSUME NEW s \in Streams, NEW w, NEW v, Sized(w, Bytes, v), NEW b, NEW l, Sized(b, Bytes, l), NEW busy,
         NEW all \in Seq(Datas), NEW got \in Seq(Datas), Good(s, w, b, busy, all, got)
  PROVE  \E k, places : Awaits(s, w, v, b, l, busy, all, got, Drop(all, Len(got)), k, places)
<1> DEFINE a == Len(got)
           c == Len(all)
           d == Drop(all, a)
           k == c - a
<1>1. Sized(got, Datas, a) /\ Sized(all, Datas, c) /\ a \in Nat /\ c \in Nat
  BY SizedFacts
<1>2. PICK places \in [DOMAIN Drop(all, Len(got)) -> 1 .. (Len(b) + Len(w))] :
        /\ Lies(s, b \o w, d, places)
        /\ ~busy /\ d # <<>> => Behind(s, d, places, 1) > Len(b) + 1
  BY Zenon DEF Good
<1>4. places \in [DOMAIN d -> 1 .. (Len(b) + Len(w))]
  BY <1>2
<1> HIDE DEF a, c
<1>12. IsPrefix(got, all)
  BY Zenon DEF Good
<1>3. a \in 0 .. c /\ Sized(d, Datas, k) /\ all = got \o d
  <2>1. a \in 0 .. c /\ Sized(d, Datas, k) /\ Follows(d, got, all)
    BY <1>1, <1>12, PrefixFacts, Zenon
  <2>2. QED
    BY <2>1, Zenon DEF Follows
<1> HIDE DEF d, k
<1>5. Len(b) = l /\ Len(w) = v /\ l \in Nat /\ v \in Nat /\ k \in Nat /\ DOMAIN d = 1 .. k /\ (k # 0 => d # <<>>)
  BY <1>3, SizedPlaces DEF Sized
<1>6. places \in [1 .. k -> Nat \ {0}]
  BY <1>4, <1>5
<1>7. Sized(b \o w, Bytes, l + v)
  BY JoinPlaces, Zenon
<1>8. Laid(s, b \o w, l + v, d, k, places)
  BY <1>2, <1>3, <1>6, <1>7, LiesLaid, Zenon
<1>9. ~busy /\ k # 0 => places[1] + Size(s, d[1]) > l + 1
  <2>1. SUFFICES ASSUME ~busy, k # 0 PROVE places[1] + Size(s, d[1]) > l + 1
    OBVIOUS
  <2>2. d[1] \in Datas
    BY <1>3, <1>5, <2>1, SizedPlaces
  <2>3. Len(Whole(s, d[1])) = Size(s, d[1])
    BY <2>2, SizeFacts
  <2>4. Behind(s, d, places, 1) > l + 1
    BY <1>2, <1>5, <2>1
  <2>5. QED
    BY <2>3, <2>4 DEF Behind
<1>10. Awaits(s, w, v, b, l, busy, all, got, d, k, places)
  BY <1>3, <1>8, <1>9, Zenon DEF Awaits, Waits, Follows
<1>11. QED
  BY <1>10, Zenon DEF d, a

(* And the other the one.                                                  *)
LEMMA AwaitsGood ==
  ASSUME NEW s \in Streams, NEW w, NEW v, NEW b, NEW l, NEW busy, NEW all, NEW got, NEW datas, NEW k, NEW places,
         Awaits(s, w, v, b, l, busy, all, got, datas, k, places)
  PROVE  Good(s, w, b, busy, all, got)
<1> DEFINE a == Len(got)
<1>1. /\ Sized(w, Bytes, v) /\ Sized(b, Bytes, l) /\ got \in Seq(Datas)
      /\ Laid(s, b \o w, l + v, datas, k, places) /\ all = got \o datas
      /\ ~busy /\ k # 0 => places[1] + Size(s, datas[1]) > l + 1
  BY Zenon DEF Awaits, Waits, Follows
<1>2. Sized(got, Datas, a)
  BY <1>1, SizedFacts
<1>3. /\ Sized(datas, Datas, k) /\ places \in [1 .. k -> Nat \ {0}] /\ Fits(s, l + v, datas, k, places)
      /\ Sized(b \o w, Bytes, l + v)
  BY <1>1, Zenon DEF Laid
<1> HIDE DEF a
<1>10. IsPrefix(got, got \o datas) /\ Drop(got \o datas, a) = datas
  BY <1>2, <1>3, JoinPrefix
<1>4. IsPrefix(got, all) /\ Drop(all, a) = datas
  BY <1>1, <1>10
<1>5. Len(b) = l /\ Len(w) = v /\ l \in Nat /\ v \in Nat /\ DOMAIN datas = 1 .. k /\ k \in Nat /\ (datas # <<>> => k # 0)
  BY <1>1, <1>3, SizedPlaces DEF Sized
<1>6. places \in [DOMAIN datas -> 1 .. (Len(b) + Len(w))]
  <2>1. ASSUME NEW i \in 1 .. k
        PROVE  places[i] \in 1 .. l + v
    <3>1. places[i] + Size(s, datas[i]) <= l + v + 1
      BY <1>3 DEF Fits
    <3>2. places[i] \in Nat \ {0} /\ datas[i] \in Datas
      BY <1>3, SizedPlaces
    <3>3. Size(s, datas[i]) \in Nat /\ Size(s, datas[i]) > 0
      BY <3>2, SizeFacts
    <3>4. QED
      BY <1>5, <3>1, <3>2, <3>3
  <2>2. QED
    BY <1>3, <1>5, <2>1
<1>7. Lies(s, b \o w, datas, places)
  BY <1>1, <1>3, LiesLaid, Zenon
<1>8. ~busy /\ datas # <<>> => Behind(s, datas, places, 1) > Len(b) + 1
  <2>1. SUFFICES ASSUME ~busy, datas # <<>> PROVE Behind(s, datas, places, 1) > Len(b) + 1
    OBVIOUS
  <2>2. k # 0 /\ datas[1] \in Datas
    BY <1>3, <1>5, <2>1, SizedPlaces
  <2>3. Len(Whole(s, datas[1])) = Size(s, datas[1])
    BY <2>2, SizeFacts
  <2>4. QED
    BY <1>1, <1>5, <2>1, <2>2, <2>3 DEF Behind
<1>9. QED
  BY <1>4, <1>6, <1>7, <1>8, Zenon DEF Good, a

(***************************************************************************)
(* The steps.                                                              *)
(***************************************************************************)
(* The parts of Awaits.                                                    *)
LEMMA AwaitsFacts ==
  ASSUME NEW s, NEW w, NEW v, NEW b, NEW l, NEW busy, NEW all, NEW got, NEW datas, NEW k, NEW places,
         Awaits(s, w, v, b, l, busy, all, got, datas, k, places)
  PROVE  /\ Sized(w, Bytes, v) /\ w \in Seq(Bytes) /\ v \in Nat
         /\ Sized(b, Bytes, l) /\ b \in Seq(Bytes) /\ l \in Nat
         /\ Sized(datas, Datas, k) /\ datas \in Seq(Datas) /\ k \in Nat /\ places \in [1 .. k -> Nat \ {0}]
         /\ \A i \in 1 .. k : datas[i] \in Datas /\ places[i] \in Nat
         /\ got \in Seq(Datas) /\ Follows(datas, got, all)
         /\ Laid(s, b \o w, l + v, datas, k, places)
         /\ Waits(s, l, busy, datas, k, places)
<1>1. /\ Sized(w, Bytes, v) /\ Sized(b, Bytes, l) /\ got \in Seq(Datas)
      /\ Laid(s, b \o w, l + v, datas, k, places) /\ Follows(datas, got, all)
      /\ Waits(s, l, busy, datas, k, places)
  BY Zenon DEF Awaits
<1>2. Sized(datas, Datas, k) /\ places \in [1 .. k -> Nat \ {0}]
  BY <1>1, Zenon DEF Laid
<1>3. \A i \in 1 .. k : datas[i] \in Datas /\ places[i] \in Nat
  BY <1>2, SizedPlaces
<1>4. /\ w \in Seq(Bytes) /\ v \in Nat /\ b \in Seq(Bytes) /\ l \in Nat /\ datas \in Seq(Datas) /\ k \in Nat
  BY <1>1, <1>2, Zenon DEF Sized
<1>5. QED
  BY <1>1, <1>2, <1>3, <1>4, Zenon

(* A filler is sent.                                                       *)
LEMMA AwaitsFiller ==
  ASSUME NEW s \in Streams, NEW w, NEW v, NEW b, NEW l, NEW busy, NEW all, NEW got, NEW datas, NEW k, NEW places,
         Awaits(s, w, v, b, l, busy, all, got, datas, k, places), NEW byte \in Bytes, byte \in Filler(s)
  PROVE  Awaits(s, Append(w, byte), v + 1, b, l, busy, all, got, datas, k, places)
<1>1. /\ Sized(w, Bytes, v) /\ w \in Seq(Bytes) /\ v \in Nat
      /\ Sized(b, Bytes, l) /\ b \in Seq(Bytes) /\ l \in Nat
      /\ got \in Seq(Datas) /\ Follows(datas, got, all)
      /\ Laid(s, b \o w, l + v, datas, k, places)
      /\ Waits(s, l, busy, datas, k, places)
  BY AwaitsFacts, Zenon
<1>2. Sized(Append(w, byte), Bytes, v + 1)
  BY <1>1, AppendFacts DEF Sized
<1>3. b \o Append(w, byte) = Append(b \o w, byte) /\ (l + v) + 1 = l + (v + 1)
  BY <1>1
<1>4. Laid(s, Append(b \o w, byte), (l + v) + 1, datas, k, places)
  BY <1>1, LaidFiller, Zenon
<1>5. Laid(s, b \o Append(w, byte), l + (v + 1), datas, k, places)
  BY <1>3, <1>4, Zenon
<1>6. QED
  BY <1>1, <1>2, <1>5, Zenon DEF Awaits

(* A packet is sent.                                                       *)
LEMMA AwaitsPacket ==
  ASSUME NEW s \in Streams, NEW w, NEW v, NEW b, NEW l, NEW busy, NEW all, NEW got, NEW datas, NEW k, NEW places,
         Awaits(s, w, v, b, l, busy, all, got, datas, k, places),
         NEW data \in Datas, s.factory = "lines" => data # <<>>
  PROVE  \E at : Awaits(s, w \o Whole(s, data), v + Size(s, data), b, l, busy, Append(all, data), got,
                        Append(datas, data), k + 1, at)
<1> DEFINE x == Whole(s, data)
           n == Size(s, data)
           more == Append(datas, data)
           at == PlacesAdded(places, k, l + v)
<1>1. /\ Sized(w, Bytes, v) /\ w \in Seq(Bytes) /\ v \in Nat
      /\ Sized(b, Bytes, l) /\ b \in Seq(Bytes) /\ l \in Nat
      /\ Sized(datas, Datas, k) /\ datas \in Seq(Datas) /\ k \in Nat /\ places \in [1 .. k -> Nat \ {0}]
      /\ got \in Seq(Datas) /\ Follows(datas, got, all)
      /\ Laid(s, b \o w, l + v, datas, k, places)
      /\ Waits(s, l, busy, datas, k, places)
  BY AwaitsFacts, Zenon
<1>2. Sized(x, Bytes, n) /\ x \in Seq(Bytes) /\ n \in Nat /\ n > 0
  BY WholeFacts, SizeFacts DEF Sized
<1>3. Laid(s, (b \o w) \o x, l + v + n, more, k + 1, at)
  BY <1>1, LaidAdded, Zenon
<1>4. more[k + 1] = data /\ \A i \in 1 .. k : more[i] = datas[i]
  BY <1>1, AppendFacts DEF Sized
<1>5. at[k + 1] = l + v + 1 /\ \A i \in 1 .. k : at[i] = places[i]
  BY <1>1 DEF PlacesAdded
<1> HIDE DEF x, at, n
<1>6. (b \o w) \o x = b \o (w \o x) /\ l + v + n = l + (v + n)
  <2>1. b \in Seq(Bytes) /\ w \in Seq(Bytes) /\ x \in Seq(Bytes)
    BY <1>1, <1>2
  <2>2. (b \o w) \o x = b \o (w \o x)
    BY <2>1
  <2>3. QED
    BY <1>1, <1>2, <2>2
<1>7. Follows(more, got, Append(all, data))
  <2>1. got \in Seq(Datas) /\ datas \in Seq(Datas) /\ all = got \o datas
    BY <1>1, Zenon DEF Follows
  <2>2. Follows(Append(datas, data), got, Append(got \o datas, data))
    BY <2>1, AppendJoin, Zenon
  <2>3. QED
    BY <2>1, <2>2, Zenon
<1> HIDE DEF more
<1>8. Sized(w \o x, Bytes, v + n)
  BY <1>1, <1>2, JoinPlaces, Zenon
<1>9. Waits(s, l, busy, more, k + 1, at)
  <2>1. CASE k = 0
    <3>1. at[1] = l + v + 1 /\ more[1] = data
      BY <1>4, <1>5, <2>1
    <3>2. QED
      BY <1>1, <1>2, <3>1 DEF n, Waits
  <2>2. CASE k # 0
    <3>1. 1 \in 1 .. k
      BY <1>1, <2>2
    <3>2. at[1] = places[1] /\ more[1] = datas[1]
      BY <1>4, <1>5, <3>1
    <3>3. QED
      BY <1>1, <2>2, <3>2, Zenon DEF Waits
  <2>3. QED
    BY <2>1, <2>2
<1>10. Awaits(s, w \o x, v + n, b, l, busy, Append(all, data), got, more, k + 1, at)
  BY <1>1, <1>3, <1>6, <1>7, <1>8, <1>9, Zenon DEF Awaits
<1>11. QED
  BY <1>10, Zenon DEF x, n, more

(* Bytes are read.                                                         *)
LEMMA AwaitsRead ==
  ASSUME NEW s \in Streams, NEW w, NEW v, NEW b, NEW l, NEW busy, NEW all, NEW got, NEW datas, NEW k, NEW places,
         Awaits(s, w, v, b, l, busy, all, got, datas, k, places), NEW n \in 0 .. v
  PROVE  Awaits(s, Drop(w, n), v - n, b \o SubSeq(w, 1, n), l + n, TRUE, all, got, datas, k, places)
<1>1. /\ Sized(w, Bytes, v) /\ v \in Nat /\ Sized(b, Bytes, l) /\ l \in Nat
      /\ got \in Seq(Datas) /\ Follows(datas, got, all)
      /\ Laid(s, b \o w, l + v, datas, k, places)
  BY AwaitsFacts, Zenon
<1>2. (b \o SubSeq(w, 1, n)) \o Drop(w, n) = b \o w
  <2>1. Follows(Drop(w, n), b \o SubSeq(w, 1, n), b \o w)
    BY <1>1, ReadJoin, Zenon
  <2>2. QED
    BY <2>1, Zenon DEF Follows
<1>3. Sized(b \o SubSeq(w, 1, n), Bytes, l + n) /\ Sized(Drop(w, n), Bytes, v - n)
  BY <1>1, ReadJoin, Zenon
<1>4. l + v = (l + n) + (v - n)
  BY <1>1
<1>5. Laid(s, (b \o SubSeq(w, 1, n)) \o Drop(w, n), (l + n) + (v - n), datas, k, places)
  BY <1>1, <1>2, <1>4, Zenon
<1>6. QED
  BY <1>1, <1>3, <1>5, Zenon DEF Awaits, Waits

(* What tryExtractPacket() has taken is received.                          *)
LEMMA AwaitsTaken ==
  ASSUME NEW s \in Streams, NEW w, NEW v, NEW b, NEW l, NEW busy, NEW all, NEW got, NEW datas, NEW k, NEW places,
         Awaits(s, w, v, b, l, busy, all, got, datas, k, places),
         NEW result, NEW m, NEW n, Takes(s, b, l, datas, k, places, result, m, n)
  PROVE  \E at : Awaits(s, w, v, result.rest, l - n, result.packets # <<>>, all, got \o result.packets,
                        Drop(datas, m), k - m, at)
<1> DEFINE first == SubSeq(datas, 1, m)
           others == Drop(datas, m)
           at == PlacesLeft(places, k, m, n)
<1>1. /\ Sized(w, Bytes, v) /\ v \in Nat /\ Sized(b, Bytes, l) /\ l \in Nat
      /\ Sized(datas, Datas, k) /\ datas \in Seq(Datas) /\ k \in Nat
      /\ \A i \in 1 .. k : datas[i] \in Datas /\ places[i] \in Nat
      /\ got \in Seq(Datas) /\ Follows(datas, got, all)
      /\ Laid(s, b \o w, l + v, datas, k, places)
  BY AwaitsFacts, Zenon
<1>2. /\ m \in 0 .. k /\ n \in 0 .. l /\ Between(s, datas, k, places, m, n)
      /\ result.rest = Drop(b, n) /\ result.packets = first
      /\ m = 0 /\ k # 0 => places[1] + Size(s, datas[1]) > l + 1
  BY Zenon DEF Takes
<1>3. n \in 0 .. l + v /\ (l + v) - n = (l - n) + v
  BY <1>1, <1>2
<1>4. Laid(s, Drop(b \o w, n), (l + v) - n, others, k - m, at)
  BY <1>1, <1>2, <1>3, LaidDropped, Zenon
<1>5. Drop(b \o w, n) = Drop(b, n) \o w
  <2>1. Follows(w, Drop(b, n), Drop(b \o w, n))
    BY <1>1, <1>2, DropJoin, Zenon
  <2>2. QED
    BY <2>1, Zenon DEF Follows
<1>6. Sized(Drop(b, n), Bytes, l - n)
  BY <1>1, <1>2, DropFacts, Zenon
<1>7. Sized(first, Datas, m)
  BY <1>1, <1>2, DatasAreBytes, Zenon
<1>8. Sized(others, Datas, k - m) /\ Shifted(others, datas, k - m, m)
  BY <1>1, <1>2, DropFacts, Zenon
<1>9. \A i \in 1 .. k - m : at[i] = places[m + i] - n
  BY DEF PlacesLeft
<1>10. first \o others = datas
  <2>1. first \in Seq(Datas) /\ <<>> \in Seq(Datas) /\ 0 \in Nat /\ Len(<<>>) = 0
    BY <1>7 DEF Sized
  <2>2. Sized(<<>>, Datas, 0)
    BY <2>1, Zenon DEF Sized
  <2>3. (<<>> \o first) \o others = <<>> \o datas
    <3>1. Follows(others, <<>> \o first, <<>> \o datas)
      BY <1>1, <1>2, <2>2, ReadJoin, Zenon
    <3>2. QED
      BY <3>1, Zenon DEF Follows
  <2>4. <<>> \o first = first /\ <<>> \o datas = datas
    BY <1>1, <2>1
  <2>5. QED
    BY <2>3, <2>4
<1> HIDE DEF first, others, at
<1>11. (got \o first) \in Seq(Datas) /\ Follows(others, got \o first, all)
  <2>1. first \in Seq(Datas) /\ others \in Seq(Datas) /\ got \in Seq(Datas)
    BY <1>1, <1>7, <1>8 DEF Sized
  <2>2. (got \o first) \in Seq(Datas) /\ (got \o first) \o others = got \o (first \o others)
    BY <2>1
  <2>3. QED
    BY <1>1, <1>10, <2>2, Zenon DEF Follows
<1>12. Waits(s, l - n, result.packets # <<>>, others, k - m, at)
  <2>1. SUFFICES ASSUME first = <<>>, k - m # 0
                 PROVE  at[1] + Size(s, others[1]) > (l - n) + 1
    BY <1>2 DEF Waits
  <2>2. m = 0
    BY <1>7, <2>1 DEF Sized
  <2>3. 1 \in 1 .. k - m /\ 1 \in 1 .. k /\ m + 1 = 1 /\ k # 0
    BY <1>1, <2>1, <2>2
  <2>4. at[1] = places[1] - n /\ others[1] = datas[1]
    <3>1. at[1] = places[m + 1] - n /\ others[1] = datas[m + 1]
      BY <1>8, <1>9, <2>3 DEF Shifted
    <3>2. QED
      BY <2>3, <3>1
  <2>5. Size(s, datas[1]) \in Nat /\ places[1] \in Nat
    BY <1>1, <2>3, SizeFacts
  <2>6. places[1] + Size(s, datas[1]) > l + 1
    BY <1>2, <2>2, <2>3
  <2>7. QED
    BY <1>1, <1>2, <2>4, <2>5, <2>6
<1>13. Awaits(s, w, v, Drop(b, n), l - n, result.packets # <<>>, all, got \o first, others, k - m, at)
  BY <1>1, <1>3, <1>4, <1>5, <1>6, <1>11, <1>12, Zenon DEF Awaits
<1>14. QED
  BY <1>2, <1>13, Zenon DEF others

(***************************************************************************)
(* StreamInv is inductive.                                                 *)
(***************************************************************************)
(* The data of the packets of a stream.                                    *)
LEMMA BodiesAreDatas ==
  ASSUME stream \in Streams
  PROVE  Bodies \subseteq Datas /\ <<>> \in Datas
<1>1. stream.body \in 0 .. 2
  BY StreamFacts
<1>2. \A m \in 0 .. stream.body : m \in 0 .. 2
  BY <1>1
<1>3. Bodies = UNION {[1 .. m -> {0, TAG}] : m \in 0 .. stream.body} /\ Datas = UNION {[1 .. m -> {0, TAG}] : m \in 0 .. 2}
  BY DEF Bodies, Datas, BoundedSeq, SeqOf
<1>4. Bodies \subseteq Datas
  BY <1>2, <1>3, Zenon
<1>5. <<>> \in [1 .. 0 -> {0, TAG}] /\ 0 \in 0 .. 2
  OBVIOUS
<1>6. <<>> \in Datas
  BY <1>3, <1>5, Zenon
<1>7. QED
  BY <1>4, <1>6

(* StreamInv in the words of these proofs.                                 *)
LEMMA StreamInvIs ==
  StreamInv <=> StreamTypeOK /\ Good(stream, wire, buffer, working, Expected, received)
  BY Zenon DEF StreamInv, ReceivedInOrder, ToCome, Good

(* What is known in every state.                                           *)
LEMMA StreamKnown ==
  ASSUME StreamInv
  PROVE  /\ stream \in Streams /\ wire \in Seq(Bytes) /\ buffer \in Seq(Bytes) /\ working \in BOOLEAN
         /\ sent \in Seq(Datas) /\ received \in Seq(Datas) /\ noises \in Nat
         /\ Expected = Wanted(stream, sent) /\ Expected \in Seq(Datas)
         /\ Sized(wire, Bytes, Len(wire)) /\ Sized(buffer, Bytes, Len(buffer))
         /\ \E k, places : Awaits(stream, wire, Len(wire), buffer, Len(buffer), working, Expected, received,
                                 ToCome, k, places)
<1>1. /\ stream \in Streams /\ wire \in Seq(Bytes) /\ buffer \in Seq(Bytes) /\ working \in BOOLEAN
      /\ sent \in Seq(Datas) /\ received \in Seq(Datas) /\ noises \in Nat
  BY DEF StreamInv, StreamTypeOK
<1>2. Expected = Wanted(stream, sent)
  BY Zenon DEF Expected, Wanted
<1>3. <<>> \in Datas
  BY <1>1, BodiesAreDatas
<1>4. Wanted(stream, sent) \in Seq(Datas)
  BY <1>1, <1>3, WantedFacts, Zenon
<1>5. Expected \in Seq(Datas)
  BY <1>2, <1>4, Zenon
<1>6. Sized(wire, Bytes, Len(wire)) /\ Sized(buffer, Bytes, Len(buffer))
  BY <1>1, SizedFacts
<1>7. Good(stream, wire, buffer, working, Expected, received)
  BY StreamInvIs, Zenon
<1>8. \E k, places : Awaits(stream, wire, Len(wire), buffer, Len(buffer), working, Expected, received,
                          ToCome, k, places)
  BY <1>1, <1>5, <1>6, <1>7, GoodAwaits, Zenon DEF ToCome
<1>9. QED
  BY <1>1, <1>2, <1>5, <1>6, <1>8, Zenon

(* What is to be shown of a step.                                          *)
LEMMA StreamKept ==
  ASSUME NEW datas, NEW k, NEW places, NEW v, NEW l, NEW all,
         stream' \in Streams, working' \in BOOLEAN, sent' \in Seq(Datas), noises' \in Nat,
         all = Wanted(stream', sent'),
         Awaits(stream', wire', v, buffer', l, working', all, received', datas, k, places)
  PROVE  StreamInv'
<1>1. wire' \in Seq(Bytes) /\ buffer' \in Seq(Bytes) /\ received' \in Seq(Datas)
  BY Zenon DEF Awaits, Sized
<1>2. StreamTypeOK'
  BY <1>1, Zenon DEF StreamTypeOK
<1>3. Expected' = all
  BY Zenon DEF Expected, Wanted
<1>4. Good(stream', wire', buffer', working', all, received')
  BY AwaitsGood, Zenon
<1>5. Good(stream', wire', buffer', working', Expected', received')
  BY <1>3, <1>4, Zenon
<1>6. QED
  BY <1>2, <1>5, Zenon DEF StreamInv, ReceivedInOrder, ToCome, Good

(* At the start nothing is to come.                                        *)
LEMMA StreamStarts ==
  ASSUME StreamInit
  PROVE  StreamInv
<1>1. /\ stream \in Streams /\ wire = <<>> /\ buffer = <<>> /\ working = FALSE
      /\ sent = <<>> /\ received = <<>> /\ noises = 0
  BY DEF StreamInit
<1>2. StreamTypeOK
  <2>1. <<>> \in Seq(Bytes) /\ <<>> \in Seq(Datas)
    OBVIOUS
  <2>2. QED
    BY <1>1, <2>1 DEF StreamTypeOK
<1> DEFINE e == <<>>
           none == [i \in 1 .. 0 |-> 1]
<1>3. Expected = e
  <2>1. DOMAIN <<>> = {} /\ {i \in DOMAIN <<>> : <<>>[i] # <<>>} = {}
    OBVIOUS
  <2>2. Cardinality({}) = 0
    BY FS_EmptySet
  <2>3. Sublist(<<>>, {}) = <<>>
    BY <2>2 DEF Sublist
  <2>4. QED
    BY <1>1, <2>1, <2>3, Zenon DEF Expected
<1>4. e \in Seq(Datas) /\ e \in Seq(Bytes) /\ Len(e) = 0 /\ 0 \in Nat /\ e \o e = e /\ 0 + 0 = 0
  OBVIOUS
<1>5. none \in [1 .. 0 -> Nat \ {0}] /\ 1 .. 0 = {}
  OBVIOUS
<1> HIDE DEF e, none
<1>6. Sized(e, Bytes, 0) /\ Sized(e, Datas, 0)
  BY <1>4, Zenon DEF Sized
<1>7. Laid(stream, e, 0, e, 0, none)
  BY <1>5, <1>6, Zenon DEF Laid, Fits, Contents, InOrder, Filled, NoneEmpty
<1>8. Awaits(stream, e, 0, e, 0, working, e, e, e, 0, none)
  BY <1>4, <1>6, <1>7, Zenon DEF Awaits, Follows, Waits
<1>9. Good(stream, e, e, working, e, e)
  BY <1>1, <1>8, AwaitsGood, Zenon
<1>10. Good(stream, wire, buffer, working, Expected, received)
  BY <1>1, <1>3, <1>9 DEF e
<1>11. QED
  BY <1>2, <1>10, StreamInvIs, Zenon

(* Two elements behind two sequences.                                      *)
TwoMore(s, t, a, b) == s \o (t \o <<a, b>>) = Append(s \o (t \o <<a>>), b)

(* The second of them may be appended by itself.                           *)
LEMMA TwoAppended ==
  ASSUME NEW S, NEW s \in Seq(S), NEW t \in Seq(S), NEW a \in S, NEW b \in S
  PROVE  TwoMore(s, t, a, b)
<1>1. t \o <<a, b>> = Append(t \o <<a>>, b)
  OBVIOUS
<1>2. t \o <<a>> \in Seq(S)
  OBVIOUS
<1> DEFINE u == t \o <<a>>
<1>3. u \in Seq(S)
  BY <1>2
<1> HIDE DEF u
<1>4. s \o Append(u, b) = Append(s \o u, b)
  BY <1>3
<1>5. QED
  BY <1>1, <1>4, Zenon DEF TwoMore, u

(* A packet is written.                                                    *)
LEMMA StreamSend ==
  ASSUME StreamInv, NEW data \in Bodies, Send(data)
  PROVE  StreamInv'
<1> DEFINE s == stream
           l == Len(buffer)
           v == Len(wire)
           n == Size(s, data)
           x == Whole(s, data)
<1>1. /\ s \in Streams /\ wire \in Seq(Bytes) /\ working \in BOOLEAN
      /\ sent \in Seq(Datas) /\ noises \in Nat
      /\ Expected = Wanted(s, sent)
  BY StreamKnown, Zenon
<1>2. PICK k, places : Awaits(s, wire, v, buffer, l, working, Expected, received, ToCome, k, places)
  BY StreamKnown, Zenon
<1>3. /\ wire' = wire \o Packet(data) /\ sent' = Append(sent, data)
      /\ stream' = stream /\ buffer' = buffer /\ working' = working /\ received' = received /\ noises' = noises
  BY DEF Send
<1>4. data \in Datas /\ s \in Streams
  BY <1>1, BodiesAreDatas
<1>5. sent' \in Seq(Datas) /\ Wanted(s, sent') = Wanted(stream', sent')
  BY <1>1, <1>3, <1>4
<1>6. /\ s.factory = "lines" /\ data = <<>> => Wanted(s, sent') = Expected
      /\ ~(s.factory = "lines" /\ data = <<>>) => Wanted(s, sent') = Append(Expected, data)
  <2>1. /\ s.factory = "lines" /\ data = <<>> => Wanted(s, Append(sent, data)) = Wanted(s, sent)
        /\ ~(s.factory = "lines" /\ data = <<>>) => Wanted(s, Append(sent, data)) = Append(Wanted(s, sent), data)
    BY <1>1, <1>4, WantedFacts
  <2>2. QED
    BY <1>1, <1>3, <2>1, Zenon
<1>7. CR \in Bytes /\ LF \in Bytes
  BY BytesFacts
<1>8. s.factory = "lines" => CR \in Filler(s) /\ LF \in Filler(s)
  BY DEF Filler
<1> HIDE DEF s, l, v, n, x
<1>9. CASE s.factory # "lines"
  <2>1. \E at : Awaits(s, wire \o x, v + n, buffer, l, working, Append(Expected, data), received,
                       Append(ToCome, data), k + 1, at)
    BY <1>2, <1>4, <1>9, AwaitsPacket, Zenon DEF x, n
  <2>2. Packet(data) = x
    BY <1>4, <1>9, StreamFacts DEF Packet, Whole, x, s
  <2>3. \E at : Awaits(stream', wire', v + n, buffer', l, working', Append(Expected, data), received',
                       Append(ToCome, data), k + 1, at)
    BY <1>3, <2>1, <2>2, Zenon DEF s
  <2>4. Append(Expected, data) = Wanted(stream', sent')
    BY <1>5, <1>6, <1>9, Zenon
  <2>5. QED
    BY <1>1, <1>3, <1>5, <2>3, <2>4, StreamKept, Zenon DEF s
<1>10. CASE s.factory = "lines" /\ data # <<>>
  <2>1. PICK at : Awaits(s, wire \o x, v + n, buffer, l, working, Append(Expected, data), received,
                         Append(ToCome, data), k + 1, at)
    BY <1>2, <1>4, <1>10, AwaitsPacket, Zenon DEF x, n
  <2>2. Awaits(s, Append(wire \o x, LF), v + n + 1, buffer, l, working, Append(Expected, data), received,
               Append(ToCome, data), k + 1, at)
    BY <1>4, <1>7, <1>8, <1>10, <2>1, AwaitsFiller, Zenon
  <2>3. wire' = Append(wire \o x, LF)
    <3>1. Packet(data) = data \o <<CR, LF>> /\ x = data \o <<CR>>
      BY <1>10 DEF Packet, Whole, x, s
    <3>2. data \in Seq(Bytes)
      BY <1>4, DataFacts DEF Sized
    <3>3. wire \o (data \o <<CR, LF>>) = Append(wire \o (data \o <<CR>>), LF)
      <4>1. wire \in Seq(Bytes)
        BY <1>1, Zenon
      <4>2. TwoMore(wire, data, CR, LF)
        BY <4>1, <1>7, <3>2, TwoAppended, Zenon
      <4>3. QED
        BY <4>2, Zenon DEF TwoMore
    <3>4. QED
      BY <1>3, <3>1, <3>3, Zenon
  <2>4. Awaits(stream', wire', v + n + 1, buffer', l, working', Append(Expected, data), received',
               Append(ToCome, data), k + 1, at)
    BY <1>3, <2>2, <2>3, Zenon DEF s
  <2>5. Append(Expected, data) = Wanted(stream', sent')
    BY <1>5, <1>6, <1>10, Zenon
  <2>6. QED
    BY <1>1, <1>3, <1>5, <2>4, <2>5, StreamKept, Zenon DEF s
<1>11. CASE s.factory = "lines" /\ data = <<>>
  <2>1. Awaits(s, Append(wire, CR), v + 1, buffer, l, working, Expected, received, ToCome, k, places)
    BY <1>2, <1>4, <1>7, <1>8, <1>11, AwaitsFiller, Zenon
  <2>2. Awaits(s, Append(Append(wire, CR), LF), v + 1 + 1, buffer, l, working, Expected, received, ToCome, k, places)
    BY <1>4, <1>7, <1>8, <1>11, <2>1, AwaitsFiller, Zenon
  <2>3. wire' = Append(Append(wire, CR), LF)
    <3>1. Packet(data) = <<>> \o <<CR, LF>>
      BY <1>11 DEF Packet, s
    <3>2. wire \o (<<>> \o <<CR, LF>>) = Append(Append(wire, CR), LF)
      BY <1>1, <1>7
    <3>3. QED
      BY <1>3, <3>1, <3>2, Zenon
  <2>4. Awaits(stream', wire', v + 1 + 1, buffer', l, working', Expected, received', ToCome, k, places)
    BY <1>3, <2>2, <2>3, Zenon DEF s
  <2>5. Expected = Wanted(stream', sent')
    BY <1>5, <1>6, <1>11, Zenon
  <2>6. QED
    BY <1>1, <1>3, <1>5, <2>4, <2>5, StreamKept, Zenon DEF s
<1>12. QED
  BY <1>9, <1>10, <1>11

(* Noise comes.                                                            *)
LEMMA StreamDisturb ==
  ASSUME StreamInv, NEW byte \in stream.noise, Disturb(byte)
  PROVE  StreamInv'
<1>1. /\ stream \in Streams /\ working \in BOOLEAN /\ sent \in Seq(Datas) /\ noises \in Nat
      /\ Expected = Wanted(stream, sent)
  BY StreamKnown, Zenon
<1>2. PICK k, places : Awaits(stream, wire, Len(wire), buffer, Len(buffer), working, Expected, received, ToCome, k, places)
  BY StreamKnown, Zenon
<1>3. /\ wire' = Append(wire, byte) /\ noises' = noises + 1
      /\ stream' = stream /\ buffer' = buffer /\ working' = working /\ received' = received /\ sent' = sent
  BY DEF Disturb
<1>4. stream.noise \in SUBSET (0 .. 9)
  BY <1>1, StreamFacts
<1>5. byte \in Bytes
  BY <1>4, BytesFacts
<1>6. byte \in Filler(stream)
  BY DEF Filler
<1>7. Awaits(stream, Append(wire, byte), Len(wire) + 1, buffer, Len(buffer), working, Expected, received, ToCome, k, places)
  BY <1>1, <1>2, <1>5, <1>6, AwaitsFiller, Zenon
<1>8. Awaits(stream', wire', Len(wire) + 1, buffer', Len(buffer), working', Expected, received', ToCome, k, places)
  BY <1>3, <1>7, Zenon
<1>9. noises' \in Nat
  BY <1>1, <1>3
<1>10. QED
  BY <1>1, <1>3, <1>8, <1>9, StreamKept, Zenon

(* Bytes are read.                                                         *)
LEMMA StreamRead ==
  ASSUME StreamInv, NEW n \in 1 .. stream.chunk, Read(n)
  PROVE  StreamInv'
<1>1. /\ stream \in Streams /\ wire \in Seq(Bytes) /\ sent \in Seq(Datas) /\ noises \in Nat
      /\ Expected = Wanted(stream, sent)
  BY StreamKnown, Zenon
<1>2. PICK k, places : Awaits(stream, wire, Len(wire), buffer, Len(buffer), working, Expected, received, ToCome, k, places)
  BY StreamKnown, Zenon
<1>3. /\ n <= Len(wire) /\ buffer' = buffer \o SubSeq(wire, 1, n) /\ wire' = Drop(wire, n) /\ working' = TRUE
      /\ stream' = stream /\ received' = received /\ sent' = sent /\ noises' = noises
  BY DEF Read
<1>4. n \in 0 .. Len(wire)
  BY <1>1, <1>3
<1>5. Awaits(stream, Drop(wire, n), Len(wire) - n, buffer \o SubSeq(wire, 1, n), Len(buffer) + n, TRUE,
             Expected, received, ToCome, k, places)
  BY <1>1, <1>2, <1>4, AwaitsRead, Zenon
<1>6. Awaits(stream', wire', Len(wire) - n, buffer', Len(buffer) + n, working', Expected, received', ToCome, k, places)
  BY <1>3, <1>5, Zenon
<1>7. working' \in BOOLEAN
  BY <1>3
<1>8. QED
  BY <1>1, <1>3, <1>6, <1>7, StreamKept, Zenon

(* A turn of the loop.                                                     *)
LEMMA StreamExtract ==
  ASSUME NoiseHarmless, StreamInv, Extract
  PROVE  StreamInv'
<1> DEFINE result == TryExtractPacket(buffer)
           l == Len(buffer)
           v == Len(wire)
<1>1. /\ stream \in Streams /\ sent \in Seq(Datas) /\ noises \in Nat
      /\ Expected = Wanted(stream, sent)
  BY StreamKnown, Zenon
<1>2. PICK k, places : Awaits(stream, wire, v, buffer, l, working, Expected, received, ToCome, k, places)
  BY StreamKnown, Zenon
<1>3. /\ buffer' = result.rest /\ received' = received \o result.packets /\ working' = (result.packets # <<>>)
      /\ stream' = stream /\ wire' = wire /\ sent' = sent /\ noises' = noises
  BY DEF Extract
<1> HIDE DEF result, l, v
<1>4. Sized(buffer, Bytes, l) /\ Sized(wire, Bytes, v) /\ Laid(stream, buffer \o wire, l + v, ToCome, k, places)
  BY <1>2, Zenon DEF Awaits
<1>5. \E m, n \in Nat : Takes(stream, buffer, l, ToCome, k, places, result, m, n)
  BY <1>1, <1>4, ExtractTakes, Zenon DEF result
<1>6. PICK m, n : Takes(stream, buffer, l, ToCome, k, places, result, m, n)
  BY <1>5, Zenon
<1>11. stream \in Streams
  BY <1>1, Zenon
<1>7. PICK at : Awaits(stream, wire, v, result.rest, l - n, result.packets # <<>>, Expected, received \o result.packets,
                       Drop(ToCome, m), k - m, at)
  BY <1>2, <1>6, <1>11, AwaitsTaken, ZenonT(30)
<1>8. Awaits(stream', wire', v, buffer', l - n, working', Expected, received', Drop(ToCome, m), k - m, at)
  BY <1>3, <1>7, Zenon
<1>9. working' \in BOOLEAN
  BY <1>3
<1>10. QED
  BY <1>1, <1>3, <1>8, <1>9, StreamKept, Zenon

(* StreamInv is inductive.                                                 *)
LEMMA StreamSteps ==
  ASSUME NoiseHarmless, StreamInv, [StreamNext]_streamVars
  PROVE  StreamInv'
<1>1. CASE \E data \in Bodies : Send(data)
  BY <1>1, StreamSend
<1>2. CASE \E byte \in stream.noise : Disturb(byte)
  BY <1>2, StreamDisturb
<1>3. CASE \E n \in 1 .. stream.chunk : Read(n)
  BY <1>3, StreamRead
<1>4. CASE Extract
  BY <1>4, StreamExtract
<1>5. CASE UNCHANGED streamVars
  <2>1. /\ stream' = stream /\ wire' = wire /\ buffer' = buffer /\ working' = working
        /\ sent' = sent /\ received' = received /\ noises' = noises
    BY <1>5 DEF streamVars
  <2>2. /\ stream \in Streams /\ working \in BOOLEAN /\ sent \in Seq(Datas) /\ noises \in Nat
        /\ Expected = Wanted(stream, sent)
    BY StreamKnown, Zenon
  <2>3. PICK k, places : Awaits(stream, wire, Len(wire), buffer, Len(buffer), working, Expected, received, ToCome, k, places)
    BY StreamKnown, Zenon
  <2>4. Awaits(stream', wire', Len(wire), buffer', Len(buffer), working', Expected, received', ToCome, k, places)
    BY <2>1, <2>3, Zenon
  <2>5. QED
    BY <2>1, <2>2, <2>4, StreamKept, Zenon
<1>6. QED
  BY <1>1, <1>2, <1>3, <1>4, <1>5 DEF StreamNext

(* In a state where no byte is on its way and the loop has ended, a packet *)
(* that is still to come would be whole in the buffer.                     *)
LEMMA NothingLeft ==
  ASSUME StreamInv
  PROVE  AllExtracted
<1>1. SUFFICES ASSUME wire = <<>>, ~working
               PROVE  received = Expected
  BY DEF AllExtracted
<1>2. PICK k, places : Awaits(stream, wire, Len(wire), buffer, Len(buffer), working, Expected, received, ToCome, k, places)
  BY StreamKnown, Zenon
<1> DEFINE l == Len(buffer)
           v == Len(wire)
<1>3. stream \in Streams
  BY StreamKnown, Zenon
<1>4. Awaits(stream, wire, v, buffer, l, working, Expected, received, ToCome, k, places) /\ v = 0
  BY <1>1, <1>2
<1> HIDE DEF l, v
<1>5. /\ Sized(ToCome, Datas, k) /\ k \in Nat /\ l \in Nat /\ received \in Seq(Datas) /\ Follows(ToCome, received, Expected)
      /\ Laid(stream, buffer \o wire, l + v, ToCome, k, places) /\ Waits(stream, l, working, ToCome, k, places)
      /\ \A i \in 1 .. k : ToCome[i] \in Datas /\ places[i] \in Nat
  BY <1>4, AwaitsFacts, Zenon
<1>6. CASE k # 0
  <2>1. places[1] + Size(stream, ToCome[1]) <= l + v + 1
    BY <1>3, <1>5, <1>6, FirstIsFirst
  <2>2. places[1] + Size(stream, ToCome[1]) > l + 1
    BY <1>1, <1>5, <1>6 DEF Waits
  <2>3. 1 \in 1 .. k
    BY <1>5, <1>6
  <2>4. Size(stream, ToCome[1]) \in Nat /\ places[1] \in Nat
    BY <1>3, <1>5, <2>3, SizeFacts
  <2>5. QED
    BY <1>4, <1>5, <2>1, <2>2, <2>4
<1>7. CASE k = 0
  <2>1. ToCome = <<>>
    BY <1>5, <1>7 DEF Sized
  <2>2. received \o <<>> = received
    BY <1>5
  <2>3. QED
    BY <1>5, <2>1, <2>2, Zenon DEF Follows
<1>8. QED
  BY <1>6, <1>7

(* StreamInv holds in every state, for every stream: whatever the packets, *)
(* the noise and the cuts, the packets still to come lie whole among the   *)
(* bytes of the buffer and of the wire, in their order, as long as no      *)
(* factory takes the noise for a part of a packet.                         *)
THEOREM StreamInvariant ==
  ASSUME NoiseHarmless
  PROVE  StreamSpec => []StreamInv
<1>1. StreamInit => StreamInv
  BY StreamStarts
<1>2. StreamInv /\ [StreamNext]_streamVars => StreamInv'
  BY StreamSteps
<1>3. QED
  BY <1>1, <1>2, PTL DEF StreamSpec

(* What comes out of tryExtractPacket() is what was sent, in its order,    *)
(* with no packet cut, doubled or made up.                                 *)
THEOREM ReceivedInOrderHolds ==
  ASSUME NoiseHarmless
  PROVE  StreamSpec => []ReceivedInOrder
<1>1. StreamInv => ReceivedInOrder
  BY Zenon DEF StreamInv
<1>2. QED
  BY <1>1, StreamInvariant, PTL

(* When all bytes have arrived and the loop of slotOnReadyToRead has       *)
(* ended, every packet has been extracted.                                 *)
THEOREM AllExtractedHolds ==
  ASSUME NoiseHarmless
  PROVE  StreamSpec => []AllExtracted
<1>1. StreamInv => AllExtracted
  BY NothingLeft
<1>2. QED
  BY <1>1, StreamInvariant, PTL

==================================================================================
