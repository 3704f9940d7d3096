------------------------------ MODULE Mailbox -------------------------------
(***************************************************************************)
(* What posting a message promises: messages reach their thread in the     *)
(* order in which they were posted, each at most once, a thread that has   *)
(* finished handles nothing, and it does not finish while a message of one *)
(* of its children is pending.  A message that the parent, or the thread   *)
(* itself, posts to a thread that is finishing may never be handled.       *)
(***************************************************************************)
EXTENDS Integers, Sequences

CONSTANTS Threads, ParentOf

VARIABLES
  pending,     \* posted and not handled
  consumed,    \* handled, in order
  sent,        \* how many messages the thread has posted
  open         \* the thread has not finished

mailboxVars == <<pending, consumed, sent, open>>

MailboxInit ==
  /\ pending = [t \in Threads |-> <<>>]
  /\ consumed = [t \in Threads |-> <<>>]
  /\ sent = [t \in Threads |-> 0]
  /\ open = [t \in Threads |-> TRUE]

Post(s, t) ==
  /\ open[s]
  /\ sent' = [sent EXCEPT ![s] = @ + 1]
  /\ pending' = [pending EXCEPT ![t] = Append(@, [from |-> s, no |-> sent[s] + 1])]
  /\ UNCHANGED <<consumed, open>>

Consume(t) ==
  /\ open[t] /\ pending[t] # <<>>
  /\ consumed' = [consumed EXCEPT ![t] = Append(@, Head(pending[t]))]
  /\ pending' = [pending EXCEPT ![t] = Tail(@)]
  /\ UNCHANGED <<sent, open>>

Close(t) ==
  /\ open[t]
  /\ \A i \in 1 .. Len(pending[t]) : ParentOf[pending[t][i].from] # t
  /\ open' = [open EXCEPT ![t] = FALSE]
  /\ UNCHANGED <<pending, consumed, sent>>

(* Messages still pending for a finished thread go with its object.        *)
Discard(t) ==
  /\ ~open[t]
  /\ pending' = [pending EXCEPT ![t] = <<>>]
  /\ UNCHANGED <<consumed, sent, open>>

MailboxNext ==
  \/ \E s, t \in Threads : Post(s, t)
  \/ \E t \in Threads : Consume(t) \/ Close(t) \/ Discard(t)

MailboxSpec == MailboxInit /\ [][MailboxNext]_mailboxVars
=============================================================================
