---------------------------- MODULE TicketChannel ----------------------------
(***************************************************************************)
(* What ThreadDataFrames promises about frames with a ticket: a frame is   *)
(* confirmed to the sender (onPacketApplied) only after the receiver got   *)
(* it, and the receiver gets a frame only when all frames before it have   *)
(* been confirmed.  A frame may be received again; that changes nothing.   *)
(***************************************************************************)
EXTENDS Integers

VARIABLES
  queued,     \* how many frames have been queued; they are 1 .. queued
  received,   \* the frames that the receiver got at least once
  applied     \* the frames whose ticket the sender got

channelVars == <<queued, received, applied>>

ChannelInit == queued = 0 /\ received = {} /\ applied = {}

Queue == queued' = queued + 1 /\ UNCHANGED <<received, applied>>

Receive(f) ==
  /\ f \in 1 .. queued
  /\ 1 .. f - 1 \subseteq applied
  /\ received' = received \cup {f}
  /\ UNCHANGED <<queued, applied>>

Apply(f) ==
  /\ f \in received
  /\ applied' = applied \cup {f}
  /\ UNCHANGED <<queued, received>>

ChannelNext == Queue \/ \E f \in 1 .. queued : Receive(f) \/ Apply(f)

ChannelSpec == ChannelInit /\ [][ChannelNext]_channelVars
=============================================================================
