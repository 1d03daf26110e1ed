-------------------------- MODULE EventRefinement ---------------------------
(***************************************************************************)
(* The event queue, the uploader and the center together implement         *)
(* EventChannel.                                                           *)
(***************************************************************************)
EXTENDS EventDelivery

Channel == INSTANCE EventChannel
  WITH sent <- log, delivered <- Highest(center)

\* Accepted events reach the center completely and in order: Enqueue is the
\* sending, and the batch that moves the highest contiguous sequence number
\* the delivery.
ImplementsChannel == Channel!FairSpec
=============================================================================
