---------------------------- MODULE EventChannel ----------------------------
(***************************************************************************)
(* What the event queue promises its producers: an event that was accepted *)
(* is delivered, in the order of acceptance and without a gap.             *)
(***************************************************************************)
EXTENDS Naturals, Sequences

CONSTANT Payloads

VARIABLES
  sent,       \* every event accepted, in order
  delivered   \* how many of them, from the first on, the center has

Init == sent = << >> /\ delivered = 0

Send(p) == sent' = Append(sent, p) /\ UNCHANGED delivered

Deliver ==
  /\ \E n \in 1 .. Len(sent) : n > delivered /\ delivered' = n
  /\ UNCHANGED sent

Next == Deliver \/ \E p \in Payloads : Send(p)

Spec == Init /\ [][Next]_<<sent, delivered>>

FairSpec == Spec /\ WF_<<sent, delivered>>(Deliver)
=============================================================================
