--------------------------- MODULE MCLocalTriggers --------------------------
(* Instances of LocalTriggers for TLC: two triggers.                       *)
EXTENDS LocalTriggers

CONSTANTS
  t1, t2,
  InSecond    \* deliveries of trigger t2; the others belong to t1

MCTriggerOf == [d \in Deliveries |-> IF d \in InSecond THEN t2 ELSE t1]
=============================================================================
