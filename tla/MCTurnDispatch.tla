--------------------------- MODULE MCTurnDispatch ---------------------------
(* Instances of TurnDispatch for TLC: one or two sessions.                 *)
EXTENDS TurnDispatch

CONSTANTS
  s1, s2,
  InSecond          \* what belongs to session s2; everything else to s1

MCSessionOf == [m \in Msg \cup Direct |-> IF m \in InSecond THEN s2 ELSE s1]
=============================================================================
