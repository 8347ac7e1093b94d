-------------------------- MODULE MCChannelDelivery --------------------------
(* A user's turn with a stream, one without, and the turn of its subagent. *)
EXTENDS ChannelDelivery

CONSTANTS user, other, sub, here, there

MCChatOf   == [t \in Turns |-> IF t = other THEN there ELSE here]
MCOriginOf == [t \in Turns |-> IF t = sub THEN user ELSE None]
=============================================================================
