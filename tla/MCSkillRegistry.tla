--------------------------- MODULE MCSkillRegistry ---------------------------
(***************************************************************************)
(* A skill of the workspace and one that hides a bundled skill, whose id a *)
(* content declares for itself.                                            *)
(***************************************************************************)
EXTENDS SkillRegistry

CONSTANTS n1, n2, b1, good, next

MCDeclares == [c \in Contents |-> IF c = next THEN b1 ELSE None]
MCBundled  == [n \in Names |-> IF n = n2 THEN b1 ELSE None]
=============================================================================
