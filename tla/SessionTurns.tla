---------------------------- MODULE SessionTurns ----------------------------
(***************************************************************************)
(* What the dispatcher promises, without tasks, locks or queues.  Work of  *)
(* a session is done one turn at a time.  A follow-up may be merged into   *)
(* the turn in progress and then shares its end.  Work is discarded only   *)
(* while a command of its own session executes.  A turn may hand over to a *)
(* further slice of itself, and then its work waits again.  A caller that  *)
(* waits for its work may give it up.                                      *)
(***************************************************************************)
CONSTANTS
  Work,        \* messages and direct calls
  Commands,    \* those that cancel the work of their session
  Calls,       \* those whose caller waits
  SessionKey   \* the session of each

VARIABLE life  \* life[w]: where w stands

Life == {"unsent", "waiting", "turn", "folded", "executing",
         "answered", "merged", "failed", "dropped"}

SameSession(w) == {v \in Work : SessionKey[v] = SessionKey[w]}
Idle(w)        == \A v \in SameSession(w) : life[v] # "turn"
Folded(w)      == {v \in SameSession(w) : life[v] = "folded"}
Commanded(w)   == \E c \in SameSession(w) \cap Commands : life[c] \in {"executing", "turn"}

AbsInit == life = [w \in Work |-> "unsent"]

Arrive(w) ==
  /\ life[w] = "unsent"
  /\ life' = [life EXCEPT ![w] = "waiting"]

Begin(w) ==
  /\ life[w] \in {"unsent", "waiting"} /\ Idle(w)
  /\ life' = [life EXCEPT ![w] = "turn"]

\* Several follow-ups at once join the turn of w.
Merge(w, joining) ==
  /\ life[w] = "turn"
  /\ joining # {} /\ joining \subseteq {v \in SameSession(w) : life[v] = "waiting"}
  /\ life' = [v \in Work |-> IF v \in joining THEN "folded" ELSE life[v]]

\* How a turn and the follow-ups merged into it may end together.
Ends(w) ==
  {<<"answered", "merged">>, <<"failed", "failed">>}
  \cup {<<"waiting", e>> : e \in {"merged", "failed", "dropped"}}
  \cup {e \in {<<"dropped", "dropped">>} : Commanded(w)}

Finish(w) ==
  /\ life[w] = "turn"
  /\ \E e \in Ends(w) :
       life' = [v \in Work |-> IF v = w THEN e[1] ELSE IF v \in Folded(w) THEN e[2] ELSE life[v]]

Withdraw(w) ==
  /\ w \in Calls /\ life[w] = "waiting"
  /\ life' = [life EXCEPT ![w] = "failed"]

\* A command executes beside the turns of its session and discards what waits.
Execute(c) ==
  /\ c \in Commands /\ life[c] = "waiting"
  /\ life' = [life EXCEPT ![c] = "executing"]

Discard(w) ==
  /\ life[w] = "waiting" /\ Commanded(w)
  /\ life' = [life EXCEPT ![w] = "dropped"]

Complete(c, discarded) ==
  /\ life[c] = "executing"
  /\ discarded \subseteq {v \in SameSession(c) : life[v] = "waiting"}
  /\ life' = [v \in Work |-> IF v = c THEN "answered"
                             ELSE IF v \in discarded THEN "dropped" ELSE life[v]]

AbsNext ==
  \/ \E w \in Work : Arrive(w) \/ Begin(w) \/ Finish(w) \/ Withdraw(w)
                      \/ Execute(w) \/ Discard(w)
  \/ \E w \in Work : \E joining \in SUBSET SameSession(w) : Merge(w, joining)
  \/ \E c \in Commands : \E discarded \in SUBSET SameSession(c) : Complete(c, discarded)

AbsSpec == AbsInit /\ [][AbsNext]_life
=============================================================================
