-------------------------- MODULE TurnDispatchProofs --------------------------
(***************************************************************************)
(* What holds of the dispatcher for every number of sessions, messages and *)
(* gate slots and every limit.  The invariants build on each other:        *)
(*                                                                         *)
(*   TypeInv    the types, and the bound on injections across a wait       *)
(*   PlaceInv   a message waits in one place, and not beside its own task  *)
(*   OwnInv     lock, gate and published queue belong to the same task     *)
(*   FollowInv  a pending queue that is not empty is published             *)
(*   HoldInv    what is sent and not settled has exactly one holder; with  *)
(*   RoomInv    the limits of the queues, which make the holders countable *)
(*   CauseInv   who is cancelled, by which command that still executes     *)
(*   GatherInv  what a turn collects is of its session                     *)
(*   ReportInv  what an automation's submitter is told                     *)
(*                                                                         *)
(* and the refinement of SessionTurns reads the mapping off the place that *)
(* HoldInv gives each message (Stage).                                     *)
(*                                                                         *)
(* Each is inductive under those above it, and each has the same parts:    *)
(* facts about the operators that change its variables, then one lemma per *)
(* group of actions of Next.                                               *)
(***************************************************************************)
EXTENDS TurnDispatch, SequenceTheorems, FiniteSetTheorems, TLAPS

-----------------------------------------------------------------------------
(* Sequences *)

\* No element comes twice.
Once(q) == \A i, j \in DOMAIN q : q[i] = q[j] => i = j

\* What a sequence that gains an element holds.
LEMMA AppendRange ==
  ASSUME NEW S, NEW q \in Seq(S), NEW x \in S
  PROVE  /\ Append(q, x) \in Seq(S)
         /\ Range(Append(q, x)) = Range(q) \cup {x}
         /\ Once(q) /\ x \notin Range(q) => Once(Append(q, x))
<1>1. /\ Append(q, x) \in Seq(S)
      /\ DOMAIN Append(q, x) = 1..(Len(q) + 1)
      /\ DOMAIN q = 1..Len(q) /\ Len(q) \in Nat
      /\ \A i \in 1..Len(q) : Append(q, x)[i] = q[i]
      /\ Append(q, x)[Len(q) + 1] = x
  OBVIOUS
<1>2. Range(Append(q, x)) = Range(q) \cup {x}
  BY <1>1, SMT DEF Range
<1>3. Once(q) /\ x \notin Range(q) => Once(Append(q, x))
  BY <1>1, SMT DEF Once, Range
<1> QED BY <1>1, <1>2, <1>3

\* What is left when the head is taken.
LEMMA TailRange ==
  ASSUME NEW S, NEW q \in Seq(S), q # <<>>
  PROVE  /\ Head(q) \in S /\ Head(q) \in Range(q)
         /\ Tail(q) \in Seq(S)
         /\ Range(q) = {Head(q)} \cup Range(Tail(q))
         /\ Once(q) => Once(Tail(q)) /\ Head(q) \notin Range(Tail(q))
<1>1. /\ Head(q) \in S /\ Tail(q) \in Seq(S)
      /\ Len(q) \in Nat \ {0} /\ DOMAIN q = 1..Len(q)
      /\ Head(q) = q[1]
      /\ DOMAIN Tail(q) = 1..(Len(q) - 1)
      /\ \A i \in 1..(Len(q) - 1) : Tail(q)[i] = q[i + 1]
  BY HeadTailProperties, EmptySeq, LenProperties
<1>2. Range(q) = {Head(q)} \cup Range(Tail(q))
  <2>1. ASSUME NEW x \in Range(q) PROVE x \in {Head(q)} \cup Range(Tail(q))
    <3>1. PICK i \in 1..Len(q) : x = q[i]
      BY <1>1 DEF Range
    <3>2. CASE i = 1 BY <1>1, <3>1, <3>2
    <3>3. CASE i # 1
      <4>1. i - 1 \in DOMAIN Tail(q) /\ x = Tail(q)[i - 1]
        BY <1>1, <3>1, <3>3
      <4> QED BY <4>1, Zenon DEF Range
    <3> QED BY <3>2, <3>3
  <2>2. Head(q) \in Range(q)
    BY <1>1, SMT DEF Range
  <2>3. ASSUME NEW x \in Range(Tail(q)) PROVE x \in Range(q)
    <3>1. PICK i \in 1..(Len(q) - 1) : x = Tail(q)[i]
      BY <1>1, Zenon DEF Range
    <3>2. i + 1 \in DOMAIN q /\ x = q[i + 1]
      BY <1>1, <3>1
    <3> QED BY <3>2, Zenon DEF Range
  <2> QED BY <2>1, <2>2, <2>3
<1>3. Once(q) => Once(Tail(q)) /\ Head(q) \notin Range(Tail(q))
  BY <1>1, SMT DEF Once, Range
<1> QED BY <1>1, <1>2, <1>3, SMT

\* What two sequences hold together.
LEMMA ConcatRange ==
  ASSUME NEW S, NEW p \in Seq(S), NEW q \in Seq(S)
  PROVE  /\ p \o q \in Seq(S)
         /\ Range(p \o q) = Range(p) \cup Range(q)
         /\ Once(p) /\ Once(q) /\ Range(p) \cap Range(q) = {} => Once(p \o q)
<1>1. /\ p \o q \in Seq(S)
      /\ Len(p) \in Nat /\ Len(q) \in Nat
      /\ DOMAIN p = 1..Len(p) /\ DOMAIN q = 1..Len(q)
      /\ DOMAIN (p \o q) = 1..(Len(p) + Len(q))
      /\ \A i \in 1..(Len(p) + Len(q)) :
            (p \o q)[i] = IF i <= Len(p) THEN p[i] ELSE q[i - Len(p)]
  BY ConcatProperties, LenProperties
<1>2. \A i \in 1..Len(p) : (p \o q)[i] = p[i]
  BY <1>1
<1>3. \A i \in 1..Len(q) : Len(p) + i \in 1..(Len(p) + Len(q)) /\ (p \o q)[Len(p) + i] = q[i]
  BY <1>1
<1>4. Range(p \o q) = Range(p) \cup Range(q)
  <2>1. ASSUME NEW x \in Range(p \o q) PROVE x \in Range(p) \cup Range(q)
    BY <1>1, SMT DEF Range
  <2>2. ASSUME NEW x \in Range(p) PROVE x \in Range(p \o q)
    <3>1. PICK i \in 1..Len(p) : x = p[i]
      BY <1>1, <2>2, Zenon DEF Range
    <3>2. i \in DOMAIN (p \o q) /\ x = (p \o q)[i]
      BY <1>1, <1>2, <3>1
    <3> QED BY <3>2, Zenon DEF Range
  <2>3. ASSUME NEW x \in Range(q) PROVE x \in Range(p \o q)
    <3>1. PICK i \in 1..Len(q) : x = q[i]
      BY <1>1, <2>3, Zenon DEF Range
    <3>2. Len(p) + i \in DOMAIN (p \o q) /\ x = (p \o q)[Len(p) + i]
      BY <1>1, <1>3, <3>1
    <3> QED BY <3>2, Zenon DEF Range
  <2> QED BY <2>1, <2>2, <2>3
<1>5. ASSUME Once(p), Once(q), Range(p) \cap Range(q) = {} PROVE Once(p \o q)
  <2>1. \A i \in DOMAIN p, j \in DOMAIN q : p[i] # q[j]
    BY <1>5 DEF Range
  <2> QED BY <1>1, <1>5, <2>1, SMT DEF Once
<1> QED BY <1>1, <1>4, <1>5

\* What a contiguous part of a sequence holds.
LEMMA SubSeqRange ==
  ASSUME NEW S, NEW q \in Seq(S), NEW a \in 1..(Len(q) + 1), NEW b \in 0..Len(q)
  PROVE  /\ SubSeq(q, a, b) \in Seq(S)
         /\ Range(SubSeq(q, a, b)) \subseteq Range(q)
         /\ Once(q) => Once(SubSeq(q, a, b))
<1>1. /\ Len(q) \in Nat /\ DOMAIN q = 1..Len(q)
      /\ \A i \in a..b : q[i] \in S
  BY LenProperties
<1>2. /\ SubSeq(q, a, b) \in Seq(S)
      /\ Len(SubSeq(q, a, b)) = IF a <= b THEN b - a + 1 ELSE 0
      /\ \A i \in 1..(b - a + 1) : SubSeq(q, a, b)[i] = q[a + i - 1]
  BY <1>1, SubSeqProperties
<1>3. DOMAIN SubSeq(q, a, b) = 1..Len(SubSeq(q, a, b))
  BY <1>2, LenProperties
<1>4. \A i \in DOMAIN SubSeq(q, a, b) :
         a + i - 1 \in DOMAIN q /\ SubSeq(q, a, b)[i] = q[a + i - 1]
  <2> SUFFICES ASSUME NEW i \in DOMAIN SubSeq(q, a, b)
               PROVE  a + i - 1 \in DOMAIN q /\ SubSeq(q, a, b)[i] = q[a + i - 1]
    OBVIOUS
  <2>1. a \in Nat /\ b \in Nat /\ a >= 1 /\ b <= Len(q)
    BY <1>1
  <2>2. i \in 1..(b - a + 1)
    BY <1>2, <1>3, <2>1
  <2>3. a + i - 1 \in 1..Len(q)
    BY <1>1, <2>1, <2>2
  <2> QED BY <1>1, <1>2, <2>2, <2>3
<1>5. Range(SubSeq(q, a, b)) \subseteq Range(q)
  BY <1>4, Zenon DEF Range
<1>6. Once(q) => Once(SubSeq(q, a, b))
  BY <1>1, <1>2, <1>3, <1>4, SMT DEF Once
<1> QED BY <1>2, <1>5, <1>6

\* What is left when element i is removed.
LEMMA RemoveAtRange ==
  ASSUME NEW S, NEW q \in Seq(S), NEW i \in DOMAIN q
  PROVE  RemoveAt(q, i) \in Seq(S)
<1>1. Len(q) \in Nat /\ DOMAIN q = 1..Len(q)
  BY LenProperties
<1>2. SubSeq(q, 1, i - 1) \in Seq(S) /\ SubSeq(q, i + 1, Len(q)) \in Seq(S)
  BY <1>1, SubSeqRange
<1> QED BY <1>2, ConcatProperties DEF RemoveAt

\* The empty sequence.
LEMMA NothingInEmpty == Once(<<>>) /\ Range(<<>>) = {}
BY SMT DEF Once, Range

-----------------------------------------------------------------------------
(* Types *)

\* The kinds of messages, and None is none of them.
LEMMA SetFacts ==
  /\ None \notin Turns /\ None \notin Msg
  /\ Turns \ Direct \subseteq Msg /\ Automations \cup Chat \cup Sub \cup New \subseteq Turns \ Direct
  /\ \A m \in Turns \cup Msg : SessionOf[m] \in Sessions
BY SetsAssumption DEF Turns, Msg

\* The states of a task, and which of them hold a gate slot.
LEMMA TaskStates == /\ InTurn \subseteq Holding /\ Holding \subseteq TaskState
                    /\ {"idle", "created", "lock"} \subseteq TaskState \ Holding
                    /\ {"gate", "turn", "await", "cont", "new", "closing"} \subseteq Holding
                    /\ Holding \ InTurn = {"gate"}
BY DEF Holding, InTurn, TaskState

\* A turn that waits for a subagent may still inject once more: the code tests
\* the limit on cycles before it waits and not after it.
AwaitBound == \A m \in Turns : pc[m] = "await" => cycles[m] < CycleMax

GoalType == /\ goal \in [Sessions -> {"none", "active", "gated"}]
            /\ recorded \in [Sessions -> 0..GoalMax]
            /\ rounds \in [Sessions -> 0..ContinuationMax]
            /\ silent \subseteq Turns

\* The types that do not depend on the goals.
CoreOK ==
  /\ inbound \in Seq(Msg)
  /\ sent \subseteq Msg
  /\ inline \in Stop \cup New \cup {None}
  /\ awaits \in [Stop \cup New -> SUBSET Turns]
  /\ active \in [Sessions -> SUBSET Turns]
  /\ pc \in [Turns -> TaskState]
  /\ cancelReq \subseteq Turns
  /\ lockOwner \in [Sessions -> Turns \cup {None}]
  /\ lockWaiters \in [Sessions -> Seq(Turns)]
  /\ gate \subseteq Turns
  /\ gateWaiters \in Seq(Turns)
  /\ registry \in [Sessions -> Turns \cup {None}]
  /\ queue \in [Turns -> Seq(Msg)]
  /\ folded \in [Turns -> SUBSET Msg]
  /\ cycles \in [Turns -> 0..CycleMax]
  /\ continuing \subseteq Turns
  /\ deferred \in [Sessions -> Seq(Automations)]
  /\ waiter \in [Automations -> {"none", "waiting", "answered", "failed"}]
  /\ sub \in [Sub -> {"new", "running", "announced", "cancelled"}]
  /\ fate \in [Msg \cup Direct -> Fates]

TypeInv == CoreOK /\ AwaitBound

BusType == /\ inbound \in Seq(Msg)
           /\ sent \subseteq Msg
           /\ deferred \in [Sessions -> Seq(Automations)]

LoopType == /\ inline \in Stop \cup New \cup {None}
            /\ awaits \in [Stop \cup New -> SUBSET Turns]
            /\ active \in [Sessions -> SUBSET Turns]

LockType == /\ lockOwner \in [Sessions -> Turns \cup {None}]
            /\ lockWaiters \in [Sessions -> Seq(Turns)]
            /\ gate \subseteq Turns
            /\ gateWaiters \in Seq(Turns)

TurnType == /\ registry \in [Sessions -> Turns \cup {None}]
            /\ queue \in [Turns -> Seq(Msg)]
            /\ folded \in [Turns -> SUBSET Msg]
            /\ cycles \in [Turns -> 0..CycleMax]
            /\ continuing \subseteq Turns
            /\ AwaitBound

TaskType == pc \in [Turns -> TaskState] /\ cancelReq \subseteq Turns

ResultType == /\ waiter \in [Automations -> {"none", "waiting", "answered", "failed"}]
              /\ sub \in [Sub -> {"new", "running", "announced", "cancelled"}]
              /\ fate \in [Msg \cup Direct -> Fates]

\* The parts of the type invariant, before and after a step.
LEMMA TypeParts ==
  TypeInv <=> BusType /\ LoopType /\ LockType /\ TurnType /\ TaskType /\ ResultType
BY DEF TypeInv, CoreOK, BusType, LoopType, LockType, TurnType, TaskType, ResultType

LEMMA TypePartsNext ==
  TypeInv' <=> BusType' /\ LoopType' /\ LockType' /\ TurnType' /\ TaskType' /\ ResultType'
BY TypeParts, PTL

\* The initial states.
LEMMA TypeInit == Init => TypeInv
<1> SUFFICES ASSUME Init PROVE TypeInv
  OBVIOUS
<1>1. BusType /\ LockType
  BY EmptySeq, Zenon DEF Init, BusType, LockType
<1>2. LoopType /\ TaskType /\ ResultType
  BY SetsAssumption, SMT DEF Init, LoopType, TaskType, ResultType, TaskState, Fates
<1>3. TurnType
  BY BoundsAssumption, SMT DEF Init, TurnType, AwaitBound
<1> QED BY <1>1, <1>2, <1>3, TypeParts

\* Taking the gate.
LEMMA BeginTurnType ==
  ASSUME TypeInv, NEW m \in Turns, BeginTurn(m)
  PROVE  gate' \subseteq Turns /\ TurnType' /\ pc' \in [Turns -> TaskState]
<1>1. TurnType /\ TaskType /\ LockType
  BY TypeParts
<1>2. <<>> \in Seq(Msg)
  BY EmptySeq
<1>3. /\ registry' \in [Sessions -> Turns \cup {None}]
      /\ queue' \in [Turns -> Seq(Msg)]
  BY <1>1, <1>2 DEF BeginTurn, TurnType
<1>4. gate' \subseteq Turns /\ pc' \in [Turns -> TaskState]
  BY <1>1, TaskStates DEF BeginTurn, LockType, TaskType
<1>5. AwaitBound'
  BY <1>1 DEF BeginTurn, TurnType, TaskType, AwaitBound
<1> QED BY <1>1, <1>3, <1>4, <1>5 DEF BeginTurn, TurnType

\* Taking the lock, with or without the gate.
LEMMA HoldLockType ==
  ASSUME TypeInv, NEW m \in Turns, HoldLock(m), lockWaiters' \in [Sessions -> Seq(Turns)]
  PROVE  LockType' /\ TurnType' /\ pc' \in [Turns -> TaskState]
<1>1. TurnType /\ TaskType /\ LockType
  BY TypeParts
<1>2. lockOwner' \in [Sessions -> Turns \cup {None}]
  BY <1>1 DEF HoldLock, LockType
<1>3. CASE m \in Direct /\ pc' = [pc EXCEPT ![m] = "turn"] /\ UNCHANGED <<gate, gateWaiters, turnVars>>
  BY <1>1, <1>2, <1>3, TaskStates DEF LockType, TurnType, TaskType, turnVars, AwaitBound
<1>4. CASE BeginTurn(m) /\ UNCHANGED gateWaiters
  BY <1>1, <1>2, <1>4, BeginTurnType DEF LockType
<1>5. CASE /\ pc' = [pc EXCEPT ![m] = "gate"]
           /\ gateWaiters' = Append(gateWaiters, m)
           /\ UNCHANGED <<gate, turnVars>>
  <2>1. gateWaiters' \in Seq(Turns)
    BY <1>1, <1>5, AppendProperties DEF LockType
  <2> QED BY <1>1, <1>2, <1>5, <2>1, TaskStates DEF LockType, TurnType, TaskType, turnVars, AwaitBound
<1> QED BY <1>3, <1>4, <1>5 DEF HoldLock

\* A task that asks for the lock.
LEMMA AskLockType ==
  ASSUME TypeInv, NEW m \in Turns, AskLock(m)
  PROVE  LockType' /\ TurnType' /\ pc' \in [Turns -> TaskState]
<1>1. TurnType /\ TaskType /\ LockType
  BY TypeParts
<1>2. CASE HoldLock(m) /\ UNCHANGED lockWaiters
  BY <1>1, <1>2, HoldLockType DEF LockType
<1>3. CASE /\ pc' = [pc EXCEPT ![m] = "lock"]
           /\ lockWaiters' = [lockWaiters EXCEPT ![SessionOf[m]] = Append(@, m)]
           /\ UNCHANGED <<lockOwner, gate, gateWaiters, turnVars>>
  <2>1. lockWaiters' \in [Sessions -> Seq(Turns)]
    BY <1>1, <1>3, SetFacts, AppendProperties, SMT DEF LockType
  <2> QED BY <1>1, <1>3, <2>1, TaskStates DEF LockType, TurnType, TaskType, turnVars, AwaitBound
<1> QED BY <1>2, <1>3 DEF AskLock

\* What _drain_pending takes and what it leaves.
LEMMA DrainedType ==
  ASSUME NEW m \in Turns, queue[m] \in Seq(Msg)
  PROVE  /\ Drained(m) \in Seq(Msg) /\ Range(Drained(m)) \subseteq Msg
         /\ Undrained(m) \in Seq(Msg)
         /\ Range(Undrained(m)) \subseteq Range(queue[m])
         /\ Once(queue[m]) => Once(Undrained(m))
<1> DEFINE n == IF Len(queue[m]) < InjectLimit THEN Len(queue[m]) ELSE InjectLimit
<1>1. Len(queue[m]) \in Nat /\ n \in 0..Len(queue[m]) /\ 1 \in 1..(Len(queue[m]) + 1)
  BY LenProperties, BoundsAssumption
<1>2. Drained(m) \in Seq(Msg) /\ Len(Drained(m)) = n
  <2>1. \A i \in 1..n : queue[m][i] \in Msg
    BY <1>1, LenProperties
  <2>2. /\ SubSeq(queue[m], 1, n) \in Seq(Msg)
        /\ Len(SubSeq(queue[m], 1, n)) = IF 1 <= n THEN n - 1 + 1 ELSE 0
    BY <1>1, <2>1, SubSeqProperties
  <2> QED BY <1>1, <2>2 DEF Drained
<1>3. Range(Drained(m)) \subseteq Msg
  <2>1. DOMAIN Drained(m) = 1..Len(Drained(m))
    BY <1>2, LenProperties
  <2>2. \A i \in DOMAIN Drained(m) : Drained(m)[i] \in Msg
    BY <1>2, <2>1, ElementOfSeq
  <2> QED BY <2>2, Zenon DEF Range
<1>4. Len(Drained(m)) + 1 \in 1..(Len(queue[m]) + 1) /\ Len(queue[m]) \in 0..Len(queue[m])
  BY <1>1, <1>2
<1>5. /\ Undrained(m) \in Seq(Msg)
      /\ Range(Undrained(m)) \subseteq Range(queue[m])
      /\ Once(queue[m]) => Once(Undrained(m))
  BY <1>4, SubSeqRange, Zenon DEF Undrained
<1> QED BY <1>2, <1>3, <1>5

\* Every follow-up of a drain is folded in.
LEMMA FoldType ==
  ASSUME TypeInv, NEW m \in Turns, FoldIn(m), cycles[m] < CycleMax
  PROVE  /\ folded' \in [Turns -> SUBSET Msg]
         /\ cycles' \in [Turns -> 0..CycleMax]
         /\ \A t \in Turns : t # m => cycles'[t] = cycles[t]
<1>1. TurnType
  BY TypeParts
<1>2. Range(Drained(m)) \subseteq Msg
  BY <1>1, DrainedType DEF TurnType
<1> QED BY <1>1, <1>2, BoundsAssumption, SMT DEF FoldIn, TurnType

\* The end of a turn at its budget, with or without a next slice.
LEMMA FinishAtBudgetType ==
  ASSUME TypeInv, NEW m \in Turns, NEW rest \in Seq(Msg), FinishAtBudget(m, rest)
  PROVE  /\ queue' \in [Turns -> Seq(Msg)]
         /\ continuing' \subseteq Turns
         /\ pc' \in [Turns -> TaskState]
         /\ \A t \in Turns : pc'[t] = "await" => t # m /\ pc[t] = "await"
<1>1. TurnType /\ TaskType
  BY TypeParts
<1>2. CASE Continues(m) /\ Len(rest) < PendingMax
  <2>1. m \in Msg
    BY <1>2 DEF Continues, Msg
  <2>2. Append(rest, m) \in Seq(Msg)
    BY <2>1, AppendProperties
  <2>3. queue' \in [Turns -> Seq(Msg)]
    BY <1>1, <1>2, <2>2 DEF FinishAtBudget, TurnType
  <2>4. continuing' \subseteq Turns
    BY <1>1, <1>2 DEF FinishAtBudget, TurnType
  <2>5. pc' = [pc EXCEPT ![m] = "closing"]
    <3>1. Len(rest) \in Nat /\ ~ (Len(rest) >= PendingMax)
      BY <1>2, LenProperties, BoundsAssumption
    <3> QED BY <3>1 DEF FinishAtBudget
  <2> QED BY <1>1, <2>3, <2>4, <2>5, TaskStates DEF TaskType
<1>3. CASE ~ (Continues(m) /\ Len(rest) < PendingMax)
  <2>1. queue' \in [Turns -> Seq(Msg)]
    BY <1>1, <1>3 DEF FinishAtBudget, TurnType
  <2>2. continuing' = continuing
    BY <1>3 DEF FinishAtBudget
  <2>3. \E next \in {"cont", "closing"} : pc' = [pc EXCEPT ![m] = next]
    BY DEF FinishAtBudget
  <2> QED BY <1>1, <2>1, <2>2, <2>3, TaskStates DEF TaskType, TurnType
<1> QED BY <1>2, <1>3

\* Handing the first deferred turn back.
LEMMA PublishType ==
  ASSUME TypeInv, NEW s \in Sessions, NEW before \in Seq(Msg), PublishNextDeferred(s, before)
  PROVE  BusType'
<1>1. BusType /\ Automations \subseteq Msg
  BY TypeParts DEF Msg
<1>2. deferred[s] \in Seq(Automations)
  BY <1>1 DEF BusType
<1>3. NextDeferred(s) \in Seq(Msg)
  <2>1. CASE deferred[s] = <<>>
    BY <2>1, EmptySeq DEF NextDeferred
  <2>2. CASE deferred[s] # <<>>
    <3>1. Head(deferred[s]) \in Msg
      BY <1>1, <1>2, <2>2, HeadTailProperties
    <3> QED BY <2>2, <3>1 DEF NextDeferred
  <2> QED BY <2>1, <2>2
<1>4. inbound' \in Seq(Msg)
  BY <1>3, ConcatProperties DEF PublishNextDeferred
<1>5. deferred' \in [Sessions -> Seq(Automations)]
  <2>1. CASE deferred[s] = <<>>
    BY <1>1, <2>1 DEF PublishNextDeferred, BusType
  <2>2. CASE deferred[s] # <<>>
    <3>1. Tail(deferred[s]) \in Seq(Automations)
      BY <1>2, <2>2, HeadTailProperties
    <3> QED BY <1>1, <2>2, <3>1 DEF PublishNextDeferred, BusType
  <2> QED BY <2>1, <2>2
<1> QED BY <1>1, <1>4, <1>5 DEF BusType, PublishNextDeferred

\* The finally block.
LEMMA FinallyType ==
  ASSUME TypeInv, NEW m \in Turns, Finally(m)
  PROVE  BusType' /\ LoopType' /\ LockType' /\ TurnType' /\ TaskType' /\ sub' = sub
<1>1. BusType /\ LoopType /\ LockType /\ TurnType /\ TaskType
  BY TypeParts
<1>2. BusType'
  <2>1. inbound \o Leftovers(m) \in Seq(Msg)
    BY <1>1, ConcatProperties DEF Leftovers, BusType, TurnType
  <2> QED BY <2>1, SetFacts, PublishType DEF Finally
<1>3. LoopType' /\ LockType'
  BY <1>1 DEF Finally, LoopType, LockType
<1>4. TaskType' /\ pc'[m] = "idle" /\ \A t \in Turns : t # m => pc'[t] = pc[t]
  BY <1>1, TaskStates DEF Finally, TaskType
<1>5. <<>> \in Seq(Msg)
  BY EmptySeq
<1>6. /\ registry' \in [Sessions -> Turns \cup {None}]
      /\ queue' \in [Turns -> Seq(Msg)]
      /\ folded' \in [Turns -> SUBSET Msg]
      /\ continuing' \subseteq Turns
  BY <1>1, <1>5 DEF Finally, Unpublish, TurnType
<1>7. cycles' \in [Turns -> 0..CycleMax] /\ \A t \in Turns : t # m => cycles'[t] = cycles[t]
  BY <1>1, BoundsAssumption DEF Finally, TurnType
<1>8. AwaitBound'
  BY <1>1, <1>4, <1>7 DEF AwaitBound, TurnType
<1> QED BY <1>2, <1>3, <1>4, <1>6, <1>7, <1>8 DEF TurnType, Finally

\* A task ends: what it settles and what its submitter is told.
LEMMA SettleType ==
  ASSUME TypeInv, NEW m \in Turns, NEW own \in Fates, NEW others \in Fates,
         NEW result \in {"answered", "failed"},
         Settle(m, own, others), Complete(m, result), sub' = sub
  PROVE  ResultType'
<1>1. ResultType
  BY TypeParts
<1>2. fate' \in [Msg \cup Direct -> Fates]
  BY <1>1 DEF Settle, ResultType
<1>3. waiter' \in [Automations -> {"none", "waiting", "answered", "failed"}]
  BY <1>1 DEF Complete, ResultType
<1> QED BY <1>1, <1>2, <1>3 DEF ResultType

\* Cancelling tasks of a session.
LEMMA CancelActiveType ==
  ASSUME TypeInv, NEW c \in Stop \cup New, NEW tasks \in SUBSET Turns, CancelActive(c, tasks)
  PROVE  /\ awaits' \in [Stop \cup New -> SUBSET Turns]
         /\ active' \in [Sessions -> SUBSET Turns]
         /\ cancelReq' \subseteq Turns
<1>1. LoopType /\ TaskType
  BY TypeParts
<1> QED BY <1>1 DEF CancelActive, LoopType, TaskType

\* Taking the head of the inbound queue.
LEMMA ConsumeType ==
  ASSUME TypeInv, NEW m, Consume(m)
  PROVE  m \in Msg /\ inbound' \in Seq(Msg)
<1>1. inbound \in Seq(Msg)
  BY TypeParts DEF BusType
<1> QED BY <1>1, HeadTailProperties DEF Consume

\* A producer sends.
LEMMA SendMsgType ==
  ASSUME TypeInv, NEW m \in Msg, inbound' = Append(inbound, m), sent' = sent \cup {m},
         deferred' = deferred
  PROVE  BusType'
<1>1. BusType
  BY TypeParts
<1> QED BY <1>1, AppendProperties DEF BusType

\* Tasks other than m keep their state, and m is not left waiting.
LEMMA StepTaskType ==
  ASSUME TypeInv, NEW m \in Turns, NEW at \in TaskState \ {"await"},
         pc' = [pc EXCEPT ![m] = at], UNCHANGED <<turnVars>>
  PROVE  pc' \in [Turns -> TaskState] /\ TurnType'
<1>1. TaskType /\ TurnType
  BY TypeParts
<1> QED BY <1>1 DEF TaskType, TurnType, AwaitBound, turnVars

\* The subagents of a session are cancelled.
LEMMA CancelSubagentsType ==
  ASSUME TypeInv, NEW s, CancelSubagents(s)
  PROVE  sub' \in [Sub -> {"new", "running", "announced", "cancelled"}]
<1>1. ResultType
  BY TypeParts
<1> QED BY <1>1 DEF CancelSubagents, ResultType

-----------------------------------------------------------------------------
(* Every step preserves the types *)

\* One lemma per group of actions.
LEMMA TypeProduce == ASSUME TypeInv, Produce PROVE TypeInv'
<1> USE TypeParts DEF vars, busVars, loopVars, lockVars, turnVars, resultVars
<1>0. /\ BusType /\ LoopType /\ LockType /\ TurnType /\ TaskType /\ ResultType
      /\ Chat \cup Stop \cup New \cup Automations \cup Sub \subseteq Msg /\ Direct \subseteq Turns
  BY DEF Msg, Turns
<1>1. CASE \E m \in Chat \cup Stop \cup New : Send(m)
  <2>1. PICK m \in Chat \cup Stop \cup New : Send(m)
    BY <1>1
  <2>2. BusType'
    BY <1>0, <2>1, SendMsgType DEF Send
  <2> QED BY <1>0, <2>1, <2>2, TypePartsNext
        DEF Send, LoopType, LockType, TurnType, AwaitBound, TaskType, ResultType
<1>2. CASE \E a \in Automations : Submit(a)
  <2>1. PICK a \in Automations : Submit(a)
    BY <1>2
  <2>2. BusType'
    BY <1>0, <2>1, SendMsgType DEF Submit
  <2>3. ResultType'
    BY <1>0, <2>1 DEF Submit, ResultType
  <2> QED BY <1>0, <2>1, <2>2, <2>3, TypePartsNext
        DEF Submit, LoopType, LockType, TurnType, AwaitBound, TaskType
<1>3. CASE \E m \in Turns, a \in Sub : Spawn(m, a)
  <2>1. PICK m \in Turns, a \in Sub : Spawn(m, a)
    BY <1>3
  <2>2. ResultType'
    BY <1>0, <2>1 DEF Spawn, ResultType
  <2> QED BY <1>0, <2>1, <2>2, TypePartsNext
        DEF Spawn, BusType, LoopType, LockType, TurnType, AwaitBound, TaskType
<1>4. CASE \E a \in Sub : Announce(a)
  <2>1. PICK a \in Sub : Announce(a)
    BY <1>4
  <2>2. BusType'
    BY <1>0, <2>1, SendMsgType DEF Announce
  <2>3. ResultType'
    BY <1>0, <2>1 DEF Announce, ResultType
  <2> QED BY <1>0, <2>1, <2>2, <2>3, TypePartsNext
        DEF Announce, LoopType, LockType, TurnType, AwaitBound, TaskType
<1>5. CASE \E d \in Direct : CallDirect(d)
  <2>1. PICK d \in Direct : CallDirect(d)
    BY <1>5
  <2>2. LockType' /\ TurnType' /\ pc' \in [Turns -> TaskState]
    BY <1>0, <2>1, AskLockType DEF CallDirect
  <2> QED BY <1>0, <2>1, <2>2, TypePartsNext
        DEF CallDirect, BusType, LoopType, TaskType, ResultType
<1> QED BY <1>1, <1>2, <1>3, <1>4, <1>5 DEF Produce

LEMMA TypeRunLoop == ASSUME TypeInv, RunLoop PROVE TypeInv'
<1> USE TypeParts DEF vars, busVars, loopVars, lockVars, turnVars, resultVars
<1>0. BusType /\ LoopType /\ LockType /\ TurnType /\ TaskType /\ ResultType
  OBVIOUS
<1>1. CASE \E m \in Msg : ConsumeCommand(m)
  <2>1. PICK m \in Msg : ConsumeCommand(m)
    BY <1>1
  <2>2. m \in Stop \cup New /\ Consume(m) /\ active[SessionOf[m]] \in SUBSET Turns
    BY <1>0, <2>1, SetFacts DEF ConsumeCommand, LoopType
  <2>3. LoopType' /\ cancelReq' \subseteq Turns
    BY <2>1, <2>2, CancelActiveType DEF ConsumeCommand, LoopType
  <2>4. BusType'
    BY <1>0, <2>1, <2>2, ConsumeType DEF ConsumeCommand, BusType
  <2> QED BY <1>0, <2>1, <2>3, <2>4, TypePartsNext
        DEF ConsumeCommand, LockType, TurnType, AwaitBound, TaskType, ResultType
<1>2. CASE \E m \in Automations : ConsumeDefer(m)
  <2>1. PICK m \in Automations : ConsumeDefer(m)
    BY <1>2
  <2>2. Consume(m) /\ SessionOf[m] \in Sessions /\ deferred[SessionOf[m]] \in Seq(Automations)
    BY <1>0, <2>1, SetFacts DEF ConsumeDefer, BusType
  <2>3. Append(deferred[SessionOf[m]], m) \in Seq(Automations)
    BY <2>2, AppendProperties
  <2>4. BusType'
    BY <1>0, <2>1, <2>2, <2>3, ConsumeType DEF ConsumeDefer, BusType
  <2> QED BY <1>0, <2>1, <2>4, TypePartsNext
        DEF ConsumeDefer, LoopType, LockType, TurnType, AwaitBound, TaskType, ResultType
<1>3. CASE \E m \in Chat \cup Sub : ConsumeRoute(m)
  <2>1. PICK m \in Chat \cup Sub : ConsumeRoute(m)
    BY <1>3
  <2>2. /\ Consume(m) /\ m \in Msg
        /\ queue' = [queue EXCEPT ![registry[SessionOf[m]]] = Append(@, m)]
    BY <2>1 DEF ConsumeRoute, Msg
  <2>3. registry[SessionOf[m]] \in Turns
    BY <1>0, <2>1, <2>2, SetFacts DEF ConsumeRoute, RoutesToPending, TurnType
  <2>4. Append(queue[registry[SessionOf[m]]], m) \in Seq(Msg)
    BY <1>0, <2>2, <2>3, AppendProperties DEF TurnType
  <2>5. queue' \in [Turns -> Seq(Msg)]
    BY <1>0, <2>2, <2>4 DEF TurnType
  <2>6. BusType'
    BY <1>0, <2>1, <2>2, ConsumeType DEF ConsumeRoute, BusType
  <2> QED BY <1>0, <2>1, <2>5, <2>6, TypePartsNext
        DEF ConsumeRoute, LoopType, LockType, TurnType, AwaitBound, TaskType, ResultType
<1>4. CASE \E m \in Msg : ConsumeCreate(m)
  <2>1. PICK m \in Msg : ConsumeCreate(m)
    BY <1>4
  <2>2. Consume(m) /\ m \in Turns
    BY <2>1 DEF ConsumeCreate
  <2>3. pc' \in [Turns -> TaskState] /\ TurnType'
    BY <2>1, <2>2, TaskStates, StepTaskType DEF ConsumeCreate
  <2>4. BusType'
    BY <1>0, <2>1, <2>2, ConsumeType DEF ConsumeCreate, BusType
  <2>5. LoopType'
    BY <1>0, <2>1, <2>2 DEF ConsumeCreate, LoopType
  <2> QED BY <1>0, <2>1, <2>3, <2>4, <2>5, TypePartsNext
        DEF ConsumeCreate, LockType, TaskType, ResultType
<1>5. CASE \E c \in Stop : FinishStop(c)
  <2>1. PICK c \in Stop : FinishStop(c)
    BY <1>5
  <2>2. <<>> \in Seq(Msg)
    BY EmptySeq
  <2>3. TurnType'
    BY <1>0, <2>1, <2>2 DEF FinishStop, TurnType, AwaitBound
  <2>4. fate' \in [Msg \cup Direct -> Fates]
    BY <1>0, <2>1 DEF FinishStop, ResultType, Fates
  <2>5. ResultType'
    BY <1>0, <2>1, <2>4, CancelSubagentsType DEF FinishStop, ResultType
  <2>6. LoopType'
    BY <1>0, <2>1 DEF FinishStop, LoopType
  <2> QED BY <1>0, <2>1, <2>3, <2>5, <2>6, TypePartsNext
        DEF FinishStop, BusType, LockType, TaskType
<1>6. CASE \E c \in New : FinishNew(c)
  <2>1. PICK c \in New : FinishNew(c)
    BY <1>6
  <2>2. ResultType'
    BY <1>0, <2>1, CancelSubagentsType DEF FinishNew, ResultType, Fates
  <2>3. LoopType'
    BY <1>0, <2>1 DEF FinishNew, LoopType
  <2> QED BY <1>0, <2>1, <2>2, <2>3, TypePartsNext
        DEF FinishNew, BusType, LockType, TurnType, AwaitBound, TaskType
<1> QED BY <1>1, <1>2, <1>3, <1>4, <1>5, <1>6 DEF RunLoop

LEMMA TypeAcquire == ASSUME TypeInv, NEW m \in Turns, Acquire(m) PROVE TypeInv'
<1> USE TypeParts DEF busVars, loopVars, lockVars, turnVars, resultVars
<1>0. BusType /\ LoopType /\ LockType /\ TurnType /\ TaskType /\ ResultType
  OBVIOUS
<1>1. CASE Start(m)
  <2>1. LockType' /\ TurnType' /\ pc' \in [Turns -> TaskState]
    BY <1>1, AskLockType DEF Start
  <2> QED BY <1>0, <1>1, <2>1, TypePartsNext DEF Start, BusType, LoopType, TaskType, ResultType
<1>2. CASE TakeLock(m)
  <2>1. lockWaiters' \in [Sessions -> Seq(Turns)]
    <3>1. lockWaiters[SessionOf[m]] \in Seq(Turns) /\ lockWaiters[SessionOf[m]] # <<>>
      BY <1>0, <1>2, SetFacts DEF TakeLock, LockType
    <3>2. Tail(lockWaiters[SessionOf[m]]) \in Seq(Turns)
      BY <3>1, HeadTailProperties
    <3> QED BY <1>0, <1>2, <3>2 DEF TakeLock, LockType
  <2>2. LockType' /\ TurnType' /\ pc' \in [Turns -> TaskState]
    BY <1>2, <2>1, HoldLockType DEF TakeLock
  <2> QED BY <1>0, <1>2, <2>2, TypePartsNext DEF TakeLock, BusType, LoopType, TaskType, ResultType
<1>3. CASE TakeGate(m)
  <2>1. gateWaiters' \in Seq(Turns)
    BY <1>0, <1>3, HeadTailProperties DEF TakeGate, LockType
  <2>2. gate' \subseteq Turns /\ TurnType' /\ pc' \in [Turns -> TaskState]
    BY <1>3, BeginTurnType DEF TakeGate
  <2> QED BY <1>0, <1>3, <2>1, <2>2, TypePartsNext
        DEF TakeGate, BusType, LoopType, LockType, TaskType, ResultType
<1> QED BY <1>1, <1>2, <1>3 DEF Acquire

LEMMA TypeRunner == ASSUME TypeInv, NEW m \in Turns, Runner(m) PROVE TypeInv'
<1> USE TypeParts DEF busVars, loopVars, lockVars, turnVars, resultVars
<1>0. /\ BusType /\ LoopType /\ LockType /\ TurnType /\ TaskType /\ ResultType
      /\ queue[m] \in Seq(Msg) /\ cycles[m] \in 0..CycleMax /\ CycleMax \in Nat
  BY BoundsAssumption DEF TurnType
\* What a drain leaves and what it folds in have their types.
<1>1. ASSUME Fold(m), cycles[m] < CycleMax,
             pc' \in [Turns -> TaskState], \A t \in Turns : pc'[t] = "await" => t # m /\ pc[t] = "await"
      PROVE  TurnType'
  <2>1. /\ folded' \in [Turns -> SUBSET Msg] /\ cycles' \in [Turns -> 0..CycleMax]
        /\ \A t \in Turns : t # m => cycles'[t] = cycles[t]
    BY <1>1, FoldType DEF Fold
  <2>2. Undrained(m) \in Seq(Msg)
    BY <1>0, DrainedType
  <2>3. queue' \in [Turns -> Seq(Msg)]
    BY <1>0, <1>1, <2>2 DEF Fold, TurnType
  <2>4. AwaitBound'
    BY <1>0, <1>1, <2>1 DEF AwaitBound, TurnType
  <2> QED BY <1>0, <1>1, <2>1, <2>3, <2>4 DEF Fold, TurnType
<1>2. CASE Inject(m)
  <2>1. pc' = pc /\ pc[m] # "await"
    BY <1>2 DEF Inject, RunnerAt
  <2>2. TurnType'
    BY <1>0, <1>1, <1>2, <2>1 DEF Inject, TaskType
  <2> QED BY <1>0, <1>2, <2>2, TypePartsNext
        DEF Inject, BusType, LoopType, LockType, TaskType, ResultType
<1>3. CASE BlockOnSubagents(m)
  <2>1. pc' \in [Turns -> TaskState]
    BY <1>0, <1>3, TaskStates DEF BlockOnSubagents, TaskType
  <2>2. TurnType'
    BY <1>0, <1>3 DEF BlockOnSubagents, TurnType, TaskType, AwaitBound
  <2> QED BY <1>0, <1>3, <2>1, <2>2, TypePartsNext
        DEF BlockOnSubagents, BusType, LoopType, LockType, TaskType, ResultType
<1>4. CASE Wake(m)
  <2>1. cycles[m] < CycleMax
    BY <1>0, <1>4 DEF Wake, RunnerAt, TurnType, AwaitBound
  <2>2. /\ pc' \in [Turns -> TaskState]
        /\ \A t \in Turns : pc'[t] = "await" => t # m /\ pc[t] = "await"
    BY <1>0, <1>4, TaskStates DEF Wake, TaskType
  <2>3. TurnType'
    BY <1>1, <1>4, <2>1, <2>2 DEF Wake
  <2> QED BY <1>0, <1>4, <2>2, <2>3, TypePartsNext
        DEF Wake, BusType, LoopType, LockType, TaskType, ResultType
<1>5. CASE AwaitTimeout(m)
  <2>1. pc' \in [Turns -> TaskState] /\ TurnType'
    <3>1. CASE /\ \E next \in {"turn", "closing"} : pc' = [pc EXCEPT ![m] = next]
               /\ UNCHANGED <<queue, continuing>>
      BY <1>0, <1>5, <3>1, TaskStates, StepTaskType DEF AwaitTimeout
    <3>2. CASE FinishAtBudget(m, <<>>)
      <4>1. /\ queue' \in [Turns -> Seq(Msg)]
            /\ continuing' \subseteq Turns /\ pc' \in [Turns -> TaskState]
            /\ \A t \in Turns : pc'[t] = "await" => t # m /\ pc[t] = "await"
        BY <3>2, EmptySeq, FinishAtBudgetType
      <4> QED BY <1>0, <1>5, <4>1 DEF AwaitTimeout, TurnType, AwaitBound
    <3> QED BY <1>5, <3>1, <3>2 DEF AwaitTimeout
  <2> QED BY <1>0, <1>5, <2>1, TypePartsNext
        DEF AwaitTimeout, BusType, LoopType, LockType, TaskType, ResultType
<1>6. CASE EndTurn(m)
  <2>1. pc' \in [Turns -> TaskState] /\ TurnType'
    BY <1>6, TaskStates, StepTaskType DEF EndTurn
  <2> QED BY <1>0, <1>6, <2>1, TypePartsNext
        DEF EndTurn, BusType, LoopType, LockType, TaskType, ResultType
<1>7. CASE EndAtBudget(m)
  <2>1. pc' \in [Turns -> TaskState] /\ TurnType'
    <3>1. CASE FinishAtBudget(m, queue[m]) /\ UNCHANGED <<folded, cycles>>
      <4>1. /\ queue' \in [Turns -> Seq(Msg)]
            /\ continuing' \subseteq Turns /\ pc' \in [Turns -> TaskState]
            /\ \A t \in Turns : pc'[t] = "await" => t # m /\ pc[t] = "await"
        BY <1>0, <3>1, FinishAtBudgetType
      <4> QED BY <1>0, <1>7, <3>1, <4>1 DEF EndAtBudget, TurnType, AwaitBound
    <3>2. CASE ~NothingToInject(m) /\ FinishAtBudget(m, Undrained(m)) /\ FoldIn(m)
      <4>1. cycles[m] < CycleMax
        BY <1>0, <3>2 DEF NothingToInject
      <4>2. /\ folded' \in [Turns -> SUBSET Msg] /\ cycles' \in [Turns -> 0..CycleMax]
            /\ \A t \in Turns : t # m => cycles'[t] = cycles[t]
        BY <3>2, <4>1, FoldType
      <4>3. Undrained(m) \in Seq(Msg)
        BY <1>0, DrainedType
      <4>4. /\ queue' \in [Turns -> Seq(Msg)]
            /\ continuing' \subseteq Turns /\ pc' \in [Turns -> TaskState]
            /\ \A t \in Turns : pc'[t] = "await" => t # m /\ pc[t] = "await"
        BY <3>2, <4>3, FinishAtBudgetType
      <4>5. AwaitBound'
        BY <1>0, <4>2, <4>4 DEF TurnType, AwaitBound
      <4> QED BY <1>0, <1>7, <4>2, <4>4, <4>5 DEF EndAtBudget, TurnType
    <3> QED BY <1>7, <3>1, <3>2 DEF EndAtBudget
  <2> QED BY <1>0, <1>7, <2>1, TypePartsNext
        DEF EndAtBudget, BusType, LoopType, LockType, TaskType, ResultType
<1>8. CASE LongTask(m) \/ CompleteGoal(m)
  BY <1>0, <1>8, TypePartsNext
     DEF LongTask, CompleteGoal, BusType, LoopType, LockType, TurnType, AwaitBound, TaskType, ResultType
<1> QED BY <1>2, <1>3, <1>4, <1>5, <1>6, <1>7, <1>8 DEF Runner

LEMMA TypeEnd == ASSUME TypeInv, NEW m \in Turns, End(m) PROVE TypeInv'
<1> USE TypeParts DEF busVars, loopVars, lockVars, turnVars, resultVars
<1>0. /\ BusType /\ LoopType /\ LockType /\ TurnType /\ TaskType /\ ResultType
      /\ SessionOf[m] \in Sessions
  BY SetFacts
<1>1. ASSUME Finally(m), NEW own \in Fates, NEW others \in Fates,
             NEW result \in {"answered", "failed"}, Settle(m, own, others), Complete(m, result)
      PROVE  TypeInv'
  BY <1>1, FinallyType, SettleType, TypePartsNext
<1>2. {"answered", "merged", "failed", "dropped"} \subseteq Fates
  BY DEF Fates
<1>3. CASE Close(m)
  BY <1>1, <1>2, <1>3 DEF Close
<1>4. CASE Fail(m)
  BY <1>1, <1>2, <1>4 DEF Fail
<1>5. CASE CancelTurn(m)
  BY <1>1, <1>2, <1>5 DEF CancelTurn
<1>6. CASE CloseDirect(m)
  <2>1. pc' \in [Turns -> TaskState] /\ TurnType'
    BY <1>6, TaskStates, StepTaskType DEF CloseDirect
  <2>2. LockType' /\ ResultType'
    BY <1>0, <1>2, <1>6 DEF CloseDirect, LockType, ResultType
  <2> QED BY <1>0, <1>6, <2>1, <2>2, TypePartsNext
        DEF CloseDirect, BusType, LoopType, TaskType
<1>9. CASE AbortDirect(m)
  <2>1. pc' \in [Turns -> TaskState] /\ TurnType'
    BY <1>9, TaskStates, StepTaskType DEF AbortDirect
  <2>2. ResultType'
    BY <1>0, <1>2, <1>9 DEF AbortDirect, ResultType
  <2>3. LockType'
    <3>1. CASE \E i \in DOMAIN lockWaiters[SessionOf[m]] :
                 lockWaiters' = [lockWaiters EXCEPT ![SessionOf[m]] = RemoveAt(@, i)]
      <4>1. PICK i \in DOMAIN lockWaiters[SessionOf[m]] :
               lockWaiters' = [lockWaiters EXCEPT ![SessionOf[m]] = RemoveAt(@, i)]
        BY <3>1
      <4>2. RemoveAt(lockWaiters[SessionOf[m]], i) \in Seq(Turns)
        BY <1>0, <4>1, RemoveAtRange DEF LockType
      <4> QED BY <1>0, <1>9, <4>1, <4>2 DEF LockType, AbortDirect
    <3>2. CASE UNCHANGED lockWaiters
      BY <1>0, <1>9, <3>2 DEF LockType, AbortDirect
    <3> QED BY <1>9, <3>1, <3>2 DEF AbortDirect
  <2> QED BY <1>0, <1>9, <2>1, <2>2, <2>3, TypePartsNext
        DEF AbortDirect, BusType, LoopType, TaskType
<1>7. CASE CancelCreated(m)
  <2>1. pc' \in [Turns -> TaskState] /\ TurnType'
    BY <1>7, TaskStates, StepTaskType DEF CancelCreated
  <2>2. LoopType' /\ ResultType'
    BY <1>0, <1>2, <1>7 DEF CancelCreated, LoopType, ResultType
  <2> QED BY <1>0, <1>7, <2>1, <2>2, TypePartsNext
        DEF CancelCreated, BusType, LockType, TaskType
<1>8. CASE CancelWaiting(m)
  <2>1. pc' \in [Turns -> TaskState] /\ TurnType'
    BY <1>8, TaskStates, StepTaskType DEF CancelWaiting
  <2>2. LoopType' /\ ResultType'
    BY <1>0, <1>2, <1>8 DEF CancelWaiting, LoopType, ResultType
  <2>3. BusType'
    BY <1>0, <1>8, PublishType DEF CancelWaiting, BusType
  <2>4. LockType'
    <3>1. CASE /\ \E i \in DOMAIN lockWaiters[SessionOf[m]] :
                    lockWaiters' = [lockWaiters EXCEPT ![SessionOf[m]] = RemoveAt(@, i)]
               /\ UNCHANGED <<lockOwner, gateWaiters>>
      <4>1. PICK i \in DOMAIN lockWaiters[SessionOf[m]] :
               lockWaiters' = [lockWaiters EXCEPT ![SessionOf[m]] = RemoveAt(@, i)]
        BY <3>1
      <4>2. RemoveAt(lockWaiters[SessionOf[m]], i) \in Seq(Turns)
        BY <1>0, <4>1, RemoveAtRange DEF LockType
      <4> QED BY <1>0, <1>8, <3>1, <4>1, <4>2 DEF LockType, CancelWaiting
    <3>2. CASE /\ \E i \in DOMAIN gateWaiters : gateWaiters' = RemoveAt(gateWaiters, i)
               /\ lockOwner' = [lockOwner EXCEPT ![SessionOf[m]] = None]
               /\ UNCHANGED lockWaiters
      <4>1. gateWaiters' \in Seq(Turns)
        BY <1>0, <3>2, RemoveAtRange DEF LockType
      <4> QED BY <1>0, <1>8, <3>2, <4>1 DEF LockType, CancelWaiting
    <3> QED BY <1>8, <3>1, <3>2 DEF CancelWaiting
  <2> QED BY <1>0, <1>8, <2>1, <2>2, <2>3, <2>4, TypePartsNext DEF CancelWaiting, TaskType
<1> QED BY <1>3, <1>4, <1>5, <1>6, <1>7, <1>8, <1>9 DEF End

LEMMA TypeCommand == ASSUME TypeInv, NEW c \in New, Command(c) PROVE TypeInv'
<1> USE TypeParts DEF busVars, loopVars, lockVars, turnVars, resultVars
<1>0. /\ BusType /\ LoopType /\ LockType /\ TurnType /\ TaskType /\ ResultType
      /\ c \in Turns /\ SessionOf[c] \in Sessions
  BY SetFacts
<1>1. CASE BeginNew(c)
  <2>1. pc' \in [Turns -> TaskState] /\ TurnType'
    BY <1>0, <1>1, TaskStates, StepTaskType DEF BeginNew
  <2>2. (active[SessionOf[c]] \ {c}) \in SUBSET Turns
    BY <1>0 DEF LoopType
  <2>3. LoopType' /\ cancelReq' \subseteq Turns
    BY <1>0, <1>1, <2>2, CancelActiveType DEF BeginNew, LoopType
  <2> QED BY <1>0, <1>1, <2>1, <2>3, TypePartsNext
        DEF BeginNew, BusType, LockType, TaskType, ResultType
<1>2. CASE EndNew(c)
  <2>1. pc' \in [Turns -> TaskState] /\ TurnType'
    BY <1>0, <1>2, TaskStates, StepTaskType DEF EndNew
  <2>2. LoopType' /\ ResultType'
    BY <1>0, <1>2, CancelSubagentsType DEF EndNew, LoopType, ResultType
  <2> QED BY <1>0, <1>2, <2>1, <2>2, TypePartsNext DEF EndNew, BusType, LockType, TaskType
<1> QED BY <1>1, <1>2 DEF Command

LEMMA TypeStutter == ASSUME TypeInv, UNCHANGED vars PROVE TypeInv'
BY TypeParts, TypePartsNext
   DEF vars, busVars, loopVars, lockVars, turnVars, resultVars,
       BusType, LoopType, LockType, TurnType, AwaitBound, TaskType, ResultType

\* Every step keeps the types.
LEMMA TypeStep == TypeInv /\ [Next]_vars => TypeInv'
<1> SUFFICES ASSUME TypeInv, [Next]_vars PROVE TypeInv'
  OBVIOUS
<1>1. \A c \in New : Command(c) => TypeInv'
  BY TypeCommand
<1>2. \A m \in Turns : Acquire(m) \/ Runner(m) \/ End(m) => TypeInv'
  BY TypeAcquire, TypeRunner, TypeEnd
<1> QED BY <1>1, <1>2, TypeProduce, TypeRunLoop, TypeStutter DEF Next

LEMMA TypeInvariant == Spec => []TypeInv
BY TypeInit, TypeStep, PTL DEF Spec

\* Nobody counts continuations beyond the limit, although the turns of a
\* session share the counter: it is tested by the turn that holds the lock.
LEMMA GoalInit == Init => GoalType
BY BoundsAssumption DEF Init, GoalType

\* The operators that change a goal or its rounds.
LEMMA GoalFinish ==
  ASSUME GoalType, NEW m \in Turns, NEW rest, FinishAtBudget(m, rest)
  PROVE  GoalType'
<1>1. SessionOf[m] \in Sessions
  BY SetFacts
<1>2. CASE Continues(m)
  <2>1. rounds' = [rounds EXCEPT ![SessionOf[m]] = @ + 1] /\ UNCHANGED <<goal, recorded, silent>>
    BY <1>2 DEF FinishAtBudget
  <2>2. rounds[SessionOf[m]] + 1 \in 0..ContinuationMax
    BY <1>1, <1>2, BoundsAssumption DEF Continues, GoalContinues, GoalType
  <2> QED BY <2>1, <2>2 DEF GoalType
<1>3. CASE ~ Continues(m)
  BY <1>3 DEF FinishAtBudget, GoalType
<1> QED BY <1>2, <1>3

LEMMA GoalBegin ==
  ASSUME GoalType, NEW m \in Turns, BeginTurn(m) \/ UNCHANGED goalVars
  PROVE  GoalType'
BY DEF BeginTurn, goalVars, GoalType

LEMMA GoalSaved ==
  ASSUME GoalType, NEW m \in Turns, SaveBoundary(m) \/ MaybeSaved(m)
  PROVE  rounds' \in [Sessions -> 0..ContinuationMax]
BY BoundsAssumption DEF SaveBoundary, MaybeSaved, GoalType

LEMMA GoalRunner == ASSUME GoalType, NEW m \in Turns, Runner(m) PROVE GoalType'
<1>0. SessionOf[m] \in Sessions
  BY SetFacts
<1>1. CASE AwaitTimeout(m) \/ EndAtBudget(m)
  BY <1>1, GoalFinish DEF AwaitTimeout, EndAtBudget, goalVars, GoalType
<1>2. CASE LongTask(m)
  <2>1. recorded[SessionOf[m]] + 1 \in 0..GoalMax
    BY <1>0, <1>2, BoundsAssumption DEF LongTask, GoalType
  <2> QED BY <1>0, <1>2, <2>1 DEF LongTask, GoalType
<1>3. CASE CompleteGoal(m)
  BY <1>0, <1>3 DEF CompleteGoal, GoalType
<1>4. CASE Inject(m) \/ BlockOnSubagents(m) \/ Wake(m) \/ EndTurn(m)
  BY <1>4 DEF Inject, BlockOnSubagents, Wake, EndTurn, goalVars, GoalType
<1> QED BY <1>1, <1>2, <1>3, <1>4 DEF Runner

\* Every step keeps the types of the goals.
LEMMA GoalStep == GoalType /\ [Next]_vars => GoalType'
<1> SUFFICES ASSUME GoalType, [Next]_vars PROVE GoalType'
  OBVIOUS
<1> USE DEF goalVars
<1>1. CASE Produce
  <2>1. ASSUME NEW d \in Direct, CallDirect(d) PROVE GoalType'
    BY <2>1, GoalBegin DEF CallDirect, AskLock, HoldLock, Turns
  <2>2. CASE ~ \E d \in Direct : CallDirect(d)
    BY <1>1, <2>2 DEF Produce, Send, Submit, Spawn, Announce, GoalType
  <2> QED BY <2>1, <2>2
<1>2. CASE RunLoop
  <2>1. ASSUME NEW m, Consume(m) PROVE GoalType'
    BY <2>1 DEF Consume, GoalType
  <2>2. CASE ~ \E m : Consume(m)
    BY <1>2, <2>2 DEF RunLoop, ConsumeCommand, ConsumeDefer, ConsumeRoute, ConsumeCreate,
       FinishStop, FinishNew, GoalType
  <2> QED BY <2>1, <2>2
<1>3. ASSUME NEW m \in Turns, Acquire(m) PROVE GoalType'
  BY <1>3, GoalBegin DEF Acquire, Start, TakeLock, TakeGate, AskLock, HoldLock
<1>4. ASSUME NEW m \in Turns, End(m) PROVE GoalType'
  <2>1. CASE Close(m) \/ Fail(m) \/ CancelTurn(m)
    BY <2>1, GoalSaved DEF Close, Fail, CancelTurn, Finally, GoalType
  <2>2. CASE CloseDirect(m) \/ AbortDirect(m)
    BY <2>2, GoalSaved DEF CloseDirect, AbortDirect, GoalType
  <2>3. CASE CancelCreated(m) \/ CancelWaiting(m)
    BY <2>3 DEF CancelCreated, CancelWaiting, GoalType
  <2> QED BY <1>4, <2>1, <2>2, <2>3 DEF End
<1>5. ASSUME NEW c \in New, Command(c) PROVE GoalType'
  BY <1>5 DEF Command, BeginNew, EndNew, GoalType
<1>6. CASE UNCHANGED vars
  BY <1>6 DEF vars, GoalType
<1> QED BY <1>1, <1>2, <1>3, <1>4, <1>5, <1>6, GoalRunner DEF Next

LEMMA GoalInvariant == Spec => []GoalType
BY GoalInit, GoalStep, PTL DEF Spec

\* Every variable of the dispatcher keeps its type: in particular a turn never
\* injects more than CycleMax times, although the limit is tested before a wait
\* for a subagent and the injection follows it, and a goal never runs more than
\* ContinuationMax further slices.
THEOREM TypeCorrect == Spec => []TypeOK
<1>1. TypeInv /\ GoalType => TypeOK
  BY DEF TypeInv, CoreOK, GoalType, TypeOK
<1> QED BY <1>1, TypeInvariant, GoalInvariant, PTL

-----------------------------------------------------------------------------
(* A message waits in one place only.  Nothing in the code looks whether a *)
(* task of a message already exists before it creates one: what keeps a    *)
(* second task from starting under the first is that no queue ever holds a *)
(* message twice, nor one whose task is alive.                             *)

Apart(P, Q) == \A x \in P : x \notin Q

Placed ==
  /\ Once(inbound)
  /\ \A t \in Turns : Once(queue[t]) /\ Apart(Range(queue[t]), Range(inbound))
  /\ \A s \in Sessions : Once(deferred[s]) /\ Apart(Range(deferred[s]), Range(inbound))
  /\ \A t, u \in Turns : t # u => Apart(Range(queue[t]), Range(queue[u]))
  /\ \A s, r \in Sessions : s # r => Apart(Range(deferred[s]), Range(deferred[r]))
  /\ \A s \in Sessions, t \in Turns : Apart(Range(deferred[s]), Range(queue[t]))

\* What waits has been sent, and a producer that has sent does not send again.
Known ==
  /\ Range(inbound) \subseteq sent
  /\ \A t \in Turns : Range(queue[t]) \subseteq sent
  /\ \A s \in Sessions : Range(deferred[s]) \subseteq sent
  /\ \A m \in Turns : pc[m] # "idle" => m \in Direct \cup sent
  /\ \A a \in Automations \cap sent : waiter[a] # "none"
  /\ \A a \in Sub \cap sent : sub[a] \notin {"new", "running"}

\* While the task of m exists, m waits nowhere, except that a turn whose next
\* slice is queued waits in its own pending queue.
Busy ==
  \A m \in Turns : pc[m] # "idle" =>
    /\ m \notin Range(inbound)
    /\ \A s \in Sessions : m \notin Range(deferred[s])
    /\ \A t \in Turns : m \in Range(queue[t]) => t = m /\ m \in continuing

Slices == \A m \in continuing : pc[m] = "closing" /\ m \in Chat \cup Automations

PlaceInv == Placed /\ Known /\ Busy /\ Slices

\* The initial states.
LEMMA PlaceInit == Init => PlaceInv
BY NothingInEmpty, SMT DEF Init, PlaceInv, Placed, Known, Busy, Slices, Apart

\* process_direct does not go through the bus, so its message waits nowhere.
LEMMA NoDirectWaits ==
  ASSUME TypeInv, NEW d \in Direct
  PROVE  /\ d \notin Range(inbound)
         /\ \A t \in Turns : d \notin Range(queue[t])
         /\ \A s \in Sessions : d \notin Range(deferred[s])
<1>1. d \notin Msg /\ d \notin Automations
  BY SetsAssumption DEF Msg
<1>2. /\ inbound \in Seq(Msg)
      /\ \A t \in Turns : queue[t] \in Seq(Msg)
      /\ \A s \in Sessions : deferred[s] \in Seq(Automations)
  BY DEF TypeInv, CoreOK
<1> QED BY <1>1, <1>2, RangeOfSeq

\* Steps that only take messages out of a queue.
LEMMA PlacesShrink ==
  ASSUME TypeInv, TypeInv', PlaceInv,
         Once(inbound'), Range(inbound') \subseteq Range(inbound),
         \A t \in Turns : Once(queue'[t]) /\ Range(queue'[t]) \subseteq Range(queue[t]),
         deferred' = deferred, sent' = sent, waiter' = waiter,
         \A a \in Sub : sub[a] \notin {"new", "running"} => sub'[a] \notin {"new", "running"},
         \A t \in Turns : pc'[t] # "idle" => pc[t] # "idle" \/ t \in Direct,
         continuing' = continuing, \A t \in continuing : pc'[t] = pc[t]
  PROVE  PlaceInv'
<1> USE DEF PlaceInv
<1>1. Placed'
  BY DEF Placed, Apart
<1>2. Known'
  BY DEF Known
<1>3. Busy'
  <2>1. \A d \in Direct : /\ d \notin Range(inbound')
                          /\ \A t \in Turns : d \notin Range(queue'[t])
                          /\ \A s \in Sessions : d \notin Range(deferred'[s])
    BY NoDirectWaits DEF Placed, Known
  <2> QED BY <2>1 DEF Busy
<1>4. Slices'
  BY DEF Slices
<1> QED BY <1>1, <1>2, <1>3, <1>4

\* A message that has not been sent before joins the inbound queue.
LEMMA PlacesArrive ==
  ASSUME TypeInv, PlaceInv, NEW m \in Msg \ sent,
         inbound' = Append(inbound, m), sent' = sent \cup {m},
         UNCHANGED <<queue, deferred, pc, continuing>>,
         \A a \in Automations \cap sent' : waiter'[a] # "none",
         \A a \in Sub \cap sent' : sub'[a] \notin {"new", "running"}
  PROVE  PlaceInv'
<1> USE DEF PlaceInv
<1>1. m \notin Direct
  BY SetsAssumption
<1>2. /\ m \notin Range(inbound)
      /\ \A t \in Turns : m \notin Range(queue[t])
      /\ \A s \in Sessions : m \notin Range(deferred[s])
      /\ m \in Turns => pc[m] = "idle"
  BY <1>1 DEF Known
<1>3. Once(inbound') /\ Range(inbound') = Range(inbound) \cup {m}
  BY <1>2, AppendRange DEF TypeInv, CoreOK, Placed
<1>4. Placed'
  BY <1>2, <1>3 DEF Placed, Apart
<1>5. Known'
  BY <1>3 DEF Known
<1>6. Busy' /\ Slices'
  BY <1>2, <1>3 DEF Busy, Slices
<1> QED BY <1>4, <1>5, <1>6

\* Producers.
LEMMA PlaceProduce == ASSUME TypeInv, TypeInv', PlaceInv, Produce PROVE PlaceInv'
<1> USE DEF busVars, loopVars, lockVars, turnVars, resultVars
<1>0. /\ Chat \cup Stop \cup New \cup Automations \cup Sub \subseteq Msg
      /\ Automations \cap (Chat \cup Sub \cup Stop \cup New) = {} /\ Sub \cap (Chat \cup Stop \cup New) = {}
      /\ \A a \in Automations \cap sent : waiter[a] # "none"
      /\ \A a \in Sub \cap sent : sub[a] \notin {"new", "running"}
      /\ \A t \in Turns : Once(queue[t])
      /\ Once(inbound)
  BY SetsAssumption DEF Msg, PlaceInv, Known, Placed
<1>1. ASSUME NEW m \in Chat \cup Stop \cup New, Send(m) PROVE PlaceInv'
  BY <1>0, <1>1, PlacesArrive DEF Send
<1>2. ASSUME NEW a \in Automations, Submit(a) PROVE PlaceInv'
  <2>1. a \in Msg \ sent
    BY <1>0, <1>2 DEF Submit
  <2>2. \A b \in Automations \cap sent' : waiter'[b] # "none"
    BY <1>0, <1>2 DEF Submit, TypeInv, CoreOK
  <2>3. \A b \in Sub \cap sent' : sub'[b] \notin {"new", "running"}
    BY <1>0, <1>2 DEF Submit
  <2> QED BY <1>2, <2>1, <2>2, <2>3, PlacesArrive DEF Submit
<1>3. ASSUME NEW m \in Turns, NEW a \in Sub, Spawn(m, a) PROVE PlaceInv'
  <2>1. \A b \in Sub : sub[b] \notin {"new", "running"} => sub'[b] \notin {"new", "running"}
    BY <1>3 DEF Spawn, TypeInv, CoreOK
  <2> QED BY <1>0, <1>3, <2>1, PlacesShrink DEF Spawn
<1>4. ASSUME NEW a \in Sub, Announce(a) PROVE PlaceInv'
  <2>1. a \in Msg \ sent
    BY <1>0, <1>4 DEF Announce
  <2>2. \A b \in Sub \cap sent' : sub'[b] \notin {"new", "running"}
    BY <1>0, <1>4 DEF Announce, TypeInv, CoreOK
  <2>3. \A b \in Automations \cap sent' : waiter'[b] # "none"
    BY <1>0, <1>4 DEF Announce
  <2> QED BY <1>4, <2>1, <2>2, <2>3, PlacesArrive DEF Announce
<1>5. ASSUME NEW d \in Direct, CallDirect(d) PROVE PlaceInv'
  <2>1. /\ d \in Turns /\ d \notin continuing /\ pc[d] = "idle" /\ pc \in [Turns -> TaskState]
    BY <1>5, SetsAssumption DEF CallDirect, Turns, Msg, PlaceInv, Slices, TypeInv, CoreOK
  <2>2. /\ queue' = queue /\ continuing' = continuing
        /\ \E at \in {"turn", "lock"} : pc' = [pc EXCEPT ![d] = at]
    BY <1>5 DEF CallDirect, AskLock, HoldLock
  <2> QED BY <1>0, <1>5, <2>1, <2>2, PlacesShrink DEF CallDirect
<1> QED BY <1>1, <1>2, <1>3, <1>4, <1>5 DEF Produce

\* The run loop takes the head of the inbound queue.
LEMMA ConsumePlace ==
  ASSUME TypeInv, PlaceInv, NEW m, Consume(m)
  PROVE  /\ m \in Range(inbound) /\ m \in sent
         /\ Once(inbound') /\ Range(inbound) = {m} \cup Range(inbound')
         /\ m \notin Range(inbound')
         /\ \A t \in Turns : m \notin Range(queue[t])
         /\ \A s \in Sessions : m \notin Range(deferred[s])
         /\ m \in Turns => pc[m] = "idle" /\ m \notin continuing
<1>1. inbound \in Seq(Msg) /\ inbound # <<>> /\ m = Head(inbound) /\ inbound' = Tail(inbound)
  BY DEF TypeInv, CoreOK, Consume
<1>2. /\ m \in Range(inbound) /\ Once(inbound') /\ Range(inbound) = {m} \cup Range(inbound')
      /\ m \notin Range(inbound')
  BY <1>1, TailRange DEF PlaceInv, Placed
<1>3. m \in Turns => pc[m] = "idle"
  BY <1>2 DEF PlaceInv, Busy
<1> QED BY <1>2, <1>3 DEF PlaceInv, Placed, Apart, Known, Slices

\* The run loop: what it takes from the bus it defers, queues or makes a task of.
LEMMA PlaceRunLoop == ASSUME TypeInv, TypeInv', PlaceInv, RunLoop PROVE PlaceInv'
<1> USE DEF busVars, loopVars, lockVars, turnVars, resultVars
<1>0. /\ \A t \in Turns : Once(queue[t]) /\ queue[t] \in Seq(Msg)
      /\ \A s \in Sessions : Once(deferred[s]) /\ deferred[s] \in Seq(Automations)
      /\ Once(inbound) /\ pc \in [Turns -> TaskState] /\ queue \in [Turns -> Seq(Msg)]
      /\ deferred \in [Sessions -> Seq(Automations)]
  BY DEF PlaceInv, Placed, TypeInv, CoreOK
<1>1. ASSUME NEW m \in Msg, ConsumeCommand(m) PROVE PlaceInv'
  BY <1>0, <1>1, ConsumePlace, PlacesShrink DEF ConsumeCommand
<1>2. ASSUME NEW m \in Automations, ConsumeDefer(m) PROVE PlaceInv'
  <2> DEFINE s == SessionOf[m]
  <2>1. s \in Sessions /\ Consume(m) /\ m \in Turns
    BY <1>2, SetFacts DEF ConsumeDefer
  <2>2. /\ Once(inbound') /\ Range(inbound) = {m} \cup Range(inbound')
        /\ m \notin Range(inbound') /\ m \in sent
        /\ \A t \in Turns : m \notin Range(queue[t])
        /\ \A r \in Sessions : m \notin Range(deferred[r])
        /\ pc[m] = "idle"
    BY <2>1, ConsumePlace
  <2>3. /\ Range(deferred'[s]) = Range(deferred[s]) \cup {m} /\ Once(deferred'[s])
        /\ \A r \in Sessions : r # s => deferred'[r] = deferred[r]
    <3>1. deferred'[s] = Append(deferred[s], m) /\ \A r \in Sessions : r # s => deferred'[r] = deferred[r]
      BY <1>0, <1>2, <2>1 DEF ConsumeDefer
    <3> QED BY <1>0, <2>1, <2>2, <3>1, AppendRange
  <2>4. Placed'
    <3>1. \A t \in Turns : Once(queue'[t]) /\ Apart(Range(queue'[t]), Range(inbound'))
      BY <1>2, <2>2 DEF ConsumeDefer, PlaceInv, Placed, Apart
    <3>2. \A r \in Sessions : Once(deferred'[r]) /\ Apart(Range(deferred'[r]), Range(inbound'))
      BY <2>2, <2>3 DEF PlaceInv, Placed, Apart
    <3>3. \A t, u \in Turns : t # u => Apart(Range(queue'[t]), Range(queue'[u]))
      BY <1>2 DEF ConsumeDefer, PlaceInv, Placed
    <3>4. \A q, r \in Sessions : q # r => Apart(Range(deferred'[q]), Range(deferred'[r]))
      BY <2>2, <2>3 DEF PlaceInv, Placed, Apart
    <3>5. \A r \in Sessions, t \in Turns : Apart(Range(deferred'[r]), Range(queue'[t]))
      BY <1>2, <2>2, <2>3 DEF ConsumeDefer, PlaceInv, Placed, Apart
    <3> QED BY <2>2, <3>1, <3>2, <3>3, <3>4, <3>5 DEF Placed
  <2>5. Known'
    BY <1>2, <2>2, <2>3 DEF ConsumeDefer, PlaceInv, Known
  <2>6. Busy' /\ Slices'
    BY <1>2, <2>2, <2>3 DEF ConsumeDefer, PlaceInv, Busy, Slices
  <2> QED BY <2>4, <2>5, <2>6 DEF PlaceInv
<1>3. ASSUME NEW m \in Chat \cup Sub, ConsumeRoute(m) PROVE PlaceInv'
  <2> DEFINE o == registry[SessionOf[m]]
  <2>1. /\ Consume(m) /\ m \in Turns /\ m \in Msg /\ o \in Turns
        /\ queue' = [queue EXCEPT ![o] = Append(@, m)]
    BY <1>3, SetFacts DEF ConsumeRoute, RoutesToPending, TypeInv, CoreOK, Msg
  <2>2. /\ Once(inbound') /\ Range(inbound) = {m} \cup Range(inbound')
        /\ m \notin Range(inbound') /\ m \in sent
        /\ \A t \in Turns : m \notin Range(queue[t])
        /\ \A r \in Sessions : m \notin Range(deferred[r])
        /\ pc[m] = "idle"
    BY <2>1, ConsumePlace
  <2>3. /\ Range(queue'[o]) = Range(queue[o]) \cup {m} /\ Once(queue'[o])
        /\ \A t \in Turns : t # o => queue'[t] = queue[t]
    <3>1. queue'[o] = Append(queue[o], m) /\ \A t \in Turns : t # o => queue'[t] = queue[t]
      BY <1>0, <2>1
    <3> QED BY <1>0, <2>1, <2>2, <3>1, AppendRange
  <2>4. Placed'
    <3>1. \A t \in Turns : Once(queue'[t]) /\ Apart(Range(queue'[t]), Range(inbound'))
      BY <2>2, <2>3 DEF PlaceInv, Placed, Apart
    <3>2. \A r \in Sessions : Once(deferred'[r]) /\ Apart(Range(deferred'[r]), Range(inbound'))
      BY <1>3, <2>2 DEF ConsumeRoute, PlaceInv, Placed, Apart
    <3>3. \A t, u \in Turns : t # u => Apart(Range(queue'[t]), Range(queue'[u]))
      BY <2>2, <2>3 DEF PlaceInv, Placed, Apart
    <3>4. \A q, r \in Sessions : q # r => Apart(Range(deferred'[q]), Range(deferred'[r]))
      BY <1>3 DEF ConsumeRoute, PlaceInv, Placed
    <3>5. \A r \in Sessions, t \in Turns : Apart(Range(deferred'[r]), Range(queue'[t]))
      BY <1>3, <2>2, <2>3 DEF ConsumeRoute, PlaceInv, Placed, Apart
    <3> QED BY <2>2, <3>1, <3>2, <3>3, <3>4, <3>5 DEF Placed
  <2>5. Known'
    BY <1>3, <2>2, <2>3 DEF ConsumeRoute, PlaceInv, Known
  <2>6. Busy' /\ Slices'
    BY <1>3, <2>2, <2>3 DEF ConsumeRoute, PlaceInv, Busy, Slices
  <2> QED BY <2>4, <2>5, <2>6 DEF PlaceInv
<1>4. ASSUME NEW m \in Msg, ConsumeCreate(m) PROVE PlaceInv'
  <2>1. Consume(m) /\ m \in Turns
    BY <1>4 DEF ConsumeCreate
  <2>2. /\ Once(inbound') /\ Range(inbound) = {m} \cup Range(inbound')
        /\ m \notin Range(inbound') /\ m \in sent
        /\ \A t \in Turns : m \notin Range(queue[t])
        /\ \A r \in Sessions : m \notin Range(deferred[r])
        /\ m \notin continuing
    BY <2>1, ConsumePlace
  <2>3. \A t \in Turns : t # m => pc'[t] = pc[t]
    BY <1>0, <1>4 DEF ConsumeCreate
  <2>4. Placed'
    BY <1>4, <2>2 DEF ConsumeCreate, PlaceInv, Placed, Apart
  <2>5. Known'
    BY <1>4, <2>2, <2>3 DEF ConsumeCreate, PlaceInv, Known
  <2>6. Busy' /\ Slices'
    BY <1>4, <2>2, <2>3, SetFacts DEF ConsumeCreate, PlaceInv, Busy, Slices, TypeInv, CoreOK
  <2> QED BY <2>4, <2>5, <2>6 DEF PlaceInv
<1>5. ASSUME NEW c \in Stop, FinishStop(c) PROVE PlaceInv'
  <2>1. \A t \in Turns : Once(queue'[t]) /\ Range(queue'[t]) \subseteq Range(queue[t])
    BY <1>0, <1>5, NothingInEmpty DEF FinishStop
  <2>2. \A a \in Sub : sub[a] \notin {"new", "running"} => sub'[a] \notin {"new", "running"}
    BY <1>5 DEF FinishStop, CancelSubagents, TypeInv, CoreOK
  <2> QED BY <1>0, <1>5, <2>1, <2>2, PlacesShrink DEF FinishStop
<1>6. ASSUME NEW c \in New, FinishNew(c) PROVE PlaceInv'
  <2>1. \A a \in Sub : sub[a] \notin {"new", "running"} => sub'[a] \notin {"new", "running"}
    BY <1>6 DEF FinishNew, CancelSubagents, TypeInv, CoreOK
  <2> QED BY <1>0, <1>6, <2>1, PlacesShrink DEF FinishNew
<1> QED BY <1>1, <1>2, <1>3, <1>4, <1>5, <1>6 DEF RunLoop

\* Lock and gate move nothing.
LEMMA PlaceAcquire == ASSUME TypeInv, TypeInv', PlaceInv, NEW m \in Turns, Acquire(m) PROVE PlaceInv'
<1> USE DEF busVars, loopVars, lockVars, turnVars, resultVars
<1>0. /\ Once(inbound) /\ \A t \in Turns : Once(queue[t])
      /\ pc \in [Turns -> TaskState] /\ queue \in [Turns -> Seq(Msg)]
  BY DEF PlaceInv, Placed, TypeInv, CoreOK
<1>1. /\ inbound' = inbound /\ deferred' = deferred /\ sent' = sent /\ waiter' = waiter
      /\ sub' = sub /\ continuing' = continuing
      /\ pc[m] \in {"created", "lock", "gate"}
      /\ \E at \in TaskState : pc' = [pc EXCEPT ![m] = at]
      /\ queue' = queue \/ queue' = [queue EXCEPT ![m] = <<>>]
  BY TaskStates DEF Acquire, Start, TakeLock, TakeGate, AskLock, HoldLock, BeginTurn
<1>2. \A t \in Turns : Once(queue'[t]) /\ Range(queue'[t]) \subseteq Range(queue[t])
  BY <1>0, <1>1, NothingInEmpty
<1>3. /\ \A t \in Turns : pc'[t] # "idle" => pc[t] # "idle"
      /\ \A t \in continuing : pc'[t] = pc[t]
  BY <1>0, <1>1 DEF PlaceInv, Slices
<1> QED BY <1>0, <1>1, <1>2, <1>3, PlacesShrink

\* A turn that ends at its budget puts its next slice behind what it leaves.
LEMMA FinishAtBudgetPlace ==
  ASSUME TypeInv, TypeInv', PlaceInv, NEW m \in Turns, NEW rest \in Seq(Msg),
         pc[m] \in {"turn", "await"}, Once(rest), Range(rest) \subseteq Range(queue[m]),
         FinishAtBudget(m, rest), UNCHANGED <<busVars, resultVars>>
  PROVE  PlaceInv'
<1> USE DEF busVars, resultVars
<1>0. /\ pc \in [Turns -> TaskState] /\ queue \in [Turns -> Seq(Msg)]
      /\ Once(inbound) /\ \A t \in Turns : Once(queue[t])
      /\ m \notin continuing
  BY DEF TypeInv, CoreOK, PlaceInv, Placed, Slices
<1>1. /\ \A t \in Turns : t # m => queue'[t] = queue[t] /\ pc'[t] = pc[t]
      /\ \A t \in Turns : pc'[t] # "idle" => pc[t] # "idle"
  BY <1>0 DEF FinishAtBudget
<1>2. CASE ~ (Continues(m) /\ Len(rest) < PendingMax)
  <2>1. queue'[m] = rest /\ continuing' = continuing
    BY <1>0, <1>2 DEF FinishAtBudget
  <2>2. \A t \in Turns : Once(queue'[t]) /\ Range(queue'[t]) \subseteq Range(queue[t])
    BY <1>0, <1>1, <2>1
  <2>3. \A t \in continuing : pc'[t] = pc[t]
    BY <1>0, <1>1 DEF TypeInv, CoreOK
  <2>4. \A a \in Sub : sub[a] \notin {"new", "running"} => sub'[a] \notin {"new", "running"}
    OBVIOUS
  <2> QED BY <1>0, <1>1, <2>1, <2>2, <2>3, <2>4, PlacesShrink
<1>3. CASE Continues(m) /\ Len(rest) < PendingMax
  <2>1. /\ m \in Msg /\ m \in Chat \cup Automations /\ m \notin Direct
        /\ queue'[m] = Append(rest, m) /\ continuing' = continuing \cup {m}
    BY <1>0, <1>3, SetsAssumption DEF Continues, FinishAtBudget, Msg
  <2>2. pc'[m] = "closing"
    <3>1. ~ (Len(rest) >= PendingMax)
      BY <1>3, LenProperties, BoundsAssumption
    <3> QED BY <1>0, <3>1 DEF FinishAtBudget
  <2>3. /\ m \notin Range(inbound) /\ m \in sent
        /\ \A t \in Turns : m \notin Range(queue[t])
        /\ \A r \in Sessions : m \notin Range(deferred[r])
    BY <1>0, <2>1 DEF PlaceInv, Busy, Known
  <2>4. Once(queue'[m]) /\ Range(queue'[m]) = Range(rest) \cup {m}
    BY <2>1, <2>3, AppendRange
  <2>5. Placed'
    <3>1. \A t \in Turns : Once(queue'[t]) /\ Apart(Range(queue'[t]), Range(inbound'))
      BY <1>1, <2>3, <2>4 DEF PlaceInv, Placed, Apart
    <3>2. \A t, u \in Turns : t # u => Apart(Range(queue'[t]), Range(queue'[u]))
      BY <1>1, <2>3, <2>4 DEF PlaceInv, Placed, Apart
    <3>3. \A r \in Sessions, t \in Turns : Apart(Range(deferred'[r]), Range(queue'[t]))
      BY <1>1, <2>3, <2>4 DEF PlaceInv, Placed, Apart
    <3> QED BY <3>1, <3>2, <3>3 DEF PlaceInv, Placed
  <2>6. Known'
    BY <1>1, <2>3, <2>4 DEF PlaceInv, Known
  <2>7. Busy'
    BY <1>1, <2>1, <2>3, <2>4 DEF PlaceInv, Busy
  <2>8. Slices'
    BY <1>0, <1>1, <2>1, <2>2, SetFacts DEF PlaceInv, Slices, TypeInv, CoreOK
  <2> QED BY <2>5, <2>6, <2>7, <2>8 DEF PlaceInv
<1> QED BY <1>2, <1>3

\* The runner takes follow-ups, and may queue the next slice.
LEMMA PlaceRunner == ASSUME TypeInv, TypeInv', PlaceInv, NEW m \in Turns, Runner(m) PROVE PlaceInv'
<1> USE DEF busVars, loopVars, lockVars, turnVars, resultVars
<1>0. /\ pc \in [Turns -> TaskState] /\ queue \in [Turns -> Seq(Msg)]
      /\ Once(inbound) /\ \A t \in Turns : Once(queue[t])
  BY DEF TypeInv, CoreOK, PlaceInv, Placed
<1>1. Undrained(m) \in Seq(Msg) /\ Range(Undrained(m)) \subseteq Range(queue[m]) /\ Once(Undrained(m))
  BY <1>0, DrainedType
<1>2. /\ inbound' = inbound /\ deferred' = deferred /\ sent' = sent /\ waiter' = waiter
      /\ sub' = sub /\ pc[m] \in {"turn", "await"}
  BY DEF Runner, Inject, BlockOnSubagents, Wake, AwaitTimeout, EndTurn, EndAtBudget, LongTask,
         CompleteGoal, RunnerAt
<1>3. ASSUME continuing' = continuing,
             queue' = queue \/ queue' = [queue EXCEPT ![m] = Undrained(m)],
             \E at \in TaskState \ {"idle"} : pc' = [pc EXCEPT ![m] = at]
      PROVE  PlaceInv'
  <2>1. \A t \in Turns : Once(queue'[t]) /\ Range(queue'[t]) \subseteq Range(queue[t])
    BY <1>0, <1>1, <1>3
  <2>2. /\ \A t \in Turns : pc'[t] # "idle" => pc[t] # "idle"
        /\ \A t \in continuing : pc'[t] = pc[t]
    BY <1>0, <1>2, <1>3 DEF PlaceInv, Slices
  <2> QED BY <1>0, <1>2, <1>3, <2>1, <2>2, PlacesShrink
<1>4. CASE Inject(m)
  <2>1. pc' = [pc EXCEPT ![m] = pc[m]] /\ pc[m] \in TaskState \ {"idle"}
    BY <1>0, <1>2, <1>4, TaskStates DEF Inject
  <2> QED BY <1>3, <1>4, <2>1 DEF Inject, Fold
<1>5. CASE BlockOnSubagents(m)
  BY <1>3, <1>5, TaskStates DEF BlockOnSubagents
<1>6. CASE Wake(m)
  BY <1>3, <1>6, TaskStates DEF Wake, Fold
<1>7. CASE AwaitTimeout(m)
  <2>1. CASE FinishAtBudget(m, <<>>)
    <3>1. <<>> \in Seq(Msg) /\ Once(<<>>) /\ Range(<<>>) \subseteq Range(queue[m])
      BY EmptySeq, NothingInEmpty
    <3> QED BY <1>2, <1>7, <2>1, <3>1, FinishAtBudgetPlace DEF AwaitTimeout
  <2>2. CASE /\ \E next \in {"turn", "closing"} : pc' = [pc EXCEPT ![m] = next]
             /\ UNCHANGED <<queue, continuing>>
    BY <1>3, <2>2, TaskStates
  <2> QED BY <1>7, <2>1, <2>2 DEF AwaitTimeout
<1>8. CASE EndTurn(m)
  BY <1>3, <1>8, TaskStates DEF EndTurn
<1>9. CASE EndAtBudget(m)
  <2>1. CASE FinishAtBudget(m, queue[m])
    BY <1>0, <1>2, <1>9, <2>1, FinishAtBudgetPlace DEF EndAtBudget
  <2>2. CASE FinishAtBudget(m, Undrained(m))
    BY <1>1, <1>2, <1>9, <2>2, FinishAtBudgetPlace DEF EndAtBudget
  <2> QED BY <1>9, <2>1, <2>2 DEF EndAtBudget
<1>10. CASE LongTask(m) \/ CompleteGoal(m)
  <2>1. pc' = [pc EXCEPT ![m] = pc[m]] /\ pc[m] \in TaskState \ {"idle"}
    BY <1>0, <1>2, <1>10, TaskStates DEF LongTask, CompleteGoal
  <2> QED BY <1>3, <1>10, <2>1 DEF LongTask, CompleteGoal
<1> QED BY <1>4, <1>5, <1>6, <1>7, <1>8, <1>9, <1>10 DEF Runner

\* Handing the first deferred turn of s back to the bus, behind what is there.
LEMMA PublishPlace ==
  ASSUME TypeInv, PlaceInv, NEW s \in Sessions, NEW before \in Seq(Msg),
         Once(before), Apart(Range(before), Range(deferred[s])),
         PublishNextDeferred(s, before)
  PROVE  /\ Once(inbound')
         /\ Range(inbound') \subseteq Range(before) \cup Range(deferred[s])
         /\ Once(deferred'[s]) /\ Range(deferred'[s]) \subseteq Range(deferred[s])
         /\ Apart(Range(deferred'[s]), Range(inbound'))
         /\ \A r \in Sessions : r # s => deferred'[r] = deferred[r]
<1>0. /\ deferred \in [Sessions -> Seq(Automations)] /\ deferred[s] \in Seq(Automations)
      /\ Once(deferred[s]) /\ Automations \subseteq Msg
  BY DEF TypeInv, CoreOK, PlaceInv, Placed, Msg
<1>1. CASE deferred[s] = <<>>
  <2>1. inbound' = before /\ deferred' = deferred
    <3>1. inbound' = before \o <<>>
      BY <1>1 DEF PublishNextDeferred, NextDeferred
    <3>2. deferred' = deferred
      BY <1>0, <1>1 DEF PublishNextDeferred
    <3> QED BY <3>1, <3>2, ConcatEmptySeq
  <2> QED BY <1>0, <2>1 DEF Apart
<1>2. CASE deferred[s] # <<>>
  <2> DEFINE h == Head(deferred[s])
  <2>1. /\ h \in Automations /\ h \in Range(deferred[s]) /\ Once(Tail(deferred[s]))
        /\ Range(deferred[s]) = {h} \cup Range(Tail(deferred[s]))
        /\ h \notin Range(Tail(deferred[s]))
    BY <1>0, <1>2, TailRange
  <2>2. deferred'[s] = Tail(deferred[s]) /\ \A r \in Sessions : r # s => deferred'[r] = deferred[r]
    BY <1>0, <1>2 DEF PublishNextDeferred
  <2>3. inbound' = before \o <<h>>
    BY <1>2 DEF PublishNextDeferred, NextDeferred
  <2>4. before \o <<h>> = Append(before, h) /\ h \in Msg
    BY <1>0, <2>1
  <2>5. Once(inbound') /\ Range(inbound') = Range(before) \cup {h}
    <3>1. h \notin Range(before)
      BY <2>1 DEF Apart
    <3>2. /\ Once(before) => Once(Append(before, h))
          /\ Range(Append(before, h)) = Range(before) \cup {h}
      BY <2>4, <3>1, AppendRange
    <3> QED BY <2>3, <2>4, <3>2
  <2> QED BY <2>1, <2>2, <2>5 DEF Apart
<1> QED BY <1>1, <1>2

\* The finally block moves the pending queue of m to the bus.
LEMMA FinallyPlace ==
  ASSUME TypeInv, PlaceInv, NEW m \in Turns, pc[m] # "idle", Finally(m),
         \A a \in Automations : waiter[a] # "none" => waiter'[a] # "none"
  PROVE  PlaceInv'
<1> DEFINE s == SessionOf[m]
<1>0. /\ pc \in [Turns -> TaskState] /\ queue \in [Turns -> Seq(Msg)] /\ inbound \in Seq(Msg)
      /\ s \in Sessions /\ continuing \subseteq Turns
  BY SetFacts DEF TypeInv, CoreOK
<1>1. /\ queue'[m] = <<>> /\ \A t \in Turns : t # m => queue'[t] = queue[t]
      /\ pc'[m] = "idle" /\ \A t \in Turns : t # m => pc'[t] = pc[t]
      /\ continuing' = continuing \ {m} /\ sent' = sent /\ sub' = sub
  BY <1>0 DEF Finally, PublishNextDeferred
<1>2. /\ inbound \o queue[m] \in Seq(Msg) /\ Once(inbound \o queue[m])
      /\ Range(inbound \o queue[m]) = Range(inbound) \cup Range(queue[m])
  <2>1. Range(inbound) \cap Range(queue[m]) = {}
    BY DEF PlaceInv, Placed, Apart
  <2> QED BY <1>0, <2>1, ConcatRange DEF PlaceInv, Placed
<1>3. Apart(Range(inbound \o queue[m]), Range(deferred[s]))
  BY <1>0, <1>2 DEF PlaceInv, Placed, Apart
<1>4. /\ Once(inbound')
      /\ Range(inbound') \subseteq Range(inbound) \cup Range(queue[m]) \cup Range(deferred[s])
      /\ Once(deferred'[s]) /\ Range(deferred'[s]) \subseteq Range(deferred[s])
      /\ Apart(Range(deferred'[s]), Range(inbound'))
      /\ \A r \in Sessions : r # s => deferred'[r] = deferred[r]
  BY <1>0, <1>2, <1>3, PublishPlace DEF Finally, Leftovers
<1>5. Placed'
  <2>1. \A t \in Turns : Once(queue'[t]) /\ Apart(Range(queue'[t]), Range(inbound'))
    <3>1. ASSUME NEW t \in Turns, t # m PROVE Once(queue[t]) /\ Apart(Range(queue[t]), Range(inbound'))
      BY <1>0, <1>4, <3>1 DEF PlaceInv, Placed, Apart
    <3> QED BY <1>1, <3>1, NothingInEmpty DEF Apart
  <2>2. \A r \in Sessions : Once(deferred'[r]) /\ Apart(Range(deferred'[r]), Range(inbound'))
    BY <1>0, <1>4 DEF PlaceInv, Placed, Apart
  <2>3. \A t, u \in Turns : t # u => Apart(Range(queue'[t]), Range(queue'[u]))
    BY <1>1, NothingInEmpty DEF PlaceInv, Placed, Apart
  <2>4. \A q, r \in Sessions : q # r => Apart(Range(deferred'[q]), Range(deferred'[r]))
    BY <1>4 DEF PlaceInv, Placed, Apart
  <2>5. \A r \in Sessions, t \in Turns : Apart(Range(deferred'[r]), Range(queue'[t]))
    BY <1>1, <1>4, NothingInEmpty DEF PlaceInv, Placed, Apart
  <2> QED BY <1>4, <2>1, <2>2, <2>3, <2>4, <2>5 DEF Placed
<1>6. Known'
  <2>1. Range(inbound') \subseteq sent' /\ \A r \in Sessions : Range(deferred'[r]) \subseteq sent'
    BY <1>0, <1>1, <1>4 DEF PlaceInv, Known
  <2>2. \A t \in Turns : Range(queue'[t]) \subseteq sent'
    BY <1>1, NothingInEmpty DEF PlaceInv, Known
  <2> QED BY <1>1, <2>1, <2>2 DEF PlaceInv, Known
<1>7. Busy'
  <2>1. ASSUME NEW t \in Turns, t # m, pc[t] # "idle"
        PROVE  /\ t \notin Range(inbound')
               /\ \A r \in Sessions : t \notin Range(deferred'[r])
               /\ \A u \in Turns : t \in Range(queue'[u]) => u = t /\ t \in continuing'
    <3>1. /\ t \notin Range(inbound) /\ t \notin Range(queue[m])
          /\ \A r \in Sessions : t \notin Range(deferred[r])
          /\ \A u \in Turns : t \in Range(queue[u]) => u = t /\ t \in continuing
      BY <2>1 DEF PlaceInv, Busy
    <3> QED BY <1>0, <1>1, <1>4, <2>1, <3>1, NothingInEmpty
  <2> QED BY <1>1, <2>1 DEF Busy
<1>8. Slices'
  BY <1>0, <1>1 DEF PlaceInv, Slices
<1> QED BY <1>5, <1>6, <1>7, <1>8 DEF PlaceInv

\* The ends of a task.
LEMMA PlaceEnd == ASSUME TypeInv, TypeInv', PlaceInv, NEW m \in Turns, End(m) PROVE PlaceInv'
<1> USE DEF busVars, loopVars, lockVars, turnVars, resultVars
<1>0. /\ pc \in [Turns -> TaskState] /\ waiter \in [Automations -> {"none", "waiting", "answered", "failed"}]
      /\ Once(inbound) /\ \A t \in Turns : Once(queue[t])
      /\ SessionOf[m] \in Sessions /\ inbound \in Seq(Msg)
  BY SetFacts DEF TypeInv, CoreOK, PlaceInv, Placed
<1>1. ASSUME Close(m) \/ Fail(m) \/ CancelTurn(m) PROVE PlaceInv'
  <2>1. Finally(m) /\ pc[m] # "idle"
    BY <1>1, TaskStates DEF Close, Fail, CancelTurn, InTurn, Holding
  <2>2. PICK result \in {"answered", "failed"} : Complete(m, result)
    BY <1>1 DEF Close, Fail, CancelTurn
  <2>3. \A a \in Automations : waiter[a] # "none" => waiter'[a] # "none"
    BY <1>0, <2>2 DEF Complete
  <2> QED BY <2>1, <2>3, FinallyPlace
<1>2. CASE CloseDirect(m)
  <2>1. /\ pc' = [pc EXCEPT ![m] = "idle"] /\ m \notin continuing
    BY <1>2, SetsAssumption DEF CloseDirect, PlaceInv, Slices, Msg
  <2>2. /\ \A t \in Turns : pc'[t] # "idle" => pc[t] # "idle"
        /\ \A t \in continuing : pc'[t] = pc[t]
    BY <1>0, <2>1 DEF TypeInv, CoreOK
  <2> QED BY <1>0, <1>2, <2>2, PlacesShrink DEF CloseDirect
<1>5. CASE AbortDirect(m)
  <2>1. /\ pc' = [pc EXCEPT ![m] = "idle"] /\ m \notin continuing
    BY <1>5, SetsAssumption DEF AbortDirect, PlaceInv, Slices, Msg
  <2>2. /\ \A t \in Turns : pc'[t] # "idle" => pc[t] # "idle"
        /\ \A t \in continuing : pc'[t] = pc[t]
    BY <1>0, <2>1 DEF TypeInv, CoreOK
  <2> QED BY <1>0, <1>5, <2>2, PlacesShrink DEF AbortDirect
<1>3. CASE CancelCreated(m)
  <2>1. /\ pc' = [pc EXCEPT ![m] = "idle"] /\ m \notin continuing
    BY <1>3 DEF CancelCreated, PlaceInv, Slices
  <2>2. /\ \A t \in Turns : pc'[t] # "idle" => pc[t] # "idle"
        /\ \A t \in continuing : pc'[t] = pc[t]
    BY <1>0, <2>1 DEF TypeInv, CoreOK
  <2> QED BY <1>0, <1>3, <2>2, PlacesShrink DEF CancelCreated
<1>4. CASE CancelWaiting(m)
  <2> DEFINE s == SessionOf[m]
  <2>1. /\ PublishNextDeferred(s, inbound) /\ UNCHANGED <<turnVars, waiter, sub>>
        /\ pc' = [pc EXCEPT ![m] = "idle"] /\ pc[m] \in {"lock", "gate"} /\ sent' = sent
    BY <1>4 DEF CancelWaiting, PublishNextDeferred
  <2>2. /\ Once(inbound')
        /\ Range(inbound') \subseteq Range(inbound) \cup Range(deferred[s])
        /\ Once(deferred'[s]) /\ Range(deferred'[s]) \subseteq Range(deferred[s])
        /\ Apart(Range(deferred'[s]), Range(inbound'))
        /\ \A r \in Sessions : r # s => deferred'[r] = deferred[r]
    <3>1. Apart(Range(inbound), Range(deferred[s]))
      BY <1>0 DEF PlaceInv, Placed, Apart
    <3> QED BY <1>0, <2>1, <3>1, PublishPlace
  <2>3. /\ \A t \in Turns : pc'[t] # "idle" => pc[t] # "idle"
        /\ \A t \in continuing : pc'[t] = pc[t]
    BY <1>0, <2>1 DEF PlaceInv, Slices
  <2>4. Placed'
    <3>1. \A t \in Turns : Once(queue'[t]) /\ Apart(Range(queue'[t]), Range(inbound'))
      BY <1>0, <2>1, <2>2 DEF PlaceInv, Placed, Apart
    <3>2. \A r \in Sessions : Once(deferred'[r]) /\ Apart(Range(deferred'[r]), Range(inbound'))
      BY <1>0, <2>2 DEF PlaceInv, Placed, Apart
    <3>3. \A q, r \in Sessions : q # r => Apart(Range(deferred'[q]), Range(deferred'[r]))
      BY <2>2 DEF PlaceInv, Placed, Apart
    <3>4. \A r \in Sessions, t \in Turns : Apart(Range(deferred'[r]), Range(queue'[t]))
      BY <2>1, <2>2 DEF PlaceInv, Placed, Apart
    <3> QED BY <2>1, <2>2, <3>1, <3>2, <3>3, <3>4 DEF PlaceInv, Placed
  <2>5. Known'
    BY <1>0, <2>1, <2>2, <2>3 DEF PlaceInv, Known
  <2>6. Busy'
    BY <1>0, <2>1, <2>2, <2>3 DEF PlaceInv, Busy
  <2>7. Slices'
    BY <2>1, <2>3 DEF PlaceInv, Slices
  <2> QED BY <2>4, <2>5, <2>6, <2>7 DEF PlaceInv
<1> QED BY <1>1, <1>2, <1>3, <1>4, <1>5 DEF End

\* /new run as a turn.
LEMMA PlaceCommand == ASSUME TypeInv, TypeInv', PlaceInv, NEW c \in New, Command(c) PROVE PlaceInv'
<1> USE DEF busVars, loopVars, lockVars, turnVars, resultVars
<1>1. /\ inbound' = inbound /\ queue' = queue /\ deferred' = deferred /\ sent' = sent
      /\ waiter' = waiter /\ continuing' = continuing
      /\ pc[c] \in {"turn", "new"} /\ \E at \in {"new", "closing"} : pc' = [pc EXCEPT ![c] = at]
      /\ c \in Turns
  BY SetFacts DEF Command, BeginNew, EndNew
<1>2. \A a \in Sub : sub[a] \notin {"new", "running"} => sub'[a] \notin {"new", "running"}
  BY DEF Command, BeginNew, EndNew, CancelSubagents, TypeInv, CoreOK
<1>3. /\ \A t \in Turns : pc'[t] # "idle" => pc[t] # "idle"
      /\ \A t \in continuing : pc'[t] = pc[t]
      /\ Once(inbound) /\ \A t \in Turns : Once(queue[t])
  BY <1>1 DEF PlaceInv, Placed, Slices, TypeInv, CoreOK
<1> QED BY <1>1, <1>2, <1>3, PlacesShrink

\* Every step.
LEMMA PlaceStep == TypeInv /\ TypeInv' /\ PlaceInv /\ [Next]_vars => PlaceInv'
<1> SUFFICES ASSUME TypeInv, TypeInv', PlaceInv, [Next]_vars PROVE PlaceInv'
  OBVIOUS
<1>1. \A c \in New : Command(c) => PlaceInv'
  BY PlaceCommand
<1>2. \A m \in Turns : Acquire(m) \/ Runner(m) \/ End(m) => PlaceInv'
  BY PlaceAcquire, PlaceRunner, PlaceEnd
<1>3. UNCHANGED vars => PlaceInv'
  BY DEF vars, busVars, loopVars, lockVars, turnVars, resultVars,
         PlaceInv, Placed, Known, Busy, Slices
<1> QED BY <1>1, <1>2, <1>3, PlaceProduce, PlaceRunLoop DEF Next

LEMMA PlaceInvariant == Spec => []PlaceInv
BY TypeInvariant, PlaceInit, PlaceStep, PTL DEF Spec

-----------------------------------------------------------------------------
(* The session lock and the published queue *)

\* The holder of a lock is exactly the task that is past it.
LockInv ==
  /\ \A m \in Turns : pc[m] \in Holding <=> lockOwner[SessionOf[m]] = m
  /\ \A d \in Direct : pc[d] # "gate"

\* A published queue is that of a turn of the session that is still running.
RegistryInv ==
  \A s \in Sessions : registry[s] # None =>
    /\ registry[s] \notin Direct
    /\ SessionOf[registry[s]] = s
    /\ pc[registry[s]] \in InTurn
    /\ registry[s] \in gate

OwnInv == LockInv /\ RegistryInv

\* What the steps below need of the types.
LEMMA OwnTypes ==
  ASSUME TypeInv
  PROVE  /\ pc \in [Turns -> TaskState]
         /\ lockOwner \in [Sessions -> Turns \cup {None}]
         /\ registry \in [Sessions -> Turns \cup {None}]
         /\ gate \subseteq Turns
         /\ None \notin Turns
         /\ \A m \in Turns : SessionOf[m] \in Sessions
         /\ Direct \subseteq Turns
BY SetFacts DEF TypeInv, CoreOK, Turns

\* The initial states.
LEMMA OwnInit == Init => OwnInv
<1> SUFFICES ASSUME Init PROVE OwnInv
  OBVIOUS
<1>1. \A m \in Turns : pc[m] = "idle" /\ lockOwner[SessionOf[m]] = None /\ m # None
  BY SetFacts DEF Init
<1>2. Direct \subseteq Turns /\ "idle" \notin Holding
  BY TaskStates DEF Turns
<1>3. LockInv
  BY <1>1, <1>2 DEF LockInv
<1> QED BY <1>3 DEF OwnInv, RegistryInv, Init

\* Steps that leave every task on its side of the lock and of the gate.
LEMMA OwnSame ==
  ASSUME TypeInv, OwnInv, UNCHANGED <<lockOwner, registry>>, gate \subseteq gate',
         \A t \in Turns : \/ pc'[t] = pc[t]
                          \/ pc[t] \in InTurn /\ pc'[t] \in InTurn
                          \/ pc[t] \notin Holding /\ pc'[t] \notin Holding
  PROVE  OwnInv'
BY OwnTypes, TaskStates, SMT DEF OwnInv, LockInv, RegistryInv

\* Publishing the queue of the task that holds the lock.
LEMMA OwnBegin ==
  ASSUME TypeInv, OwnInv, NEW m \in Turns \ Direct, BeginTurn(m),
         \/ lockOwner[SessionOf[m]] = m /\ lockOwner' = lockOwner
         \/ /\ lockOwner[SessionOf[m]] = None
            /\ lockOwner' = [lockOwner EXCEPT ![SessionOf[m]] = m]
  PROVE  OwnInv'
<1>1. /\ pc'[m] = "turn" /\ \A t \in Turns : t # m => pc'[t] = pc[t]
      /\ registry'[SessionOf[m]] = m
      /\ \A s \in Sessions : s # SessionOf[m] => registry'[s] = registry[s]
      /\ gate' = gate \cup {m}
      /\ lockOwner'[SessionOf[m]] = m
      /\ \A s \in Sessions : s # SessionOf[m] => lockOwner'[s] = lockOwner[s]
  BY OwnTypes DEF BeginTurn
<1>2. LockInv'
  BY <1>1, OwnTypes, TaskStates DEF OwnInv, LockInv
<1>3. RegistryInv'
  BY <1>1, OwnTypes, TaskStates DEF OwnInv, RegistryInv, InTurn, Holding
<1> QED BY <1>2, <1>3 DEF OwnInv

\* A task gets the lock, and the gate if a slot is free.
LEMMA OwnHold ==
  ASSUME TypeInv, OwnInv, NEW m \in Turns, HoldLock(m),
         lockOwner[SessionOf[m]] = None, pc[m] \notin Holding
  PROVE  OwnInv'
<1>1. lockOwner' = [lockOwner EXCEPT ![SessionOf[m]] = m]
  BY DEF HoldLock
<1>2. CASE m \notin Direct /\ BeginTurn(m)
  BY <1>1, <1>2, OwnBegin
<1>3. CASE \E at \in {"turn", "gate"} :
             /\ pc' = [pc EXCEPT ![m] = at] /\ (m \in Direct => at = "turn")
             /\ UNCHANGED <<gate, turnVars>>
  <2>1. PICK at \in {"turn", "gate"} :
             /\ pc' = [pc EXCEPT ![m] = at] /\ (m \in Direct => at = "turn")
             /\ gate' = gate /\ registry' = registry
    BY <1>3 DEF turnVars
  <2>2. /\ pc'[m] = at /\ \A t \in Turns : t # m => pc'[t] = pc[t]
        /\ lockOwner'[SessionOf[m]] = m
        /\ \A s \in Sessions : s # SessionOf[m] => lockOwner'[s] = lockOwner[s]
    BY <1>1, <2>1, OwnTypes
  <2>3. at \in Holding
    BY TaskStates
  <2>4. LockInv'
    BY <2>1, <2>2, <2>3, OwnTypes DEF OwnInv, LockInv
  <2>5. RegistryInv'
    BY <2>1, <2>2, OwnTypes, TaskStates DEF OwnInv, RegistryInv
  <2> QED BY <2>4, <2>5 DEF OwnInv
<1> QED BY <1>2, <1>3 DEF HoldLock

\* A task asks for the lock.
LEMMA OwnAsk ==
  ASSUME TypeInv, OwnInv, NEW m \in Turns, AskLock(m), pc[m] \notin Holding
  PROVE  OwnInv'
<1>1. CASE LockFree(SessionOf[m]) /\ HoldLock(m)
  BY <1>1, OwnHold DEF LockFree
<1>2. CASE /\ pc' = [pc EXCEPT ![m] = "lock"]
           /\ UNCHANGED <<lockOwner, gate, gateWaiters, turnVars>>
  BY <1>2, OwnSame, OwnTypes, TaskStates DEF turnVars
<1> QED BY <1>1, <1>2 DEF AskLock

\* Releasing lock, gate and queue.
LEMMA OwnFinally ==
  ASSUME TypeInv, OwnInv, NEW m \in Turns, pc[m] \in InTurn, Finally(m)
  PROVE  OwnInv'
<1>1. /\ pc'[m] = "idle" /\ \A t \in Turns : t # m => pc'[t] = pc[t]
      /\ registry'[SessionOf[m]] # m
      /\ \A s \in Sessions : registry'[s] # None => registry'[s] = registry[s]
      /\ gate' = gate \ {m}
      /\ lockOwner'[SessionOf[m]] = None
      /\ \A s \in Sessions : s # SessionOf[m] => lockOwner'[s] = lockOwner[s]
  BY OwnTypes DEF Finally, Unpublish
<1>2. \A t \in Turns : t # m /\ SessionOf[t] = SessionOf[m] => pc[t] \notin Holding
  BY TaskStates DEF OwnInv, LockInv
<1>3. LockInv'
  BY <1>1, <1>2, OwnTypes, TaskStates DEF OwnInv, LockInv
<1>4. RegistryInv'
  BY <1>1, OwnTypes DEF OwnInv, RegistryInv
<1> QED BY <1>3, <1>4 DEF OwnInv

\* Every step.
LEMMA OwnStep == TypeInv /\ PlaceInv /\ OwnInv /\ [Next]_vars => OwnInv'
<1> SUFFICES ASSUME TypeInv, PlaceInv, OwnInv, [Next]_vars PROVE OwnInv'
  OBVIOUS
<1> USE DEF busVars, loopVars, lockVars, turnVars, resultVars
<1>1. CASE Produce
  <2>1. ASSUME NEW d \in Direct, CallDirect(d) PROVE OwnInv'
    <3>1. d \in Turns /\ pc[d] \notin Holding /\ AskLock(d)
      BY <2>1, OwnTypes, TaskStates DEF CallDirect
    <3> QED BY <3>1, OwnAsk
  <2>2. CASE ~ \E d \in Direct : CallDirect(d)
    <3>1. UNCHANGED <<lockOwner, registry, gate, pc>>
      BY <1>1, <2>2 DEF Produce, Send, Submit, Spawn, Announce
    <3> QED BY <3>1, OwnSame
  <2> QED BY <2>1, <2>2
<1>2. CASE RunLoop
  <2>1. ASSUME NEW m \in Msg, ConsumeCreate(m) PROVE OwnInv'
    <3>1. m \in Turns /\ pc[m] = "idle" /\ pc' = [pc EXCEPT ![m] = "created"]
      BY <2>1, ConsumePlace DEF ConsumeCreate
    <3> QED BY <2>1, <3>1, OwnSame, OwnTypes, TaskStates DEF ConsumeCreate
  <2>2. ASSUME NEW c \in Stop, FinishStop(c) PROVE OwnInv'
    <3>1. /\ UNCHANGED <<lockOwner, gate, pc>>
          /\ \A s \in Sessions : registry'[s] # None => registry'[s] = registry[s]
      BY <2>2, OwnTypes DEF FinishStop
    <3> QED BY <3>1 DEF OwnInv, LockInv, RegistryInv
  <2>3. CASE ~ \/ \E m \in Msg : ConsumeCreate(m)
               \/ \E c \in Stop : FinishStop(c)
    <3>1. UNCHANGED <<lockOwner, registry, gate, pc>>
      BY <1>2, <2>3 DEF RunLoop, ConsumeCommand, ConsumeDefer, ConsumeRoute, FinishNew
    <3> QED BY <3>1, OwnSame
  <2> QED BY <2>1, <2>2, <2>3
<1>3. ASSUME NEW m \in Turns, Acquire(m) PROVE OwnInv'
  <2>1. CASE Start(m)
    BY <2>1, OwnAsk, TaskStates DEF Start
  <2>2. CASE TakeLock(m)
    BY <2>2, OwnHold, TaskStates DEF TakeLock
  <2>3. CASE TakeGate(m)
    <3>1. m \notin Direct /\ lockOwner[SessionOf[m]] = m
      BY <2>3, TaskStates DEF TakeGate, OwnInv, LockInv
    <3> QED BY <2>3, <3>1, OwnBegin DEF TakeGate
  <2> QED BY <1>3, <2>1, <2>2, <2>3 DEF Acquire
<1>4. ASSUME NEW m \in Turns, Runner(m) PROVE OwnInv'
  <2>1. /\ UNCHANGED <<lockOwner, registry, gate>> /\ pc[m] \in InTurn
        /\ pc' = pc \/ \E at \in InTurn : pc' = [pc EXCEPT ![m] = at]
    BY <1>4, TaskStates DEF Runner, Inject, BlockOnSubagents, Wake, AwaitTimeout, EndTurn,
       EndAtBudget, FinishAtBudget, Fold, LongTask, CompleteGoal, RunnerAt, InTurn, Holding
  <2>2. \A t \in Turns : pc'[t] = pc[t] \/ (pc[t] \in InTurn /\ pc'[t] \in InTurn)
    BY <2>1, OwnTypes
  <2> QED BY <2>1, <2>2, OwnSame
<1>5. ASSUME NEW m \in Turns, End(m) PROVE OwnInv'
  <2>1. CASE Close(m) \/ Fail(m) \/ CancelTurn(m)
    <3>1. Finally(m) /\ pc[m] \in InTurn
      BY <2>1 DEF Close, Fail, CancelTurn, InTurn, Holding
    <3> QED BY <3>1, OwnFinally
  <2>7. ASSUME m \in Direct, pc'[m] = "idle", \A t \in Turns : t # m => pc'[t] = pc[t],
               UNCHANGED <<registry, gate>>, lockOwner'[SessionOf[m]] = None,
               \A s \in Sessions : s # SessionOf[m] => lockOwner'[s] = lockOwner[s],
               pc[m] \in Holding
        PROVE  OwnInv'
    <3>2. \A t \in Turns : t # m /\ SessionOf[t] = SessionOf[m] => pc[t] \notin Holding
      BY <2>7 DEF OwnInv, LockInv
    <3>3. LockInv'
      BY <2>7, <3>2, OwnTypes, TaskStates DEF OwnInv, LockInv
    <3>4. RegistryInv'
      BY <2>7, OwnTypes DEF OwnInv, RegistryInv
    <3> QED BY <3>3, <3>4 DEF OwnInv
  <2>2. CASE CloseDirect(m)
    <3>1. /\ m \in Direct /\ pc'[m] = "idle" /\ \A t \in Turns : t # m => pc'[t] = pc[t]
          /\ UNCHANGED <<registry, gate>> /\ lockOwner'[SessionOf[m]] = None
          /\ \A s \in Sessions : s # SessionOf[m] => lockOwner'[s] = lockOwner[s]
          /\ pc[m] \in Holding
      BY <2>2, OwnTypes, TaskStates DEF CloseDirect
    <3> QED BY <2>7, <3>1
  <2>5. CASE AbortDirect(m) /\ pc[m] = "lock"
    BY <2>5, OwnSame, OwnTypes, TaskStates DEF AbortDirect
  <2>6. CASE AbortDirect(m) /\ pc[m] # "lock"
    <3>1. /\ m \in Direct /\ pc'[m] = "idle" /\ \A t \in Turns : t # m => pc'[t] = pc[t]
          /\ UNCHANGED <<registry, gate>> /\ lockOwner'[SessionOf[m]] = None
          /\ \A s \in Sessions : s # SessionOf[m] => lockOwner'[s] = lockOwner[s]
          /\ pc[m] \in Holding
      BY <2>6, OwnTypes, TaskStates DEF AbortDirect
    <3> QED BY <2>7, <3>1
  <2>3. CASE CancelCreated(m)
    BY <2>3, OwnSame, OwnTypes, TaskStates DEF CancelCreated
  <2>4. CASE CancelWaiting(m)
    <3>1. CASE pc[m] = "lock" /\ lockOwner' = lockOwner
      BY <2>4, <3>1, OwnSame, OwnTypes, TaskStates DEF CancelWaiting
    <3>2. CASE pc[m] = "gate" /\ lockOwner' = [lockOwner EXCEPT ![SessionOf[m]] = None]
      <4>1. /\ pc'[m] = "idle" /\ \A t \in Turns : t # m => pc'[t] = pc[t]
            /\ UNCHANGED <<registry, gate>> /\ lockOwner'[SessionOf[m]] = None
            /\ \A s \in Sessions : s # SessionOf[m] => lockOwner'[s] = lockOwner[s]
        BY <2>4, <3>2, OwnTypes DEF CancelWaiting
      <4>2. \A t \in Turns : t # m /\ SessionOf[t] = SessionOf[m] => pc[t] \notin Holding
        BY <3>2, TaskStates DEF OwnInv, LockInv
      <4>3. LockInv'
        BY <4>1, <4>2, OwnTypes, TaskStates DEF OwnInv, LockInv
      <4>4. RegistryInv'
        BY <3>2, <4>1, OwnTypes, TaskStates DEF OwnInv, RegistryInv
      <4> QED BY <4>3, <4>4 DEF OwnInv
    <3> QED BY <2>4, <3>1, <3>2 DEF CancelWaiting
  <2> QED BY <1>5, <2>1, <2>2, <2>3, <2>4, <2>5, <2>6 DEF End
<1>6. ASSUME NEW c \in New, Command(c) PROVE OwnInv'
  <2>1. /\ UNCHANGED <<lockOwner, registry, gate>> /\ c \in Turns /\ pc[c] \in InTurn
        /\ \E at \in InTurn : pc' = [pc EXCEPT ![c] = at]
    BY <1>6, SetFacts DEF Command, BeginNew, EndNew, InTurn, Holding
  <2> QED BY <2>1, OwnSame, OwnTypes
<1>7. CASE UNCHANGED vars
  BY <1>7, OwnSame DEF vars
<1> QED BY <1>1, <1>2, <1>3, <1>4, <1>5, <1>6, <1>7 DEF Next

LEMMA OwnInvariant == Spec => []OwnInv
BY TypeInvariant, PlaceInvariant, OwnInit, OwnStep, PTL DEF Spec

\* At most one turn of a session is in progress, for any number of sessions,
\* messages, gate slots and whatever the interleaving of tasks, commands and
\* cancellations.
THEOREM SerialTurns == Spec => []SerialSessions
<1>1. TypeInv /\ OwnInv => SerialSessions
  BY TaskStates DEF OwnInv, LockInv, SerialSessions
<1> QED BY <1>1, TypeInvariant, OwnInvariant, PTL

\* Only the task that owns the session lock, and that still has to run its
\* finally block, has its pending queue published.
THEOREM PublishedByOwner == Spec => []RegistryIsOwner
<1>1. TypeInv /\ OwnInv => RegistryIsOwner
  BY OwnTypes, TaskStates DEF OwnInv, LockInv, RegistryInv, RegistryIsOwner
<1> QED BY <1>1, TypeInvariant, OwnInvariant, PTL

-----------------------------------------------------------------------------
(* A follow-up never waits in a queue nobody drains.  The command that      *)
(* withdraws a published queue, /stop, is executed after every task of the  *)
(* session has been cancelled, so none of them queues anything any more.    *)

Ordinary == Turns \ (Direct \cup New)

\* A task is found by the commands of its session, and while one of them is
\* executing every task of the session has been told to end.
CancelInv ==
  \A m \in Ordinary : pc[m] # "idle" =>
    /\ m \in active[SessionOf[m]] \cup cancelReq
    /\ inline # None /\ SessionOf[inline] = SessionOf[m] => m \in cancelReq

\* A running turn that has not been cancelled has its queue published.
PublishedInv ==
  \A m \in Ordinary : pc[m] \in InTurn /\ m \notin cancelReq => registry[SessionOf[m]] = m

FollowInv == CancelInv /\ PublishedInv /\ NoOrphanedFollowup

\* What the steps below need of the types.
LEMMA FollowTypes ==
  ASSUME TypeInv
  PROVE  /\ active \in [Sessions -> SUBSET Turns]
         /\ queue \in [Turns -> Seq(Msg)]
         /\ Ordinary \subseteq Turns /\ Chat \cup Automations \subseteq Ordinary
         /\ Stop \cup New \subseteq Msg /\ None \notin Msg
         /\ \A m \in Msg : SessionOf[m] \in Sessions
         /\ {"turn", "await", "cont", "new", "closing"} = InTurn
         /\ {"idle", "created", "lock", "gate"} \cap InTurn = {}
BY SetFacts, SetsAssumption DEF TypeInv, CoreOK, Ordinary, Msg, InTurn, Holding

\* The initial states.
LEMMA FollowInit == Init => FollowInv
<1> SUFFICES ASSUME Init PROVE FollowInv
  OBVIOUS
<1>1. \A m \in Turns : pc[m] = "idle" /\ queue[m] = <<>>
  BY DEF Init
<1>2. "idle" \notin InTurn /\ Ordinary \subseteq Turns
  BY TaskStates DEF Ordinary
<1> QED BY <1>1, <1>2 DEF FollowInv, CancelInv, PublishedInv, NoOrphanedFollowup

\* Steps after which every living task is still known to the commands.
LEMMA CancelSame ==
  ASSUME CancelInv, inline' \in {inline, None},
         \A t \in Ordinary : pc'[t] # "idle" =>
            /\ pc[t] # "idle"
            /\ t \in cancelReq => t \in cancelReq'
            /\ t \in active[SessionOf[t]] => t \in active'[SessionOf[t]] \cup cancelReq'
  PROVE  CancelInv'
BY DEF CancelInv

\* Steps that leave the published queues alone.
LEMMA FollowSame ==
  ASSUME TypeInv, PublishedInv, NoOrphanedFollowup, registry' = registry,
         \A t \in Turns :
            /\ queue'[t] # <<>> =>
                 queue[t] # <<>> \/ (t \in Ordinary \ cancelReq /\ pc[t] \in InTurn)
            /\ t \in cancelReq /\ pc'[t] \in InTurn => t \in cancelReq'
            /\ \/ pc'[t] = pc[t]
               \/ pc[t] \in InTurn /\ pc'[t] \in InTurn
               \/ pc[t] \notin InTurn /\ (pc'[t] \notin InTurn \/ t \in Direct)
  PROVE  PublishedInv' /\ NoOrphanedFollowup'
<1>1. PublishedInv'
  BY FollowTypes DEF PublishedInv, Ordinary
<1>2. NoOrphanedFollowup'
  BY FollowTypes DEF PublishedInv, NoOrphanedFollowup
<1> QED BY <1>1, <1>2

\* Publishing the queue of a task that has just got lock and gate.
LEMMA FollowBegin ==
  ASSUME TypeInv, OwnInv', PublishedInv, NoOrphanedFollowup, NEW m \in Turns,
         BeginTurn(m), cancelReq' = cancelReq
  PROVE  PublishedInv' /\ NoOrphanedFollowup'
<1>1. /\ pc'[m] = "turn" /\ \A t \in Turns : t # m => pc'[t] = pc[t] /\ queue'[t] = queue[t]
      /\ registry'[SessionOf[m]] = m /\ queue'[m] = <<>>
      /\ \A s \in Sessions : s # SessionOf[m] => registry'[s] = registry[s]
  BY OwnTypes, FollowTypes DEF BeginTurn
<1>2. \A t \in Turns : t # m /\ SessionOf[t] = SessionOf[m] => pc'[t] \notin InTurn
  BY <1>1, TaskStates DEF OwnInv, LockInv
<1>3. PublishedInv'
  BY <1>1, <1>2, FollowTypes, OwnTypes DEF PublishedInv
<1>4. NoOrphanedFollowup'
  BY <1>1, <1>2, FollowTypes, OwnTypes DEF NoOrphanedFollowup
<1> QED BY <1>3, <1>4

\* A task gets the lock, and the gate if a slot is free.
LEMMA FollowHold ==
  ASSUME TypeInv, OwnInv', PublishedInv, NoOrphanedFollowup, NEW m \in Turns,
         HoldLock(m), pc[m] \notin Holding, cancelReq' = cancelReq
  PROVE  PublishedInv' /\ NoOrphanedFollowup'
<1>1. CASE BeginTurn(m)
  BY <1>1, FollowBegin
<1>2. CASE /\ \E at \in {"turn", "gate"} : pc' = [pc EXCEPT ![m] = at] /\ (m \in Direct \/ at = "gate")
           /\ UNCHANGED turnVars
  BY <1>2, FollowSame, FollowTypes, OwnTypes, TaskStates DEF turnVars
<1> QED BY <1>1, <1>2 DEF HoldLock

\* The finally block withdraws the queue it has just handed back.
LEMMA FollowFinally ==
  ASSUME TypeInv, OwnInv, PublishedInv, NoOrphanedFollowup, NEW m \in Turns,
         pc[m] \in InTurn, Finally(m)
  PROVE  PublishedInv' /\ NoOrphanedFollowup'
<1>1. /\ pc'[m] = "idle" /\ queue'[m] = <<>>
      /\ \A t \in Turns : t # m => /\ pc'[t] = pc[t] /\ queue'[t] = queue[t]
                                   /\ (t \in cancelReq => t \in cancelReq')
      /\ \A s \in Sessions : s # SessionOf[m] => registry'[s] = registry[s]
  BY OwnTypes, FollowTypes DEF Finally, Unpublish
<1>2. \A t \in Turns : t # m /\ SessionOf[t] = SessionOf[m] => pc[t] \notin InTurn
  BY TaskStates DEF OwnInv, LockInv
<1>3. PublishedInv'
  BY <1>1, <1>2, FollowTypes, OwnTypes DEF PublishedInv
<1>4. NoOrphanedFollowup'
  BY <1>1, <1>2, FollowTypes, OwnTypes DEF NoOrphanedFollowup
<1> QED BY <1>3, <1>4

\* No step adds a task to a session one of whose commands cancels them.
LEMMA CancelStep == TypeInv /\ CancelInv /\ [Next]_vars => CancelInv'
<1> SUFFICES ASSUME TypeInv, CancelInv, [Next]_vars PROVE CancelInv'
  OBVIOUS
<1> USE DEF busVars, loopVars, lockVars, turnVars, resultVars
<1>1. CASE Produce
  <2>1. UNCHANGED <<inline, active, cancelReq>> /\ \A t \in Ordinary : pc'[t] = pc[t]
    BY <1>1, OwnTypes DEF Produce, Send, Submit, Spawn, Announce, CallDirect, AskLock, HoldLock,
       BeginTurn, Ordinary
  <2> QED BY <2>1, CancelSame
<1>2. CASE RunLoop
  <2>1. ASSUME NEW m \in Msg, ConsumeCommand(m) PROVE CancelInv'
    <3>1. /\ inline' = m /\ pc' = pc /\ cancelReq' = cancelReq \cup active[SessionOf[m]]
          /\ active'[SessionOf[m]] = {}
          /\ \A s \in Sessions : s # SessionOf[m] => active'[s] = active[s]
      BY <2>1, FollowTypes DEF ConsumeCommand, CancelActive
    <3>2. inline = None
      BY <2>1 DEF ConsumeCommand, Consume
    <3> QED BY <3>1, <3>2, FollowTypes, OwnTypes DEF CancelInv
  <2>2. ASSUME NEW m \in Msg, ConsumeCreate(m) PROVE CancelInv'
    <3>1. /\ inline' = None /\ cancelReq' = cancelReq
          /\ \A t \in Turns : t # m => pc'[t] = pc[t]
          /\ m \in active'[SessionOf[m]]
          /\ \A s \in Sessions : active[s] \subseteq active'[s]
      BY <2>2, FollowTypes, OwnTypes DEF ConsumeCreate, Consume
    <3> QED BY <3>1, FollowTypes, OwnTypes DEF CancelInv
  <2>3. CASE ~ \/ \E m \in Msg : ConsumeCommand(m)
               \/ \E m \in Msg : ConsumeCreate(m)
    <3>1. UNCHANGED <<active, cancelReq, pc>> /\ inline' \in {inline, None}
      BY <1>2, <2>3 DEF RunLoop, ConsumeDefer, ConsumeRoute, FinishStop, FinishNew
    <3> QED BY <3>1, CancelSame
  <2> QED BY <2>1, <2>2, <2>3
<1>3. ASSUME NEW m \in Turns, Acquire(m) PROVE CancelInv'
  <2>1. /\ UNCHANGED <<inline, active, cancelReq>> /\ pc[m] # "idle"
        /\ \A t \in Turns : t # m => pc'[t] = pc[t]
    BY <1>3, OwnTypes DEF Acquire, Start, TakeLock, TakeGate, AskLock, HoldLock, BeginTurn
  <2> QED BY <2>1, CancelSame DEF Ordinary
<1>4. ASSUME NEW m \in Turns, Runner(m) PROVE CancelInv'
  <2>1. /\ UNCHANGED <<inline, active, cancelReq>> /\ pc[m] # "idle"
        /\ \A t \in Turns : t # m => pc'[t] = pc[t]
    BY <1>4, OwnTypes DEF Runner, Inject, BlockOnSubagents, Wake, AwaitTimeout, EndTurn,
       EndAtBudget, FinishAtBudget, LongTask, CompleteGoal, RunnerAt
  <2> QED BY <2>1, CancelSame DEF Ordinary
<1>5. ASSUME NEW m \in Turns, End(m) PROVE CancelInv'
  <2>1. /\ inline' = inline /\ pc'[m] = "idle"
        /\ \A t \in Turns : t # m =>
             /\ pc'[t] = pc[t]
             /\ t \in cancelReq => t \in cancelReq'
             /\ \A s \in Sessions : t \in active[s] => t \in active'[s]
    <3>1. /\ inline' = inline /\ pc' = [pc EXCEPT ![m] = "idle"]
          /\ cancelReq' = cancelReq \/ cancelReq' = cancelReq \ {m}
          /\ active' = active \/ active' = [active EXCEPT ![SessionOf[m]] = @ \ {m}]
      BY <1>5
         DEF End, Close, Fail, CloseDirect, AbortDirect, CancelTurn, CancelCreated,
             CancelWaiting, Finally
    <3>2. \A t \in Turns, s \in Sessions : t # m /\ t \in active[s] => t \in active'[s]
      BY <3>1, FollowTypes
    <3> QED BY <3>1, <3>2, OwnTypes
  <2> QED BY <2>1, CancelSame, OwnTypes DEF Ordinary
<1>6. ASSUME NEW c \in New, Command(c) PROVE CancelInv'
  <2>1. c \in Turns /\ c \notin Ordinary /\ SessionOf[c] \in Sessions
    BY SetFacts DEF Ordinary
  <2>2. CASE BeginNew(c)
    <3>1. /\ inline' = inline /\ \A t \in Turns : t # c => pc'[t] = pc[t]
          /\ cancelReq' = cancelReq \cup (active[SessionOf[c]] \ {c})
          /\ \A s \in Sessions : s # SessionOf[c] => active'[s] = active[s]
      BY <2>1, <2>2, FollowTypes, OwnTypes DEF BeginNew, CancelActive
    <3> QED BY <2>1, <3>1, CancelSame, OwnTypes DEF Ordinary
  <2>3. CASE EndNew(c)
    <3>1. UNCHANGED <<inline, active, cancelReq>> /\ \A t \in Turns : t # c => pc'[t] = pc[t]
      BY <2>3, OwnTypes DEF EndNew
    <3> QED BY <2>1, <3>1, CancelSame DEF Ordinary
  <2> QED BY <1>6, <2>2, <2>3 DEF Command
<1>7. CASE UNCHANGED vars
  BY <1>7 DEF vars, CancelInv
<1> QED BY <1>1, <1>2, <1>3, <1>4, <1>5, <1>6, <1>7 DEF Next

\* Every step.
LEMMA FollowStep ==
  TypeInv /\ OwnInv /\ OwnInv' /\ FollowInv /\ [Next]_vars => PublishedInv' /\ NoOrphanedFollowup'
<1> SUFFICES ASSUME TypeInv, OwnInv, OwnInv', CancelInv, PublishedInv, NoOrphanedFollowup, [Next]_vars
             PROVE  PublishedInv' /\ NoOrphanedFollowup'
  BY DEF FollowInv
<1> USE DEF busVars, loopVars, lockVars, turnVars, resultVars
<1>1. CASE Produce
  <2>1. ASSUME NEW d \in Direct, CallDirect(d) PROVE PublishedInv' /\ NoOrphanedFollowup'
    <3>1. /\ d \in Turns /\ d \notin Ordinary /\ UNCHANGED <<registry, queue, cancelReq>>
          /\ pc[d] \notin InTurn /\ \A t \in Turns : t # d => pc'[t] = pc[t]
      BY <2>1, OwnTypes, FollowTypes DEF CallDirect, AskLock, HoldLock, Ordinary
    <3> QED BY <2>1, <3>1, FollowSame
  <2>2. CASE ~ \E d \in Direct : CallDirect(d)
    <3>1. UNCHANGED <<registry, queue, pc, cancelReq>>
      BY <1>1, <2>2 DEF Produce, Send, Submit, Spawn, Announce
    <3> QED BY <3>1, FollowSame
  <2> QED BY <2>1, <2>2
<1>2. CASE RunLoop
  <2>1. ASSUME NEW m \in Msg, ConsumeCommand(m) PROVE PublishedInv' /\ NoOrphanedFollowup'
    <3>1. UNCHANGED <<registry, queue, pc>> /\ cancelReq \subseteq cancelReq'
      BY <2>1 DEF ConsumeCommand, CancelActive
    <3> QED BY <3>1, FollowSame
  <2>2. ASSUME NEW m \in Chat \cup Sub, ConsumeRoute(m) PROVE PublishedInv' /\ NoOrphanedFollowup'
    <3> DEFINE o == registry[SessionOf[m]]
    <3>1. SessionOf[m] \in Sessions /\ o # None
      BY <2>2, SetFacts DEF ConsumeRoute, RoutesToPending
    <3>2. o \in Turns /\ SessionOf[o] = SessionOf[m] /\ pc[o] \in InTurn
      BY <3>1, OwnTypes DEF OwnInv, RegistryInv
    <3>3. /\ UNCHANGED <<registry, pc, cancelReq>>
          /\ \A t \in Turns : t # o => queue'[t] = queue[t]
      BY <2>2, <3>2, FollowTypes DEF ConsumeRoute
    <3>4. PublishedInv'
      BY <3>3 DEF PublishedInv
    <3>5. NoOrphanedFollowup'
      BY <3>2, <3>3 DEF NoOrphanedFollowup
    <3> QED BY <3>4, <3>5
  <2>3. ASSUME NEW m \in Msg, ConsumeCreate(m) PROVE PublishedInv' /\ NoOrphanedFollowup'
    <3>1. m \in Turns /\ UNCHANGED <<registry, queue, cancelReq, lockOwner>> /\ pc' = [pc EXCEPT ![m] = "created"]
      BY <2>3 DEF ConsumeCreate
    <3>2. pc[m] \notin InTurn
      BY <3>1, OwnTypes, TaskStates DEF OwnInv, LockInv
    <3> QED BY <3>1, <3>2, FollowSame, FollowTypes, OwnTypes
  <2>4. ASSUME NEW c \in Stop, FinishStop(c) PROVE PublishedInv' /\ NoOrphanedFollowup'
    <3> DEFINE s == SessionOf[c]
    <3>1. /\ inline = c /\ s \in Sessions /\ inline # None
          /\ UNCHANGED <<pc, cancelReq>>
          /\ registry'[s] = None
          /\ \A r \in Sessions : r # s => registry'[r] = registry[r]
          /\ \A t \in Turns : queue'[t] = IF t = registry[s] THEN <<>> ELSE queue[t]
      BY <2>4, FollowTypes, OwnTypes DEF FinishStop
    <3>2. \A t \in Ordinary : SessionOf[t] = s /\ pc[t] # "idle" => t \in cancelReq
      BY <3>1 DEF CancelInv
    <3>3. PublishedInv'
      BY <3>1, <3>2, OwnTypes, FollowTypes DEF PublishedInv
    <3>4. NoOrphanedFollowup'
      BY <3>1, OwnTypes DEF NoOrphanedFollowup
    <3> QED BY <3>3, <3>4
  <2>5. CASE ~ \/ \E m \in Msg : ConsumeCommand(m) \/ ConsumeCreate(m)
               \/ \E m \in Chat \cup Sub : ConsumeRoute(m)
               \/ \E c \in Stop : FinishStop(c)
    <3>1. UNCHANGED <<registry, queue, pc, cancelReq>>
      BY <1>2, <2>5 DEF RunLoop, ConsumeDefer, FinishNew
    <3> QED BY <3>1, FollowSame
  <2> QED BY <2>1, <2>2, <2>3, <2>4, <2>5
<1>3. ASSUME NEW m \in Turns, Acquire(m) PROVE PublishedInv' /\ NoOrphanedFollowup'
  <2>1. cancelReq' = cancelReq /\ pc[m] \notin InTurn
    BY <1>3, FollowTypes DEF Acquire, Start, TakeLock, TakeGate
  <2>2. CASE BeginTurn(m)
    BY <2>1, <2>2, FollowBegin
  <2>3. CASE HoldLock(m) /\ pc[m] \notin Holding
    BY <2>1, <2>3, FollowHold
  <2>4. CASE pc' = [pc EXCEPT ![m] = "lock"] /\ UNCHANGED turnVars
    BY <2>1, <2>4, FollowSame, FollowTypes, OwnTypes
  <2> QED BY <1>3, <2>2, <2>3, <2>4, TaskStates DEF Acquire, Start, AskLock, TakeLock, TakeGate
<1>4. ASSUME NEW m \in Turns, Runner(m) PROVE PublishedInv' /\ NoOrphanedFollowup'
  <2>1. /\ UNCHANGED <<registry, cancelReq>> /\ m \notin cancelReq /\ pc[m] \in InTurn
        /\ \A t \in Turns : pc'[t] = pc[t] \/ (pc[t] \in InTurn /\ pc'[t] \in InTurn)
        /\ \A t \in Turns : t # m => queue'[t] = queue[t]
    BY <1>4, FollowTypes, OwnTypes DEF Runner, Inject, BlockOnSubagents, Wake, AwaitTimeout,
       EndTurn, EndAtBudget, FinishAtBudget, Fold, LongTask, CompleteGoal, RunnerAt
  <2>2. queue'[m] # <<>> => queue[m] # <<>> \/ m \in Ordinary
    BY <1>4, FollowTypes DEF Runner, Inject, BlockOnSubagents, Wake, AwaitTimeout,
       EndTurn, EndAtBudget, FinishAtBudget, Continues, Fold, LongTask, CompleteGoal
  <2> QED BY <2>1, <2>2, FollowSame
<1>5. ASSUME NEW m \in Turns, End(m) PROVE PublishedInv' /\ NoOrphanedFollowup'
  <2>1. CASE Close(m) \/ Fail(m) \/ CancelTurn(m)
    <3>1. Finally(m) /\ pc[m] \in InTurn
      BY <2>1, FollowTypes DEF Close, Fail, CancelTurn
    <3> QED BY <3>1, FollowFinally
  <2>2. CASE CloseDirect(m) \/ AbortDirect(m)
    <3>1. /\ m \in Direct /\ UNCHANGED <<registry, queue, cancelReq>>
          /\ \A t \in Turns : t # m => pc'[t] = pc[t]
      BY <2>2, OwnTypes DEF CloseDirect, AbortDirect
    <3>2. queue[m] = <<>>
      BY <3>1, OwnTypes DEF NoOrphanedFollowup, OwnInv, RegistryInv
    <3> QED BY <3>1, <3>2 DEF PublishedInv, NoOrphanedFollowup, Ordinary
  <2>3. CASE CancelCreated(m) \/ CancelWaiting(m)
    <3>1. /\ UNCHANGED <<registry, queue>> /\ pc[m] \notin InTurn /\ pc'[m] \notin InTurn
          /\ \A t \in Turns : t # m => pc'[t] = pc[t] /\ (t \in cancelReq => t \in cancelReq')
      BY <2>3, FollowTypes, OwnTypes DEF CancelCreated, CancelWaiting
    <3> QED BY <3>1, FollowSame
  <2> QED BY <1>5, <2>1, <2>2, <2>3 DEF End
<1>6. ASSUME NEW c \in New, Command(c) PROVE PublishedInv' /\ NoOrphanedFollowup'
  <2>1. /\ UNCHANGED <<registry, queue>> /\ cancelReq \subseteq cancelReq'
        /\ \A t \in Turns : pc'[t] = pc[t] \/ (pc[t] \in InTurn /\ pc'[t] \in InTurn)
    BY <1>6, FollowTypes, OwnTypes DEF Command, BeginNew, EndNew, CancelActive
  <2> QED BY <2>1, FollowSame
<1>7. CASE UNCHANGED vars
  BY <1>7 DEF vars, PublishedInv, NoOrphanedFollowup
<1> QED BY <1>1, <1>2, <1>3, <1>4, <1>5, <1>6, <1>7 DEF Next

\* Both parts together.
LEMMA FollowInvStep ==
  TypeInv /\ OwnInv /\ OwnInv' /\ FollowInv /\ [Next]_vars => FollowInv'
BY CancelStep, FollowStep DEF FollowInv

\* The follow-ups' invariant, over a behaviour.
LEMMA FollowInvariant == Spec => []FollowInv
BY TypeInvariant, OwnInvariant, FollowInit, FollowInvStep, PTL DEF Spec

\* A follow-up waits only in the published queue of a turn that will still
\* drain it or hand it back: no interleaving of /stop, /new, cancellation,
\* failure and process_direct leaves one in a queue that nobody reads.
THEOREM FollowupsKept == Spec => []NoOrphanedFollowup
<1> QED BY FollowInvariant, PTL DEF FollowInv
-----------------------------------------------------------------------------
(* One holder.  A message that is sent and not settled is in exactly one   *)
(* place: it waits in a queue, is merged into a turn, has a task, or is    *)
(* the command that is executing.                                          *)

Waits(x) ==
  \/ x \in Range(inbound)
  \/ \E t \in Turns : x \in Range(queue[t])
  \/ \E s \in Sessions : x \in Range(deferred[s])

Merged(x) == \E t \in Turns : x \in folded[t]

Alive(x)  == x \in Turns /\ pc[x] # "idle"
Tasked(x) == Alive(x) /\ x \notin continuing

Held(x)   == Waits(x) \/ Merged(x) \/ Tasked(x) \/ inline = x

\* What is merged or executing is nowhere else.
Single(x) ==
  /\ Merged(x) => ~Waits(x) /\ ~Alive(x) /\ inline # x
  /\ inline = x => ~Waits(x) /\ ~Alive(x)
  /\ \A t, u \in Turns : x \in folded[t] /\ x \in folded[u] => t = u

\* What is held is open, and what is open is held.
Counted(x) ==
  /\ Held(x) <=> x \in sent /\ fate[x] = "open"
  /\ x \notin sent => fate[x] = "open"

HoldInv == \A x \in Msg : Single(x) /\ Counted(x)

\* A queue has its limit, and a session defers only its own turns.
RoomInv ==
  /\ \A t \in Turns : Len(queue[t]) <= PendingMax
  /\ \A s \in Sessions : \A a \in Range(deferred[s]) : SessionOf[a] = s

\* The initial states.
LEMMA HoldInit == Init => HoldInv /\ RoomInv
<1> SUFFICES ASSUME Init PROVE HoldInv /\ RoomInv
  OBVIOUS
<1>1. /\ inbound = <<>> /\ inline = None /\ sent = {}
      /\ \A t \in Turns : pc[t] = "idle" /\ queue[t] = <<>> /\ folded[t] = {}
      /\ \A s \in Sessions : deferred[s] = <<>>
      /\ \A x \in Msg : fate[x] = "open"
  BY DEF Init
<1>2. \A x \in Msg : ~Waits(x) /\ ~Merged(x) /\ ~Alive(x) /\ inline # x
  BY <1>1, NothingInEmpty, SetFacts DEF Waits, Merged, Alive
<1>3. HoldInv
  BY <1>1, <1>2 DEF HoldInv, Single, Counted, Held, Tasked, Merged
<1>4. RoomInv
  BY <1>1, NothingInEmpty, BoundsAssumption DEF RoomInv
<1> QED BY <1>3, <1>4

\* A message that a step does not touch.
LEMMA Untouched ==
  ASSUME NEW x \in Msg, Single(x), Counted(x), Waits(x)' <=> Waits(x),
         \A t \in Turns : x \in folded'[t] <=> x \in folded[t],
         Alive(x)' <=> Alive(x), Tasked(x)' <=> Tasked(x),
         inline' = x <=> inline = x, x \in sent' <=> x \in sent, fate'[x] = fate[x]
  PROVE  Single(x)' /\ Counted(x)'
<1>1. Merged(x)' <=> Merged(x)
  BY DEF Merged
<1> QED BY <1>1 DEF Single, Counted, Held

\* Steps that move no message and begin and end no task.
LEMMA HoldStill ==
  ASSUME HoldInv, UNCHANGED <<inbound, sent, deferred, inline>>,
         \A t \in Turns : queue'[t] = queue[t] /\ folded'[t] = folded[t],
         \A x \in Msg : fate'[x] = fate[x],
         \A x \in Msg \cap Turns : /\ pc'[x] = "idle" <=> pc[x] = "idle"
                                   /\ x \in continuing' <=> x \in continuing
  PROVE  HoldInv'
<1> SUFFICES ASSUME NEW x \in Msg PROVE Single(x)' /\ Counted(x)'
  BY DEF HoldInv
<1>1. Single(x) /\ Counted(x)
  BY DEF HoldInv
<1>2. Waits(x)' <=> Waits(x)
  BY DEF Waits
<1>3. (Alive(x)' <=> Alive(x)) /\ (Tasked(x)' <=> Tasked(x))
  BY DEF Alive, Tasked
<1> QED BY <1>1, <1>2, <1>3, Untouched

\* A message that has not been sent before joins the inbound queue.
LEMMA HoldArrives ==
  ASSUME TypeInv, HoldInv, NEW m \in Msg \ sent,
         inbound' = Append(inbound, m), sent' = sent \cup {m},
         UNCHANGED <<queue, deferred, folded, pc, continuing, inline, fate>>
  PROVE  HoldInv'
<1>1. Range(inbound') = Range(inbound) \cup {m}
  BY AppendRange DEF TypeInv, CoreOK
<1> SUFFICES ASSUME NEW x \in Msg PROVE Single(x)' /\ Counted(x)'
  BY DEF HoldInv
<1>2. Single(x) /\ Counted(x)
  BY DEF HoldInv
<1>3. /\ Merged(x)' <=> Merged(x)
      /\ Alive(x)' <=> Alive(x)
      /\ Tasked(x)' <=> Tasked(x)
  BY DEF Merged, Alive, Tasked
<1>4. CASE x = m
  <2>1. Waits(x)' /\ ~Held(x) /\ fate[x] = "open"
    BY <1>1, <1>2, <1>4 DEF Waits, Counted
  <2> QED BY <1>2, <1>3, <1>4, <2>1 DEF Single, Counted, Held
<1>5. CASE x # m
  <2>1. Waits(x)' <=> Waits(x)
    BY <1>1, <1>5 DEF Waits
  <2> QED BY <1>2, <1>3, <1>5, <2>1, Untouched
<1> QED BY <1>4, <1>5

\* Producers.
LEMMA HoldProduce == ASSUME TypeInv, PlaceInv, HoldInv, Produce PROVE HoldInv'
<1> USE DEF busVars, loopVars, lockVars, turnVars, resultVars
<1>0. /\ Chat \cup Stop \cup New \cup Automations \cup Sub \subseteq Msg
      /\ \A a \in Automations \cap sent : waiter[a] # "none"
      /\ \A a \in Sub \cap sent : sub[a] \notin {"new", "running"}
  BY DEF Msg, PlaceInv, Known
<1>1. ASSUME NEW m \in Chat \cup Stop \cup New, Send(m) PROVE HoldInv'
  BY <1>0, <1>1, HoldArrives DEF Send
<1>2. ASSUME NEW a \in Automations, Submit(a) PROVE HoldInv'
  <2>1. a \in Msg \ sent
    BY <1>0, <1>2 DEF Submit
  <2> QED BY <1>2, <2>1, HoldArrives DEF Submit
<1>3. ASSUME NEW m \in Turns, NEW a \in Sub, Spawn(m, a) PROVE HoldInv'
  BY <1>3, HoldStill DEF Spawn
<1>4. ASSUME NEW a \in Sub, Announce(a) PROVE HoldInv'
  <2>1. a \in Msg \ sent
    BY <1>0, <1>4 DEF Announce
  <2> QED BY <1>4, <2>1, HoldArrives DEF Announce
<1>5. ASSUME NEW d \in Direct, CallDirect(d) PROVE HoldInv'
  <2>1. /\ pc \in [Turns -> TaskState] /\ \A x \in Msg : x # d
    BY <1>5, SetsAssumption DEF TypeInv, CoreOK
  <2>2. /\ UNCHANGED <<queue, folded, continuing>>
        /\ \E at \in {"turn", "lock"} : pc' = [pc EXCEPT ![d] = at]
    BY <1>5 DEF CallDirect, AskLock, HoldLock
  <2>3. \A x \in Msg \cap Turns : pc'[x] = pc[x]
    BY <2>1, <2>2
  <2> QED BY <1>5, <2>2, <2>3, HoldStill DEF CallDirect
<1> QED BY <1>1, <1>2, <1>3, <1>4, <1>5 DEF Produce

\* "/stop" discards what is left of a published queue.
LEMMA HoldFinishStop == ASSUME TypeInv, PlaceInv, HoldInv, NEW c \in Stop, FinishStop(c) PROVE HoldInv'
<1> USE DEF busVars, loopVars, lockVars, turnVars, resultVars
<1> DEFINE o == registry[SessionOf[c]]
           gone == IF o = None THEN {} ELSE Range(queue[o])
<1>0. /\ queue \in [Turns -> Seq(Msg)] /\ None \notin Msg /\ None \notin Turns
      /\ c \in Msg /\ o \in Turns \cup {None} /\ c \notin Turns
  BY SetFacts, SetsAssumption DEF TypeInv, CoreOK, Msg, Turns
<1>1. /\ inline = c /\ inline' = None
      /\ queue' = [m \in Turns |-> IF m = o THEN <<>> ELSE queue[m]]
      /\ fate' = [x \in Msg \cup Direct |->
                    IF x = c THEN "answered" ELSE IF x \in gone THEN "dropped" ELSE fate[x]]
      /\ UNCHANGED <<inbound, sent, deferred, folded, continuing, pc>>
  BY DEF FinishStop
<1>2. \A t \in Turns : Range(queue'[t]) = IF t = o THEN {} ELSE Range(queue[t])
  BY <1>1, NothingInEmpty
<1> HIDE DEF o
<1> SUFFICES ASSUME NEW x \in Msg PROVE Single(x)' /\ Counted(x)'
  BY DEF HoldInv
<1>3. Single(x) /\ Counted(x) /\ inline' # x
  BY <1>0, <1>1 DEF HoldInv
<1>4. /\ Merged(x)' <=> Merged(x)
      /\ Alive(x)' <=> Alive(x)
      /\ Tasked(x)' <=> Tasked(x)
      /\ Waits(x)' => Waits(x)
  BY <1>1, <1>2 DEF Waits, Merged, Alive, Tasked
<1>5. CASE x = c
  <2>1. ~Waits(x) /\ ~Merged(x) /\ ~Alive(x) /\ Held(x)
    BY <1>1, <1>3, <1>5 DEF Single, Held
  <2>2. fate'[x] = "answered"
    BY <1>1, <1>5
  <2> QED BY <1>1, <1>3, <1>4, <2>1, <2>2 DEF Single, Counted, Held, Tasked
<1>6. CASE x # c /\ x \in gone
  <2>1. o \in Turns /\ x \in Range(queue[o]) /\ Waits(x)
    BY <1>0, <1>6 DEF Waits
  <2>2. ~Waits(x)'
    BY <1>1, <1>2, <2>1 DEF PlaceInv, Placed, Apart, Waits
  <2>3. ~Merged(x) /\ ~Tasked(x) /\ x \in sent
    BY <1>3, <2>1 DEF Single, Tasked, Alive, PlaceInv, Busy, Known
  <2>4. fate'[x] = "dropped"
    BY <1>1, <1>6
  <2> QED BY <1>1, <1>3, <1>4, <2>2, <2>3, <2>4 DEF Single, Counted, Held
<1>7. CASE x # c /\ x \notin gone
  <2>1. Waits(x)' <=> Waits(x)
    BY <1>0, <1>1, <1>2, <1>7 DEF Waits
  <2>2. fate'[x] = fate[x] /\ (inline' = x <=> inline = x)
    BY <1>0, <1>1, <1>7
  <2> QED BY <1>1, <1>3, <1>4, <2>1, <2>2, Untouched
<1> QED BY <1>5, <1>6, <1>7

\* What the run loop takes from the bus is nowhere else.
LEMMA ConsumeHold ==
  ASSUME TypeInv, PlaceInv, HoldInv, NEW m, Consume(m)
  PROVE  /\ m \in Msg /\ m \in sent /\ fate[m] = "open" /\ inline = None
         /\ ~Merged(m) /\ ~Alive(m) /\ m \notin continuing
         /\ m \notin Range(inbound')
         /\ \A t \in Turns : m \notin Range(queue[t])
         /\ \A s \in Sessions : m \notin Range(deferred[s])
         /\ \A x \in Msg : x # m => (x \in Range(inbound') <=> x \in Range(inbound))
<1>1. /\ m \in Range(inbound) /\ m \in sent
      /\ Range(inbound) = {m} \cup Range(inbound') /\ m \notin Range(inbound')
      /\ \A t \in Turns : m \notin Range(queue[t])
      /\ \A s \in Sessions : m \notin Range(deferred[s])
      /\ m \in Turns => pc[m] = "idle" /\ m \notin continuing
  BY ConsumePlace
<1>2. m \in Msg /\ inline = None
  BY ConsumeType DEF Consume
<1>3. Waits(m) /\ Held(m)
  BY <1>1 DEF Waits, Held
<1>4. ~Merged(m) /\ fate[m] = "open"
  BY <1>2, <1>3 DEF HoldInv, Single, Counted
<1>5. continuing \subseteq Turns
  BY DEF TypeInv, CoreOK
<1> QED BY <1>1, <1>2, <1>4, <1>5 DEF Alive

\* It is the same for every message that stays.
LEMMA ConsumeRest ==
  ASSUME TypeInv, PlaceInv, HoldInv, NEW m, Consume(m), UNCHANGED <<sent, folded, continuing, fate>>,
         inline' \in {inline, m},
         NEW x \in Msg, x # m,
         \A t \in Turns : x \in Range(queue'[t]) <=> x \in Range(queue[t]),
         \A s \in Sessions : x \in Range(deferred'[s]) <=> x \in Range(deferred[s]),
         x \in Turns => (pc'[x] = "idle" <=> pc[x] = "idle")
  PROVE  Single(x)' /\ Counted(x)'
<1>1. Single(x) /\ Counted(x)
  BY DEF HoldInv
<1>2. inline = None /\ (x \in Range(inbound') <=> x \in Range(inbound))
  BY ConsumeHold
<1>3. Waits(x)' <=> Waits(x)
  BY <1>2 DEF Waits
<1>4. (Alive(x)' <=> Alive(x)) /\ (Tasked(x)' <=> Tasked(x))
  BY DEF Alive, Tasked
<1>5. inline' = x <=> inline = x
  BY <1>2, SetFacts
<1> QED BY <1>1, <1>3, <1>4, <1>5, Untouched

\* The run loop.
LEMMA HoldRunLoop == ASSUME TypeInv, PlaceInv, HoldInv, RunLoop PROVE HoldInv'
<1> USE DEF busVars, loopVars, lockVars, turnVars, resultVars
<1>0. /\ pc \in [Turns -> TaskState] /\ queue \in [Turns -> Seq(Msg)]
      /\ deferred \in [Sessions -> Seq(Automations)] /\ fate \in [Msg \cup Direct -> Fates]
      /\ continuing \subseteq Turns
      /\ None \notin Msg
  BY SetFacts DEF TypeInv, CoreOK
<1>1. ASSUME NEW m \in Msg, ConsumeCommand(m) PROVE HoldInv'
  <2>1. /\ Consume(m) /\ inline' = m /\ UNCHANGED <<sent, deferred, queue, folded, continuing, fate, pc>>
    BY <1>1 DEF ConsumeCommand
  <2>2. /\ m \in sent /\ fate[m] = "open" /\ ~Merged(m) /\ ~Alive(m) /\ m \notin Range(inbound')
        /\ \A t \in Turns : m \notin Range(queue[t])
        /\ \A s \in Sessions : m \notin Range(deferred[s])
    BY <2>1, ConsumeHold
  <2>3. Single(m)' /\ Counted(m)'
    <3>1. ~Waits(m)' /\ ~Merged(m)' /\ ~Alive(m)'
      BY <2>1, <2>2 DEF Waits, Merged, Alive
    <3>2. \A t \in Turns : m \notin folded'[t]
      BY <2>1, <2>2 DEF Merged
    <3> QED BY <2>1, <2>2, <3>1, <3>2 DEF Single, Counted, Held
  <2>4. \A x \in Msg : x # m => Single(x)' /\ Counted(x)'
    BY <2>1, ConsumeRest
  <2> QED BY <2>3, <2>4 DEF HoldInv
<1>2. ASSUME NEW m \in Automations, ConsumeDefer(m) PROVE HoldInv'
  <2> DEFINE s == SessionOf[m]
  <2>1. /\ s \in Sessions /\ Consume(m) /\ deferred' = [deferred EXCEPT ![s] = Append(@, m)]
        /\ UNCHANGED <<sent, inline, queue, folded, continuing, fate, pc>>
    BY <1>2, SetFacts DEF ConsumeDefer
  <2>2. /\ m \in sent /\ fate[m] = "open" /\ ~Merged(m) /\ ~Alive(m) /\ inline = None /\ m \in Msg
    BY <2>1, ConsumeHold
  <2>3. /\ Range(deferred'[s]) = Range(deferred[s]) \cup {m}
        /\ \A r \in Sessions : r # s => deferred'[r] = deferred[r]
    <3>1. deferred'[s] = Append(deferred[s], m) /\ \A r \in Sessions : r # s => deferred'[r] = deferred[r]
      BY <1>0, <2>1
    <3> QED BY <1>0, <2>1, <3>1, AppendRange
  <2>4. Single(m)' /\ Counted(m)'
    <3>1. Waits(m)' /\ ~Merged(m)' /\ ~Alive(m)' /\ inline' # m
      BY <1>0, <2>1, <2>2, <2>3 DEF Waits, Merged, Alive
    <3>2. \A t \in Turns : m \notin folded'[t]
      BY <2>1, <2>2 DEF Merged
    <3> QED BY <2>1, <2>2, <3>1, <3>2 DEF Single, Counted, Held
  <2>5. ASSUME NEW x \in Msg, x # m PROVE Single(x)' /\ Counted(x)'
    <3>1. \A r \in Sessions : x \in Range(deferred'[r]) <=> x \in Range(deferred[r])
      BY <2>3, <2>5
    <3> QED BY <2>1, <2>5, <3>1, ConsumeRest
  <2> QED BY <2>4, <2>5 DEF HoldInv
<1>3. ASSUME NEW m \in Chat \cup Sub, ConsumeRoute(m) PROVE HoldInv'
  <2> DEFINE o == registry[SessionOf[m]]
  <2>1. /\ Consume(m) /\ o \in Turns /\ queue' = [queue EXCEPT ![o] = Append(@, m)]
        /\ UNCHANGED <<sent, inline, deferred, folded, continuing, fate, pc>>
    BY <1>3, SetFacts DEF ConsumeRoute, RoutesToPending, TypeInv, CoreOK, Msg
  <2>2. /\ m \in sent /\ fate[m] = "open" /\ ~Merged(m) /\ ~Alive(m) /\ inline = None /\ m \in Msg
    BY <2>1, ConsumeHold
  <2>3. /\ Range(queue'[o]) = Range(queue[o]) \cup {m}
        /\ \A t \in Turns : t # o => queue'[t] = queue[t]
    <3>1. queue'[o] = Append(queue[o], m) /\ \A t \in Turns : t # o => queue'[t] = queue[t]
      BY <1>0, <2>1
    <3> QED BY <1>0, <2>1, <2>2, <3>1, AppendRange
  <2>4. Single(m)' /\ Counted(m)'
    <3>1. Waits(m)' /\ ~Merged(m)' /\ ~Alive(m)' /\ inline' # m
      BY <1>0, <2>1, <2>2, <2>3 DEF Waits, Merged, Alive
    <3>2. \A t \in Turns : m \notin folded'[t]
      BY <2>1, <2>2 DEF Merged
    <3> QED BY <2>1, <2>2, <3>1, <3>2 DEF Single, Counted, Held
  <2>5. ASSUME NEW x \in Msg, x # m PROVE Single(x)' /\ Counted(x)'
    <3>1. \A t \in Turns : x \in Range(queue'[t]) <=> x \in Range(queue[t])
      BY <2>3, <2>5
    <3> QED BY <2>1, <2>5, <3>1, ConsumeRest
  <2> QED BY <2>4, <2>5 DEF HoldInv
<1>4. ASSUME NEW m \in Msg, ConsumeCreate(m) PROVE HoldInv'
  <2>1. /\ Consume(m) /\ m \in Turns /\ pc' = [pc EXCEPT ![m] = "created"]
        /\ UNCHANGED <<sent, inline, deferred, queue, folded, continuing, fate>>
    BY <1>4 DEF ConsumeCreate
  <2>2. /\ m \in sent /\ fate[m] = "open" /\ ~Merged(m) /\ inline = None /\ m \notin continuing
        /\ m \notin Range(inbound')
        /\ \A t \in Turns : m \notin Range(queue[t])
        /\ \A s \in Sessions : m \notin Range(deferred[s])
    BY <2>1, ConsumeHold
  <2>3. pc'[m] = "created" /\ \A x \in Turns : x # m => pc'[x] = pc[x]
    BY <1>0, <2>1
  <2>4. Single(m)' /\ Counted(m)'
    <3>1. Tasked(m)' /\ ~Merged(m)' /\ inline' # m
      BY <1>0, <2>1, <2>2, <2>3 DEF Tasked, Merged, Alive
    <3>2. \A t \in Turns : m \notin folded'[t]
      BY <2>1, <2>2 DEF Merged
    <3> QED BY <2>1, <2>2, <3>1, <3>2 DEF Single, Counted, Held
  <2>5. \A x \in Msg : x # m => Single(x)' /\ Counted(x)'
    BY <2>1, <2>3, ConsumeRest
  <2> QED BY <2>4, <2>5 DEF HoldInv
<1>5. ASSUME NEW c \in Stop, FinishStop(c) PROVE HoldInv'
  BY <1>5, HoldFinishStop
<1>6. ASSUME NEW c \in New, FinishNew(c) PROVE HoldInv'
  <2>1. /\ c \in Msg /\ inline = c /\ inline' = None /\ fate' = [fate EXCEPT ![c] = "answered"]
        /\ UNCHANGED <<inbound, sent, deferred, queue, folded, continuing, pc>>
    BY <1>6 DEF FinishNew, Msg
  <2>2. fate'[c] = "answered" /\ \A x \in Msg : x # c => fate'[x] = fate[x]
    BY <1>0, <2>1
  <2> SUFFICES ASSUME NEW x \in Msg PROVE Single(x)' /\ Counted(x)'
    BY DEF HoldInv
  <2>3. Single(x) /\ Counted(x)
    BY DEF HoldInv
  <2>4. /\ Waits(x)' <=> Waits(x)
        /\ Merged(x)' <=> Merged(x)
        /\ Alive(x)' <=> Alive(x)
        /\ Tasked(x)' <=> Tasked(x)
    BY <2>1 DEF Waits, Merged, Alive, Tasked
  <2>5. CASE x = c
    <3>1. ~Waits(x) /\ ~Merged(x) /\ ~Alive(x)
      BY <2>1, <2>3, <2>5 DEF Single
    <3>2. Held(x)
      BY <2>1, <2>5 DEF Held
    <3> QED BY <1>0, <2>1, <2>2, <2>3, <2>4, <2>5, <3>1, <3>2 DEF Single, Counted, Held, Tasked
  <2>6. CASE x # c
    BY <1>0, <2>1, <2>2, <2>3, <2>4, <2>6, Untouched
  <2> QED BY <2>5, <2>6
<1> QED BY <1>1, <1>2, <1>3, <1>4, <1>5, <1>6 DEF RunLoop

\* Lock and gate move nothing: the pending queue that a turn creates replaces
\* one that is empty.
LEMMA HoldAcquire ==
  ASSUME TypeInv, HoldInv, NoOrphanedFollowup, NEW m \in Turns, Acquire(m) PROVE HoldInv'
<1> USE DEF busVars, loopVars, lockVars, turnVars, resultVars
<1>0. pc \in [Turns -> TaskState] /\ queue \in [Turns -> Seq(Msg)]
  BY DEF TypeInv, CoreOK
<1>1. /\ UNCHANGED <<inbound, sent, deferred, inline, folded, continuing, fate>>
      /\ pc[m] \in {"created", "lock", "gate"}
      /\ \E at \in {"turn", "gate", "lock"} : pc' = [pc EXCEPT ![m] = at]
      /\ queue' = queue \/ queue' = [queue EXCEPT ![m] = <<>>]
  BY DEF Acquire, Start, TakeLock, TakeGate, AskLock, HoldLock, BeginTurn
<1>2. pc[m] \notin InTurn
  BY <1>1 DEF InTurn, Holding
<1>3. \A t \in Turns : queue'[t] = queue[t]
  BY <1>0, <1>1, <1>2 DEF NoOrphanedFollowup
<1>4. \A x \in Turns : pc'[x] = "idle" <=> pc[x] = "idle"
  BY <1>0, <1>1
<1> QED BY <1>1, <1>3, <1>4, HoldStill

\* A drain takes F out of the pending queue of m, leaves R, and may put the
\* next slice of m behind it.
Drains(m, F, R) ==
  /\ Range(queue[m]) = F \cup R /\ F \cap R = {}
  /\ \A t \in Turns : t # m => queue'[t] = queue[t] /\ folded'[t] = folded[t]
  /\ folded'[m] = folded[m] \cup F
  /\ \/ Range(queue'[m]) = R /\ continuing' = continuing
     \/ m \in Msg /\ Range(queue'[m]) = R \cup {m} /\ continuing' = continuing \cup {m}
  /\ UNCHANGED <<inbound, sent, deferred, inline, fate>>
  /\ \A t \in Turns : pc'[t] = "idle" <=> pc[t] = "idle"

\* Nothing is lost by it.
LEMMA HoldDrains ==
  ASSUME TypeInv, PlaceInv, HoldInv, NEW m \in Turns, pc[m] \in {"turn", "await"},
         NEW F, NEW R, Drains(m, F, R)
  PROVE  HoldInv'
<1> USE DEF Drains
<1>1. /\ m \notin continuing /\ pc[m] # "idle"
      /\ \A t \in Turns : m \notin Range(queue[t])
      /\ m \notin Range(inbound) /\ \A s \in Sessions : m \notin Range(deferred[s])
  BY DEF PlaceInv, Slices, Busy
<1>2. \A x \in F : x \in Turns => pc[x] = "idle"
  BY <1>1 DEF PlaceInv, Busy, Slices
<1> SUFFICES ASSUME NEW x \in Msg PROVE Single(x)' /\ Counted(x)'
  BY DEF HoldInv
<1>3. Single(x) /\ Counted(x)
  BY DEF HoldInv
<1>4. Alive(x)' <=> Alive(x)
  BY DEF Alive
<1>5. CASE x \in F
  <2>1. Waits(x) /\ x # m
    BY <1>1, <1>5 DEF Waits
  <2>2. ~Merged(x) /\ ~Alive(x) /\ inline # x /\ x \in sent /\ fate[x] = "open"
    BY <1>2, <1>3, <1>5, <2>1 DEF Single, Counted, Held, Alive
  <2>3. ~Waits(x)'
    BY <1>5, <2>1 DEF PlaceInv, Placed, Apart, Waits
  <2>4. Merged(x)' /\ \A t \in Turns : x \in folded'[t] => t = m
    BY <1>5, <2>2 DEF Merged
  <2> QED BY <1>4, <2>2, <2>3, <2>4 DEF Single, Counted, Held, Tasked
<1>6. CASE x \notin F /\ ~(x = m /\ m \in continuing')
  <2>1. \A t \in Turns : x \in Range(queue'[t]) <=> x \in Range(queue[t])
    BY <1>1, <1>6
  <2>2. Waits(x)' <=> Waits(x)
    BY <2>1 DEF Waits
  <2>3. \A t \in Turns : x \in folded'[t] <=> x \in folded[t]
    BY <1>6
  <2>4. Tasked(x)' <=> Tasked(x)
    BY <1>4, <1>6 DEF Tasked
  <2> QED BY <1>3, <1>4, <2>2, <2>3, <2>4, Untouched
<1>7. CASE x = m /\ m \in continuing' /\ x \notin F
  <2>1. Tasked(x) /\ Alive(x)
    BY <1>1, <1>7 DEF Tasked, Alive
  <2>2. ~Merged(x) /\ ~Waits(x) /\ inline # x /\ x \in sent /\ fate[x] = "open"
    BY <1>1, <1>3, <1>7, <2>1 DEF Single, Counted, Held, Waits
  <2>3. Waits(x)'
    BY <1>1, <1>7 DEF Waits
  <2>4. ~Merged(x)' /\ \A t \in Turns : x \notin folded'[t]
    BY <1>7, <2>2 DEF Merged
  <2> QED BY <2>2, <2>3, <2>4 DEF Single, Counted, Held
<1> QED BY <1>5, <1>6, <1>7

\* A drain takes each follow-up or leaves it.
LEMMA DrainSplits ==
  ASSUME NEW m \in Turns, queue[m] \in Seq(Msg), Once(queue[m])
  PROVE  /\ Range(queue[m]) = Range(Drained(m)) \cup Range(Undrained(m))
         /\ Range(Drained(m)) \cap Range(Undrained(m)) = {}
         /\ Len(Undrained(m)) <= Len(queue[m])
<1> DEFINE q == queue[m]
           l == Len(q)
           n == IF l < InjectLimit THEN l ELSE InjectLimit
<1>1. l \in Nat /\ n \in 0..l /\ DOMAIN q = 1..l
  BY LenProperties, BoundsAssumption
<1>2. Drained(m) = SubSeq(q, 1, n)
  BY DEF Drained
<1> HIDE DEF q, l, n
<1> DEFINE a == SubSeq(q, 1, n)
           b == SubSeq(q, n + 1, l)
<1>3. q \in Seq(Msg) /\ Once(q) /\ q = queue[m] /\ l = Len(q)
  BY DEF q, l
<1>4. Len(a) = n /\ DOMAIN a = 1..n /\ \A i \in 1..n : a[i] = q[i]
  BY <1>1, <1>3
<1>5. Len(b) = l - n /\ DOMAIN b = 1..(l - n) /\ \A i \in 1..(l - n) : b[i] = q[n + i]
  BY <1>1, <1>3
<1>6. Undrained(m) = b
  BY <1>2, <1>3, <1>4 DEF Undrained
<1>7. \A x : x \in Range(a) <=> \E i \in 1..n : x = q[i]
  BY <1>4 DEF Range
<1>8. \A x : x \in Range(b) <=> \E i \in (n + 1)..l : x = q[i]
  <2>1. \A i \in (n + 1)..l : i - n \in 1..(l - n) /\ n + (i - n) = i
    BY <1>1
  <2>2. \A i \in 1..(l - n) : n + i \in (n + 1)..l
    BY <1>1
  <2>3. \A x : x \in Range(b) <=> \E i \in 1..(l - n) : x = b[i]
    BY <1>5 DEF Range
  <2>4. \A i \in (n + 1)..l : b[i - n] = q[i]
    BY <1>5, <2>1
  <2> HIDE DEF b
  <2> QED BY <1>5, <2>1, <2>2, <2>3, <2>4
<1>9. \A x : x \in Range(q) <=> \E i \in 1..l : x = q[i]
  BY <1>1 DEF Range
<1>10. \A i \in 1..l : i \in 1..n \/ i \in (n + 1)..l
  BY <1>1
<1>11. \A i \in 1..n, j \in (n + 1)..l : i \in 1..l /\ j \in 1..l /\ i # j
  BY <1>1
<1>12. \A i \in 1..n, j \in (n + 1)..l : q[i] # q[j]
  BY <1>1, <1>3, <1>11 DEF Once
<1>13. \A i \in 1..n : i \in 1..l
  BY <1>1
<1>14. \A i \in (n + 1)..l : i \in 1..l
  BY <1>1
<1>15. Range(q) = Range(a) \cup Range(b)
  <2> HIDE DEF a, b
  <2> QED BY <1>7, <1>8, <1>9, <1>10, <1>13, <1>14, Zenon
<1>16. Range(a) \cap Range(b) = {}
  <2> HIDE DEF a, b
  <2> QED BY <1>7, <1>8, <1>12, Zenon
<1>17. l - n <= l
  BY <1>1
<1> QED BY <1>2, <1>3, <1>5, <1>6, <1>15, <1>16, <1>17

\* The end of a turn at its budget: what the last drain left, and the next slice.
LEMMA HoldFinish ==
  ASSUME TypeInv, PlaceInv, HoldInv, NEW m \in Turns, pc[m] \in {"turn", "await"},
         NEW F, NEW rest \in Seq(Msg), Range(queue[m]) = F \cup Range(rest), F \cap Range(rest) = {},
         FinishAtBudget(m, rest),
         \A t \in Turns : t # m => folded'[t] = folded[t], folded'[m] = folded[m] \cup F,
         UNCHANGED <<inbound, sent, deferred, inline, fate>>
  PROVE  HoldInv'
<1>0. pc \in [Turns -> TaskState] /\ queue \in [Turns -> Seq(Msg)]
  BY DEF TypeInv, CoreOK
<1>1. /\ \A t \in Turns : t # m => queue'[t] = queue[t]
      /\ \A t \in Turns : pc'[t] = "idle" <=> pc[t] = "idle"
  BY <1>0 DEF FinishAtBudget
<1>2. \/ Range(queue'[m]) = Range(rest) /\ continuing' = continuing
      \/ m \in Msg /\ Range(queue'[m]) = Range(rest) \cup {m} /\ continuing' = continuing \cup {m}
  <2>1. CASE Continues(m) /\ Len(rest) < PendingMax
    <3>1. /\ m \in Msg /\ queue'[m] = Append(rest, m) /\ continuing' = continuing \cup {m}
      BY <1>0, <2>1 DEF Continues, FinishAtBudget, Msg
    <3> QED BY <3>1, AppendRange
  <2>2. CASE ~ (Continues(m) /\ Len(rest) < PendingMax)
    BY <1>0, <2>2 DEF FinishAtBudget
  <2> QED BY <2>1, <2>2
<1> DEFINE R == Range(rest)
<1>3. Range(queue[m]) = F \cup R /\ F \cap R = {}
  OBVIOUS
<1>4. \/ Range(queue'[m]) = R /\ continuing' = continuing
      \/ m \in Msg /\ Range(queue'[m]) = R \cup {m} /\ continuing' = continuing \cup {m}
  BY <1>2
<1>5. /\ \A t \in Turns : t # m => queue'[t] = queue[t] /\ folded'[t] = folded[t]
      /\ \A t \in Turns : pc'[t] = "idle" <=> pc[t] = "idle"
      /\ folded'[m] = folded[m] \cup F
      /\ UNCHANGED <<inbound, sent, deferred, inline, fate>>
  BY <1>1
<1>6. Drains(m, F, R)
  <2> HIDE DEF R
  <2> QED BY <1>3, <1>4, <1>5 DEF Drains
<1> HIDE DEF R
<1> QED BY <1>6, HoldDrains

\* The runner.
LEMMA HoldRunner == ASSUME TypeInv, PlaceInv, HoldInv, NEW m \in Turns, Runner(m) PROVE HoldInv'
<1> USE DEF busVars, loopVars, lockVars, turnVars, resultVars
<1>0. /\ pc \in [Turns -> TaskState] /\ queue \in [Turns -> Seq(Msg)]
      /\ folded \in [Turns -> SUBSET Msg] /\ Once(queue[m])
  BY DEF TypeInv, CoreOK, PlaceInv, Placed
<1>1. /\ Range(queue[m]) = Range(Drained(m)) \cup Range(Undrained(m))
      /\ Range(Drained(m)) \cap Range(Undrained(m)) = {}
      /\ Undrained(m) \in Seq(Msg)
  BY <1>0, DrainSplits, DrainedType
<1>2. /\ UNCHANGED <<inbound, sent, deferred, inline, fate>>
      /\ pc[m] \in {"turn", "await"}
  BY DEF Runner, Inject, BlockOnSubagents, Wake, AwaitTimeout, EndTurn, EndAtBudget, LongTask,
         CompleteGoal, RunnerAt
<1>3. ASSUME FoldIn(m)
      PROVE  /\ folded'[m] = folded[m] \cup Range(Drained(m))
             /\ \A t \in Turns : t # m => folded'[t] = folded[t]
  BY <1>0, <1>3 DEF FoldIn
<1>4. ASSUME Fold(m), \A t \in Turns : pc'[t] = "idle" <=> pc[t] = "idle" PROVE HoldInv'
  <2>1. /\ queue'[m] = Undrained(m) /\ \A t \in Turns : t # m => queue'[t] = queue[t]
        /\ continuing' = continuing /\ FoldIn(m)
    BY <1>0, <1>4 DEF Fold
  <2> DEFINE F == Range(Drained(m))
             R == Range(Undrained(m))
  <2>2. /\ Range(queue[m]) = F \cup R /\ F \cap R = {} /\ Range(queue'[m]) = R
        /\ folded'[m] = folded[m] \cup F /\ \A t \in Turns : t # m => folded'[t] = folded[t]
    BY <1>1, <1>3, <2>1
  <2> HIDE DEF F, R
  <2>3. Drains(m, F, R)
    BY <1>2, <1>4, <2>1, <2>2 DEF Drains
  <2> QED BY <1>2, <2>3, HoldDrains
<1>5. ASSUME UNCHANGED <<queue, folded, continuing>>,
             \A t \in Turns : pc'[t] = "idle" <=> pc[t] = "idle"
      PROVE  HoldInv'
  BY <1>2, <1>5, HoldStill
<1>6. CASE Inject(m)
  BY <1>4, <1>6 DEF Inject
<1>7. CASE Wake(m)
  <2>1. \A t \in Turns : pc'[t] = "idle" <=> pc[t] = "idle"
    BY <1>0, <1>2, <1>7 DEF Wake
  <2> QED BY <1>4, <1>7, <2>1 DEF Wake
<1>8. CASE BlockOnSubagents(m) \/ EndTurn(m) \/ LongTask(m) \/ CompleteGoal(m)
  <2>1. \A t \in Turns : pc'[t] = "idle" <=> pc[t] = "idle"
    BY <1>0, <1>2, <1>8 DEF BlockOnSubagents, EndTurn, LongTask, CompleteGoal
  <2> QED BY <1>5, <1>8, <2>1 DEF BlockOnSubagents, EndTurn, LongTask, CompleteGoal
<1>9. CASE AwaitTimeout(m)
  <2>1. CASE FinishAtBudget(m, <<>>)
    <3>1. queue[m] = <<>> /\ folded' = folded
      BY <1>9 DEF AwaitTimeout
    <3>2. FinishAtBudget(m, queue[m])
      BY <2>1, <3>1 DEF FinishAtBudget
    <3>3. /\ queue[m] \in Seq(Msg)
          /\ Range(queue[m]) = {} \cup Range(queue[m]) /\ {} \cap Range(queue[m]) = {}
          /\ folded'[m] = folded[m] \cup {} /\ \A t \in Turns : t # m => folded'[t] = folded[t]
      BY <1>0, <3>1
    <3> QED BY <1>2, <3>2, <3>3, HoldFinish
  <2>2. CASE /\ \E next \in {"turn", "closing"} : pc' = [pc EXCEPT ![m] = next]
             /\ UNCHANGED <<queue, continuing>>
    <3>1. \A t \in Turns : pc'[t] = "idle" <=> pc[t] = "idle"
      BY <1>0, <1>2, <2>2
    <3> QED BY <1>5, <1>9, <2>2, <3>1 DEF AwaitTimeout
  <2> QED BY <1>9, <2>1, <2>2 DEF AwaitTimeout
<1>10. CASE EndAtBudget(m)
  <2>1. CASE FinishAtBudget(m, queue[m]) /\ UNCHANGED folded
    <3>1. /\ queue[m] \in Seq(Msg)
          /\ Range(queue[m]) = {} \cup Range(queue[m]) /\ {} \cap Range(queue[m]) = {}
          /\ folded'[m] = folded[m] \cup {} /\ \A t \in Turns : t # m => folded'[t] = folded[t]
      BY <1>0, <2>1
    <3> QED BY <1>2, <2>1, <3>1, HoldFinish
  <2>2. CASE FinishAtBudget(m, Undrained(m)) /\ FoldIn(m)
    BY <1>1, <1>2, <1>3, <2>2, HoldFinish
  <2> QED BY <1>10, <2>1, <2>2 DEF EndAtBudget
<1> QED BY <1>6, <1>7, <1>8, <1>9, <1>10 DEF Runner

\* Handing the first deferred turn of s back to the bus loses nothing.
LEMMA PublishHold ==
  ASSUME TypeInv, NEW s \in Sessions, NEW before \in Seq(Msg), PublishNextDeferred(s, before)
  PROVE  /\ Range(inbound') \cup Range(deferred'[s]) = Range(before) \cup Range(deferred[s])
         /\ \A r \in Sessions : r # s => deferred'[r] = deferred[r]
         /\ Range(deferred'[s]) \subseteq Range(deferred[s])
<1>0. deferred \in [Sessions -> Seq(Automations)] /\ deferred[s] \in Seq(Automations)
      /\ Automations \subseteq Msg
  BY DEF TypeInv, CoreOK, Msg
<1>1. CASE deferred[s] = <<>>
  <2>1. inbound' = before \o <<>> /\ deferred' = deferred
    BY <1>0, <1>1 DEF PublishNextDeferred, NextDeferred
  <2>2. inbound' = before
    BY <2>1, ConcatEmptySeq
  <2> QED BY <2>1, <2>2
<1>2. CASE deferred[s] # <<>>
  <2> DEFINE h == Head(deferred[s])
  <2>1. h \in Msg /\ Range(deferred[s]) = {h} \cup Range(Tail(deferred[s]))
    BY <1>0, <1>2, TailRange
  <2>2. deferred'[s] = Tail(deferred[s]) /\ \A r \in Sessions : r # s => deferred'[r] = deferred[r]
    BY <1>0, <1>2 DEF PublishNextDeferred
  <2>3. inbound' = before \o <<h>>
    BY <1>2 DEF PublishNextDeferred, NextDeferred
  <2>4. before \o <<h>> = Append(before, h)
    BY <2>1
  <2>5. Range(inbound') = Range(before) \cup {h}
    <3>1. Range(Append(before, h)) = Range(before) \cup {h}
      <4> HIDE DEF h
      <4> QED BY <2>1, AppendRange
    <3> QED BY <2>3, <2>4, <3>1
  <2> QED BY <2>1, <2>2, <2>5
<1> QED BY <1>1, <1>2

\* The finally block: what waited in the pending queue of m or was deferred
\* behind it goes on waiting, m itself and what was merged into it is settled.
LEMMA HoldFinally ==
  ASSUME TypeInv, PlaceInv, HoldInv, NEW m \in Turns, pc[m] # "idle", Finally(m),
         NEW own \in Fates \ {"open"}, NEW others \in Fates \ {"open"}, Settle(m, own, others)
  PROVE  HoldInv'
<1> DEFINE s == SessionOf[m]
<1>0. /\ pc \in [Turns -> TaskState] /\ queue \in [Turns -> Seq(Msg)] /\ inbound \in Seq(Msg)
      /\ folded \in [Turns -> SUBSET Msg] /\ s \in Sessions /\ continuing \subseteq Turns
  BY SetFacts DEF TypeInv, CoreOK
<1>1. /\ queue'[m] = <<>> /\ \A t \in Turns : t # m => queue'[t] = queue[t]
      /\ folded'[m] = {} /\ \A t \in Turns : t # m => folded'[t] = folded[t]
      /\ pc'[m] = "idle" /\ \A t \in Turns : t # m => pc'[t] = pc[t]
      /\ continuing' = continuing \ {m} /\ sent' = sent /\ inline' = inline
  BY <1>0 DEF Finally, PublishNextDeferred
<1>2. /\ Range(inbound') \cup Range(deferred'[s])
           = Range(inbound) \cup Range(queue[m]) \cup Range(deferred[s])
      /\ \A r \in Sessions : r # s => deferred'[r] = deferred[r]
  <2> DEFINE before == inbound \o queue[m]
  <2>1. before \in Seq(Msg) /\ Range(before) = Range(inbound) \cup Range(queue[m])
    BY <1>0, ConcatRange
  <2>2. PublishNextDeferred(s, before)
    BY DEF Finally, Leftovers
  <2> HIDE DEF before, s
  <2> QED BY <1>0, <2>1, <2>2, PublishHold
<1>3. \A x : Waits(x)' <=> Waits(x)
  <2>1. \A x : (\E t \in Turns : x \in Range(queue'[t]))
               <=> \E t \in Turns : t # m /\ x \in Range(queue[t])
    BY <1>1, NothingInEmpty
  <2>2. \A x : (\E t \in Turns : x \in Range(queue[t]))
               <=> x \in Range(queue[m]) \/ \E t \in Turns : t # m /\ x \in Range(queue[t])
    OBVIOUS
  <2>3. \A x : (\E r \in Sessions : x \in Range(deferred'[r]))
               <=> x \in Range(deferred'[s]) \/ \E r \in Sessions : r # s /\ x \in Range(deferred[r])
    BY <1>0, <1>2
  <2>4. \A x : (\E r \in Sessions : x \in Range(deferred[r]))
               <=> x \in Range(deferred[s]) \/ \E r \in Sessions : r # s /\ x \in Range(deferred[r])
    BY <1>0
  <2> QED BY <1>2, <2>1, <2>2, <2>3, <2>4 DEF Waits
<1> SUFFICES ASSUME NEW x \in Msg PROVE Single(x)' /\ Counted(x)'
  BY DEF HoldInv
<1>4. Single(x) /\ Counted(x)
  BY DEF HoldInv
<1>5. fate'[x] = IF x = m /\ m \notin continuing THEN own ELSE IF x \in folded[m] THEN others ELSE fate[x]
  BY DEF Settle
<1>6. \A t \in Turns : x \in folded'[t] <=> t # m /\ x \in folded[t]
  BY <1>1
<1>7. CASE x = m /\ m \notin continuing
  <2>1. Alive(x) /\ Tasked(x) /\ Held(x)
    BY <1>7 DEF Alive, Tasked, Held
  <2>2. ~Merged(x) /\ inline # x /\ x \in sent
    BY <1>4, <2>1 DEF Single, Counted
  <2>3. ~Waits(x)
    BY <1>7 DEF PlaceInv, Busy, Waits
  <2>4. ~Merged(x)' /\ ~Alive(x)' /\ fate'[x] # "open"
    BY <1>1, <1>5, <1>6, <1>7, <2>2 DEF Merged, Alive
  <2> QED BY <1>1, <1>3, <1>6, <2>2, <2>3, <2>4 DEF Single, Counted, Held, Tasked, Merged
<1>8. CASE ~(x = m /\ m \notin continuing) /\ x \in folded[m]
  <2>1. Merged(x)
    BY <1>8 DEF Merged
  <2>2. ~Waits(x) /\ ~Alive(x) /\ inline # x /\ x \in sent /\ \A t \in Turns : x \in folded[t] => t = m
    BY <1>4, <1>8, <2>1 DEF Single, Counted, Held
  <2>3. ~Merged(x)' /\ ~Alive(x)' /\ fate'[x] # "open"
    BY <1>1, <1>5, <1>6, <1>8, <2>2 DEF Merged, Alive
  <2> QED BY <1>1, <1>3, <1>6, <2>2, <2>3 DEF Single, Counted, Held, Tasked, Merged
<1>9. CASE ~(x = m /\ m \notin continuing) /\ x \notin folded[m]
  <2>1. fate'[x] = fate[x] /\ (Merged(x)' <=> Merged(x))
    BY <1>1, <1>5, <1>6, <1>9 DEF Merged
  <2>2. (Tasked(x)' <=> Tasked(x)) /\ (Alive(x)' => Alive(x))
    BY <1>1, <1>9 DEF Tasked, Alive
  <2> QED BY <1>1, <1>3, <1>4, <1>6, <2>1, <2>2 DEF Single, Counted, Held
<1> QED BY <1>7, <1>8, <1>9

\* A task that ends before its turn: m is settled.
LEMMA HoldCancel ==
  ASSUME TypeInv, PlaceInv, HoldInv, NEW m \in Turns, pc[m] \in {"created", "lock", "gate"},
         \A x : Waits(x)' <=> Waits(x),
         UNCHANGED <<sent, inline, folded, continuing>>,
         pc' = [pc EXCEPT ![m] = "idle"], fate' = [fate EXCEPT ![m] = "dropped"]
  PROVE  HoldInv'
<1>0. /\ pc'[m] = "idle" /\ \A t \in Turns : t # m => pc'[t] = pc[t]
      /\ m \notin continuing
      /\ m \in Msg => fate'[m] = "dropped"
      /\ \A x \in Msg : x # m => fate'[x] = fate[x]
  BY DEF TypeInv, CoreOK, PlaceInv, Slices
<1> SUFFICES ASSUME NEW x \in Msg PROVE Single(x)' /\ Counted(x)'
  BY DEF HoldInv
<1>1. Single(x) /\ Counted(x) /\ (Merged(x)' <=> Merged(x))
  BY DEF HoldInv, Merged
<1>2. CASE x = m
  <2>1. Alive(x) /\ Held(x)
    BY <1>0, <1>2 DEF Alive, Held, Tasked
  <2>2. ~Merged(x) /\ inline # x /\ x \in sent
    BY <1>1, <2>1 DEF Single, Counted
  <2>3. ~Waits(x)
    BY <1>0, <1>2 DEF PlaceInv, Busy, Waits
  <2>4. ~Alive(x)' /\ fate'[x] = "dropped"
    BY <1>0, <1>2 DEF Alive
  <2> QED BY <1>1, <2>2, <2>3, <2>4 DEF Single, Counted, Held, Tasked, Merged
<1>3. CASE x # m
  <2>1. (Alive(x)' <=> Alive(x)) /\ (Tasked(x)' <=> Tasked(x)) /\ fate'[x] = fate[x]
    BY <1>0, <1>3 DEF Alive, Tasked
  <2> QED BY <1>1, <2>1, Untouched
<1> QED BY <1>2, <1>3

\* The ends of a task.
LEMMA HoldEnd == ASSUME TypeInv, PlaceInv, HoldInv, NEW m \in Turns, End(m) PROVE HoldInv'
<1> USE DEF busVars, loopVars, lockVars, turnVars, resultVars
<1>0. /\ pc \in [Turns -> TaskState] /\ inbound \in Seq(Msg) /\ SessionOf[m] \in Sessions
      /\ fate \in [Msg \cup Direct -> Fates]
  BY SetFacts DEF TypeInv, CoreOK
<1>1. ASSUME Close(m) \/ Fail(m) \/ CancelTurn(m) PROVE HoldInv'
  <2>1. Finally(m) /\ pc[m] # "idle"
    BY <1>1, TaskStates DEF Close, Fail, CancelTurn, InTurn, Holding
  <2>2. PICK own \in Fates \ {"open"}, others \in Fates \ {"open"} : Settle(m, own, others)
    <3>1. {"answered", "merged", "failed", "dropped"} = Fates \ {"open"}
      BY DEF Fates
    <3> QED BY <1>1, <3>1 DEF Close, Fail, CancelTurn
  <2> QED BY <2>1, <2>2, HoldFinally
<1>2. CASE CloseDirect(m) \/ AbortDirect(m)
  <2>1. \A x \in Msg : x # m
    BY <1>2, SetsAssumption DEF CloseDirect, AbortDirect
  <2>2. /\ \A x \in Msg : fate'[x] = fate[x]
        /\ \A x \in Msg \cap Turns : pc'[x] = pc[x]
        /\ UNCHANGED <<inbound, sent, deferred, inline, queue, folded, continuing>>
    BY <1>0, <1>2, <2>1 DEF CloseDirect, AbortDirect
  <2> QED BY <2>2, HoldStill
<1>3. CASE CancelCreated(m)
  <2>1. \A x : Waits(x)' <=> Waits(x)
    BY <1>3 DEF CancelCreated, Waits
  <2> QED BY <1>3, <2>1, HoldCancel DEF CancelCreated
<1>4. CASE CancelWaiting(m)
  <2> DEFINE s == SessionOf[m]
  <2>1. /\ PublishNextDeferred(s, inbound) /\ UNCHANGED <<queue, folded, continuing, inline>>
        /\ pc' = [pc EXCEPT ![m] = "idle"] /\ pc[m] \in {"lock", "gate"} /\ sent' = sent
        /\ fate' = [fate EXCEPT ![m] = "dropped"]
    BY <1>4 DEF CancelWaiting, PublishNextDeferred
  <2>2. /\ Range(inbound') \cup Range(deferred'[s]) = Range(inbound) \cup Range(deferred[s])
        /\ \A r \in Sessions : r # s => deferred'[r] = deferred[r]
    BY <1>0, <2>1, PublishHold
  <2>3. \A x : Waits(x)' <=> Waits(x)
    <3>1. \A x : (\E r \in Sessions : x \in Range(deferred'[r]))
                 <=> x \in Range(deferred'[s]) \/ \E r \in Sessions : r # s /\ x \in Range(deferred[r])
      BY <1>0, <2>2
    <3>2. \A x : (\E r \in Sessions : x \in Range(deferred[r]))
                 <=> x \in Range(deferred[s]) \/ \E r \in Sessions : r # s /\ x \in Range(deferred[r])
      BY <1>0
    <3> QED BY <2>1, <2>2, <3>1, <3>2 DEF Waits
  <2> QED BY <2>1, <2>3, HoldCancel
<1> QED BY <1>1, <1>2, <1>3, <1>4 DEF End

\* Every step.
LEMMA HoldStep ==
  ASSUME TypeInv, PlaceInv, HoldInv, NoOrphanedFollowup, [Next]_vars PROVE HoldInv'
<1>1. ASSUME NEW c \in New, Command(c) PROVE HoldInv'
  <2>1. pc \in [Turns -> TaskState]
    BY DEF TypeInv, CoreOK
  <2>2. /\ UNCHANGED <<inbound, sent, deferred, inline, queue, folded, continuing, fate>>
        /\ pc[c] \in {"turn", "new"} /\ \E at \in {"new", "closing"} : pc' = [pc EXCEPT ![c] = at]
    BY <1>1 DEF Command, BeginNew, EndNew, busVars, loopVars, turnVars, resultVars
  <2>3. \A t \in Turns : pc'[t] = "idle" <=> pc[t] = "idle"
    BY <2>1, <2>2
  <2> QED BY <2>2, <2>3, HoldStill
<1>2. ASSUME NEW m \in Turns, Acquire(m) \/ Runner(m) \/ End(m) PROVE HoldInv'
  BY <1>2, HoldAcquire, HoldRunner, HoldEnd
<1>3. CASE UNCHANGED vars
  BY <1>3, HoldStill DEF vars, busVars, loopVars, turnVars, resultVars
<1> QED BY <1>1, <1>2, <1>3, HoldProduce, HoldRunLoop DEF Next

-----------------------------------------------------------------------------
(* Room *)

\* A session defers only turns of its own: handing one back adds none.
LEMMA DeferredOwn ==
  ASSUME TypeInv, RoomInv, [Next]_vars
  PROVE  \A s \in Sessions : \A a \in Range(deferred'[s]) : SessionOf[a] = s
<1> USE DEF busVars, loopVars, lockVars, turnVars, goalVars, resultVars
<1>0. deferred \in [Sessions -> Seq(Automations)] /\ inbound \in Seq(Msg)
      /\ \A m \in Turns : SessionOf[m] \in Sessions /\ queue[m] \in Seq(Msg)
  BY SetFacts DEF TypeInv, CoreOK
<1>1. ASSUME deferred' = deferred PROVE \A s \in Sessions : \A a \in Range(deferred'[s]) : SessionOf[a] = s
  BY <1>1 DEF RoomInv
<1>2. ASSUME NEW m \in Automations, ConsumeDefer(m)
      PROVE  \A s \in Sessions : \A a \in Range(deferred'[s]) : SessionOf[a] = s
  <2> DEFINE o == SessionOf[m]
  <2>1. deferred'[o] = Append(deferred[o], m) /\ o \in Sessions /\ deferred[o] \in Seq(Automations)
        /\ \A s \in Sessions : s # o => deferred'[s] = deferred[s]
    BY <1>0, <1>2, SetFacts DEF ConsumeDefer
  <2>2. Range(deferred'[o]) = Range(deferred[o]) \cup {m}
    BY <2>1, AppendRange
  <2> QED BY <2>1, <2>2 DEF RoomInv
<1>3. ASSUME NEW m \in Turns, NEW before \in Seq(Msg), PublishNextDeferred(SessionOf[m], before)
      PROVE  \A s \in Sessions : \A a \in Range(deferred'[s]) : SessionOf[a] = s
  <2>1. /\ \A r \in Sessions : r # SessionOf[m] => deferred'[r] = deferred[r]
        /\ Range(deferred'[SessionOf[m]]) \subseteq Range(deferred[SessionOf[m]])
    BY <1>0, <1>3, PublishHold
  <2> QED BY <2>1 DEF RoomInv
<1>4. ASSUME NEW m \in Turns, End(m) PROVE \A s \in Sessions : \A a \in Range(deferred'[s]) : SessionOf[a] = s
  <2>1. CASE Finally(m)
    <3>1. PublishNextDeferred(SessionOf[m], inbound \o queue[m]) /\ inbound \o queue[m] \in Seq(Msg)
      BY <1>0, <2>1, ConcatProperties DEF Finally, Leftovers
    <3> QED BY <1>3, <3>1
  <2>2. CASE CancelWaiting(m)
    BY <1>0, <1>3, <2>2 DEF CancelWaiting
  <2>3. CASE CloseDirect(m) \/ AbortDirect(m) \/ CancelCreated(m)
    BY <1>1, <2>3 DEF CloseDirect, AbortDirect, CancelCreated
  <2> QED BY <1>4, <2>1, <2>2, <2>3 DEF End, Close, Fail, CancelTurn
<1>5. ASSUME NEW m \in Turns, Acquire(m) PROVE deferred' = deferred
  BY <1>5 DEF Acquire, Start, TakeLock, TakeGate
<1>6. ASSUME NEW m \in Turns, Runner(m) PROVE deferred' = deferred
  BY <1>6 DEF Runner, Inject, BlockOnSubagents, Wake, AwaitTimeout, EndTurn, EndAtBudget, LongTask,
     CompleteGoal
<1>7. ASSUME NEW c \in New, Command(c) PROVE deferred' = deferred
  BY <1>7 DEF Command, BeginNew, EndNew
<1>8. ASSUME Produce PROVE deferred' = deferred
  BY <1>8 DEF Produce, Send, Submit, Spawn, Announce, CallDirect
<1>9. ASSUME RunLoop PROVE deferred' = deferred \/ \E m \in Automations : ConsumeDefer(m)
  BY <1>9 DEF RunLoop, ConsumeCommand, ConsumeRoute, ConsumeCreate, FinishStop, FinishNew
<1>10. UNCHANGED vars => deferred' = deferred
  BY DEF vars
<1> QED BY <1>1, <1>2, <1>4, <1>5, <1>6, <1>7, <1>8, <1>9, <1>10 DEF Next

\* A queue never outgrows its limit.
LEMMA QueueRoom ==
  ASSUME TypeInv, PlaceInv, RoomInv, [Next]_vars
  PROVE  \A t \in Turns : Len(queue'[t]) <= PendingMax
<1> USE DEF busVars, loopVars, lockVars, turnVars, goalVars, resultVars
<1>0. /\ queue \in [Turns -> Seq(Msg)]
      /\ \A t \in Turns : Len(queue[t]) \in Nat /\ Len(queue[t]) <= PendingMax
      /\ PendingMax \in Nat \ {0} /\ Len(<<>>) = 0
  BY BoundsAssumption, LenProperties DEF TypeInv, CoreOK, RoomInv
<1>1. ASSUME \A t \in Turns : queue'[t] = queue[t] \/ queue'[t] = <<>>
      PROVE  \A t \in Turns : Len(queue'[t]) <= PendingMax
  BY <1>0, <1>1
<1>2. ASSUME NEW m \in Turns,
             \A t \in Turns : t # m => queue'[t] = queue[t],
             NEW q \in Seq(Msg), Len(q) <= PendingMax, queue'[m] = q
      PROVE  \A t \in Turns : Len(queue'[t]) <= PendingMax
  BY <1>0, <1>2
<1>3. ASSUME NEW m \in Turns PROVE Undrained(m) \in Seq(Msg) /\ Len(Undrained(m)) <= PendingMax
  <2>1. Undrained(m) \in Seq(Msg) /\ Len(Undrained(m)) <= Len(queue[m])
    BY <1>0, DrainedType, DrainSplits DEF PlaceInv, Placed
  <2>2. Len(Undrained(m)) \in Nat
    BY <2>1, LenProperties
  <2> QED BY <1>0, <2>1, <2>2
<1>4. ASSUME NEW m \in Turns, NEW rest \in Seq(Msg), Len(rest) <= PendingMax, FinishAtBudget(m, rest)
      PROVE  \A t \in Turns : Len(queue'[t]) <= PendingMax
  <2>1. \A t \in Turns : t # m => queue'[t] = queue[t]
    BY <1>0, <1>4 DEF FinishAtBudget
  <2>2. CASE Continues(m) /\ Len(rest) < PendingMax
    <3>1. queue'[m] = Append(rest, m) /\ m \in Msg
      BY <1>0, <1>4, <2>2 DEF FinishAtBudget, Continues, Msg
    <3>2. Append(rest, m) \in Seq(Msg) /\ Len(Append(rest, m)) = Len(rest) + 1 /\ Len(rest) \in Nat
      BY <3>1, AppendProperties, LenProperties
    <3>3. Len(Append(rest, m)) <= PendingMax
      BY <1>0, <2>2, <3>2
    <3> QED BY <1>2, <2>1, <3>1, <3>2, <3>3
  <2>3. CASE ~ (Continues(m) /\ Len(rest) < PendingMax)
    <3>1. queue'[m] = rest
      BY <1>0, <1>4, <2>3 DEF FinishAtBudget
    <3> QED BY <1>2, <1>4, <2>1, <3>1
  <2> QED BY <2>2, <2>3
<1>5. ASSUME NEW m \in Chat \cup Sub, ConsumeRoute(m) PROVE \A t \in Turns : Len(queue'[t]) <= PendingMax
  <2> DEFINE o == registry[SessionOf[m]]
             q == Append(queue[o], m)
  <2>1. o \in Turns /\ m \in Msg
    BY <1>5, SetFacts, OwnTypes DEF ConsumeRoute, RoutesToPending, Msg
  <2>2. queue'[o] = q /\ Len(queue[o]) < PendingMax /\ \A t \in Turns : t # o => queue'[t] = queue[t]
    BY <1>0, <1>5, <2>1 DEF ConsumeRoute
  <2>3. q \in Seq(Msg) /\ Len(q) = Len(queue[o]) + 1
    BY <1>0, <2>1, AppendProperties
  <2>4. Len(q) <= PendingMax
    BY <1>0, <2>1, <2>2, <2>3
  <2> HIDE DEF q
  <2> QED BY <1>2, <2>1, <2>2, <2>3, <2>4
<1>6. ASSUME NEW m \in Turns, Runner(m) PROVE \A t \in Turns : Len(queue'[t]) <= PendingMax
  <2>1. CASE Fold(m)
    <3>1. queue'[m] = Undrained(m) /\ \A t \in Turns : t # m => queue'[t] = queue[t]
      BY <1>0, <2>1 DEF Fold
    <3> QED BY <1>2, <1>3, <3>1
  <2>2. CASE FinishAtBudget(m, queue[m])
    BY <1>0, <1>4, <2>2
  <2>3. CASE FinishAtBudget(m, Undrained(m))
    BY <1>3, <1>4, <2>3
  <2>4. CASE queue' = queue
    BY <1>1, <2>4
  <2>5. queue[m] = <<>> /\ FinishAtBudget(m, <<>>) => FinishAtBudget(m, queue[m])
    BY DEF FinishAtBudget
  <2> QED BY <1>6, <2>1, <2>2, <2>3, <2>4, <2>5 DEF Runner, Inject, BlockOnSubagents, Wake,
             AwaitTimeout, EndTurn, EndAtBudget, LongTask, CompleteGoal
<1>7. ASSUME NEW m \in Turns, End(m) PROVE \A t \in Turns : Len(queue'[t]) <= PendingMax
  <2>1. \A t \in Turns : queue'[t] = queue[t] \/ queue'[t] = <<>>
    BY <1>0, <1>7 DEF End, Close, Fail, CancelTurn, Finally, CloseDirect, AbortDirect, CancelCreated,
            CancelWaiting
  <2> QED BY <1>1, <2>1
<1>8. ASSUME NEW m \in Turns, Acquire(m) PROVE \A t \in Turns : Len(queue'[t]) <= PendingMax
  <2>1. \A t \in Turns : queue'[t] = queue[t] \/ queue'[t] = <<>>
    BY <1>0, <1>8 DEF Acquire, Start, TakeLock, TakeGate, AskLock, HoldLock, BeginTurn
  <2> QED BY <1>1, <2>1
<1>9. ASSUME Produce PROVE \A t \in Turns : Len(queue'[t]) <= PendingMax
  <2>1. CASE \E d \in Direct : CallDirect(d)
    <3>1. \A t \in Turns : queue'[t] = queue[t] \/ queue'[t] = <<>>
      BY <1>0, <2>1 DEF CallDirect, AskLock, HoldLock, BeginTurn
    <3> QED BY <1>1, <3>1
  <2>2. CASE ~ \E d \in Direct : CallDirect(d)
    <3>1. queue' = queue
      BY <1>9, <2>2 DEF Produce, Send, Submit, Spawn, Announce
    <3> QED BY <1>1, <3>1
  <2> QED BY <2>1, <2>2
<1>10. ASSUME RunLoop PROVE \A t \in Turns : Len(queue'[t]) <= PendingMax
  <2>1. CASE \E c \in Stop : FinishStop(c)
    <3>1. \A t \in Turns : queue'[t] = queue[t] \/ queue'[t] = <<>>
      BY <1>0, <2>1 DEF FinishStop
    <3> QED BY <1>1, <3>1
  <2>2. CASE \E m \in Chat \cup Sub : ConsumeRoute(m)
    BY <1>5, <2>2
  <2>3. CASE ~ \/ \E c \in Stop : FinishStop(c)
               \/ \E m \in Chat \cup Sub : ConsumeRoute(m)
    <3>1. queue' = queue
      BY <1>10, <2>3 DEF RunLoop, ConsumeCommand, ConsumeDefer, ConsumeCreate, FinishNew
    <3> QED BY <1>1, <3>1
  <2> QED BY <2>1, <2>2, <2>3
<1>11. (UNCHANGED vars \/ \E c \in New : Command(c)) => queue' = queue
  BY DEF vars, Command, BeginNew, EndNew
<1> QED BY <1>1, <1>6, <1>7, <1>8, <1>9, <1>10, <1>11 DEF Next

\* Both parts.
LEMMA RoomStep == TypeInv /\ PlaceInv /\ RoomInv /\ [Next]_vars => RoomInv'
BY DeferredOwn, QueueRoom DEF RoomInv

-----------------------------------------------------------------------------
(* Counting *)

\* The size of a set whose elements are all the same.
LEMMA SizeOfSame ==
  ASSUME NEW S, NEW b \in BOOLEAN, \A x, y \in S : x = y, b <=> S # {}
  PROVE  Cardinality(S) = Count(b)
<1>1. CASE S = {}
  BY <1>1, FS_EmptySet DEF Count
<1>2. CASE S # {}
  <2>1. PICK x : S = {x}
    BY <1>2
  <2> QED BY <1>2, <2>1, FS_Singleton DEF Count
<1> QED BY <1>1, <1>2

\* How often a sequence without duplicates holds x.
LEMMA OnceOccurs ==
  ASSUME NEW q, Once(q), NEW x
  PROVE  Occurrences(x, q) = Count(x \in Range(q))
<1> DEFINE S == {i \in DOMAIN q : q[i] = x}
           B == x \in Range(q)
<1>1. \A i, j \in S : i = j
  BY DEF Once
<1>2. B <=> S # {}
  BY Zenon DEF Range
<1>3. B \in BOOLEAN
  OBVIOUS
<1>4. Cardinality(S) = Count(B)
  <2> HIDE DEF S, B
  <2> QED BY <1>1, <1>2, <1>3, SizeOfSame
<1> QED BY <1>4 DEF Occurrences

\* How often the pending queues hold x.
LEMMA QueuesOccur ==
  ASSUME TypeInv, PlaceInv, RoomInv, NEW x
  PROVE  Cardinality({p \in Turns \X (1..PendingMax) :
                        p[2] <= Len(queue[p[1]]) /\ queue[p[1]][p[2]] = x})
           = Count(\E t \in Turns : x \in Range(queue[t]))
<1> DEFINE S == {p \in Turns \X (1..PendingMax) :
                        p[2] <= Len(queue[p[1]]) /\ queue[p[1]][p[2]] = x}
<1>0. /\ \A t \in Turns : Len(queue[t]) \in Nat /\ Len(queue[t]) <= PendingMax
      /\ \A t \in Turns : DOMAIN queue[t] = 1..Len(queue[t])
      /\ PendingMax \in Nat
  BY BoundsAssumption, LenProperties DEF TypeInv, CoreOK, RoomInv
<1>1. \A p \in S : /\ p = <<p[1], p[2]>> /\ p[1] \in Turns /\ p[2] \in 1..PendingMax
                   /\ p[2] <= Len(queue[p[1]]) /\ queue[p[1]][p[2]] = x
  OBVIOUS
<1>2. \A p \in S : p[2] \in DOMAIN queue[p[1]]
  BY <1>0, <1>1
<1>3. \A p \in S : x \in Range(queue[p[1]])
  BY <1>1, <1>2, Zenon DEF Range
<1>4. ASSUME NEW p \in S, NEW r \in S PROVE p = r
  <2> HIDE DEF S
  <2>1. p[1] = r[1]
    BY <1>1, <1>3 DEF PlaceInv, Placed, Apart
  <2>2. Once(queue[p[1]])
    BY <1>1 DEF PlaceInv, Placed
  <2>3. p[2] = r[2]
    BY <1>1, <1>2, <2>1, <2>2, Zenon DEF Once
  <2> QED BY <1>1, <2>1, <2>3, Zenon
<1>5. ASSUME NEW t \in Turns, x \in Range(queue[t]) PROVE S # {}
  <2>1. PICK i \in DOMAIN queue[t] : queue[t][i] = x
    BY <1>5, Zenon DEF Range
  <2>2. i \in 1..PendingMax /\ i <= Len(queue[t])
    BY <1>0, <2>1
  <2>3. <<t, i>> \in S
    BY <2>1, <2>2
  <2> QED BY <2>3, Zenon
<1>6. (\E t \in Turns : x \in Range(queue[t])) <=> S # {}
  <2> HIDE DEF S
  <2> QED BY <1>1, <1>3, <1>5
<1>7. Cardinality(S) = Count(\E t \in Turns : x \in Range(queue[t]))
  <2> HIDE DEF S
  <2> QED BY <1>4, <1>6, SizeOfSame
<1> QED BY <1>7

\* A message that is in one place at most counts once.
LEMMA HoldersCounted ==
  ASSUME TypeInv, PlaceInv, HoldInv, RoomInv, NEW x \in Msg
  PROVE  Holders(x) = Count(x \in sent /\ fate[x] = "open")
<1> DEFINE s == SessionOf[x]
           InBus    == x \in Range(inbound)
           InQueue  == \E t \in Turns : x \in Range(queue[t])
           InDefer  == x \in Range(deferred[s])
           IsInline == inline = x
<1>0. s \in Sessions
  BY SetFacts
<1>1. Occurrences(x, inbound) = Count(InBus)
  BY OnceOccurs DEF PlaceInv, Placed
<1>2. Cardinality({p \in Turns \X (1..PendingMax) :
                     p[2] <= Len(queue[p[1]]) /\ queue[p[1]][p[2]] = x}) = Count(InQueue)
  BY QueuesOccur
<1>3. Occurrences(x, deferred[s]) = Count(InDefer)
  BY <1>0, OnceOccurs DEF PlaceInv, Placed
<1>4. Single(x) /\ Counted(x)
  BY DEF HoldInv
<1>5. Cardinality({t \in Turns : x \in folded[t]}) = Count(Merged(x))
  <2> DEFINE S == {t \in Turns : x \in folded[t]}
  <2>1. \A t, u \in S : t = u
    BY <1>4 DEF Single
  <2>2. Merged(x) <=> S # {}
    BY DEF Merged
  <2>3. Merged(x) \in BOOLEAN
    BY DEF Merged
  <2> HIDE DEF S
  <2>4. Cardinality(S) = Count(Merged(x))
    BY <2>1, <2>2, <2>3, SizeOfSame
  <2> QED BY <2>4 DEF S
<1>6. (x \in Turns /\ pc[x] # "idle" /\ x \notin continuing) = Tasked(x)
  BY DEF Tasked, Alive
<1>7. InBus \/ InQueue \/ InDefer <=> Waits(x)
  BY <1>0 DEF Waits, RoomInv
<1>8. /\ ~(InBus /\ InQueue) /\ ~(InBus /\ InDefer) /\ ~(InQueue /\ InDefer)
  BY <1>0 DEF PlaceInv, Placed, Apart
<1>9. ~(Tasked(x) /\ Waits(x))
  BY DEF Tasked, Alive, Waits, PlaceInv, Busy
<1>10. /\ Merged(x) => ~Waits(x) /\ ~Tasked(x) /\ ~IsInline
       /\ IsInline => ~Waits(x) /\ ~Tasked(x)
  BY <1>4 DEF Single, Tasked
<1>11. Waits(x) \/ Merged(x) \/ Tasked(x) \/ IsInline <=> x \in sent /\ fate[x] = "open"
  BY <1>4 DEF Counted, Held
<1>12. Holders(x) = Count(InBus) + Count(InQueue) + Count(InDefer) + Count(Merged(x))
                      + Count(Tasked(x)) + Count(IsInline)
  BY <1>1, <1>2, <1>3, <1>5, <1>6 DEF Holders
<1> DEFINE W == Waits(x)
           M == Merged(x)
           T == Tasked(x)
           O == x \in sent /\ fate[x] = "open"
<1>13. /\ InBus \/ InQueue \/ InDefer <=> W
       /\ ~(InBus /\ InQueue) /\ ~(InBus /\ InDefer) /\ ~(InQueue /\ InDefer)
       /\ ~(T /\ W)
       /\ M => ~W /\ ~T /\ ~IsInline
       /\ IsInline => ~W /\ ~T
       /\ W \/ M \/ T \/ IsInline <=> O
       /\ Holders(x) = Count(InBus) + Count(InQueue) + Count(InDefer) + Count(M)
                         + Count(T) + Count(IsInline)
  BY <1>7, <1>8, <1>9, <1>10, <1>11, <1>12
<1> HIDE DEF InBus, InQueue, InDefer, IsInline, W, M, T, O
<1>14. Holders(x) = Count(O)
  BY <1>13 DEF Count
<1> QED BY <1>14 DEF O

\* The holders' invariant, over a behaviour.
LEMMA HoldInvariant == Spec => [](HoldInv /\ RoomInv)
<1>1. FollowInv => NoOrphanedFollowup
  BY DEF FollowInv
<1>2. TypeInv /\ PlaceInv /\ FollowInv /\ HoldInv /\ RoomInv /\ [Next]_vars => (HoldInv /\ RoomInv)'
  BY <1>1, HoldStep, RoomStep
<1> QED BY <1>2, TypeInvariant, PlaceInvariant, FollowInvariant, HoldInit, PTL DEF Spec

\* From the moment it is sent until its fate is decided, a message is in
\* exactly one queue, turn or task: routing, deferring, injection, the next
\* slice of a turn, /stop, cancellation and failure neither lose it nor hand
\* it to two.
THEOREM HeldOnce == Spec => []OneHolder
<1>1. TypeInv /\ PlaceInv /\ HoldInv /\ RoomInv => OneHolder
  BY HoldersCounted DEF OneHolder
<1> QED BY <1>1, TypeInvariant, PlaceInvariant, HoldInvariant, PTL

-----------------------------------------------------------------------------
(* Who cancels.  A task is cancelled only by a command of its session that *)
(* is still executing and waits for the task to end; a command that runs   *)
(* as a turn of its own is out of reach once it cancels others.            *)

Executing(c) == inline = c \/ (c \in New /\ pc[c] = "new")

Cancellable(m) ==
  m \notin Direct /\ pc[m] # "idle" /\ ~(m \in New /\ pc[m] \in {"new", "closing"})

CausedBy(c, m) == SessionOf[c] = SessionOf[m] /\ m \in awaits[c] /\ Executing(c)

CauseInv ==
  /\ \A s \in Sessions : \A m \in active[s] : SessionOf[m] = s /\ Cancellable(m)
  /\ \A m \in cancelReq : Cancellable(m) /\ \E c \in Stop \cup New : CausedBy(c, m)

\* What the steps below need of the types.
LEMMA CauseTypes ==
  ASSUME TypeInv
  PROVE  /\ active \in [Sessions -> SUBSET Turns] /\ awaits \in [Stop \cup New -> SUBSET Turns]
         /\ pc \in [Turns -> TaskState] /\ cancelReq \subseteq Turns
         /\ New \subseteq Turns /\ New \cap Direct = {} /\ Stop \cap Turns = {}
         /\ \A m \in Turns \cup Msg : SessionOf[m] \in Sessions
BY SetFacts, SetsAssumption DEF TypeInv, CoreOK, Turns, Msg

\* The initial states.
LEMMA CauseInit == Init => CauseInv
BY DEF Init, CauseInv

\* Steps in which tasks only end, and no command does.
LEMMA CauseSame ==
  ASSUME TypeInv, CauseInv, awaits' = awaits,
         \A s \in Sessions : active'[s] \subseteq active[s],
         cancelReq' \subseteq cancelReq,
         \A s \in Sessions : \A m \in active'[s] : Cancellable(m) => Cancellable(m)',
         \A m \in cancelReq' : Cancellable(m) => Cancellable(m)',
         \A c \in Stop \cup New : Executing(c) => Executing(c)'
  PROVE  CauseInv'
BY DEF CauseInv, CausedBy

\* A command that has waited for all it cancelled may end.
LEMMA CauseEnds ==
  ASSUME TypeInv, CauseInv, NEW c \in Stop \cup New, Cancelled(c),
         active' = active, cancelReq' = cancelReq,
         \A b \in Stop \cup New : b # c => awaits'[b] = awaits[b] /\ (Executing(b) => Executing(b)'),
         \A m \in Turns : pc'[m] = pc[m] \/ (m = c /\ pc[c] = "new")
  PROVE  CauseInv'
<1>1. \A m \in cancelReq : Cancellable(m)' /\ Cancellable(m)
  BY CauseTypes DEF CauseInv, Cancellable
<1>2. \A s \in Sessions : \A m \in active[s] : Cancellable(m)'
  BY CauseTypes DEF CauseInv, Cancellable
<1>3. \A m \in cancelReq : ~CausedBy(c, m)
  BY <1>1 DEF Cancelled, CausedBy, Cancellable
<1> QED BY <1>1, <1>2, <1>3 DEF CauseInv, CausedBy

\* A command that begins cancels the tasks of its session.
LEMMA CauseBegins ==
  ASSUME TypeInv, CauseInv, NEW c \in Stop \cup New, ~Executing(c), Executing(c)', c \notin cancelReq,
         NEW tasks, tasks = active[SessionOf[c]] \ {c}, CancelActive(c, tasks),
         \A b \in Stop \cup New : b # c /\ Executing(b) => Executing(b)',
         \A m \in Turns : m # c => pc'[m] = pc[m]
  PROVE  CauseInv'
<1> DEFINE s == SessionOf[c]
<1>1. s \in Sessions
  BY SetFacts DEF Msg
<1>2. /\ awaits'[c] = tasks /\ \A b \in Stop \cup New : b # c => awaits'[b] = awaits[b]
      /\ active'[s] = {} /\ \A r \in Sessions : r # s => active'[r] = active[r]
      /\ cancelReq' = cancelReq \cup tasks
  BY <1>1, CauseTypes DEF CancelActive
<1>3. \A m \in Turns : m # c /\ Cancellable(m) => Cancellable(m)'
  BY DEF Cancellable
<1>4. \A m \in tasks : m \in Turns /\ m # c /\ SessionOf[m] = s /\ Cancellable(m)
  BY <1>1, CauseTypes DEF CauseInv
<1>5. \A m \in tasks : CausedBy(c, m)'
  BY <1>2, <1>4 DEF CausedBy
<1>6. ASSUME NEW m \in cancelReq PROVE Cancellable(m)' /\ \E b \in Stop \cup New : CausedBy(b, m)'
  <2>1. m # c /\ m \in Turns /\ Cancellable(m)
    BY CauseTypes DEF CauseInv
  <2>2. PICK b \in Stop \cup New : CausedBy(b, m)
    BY DEF CauseInv
  <2>3. b # c
    BY <2>2 DEF CausedBy
  <2>4. CausedBy(b, m)'
    BY <1>2, <2>2, <2>3 DEF CausedBy
  <2> QED BY <1>3, <2>1, <2>4
<1>7. ASSUME NEW r \in Sessions, NEW m \in active'[r] PROVE SessionOf[m] = r /\ Cancellable(m)'
  <2>1. r # s /\ m \in active[r]
    BY <1>1, <1>2
  <2>2. m # c /\ m \in Turns /\ Cancellable(m) /\ SessionOf[m] = r
    BY <2>1, CauseTypes DEF CauseInv
  <2> QED BY <1>3, <2>2
<1> QED BY <1>2, <1>3, <1>4, <1>5, <1>6, <1>7 DEF CauseInv

\* The run loop.
LEMMA CauseRunLoop == ASSUME TypeInv, PlaceInv, CauseInv, RunLoop PROVE CauseInv'
<1> USE DEF busVars, loopVars, lockVars, turnVars, goalVars, resultVars
<1>1. ASSUME NEW m \in Msg, ConsumeCommand(m) PROVE CauseInv'
  <2>1. /\ m \in Stop \cup New /\ inline = None /\ inline' = m /\ pc' = pc
        /\ CancelActive(m, active[SessionOf[m]])
    BY <1>1 DEF ConsumeCommand, Consume
  <2>2. m \in Turns => pc[m] = "idle"
    BY <1>1, ConsumePlace DEF ConsumeCommand
  <2>3. ~Executing(m) /\ Executing(m)' /\ \A b \in Stop \cup New : Executing(b) => Executing(b)'
    BY <2>1, <2>2, CauseTypes, SetFacts, FollowTypes DEF Executing
  <2>4. m \notin cancelReq /\ m \notin active[SessionOf[m]]
    BY <2>2, CauseTypes DEF CauseInv, Cancellable
  <2>5. CancelActive(m, active[SessionOf[m]] \ {m})
    BY <2>1, <2>4
  <2> QED BY <2>1, <2>3, <2>4, <2>5, CauseBegins
<1>2. ASSUME NEW m \in Msg, ConsumeCreate(m) PROVE CauseInv'
  <2> DEFINE s == SessionOf[m]
  <2>1. /\ m \in Turns \ Direct /\ pc[m] = "idle" /\ pc'[m] = "created"
        /\ \A t \in Turns : t # m => pc'[t] = pc[t]
        /\ active'[s] = active[s] \cup {m} /\ \A r \in Sessions : r # s => active'[r] = active[r]
        /\ UNCHANGED <<inline, awaits, cancelReq>> /\ s \in Sessions
    <3>1. m \in Turns \ Direct /\ s \in Sessions
      BY <1>2, CauseTypes, SetsAssumption DEF ConsumeCreate
    <3>2. pc[m] = "idle"
      BY <1>2, <3>1, ConsumePlace DEF ConsumeCreate
    <3> QED BY <1>2, <3>1, <3>2, CauseTypes DEF ConsumeCreate
  <2>2. Cancellable(m)' /\ \A t \in Turns : Cancellable(t) => Cancellable(t)'
    BY <2>1 DEF Cancellable
  <2>3. \A b \in Stop \cup New : Executing(b) => Executing(b)'
    BY <2>1, CauseTypes DEF Executing
  <2>4. ASSUME NEW r \in Sessions, NEW t \in active'[r] PROVE SessionOf[t] = r /\ Cancellable(t)'
    BY <2>1, <2>2, CauseTypes DEF CauseInv
  <2>5. ASSUME NEW t \in cancelReq PROVE Cancellable(t)' /\ \E b \in Stop \cup New : CausedBy(b, t)'
    BY <2>1, <2>2, <2>3, CauseTypes DEF CauseInv, CausedBy
  <2> QED BY <2>1, <2>4, <2>5 DEF CauseInv
<1>3. ASSUME NEW c \in Stop \cup New, FinishStop(c) \/ FinishNew(c) PROVE CauseInv'
  <2>1. /\ Cancelled(c) /\ inline = c /\ UNCHANGED <<active, cancelReq, pc>>
        /\ \A b \in Stop \cup New : b # c => awaits'[b] = awaits[b]
    BY <1>3, CauseTypes DEF FinishStop, FinishNew
  <2>2. \A b \in Stop \cup New : b # c /\ Executing(b) => Executing(b)'
    BY <2>1 DEF Executing
  <2> QED BY <2>1, <2>2, CauseEnds
<1>4. CASE ~ \/ \E m \in Msg : ConsumeCommand(m) \/ ConsumeCreate(m)
             \/ \E c \in Stop \cup New : FinishStop(c) \/ FinishNew(c)
  <2>1. UNCHANGED <<inline, awaits, active, pc, cancelReq>>
    BY <1>4 DEF RunLoop, ConsumeDefer, ConsumeRoute
  <2> QED BY <2>1, CauseSame DEF Cancellable, Executing
<1> QED BY <1>1, <1>2, <1>3, <1>4

\* The ends of a task.
LEMMA CauseEnd == ASSUME TypeInv, CauseInv, NEW m \in Turns, End(m) PROVE CauseInv'
<1> USE DEF busVars, loopVars, lockVars, turnVars, goalVars, resultVars
<1>1. /\ pc' = [pc EXCEPT ![m] = "idle"] /\ UNCHANGED <<inline, awaits>>
      /\ \/ m \in Direct /\ UNCHANGED <<active, cancelReq>>
         \/ /\ cancelReq' = cancelReq \ {m}
            /\ active' = [active EXCEPT ![SessionOf[m]] = @ \ {m}]
  BY DEF End, Close, Fail, CloseDirect, AbortDirect, CancelTurn, CancelCreated, CancelWaiting, Finally
<1>2. ~(m \in New /\ pc[m] = "new")
  <2>1. m \in cancelReq => ~(m \in New /\ pc[m] = "new")
    BY DEF CauseInv, Cancellable
  <2> QED BY <2>1, SetsAssumption
    DEF End, Close, Fail, CloseDirect, AbortDirect, CancelTurn, CancelCreated, CancelWaiting
<1>3. \A t \in Turns : t # m => pc'[t] = pc[t]
  BY <1>1, CauseTypes
<1>4. \A c \in Stop \cup New : Executing(c) => Executing(c)'
  BY <1>1, <1>2, <1>3, CauseTypes DEF Executing
<1>5. \A s \in Sessions : active'[s] \subseteq active[s]
  BY <1>1, CauseTypes
<1>6. \A s \in Sessions : \A t \in active'[s] : t # m /\ t \in Turns
  <2>1. CASE m \in Direct /\ active' = active
    BY <2>1, CauseTypes DEF CauseInv, Cancellable
  <2>2. CASE active' = [active EXCEPT ![SessionOf[m]] = @ \ {m}]
    <3>1. \A s \in Sessions : active'[s] = IF s = SessionOf[m] THEN active[s] \ {m} ELSE active[s]
      BY <2>2, CauseTypes
    <3>2. \A s \in Sessions : \A t \in active[s] : t \in Turns /\ SessionOf[t] = s
      BY CauseTypes DEF CauseInv
    <3> SUFFICES ASSUME NEW s \in Sessions, NEW t \in active'[s] PROVE t # m /\ t \in Turns
      OBVIOUS
    <3>3. CASE s = SessionOf[m]
      <4>1. t \in active[s] \ {m}
        BY <3>1, <3>3
      <4> QED BY <3>2, <4>1
    <3>4. CASE s # SessionOf[m]
      <4>1. t \in active[s]
        BY <3>1, <3>4
      <4> QED BY <3>2, <3>4, <4>1
    <3> QED BY <3>3, <3>4
  <2>3. (m \in Direct /\ active' = active) \/ active' = [active EXCEPT ![SessionOf[m]] = @ \ {m}]
    BY <1>1
  <2> QED BY <2>1, <2>2, <2>3
<1>7. \A t \in cancelReq' : t # m /\ t \in Turns /\ t \in cancelReq
  BY <1>1, CauseTypes DEF CauseInv, Cancellable
<1>8. \A t \in Turns : t # m /\ Cancellable(t) => Cancellable(t)'
  BY <1>3 DEF Cancellable
<1> QED BY <1>1, <1>4, <1>5, <1>6, <1>7, <1>8, CauseSame

\* Every step.
LEMMA CauseStep ==
  ASSUME TypeInv, PlaceInv, HoldInv, CauseInv, [Next]_vars PROVE CauseInv'
<1> USE DEF busVars, loopVars, lockVars, turnVars, goalVars, resultVars
<1>1. CASE Produce
  <2>1. UNCHANGED <<inline, awaits, active, cancelReq>> /\ \A t \in Turns \ Direct : pc'[t] = pc[t]
    BY <1>1, CauseTypes DEF Produce, Send, Submit, Spawn, Announce, CallDirect, AskLock, HoldLock, BeginTurn
  <2>2. \A t \in Turns : Cancellable(t) => Cancellable(t)'
    BY <2>1 DEF Cancellable
  <2>3. \A c \in Stop \cup New : Executing(c) => Executing(c)'
    BY <2>1, CauseTypes DEF Executing
  <2> QED BY <2>1, <2>2, <2>3, CauseSame, CauseTypes
<1>2. ASSUME NEW m \in Turns, Acquire(m) PROVE CauseInv'
  <2>1. /\ UNCHANGED <<inline, awaits, active, cancelReq>> /\ pc[m] \in {"created", "lock", "gate"}
        /\ pc'[m] \in {"lock", "gate", "turn"}
        /\ \A t \in Turns : t # m => pc'[t] = pc[t]
    BY <1>2, CauseTypes DEF Acquire, Start, TakeLock, TakeGate, AskLock, HoldLock, BeginTurn
  <2>2. \A t \in Turns : Cancellable(t) => Cancellable(t)'
    BY <2>1 DEF Cancellable
  <2>3. \A c \in Stop \cup New : Executing(c) => Executing(c)'
    BY <2>1, CauseTypes DEF Executing
  <2> QED BY <2>1, <2>2, <2>3, CauseSame, CauseTypes
<1>3. ASSUME NEW m \in Turns, Runner(m) PROVE CauseInv'
  <2>1. /\ UNCHANGED <<inline, awaits, active, cancelReq>> /\ m \notin New
        /\ pc'[m] # "idle" /\ pc[m] # "new"
        /\ \A t \in Turns : t # m => pc'[t] = pc[t]
    BY <1>3, CauseTypes DEF Runner, Inject, BlockOnSubagents, Wake, AwaitTimeout, EndTurn,
       EndAtBudget, FinishAtBudget, LongTask, CompleteGoal, RunnerAt
  <2>2. \A t \in Turns : Cancellable(t) => Cancellable(t)'
    BY <2>1 DEF Cancellable
  <2>3. \A c \in Stop \cup New : Executing(c) => Executing(c)'
    BY <2>1, CauseTypes DEF Executing
  <2> QED BY <2>1, <2>2, <2>3, CauseSame, CauseTypes
<1>4. ASSUME NEW c \in New, BeginNew(c) PROVE CauseInv'
  <2>1. /\ inline' = inline /\ pc[c] = "turn" /\ pc'[c] = "new" /\ c \notin cancelReq
        /\ \A t \in Turns : t # c => pc'[t] = pc[t]
        /\ CancelActive(c, active[SessionOf[c]] \ {c})
    BY <1>4, CauseTypes DEF BeginNew
  <2>2. c \in Msg /\ Alive(c)
    BY <2>1, CauseTypes DEF Alive, Msg
  <2>3. inline # c
    BY <2>2 DEF HoldInv, Single
  <2>4. /\ ~Executing(c) /\ Executing(c)'
        /\ \A b \in Stop \cup New : b # c /\ Executing(b) => Executing(b)'
    BY <2>1, <2>3, CauseTypes DEF Executing
  <2> QED BY <2>1, <2>4, CauseBegins
<1>5. ASSUME NEW c \in New, EndNew(c) PROVE CauseInv'
  <2>1. /\ Cancelled(c) /\ pc[c] = "new" /\ UNCHANGED <<inline, active, cancelReq>>
        /\ \A t \in Turns : t # c => pc'[t] = pc[t]
        /\ \A b \in Stop \cup New : b # c => awaits'[b] = awaits[b]
    BY <1>5, CauseTypes DEF EndNew
  <2>2. \A b \in Stop \cup New : b # c /\ Executing(b) => Executing(b)'
    BY <2>1, CauseTypes DEF Executing
  <2> QED BY <2>1, <2>2, CauseEnds
<1>6. CASE UNCHANGED vars
  BY <1>6, CauseSame DEF vars, Cancellable, Executing
<1> QED BY <1>1, <1>2, <1>3, <1>4, <1>5, <1>6, CauseRunLoop, CauseEnd DEF Next, Command

-----------------------------------------------------------------------------
(* What a turn collects belongs to its session, and a turn whose next slice *)
(* is queued has it.                                                        *)

GatherInv ==
  /\ \A t \in Turns : \A x \in Range(queue[t]) \cup folded[t] : SessionOf[x] = SessionOf[t]
  /\ \A t \in Turns : folded[t] # {} => t \notin Direct /\ pc[t] \in InTurn
  /\ \A m \in continuing : m \in Range(queue[m])
  /\ \A d \in Direct : pc[d] # "idle" => fate[d] = "open"

\* What the steps below need of the types.
LEMMA GatherTypes ==
  ASSUME TypeInv
  PROVE  /\ pc \in [Turns -> TaskState] /\ queue \in [Turns -> Seq(Msg)]
         /\ folded \in [Turns -> SUBSET Msg] /\ continuing \subseteq Turns
         /\ fate \in [Msg \cup Direct -> Fates]
         /\ Direct \subseteq Turns /\ Direct \cap Msg = {} /\ "idle" \notin InTurn
BY SetsAssumption, TaskStates DEF TypeInv, CoreOK, Turns

\* The initial states.
LEMMA GatherInit == Init => GatherInv
<1> SUFFICES ASSUME Init PROVE GatherInv
  OBVIOUS
<1>1. /\ \A t \in Turns : queue[t] = <<>> /\ folded[t] = {} /\ pc[t] = "idle"
      /\ continuing = {}
  BY DEF Init
<1> QED BY <1>1, NothingInEmpty DEF GatherInv, Turns

\* Steps in which turns collect nothing.
LEMMA GatherSame ==
  ASSUME TypeInv, PlaceInv, GatherInv, UNCHANGED <<folded, continuing>>,
         \A t \in Turns : queue'[t] = queue[t] \/ (queue'[t] = <<>> /\ pc[t] # "closing"),
         \A t \in Turns : pc[t] \in InTurn => pc'[t] \in InTurn,
         \A d \in Direct : /\ pc'[d] # "idle" /\ pc[d] = "idle" => fate[d] = "open"
                           /\ fate'[d] = fate[d]
  PROVE  GatherInv'
<1>1. \A t \in Turns : Range(queue'[t]) = Range(queue[t]) \/ Range(queue'[t]) = {}
  BY NothingInEmpty
<1>2. \A m \in continuing : queue'[m] = queue[m]
  BY GatherTypes DEF PlaceInv, Slices
<1> QED BY <1>1, <1>2, GatherTypes DEF GatherInv

\* The owner of the queue that /stop discards is the turn of a /new: every other
\* task of the session has been cancelled and has ended.
LEMMA StopOwner ==
  ASSUME TypeInv, OwnInv, FollowInv, CauseInv, NEW c \in Stop, FinishStop(c),
         registry[SessionOf[c]] # None
  PROVE  registry[SessionOf[c]] \in New
<1> DEFINE o == registry[SessionOf[c]]
<1>1. /\ inline = c /\ Cancelled(c) /\ SessionOf[c] \in Sessions /\ c # None
      /\ o \in Turns \ Direct /\ SessionOf[o] = SessionOf[c] /\ pc[o] \in InTurn
  BY OwnTypes, FollowTypes DEF FinishStop, OwnInv, RegistryInv
<1> SUFFICES ASSUME o \notin New PROVE FALSE
  OBVIOUS
<1>2. o \in cancelReq /\ pc[o] # "idle"
  BY <1>1, TaskStates DEF FollowInv, CancelInv, Ordinary
<1>3. PICK b \in Stop \cup New : SessionOf[b] = SessionOf[o] /\ o \in awaits[b] /\ Executing(b)
  BY <1>2 DEF CauseInv, CausedBy
<1>4. b \in New /\ pc[b] = "new"
  BY <1>1, <1>2, <1>3 DEF Executing, Cancelled
<1>5. b \in Turns /\ {"new"} \subseteq InTurn
  BY <1>4, CauseTypes, FollowTypes
<1>6. pc[o] \in Holding /\ pc[b] \in Holding
  BY <1>1, <1>4, <1>5, TaskStates
<1>7. b = o
  BY <1>1, <1>3, <1>5, <1>6 DEF OwnInv, LockInv
<1> QED BY <1>4, <1>7

\* The run loop.
LEMMA GatherRunLoop ==
  ASSUME TypeInv, PlaceInv, OwnInv, FollowInv, CauseInv, GatherInv, RunLoop PROVE GatherInv'
<1> USE DEF busVars, loopVars, lockVars, turnVars, goalVars, resultVars
<1>1. ASSUME NEW m \in Chat \cup Sub, ConsumeRoute(m) PROVE GatherInv'
  <2> DEFINE o == registry[SessionOf[m]]
  <2>1. /\ o \in Turns /\ SessionOf[o] = SessionOf[m] /\ m \in Msg
        /\ UNCHANGED <<folded, continuing, pc, fate>>
        /\ queue' = [queue EXCEPT ![o] = Append(@, m)]
    BY <1>1, SetFacts, OwnTypes DEF ConsumeRoute, RoutesToPending, OwnInv, RegistryInv, Msg
  <2>2. Range(queue'[o]) = Range(queue[o]) \cup {m} /\ \A t \in Turns : t # o => queue'[t] = queue[t]
    <3>1. queue'[o] = Append(queue[o], m) /\ queue[o] \in Seq(Msg)
      BY <2>1, GatherTypes
    <3>2. Range(Append(queue[o], m)) = Range(queue[o]) \cup {m}
      BY <2>1, <3>1, AppendRange
    <3> QED BY <2>1, <3>1, <3>2, GatherTypes
  <2>3. ASSUME NEW t \in Turns, NEW x \in Range(queue'[t]) \cup folded'[t]
        PROVE  SessionOf[x] = SessionOf[t]
    <3>1. x \in Range(queue[t]) \cup folded[t] \/ (t = o /\ x = m)
      BY <2>1, <2>2
    <3> QED BY <2>1, <3>1 DEF GatherInv
  <2>4. \A t \in Turns : Range(queue[t]) \subseteq Range(queue'[t])
    BY <2>2
  <2> HIDE DEF o
  <2> QED BY <2>1, <2>3, <2>4, GatherTypes DEF GatherInv
<1>2. ASSUME NEW c \in Stop, FinishStop(c) PROVE GatherInv'
  <2>1. /\ UNCHANGED <<folded, continuing, pc>>
        /\ \A t \in Turns : queue'[t] = IF t = registry[SessionOf[c]] THEN <<>> ELSE queue[t]
    BY <1>2 DEF FinishStop
  <2>2. ASSUME NEW d \in Direct PROVE fate'[d] = fate[d]
    <3> DEFINE owner == registry[SessionOf[c]]
               discarded == IF owner = None THEN {} ELSE Range(queue[owner])
    <3>1. discarded \subseteq Msg
      BY OwnTypes, GatherTypes, RangeOfSeq, SetFacts DEF Msg
    <3>2. d # c /\ d \notin discarded
      BY <3>1, SetsAssumption, GatherTypes, FollowTypes
    <3>3. fate'[d] = IF d = c THEN "answered" ELSE IF d \in discarded THEN "dropped" ELSE fate[d]
      BY <1>2 DEF FinishStop
    <3> QED BY <3>2, <3>3
  <2>3. \A m \in continuing : m # registry[SessionOf[c]]
    <3>1. \A m \in continuing : m \notin New /\ m # None
      BY SetsAssumption, SetFacts, GatherTypes DEF PlaceInv, Slices
    <3> QED BY <1>2, <3>1, StopOwner
  <2>4. \A t \in Turns : Range(queue'[t]) = Range(queue[t]) \/ Range(queue'[t]) = {}
    BY <2>1, NothingInEmpty
  <2> QED BY <2>1, <2>2, <2>3, <2>4, GatherTypes DEF GatherInv
<1>3. ASSUME NEW m \in Msg, ConsumeCreate(m) PROVE GatherInv'
  <2>1. /\ UNCHANGED <<folded, continuing, queue, fate>> /\ m \notin Direct
        /\ pc' = [pc EXCEPT ![m] = "created"] /\ m \in Turns
    BY <1>3, GatherTypes DEF ConsumeCreate
  <2>2. pc[m] = "idle"
    BY <1>3, <2>1, ConsumePlace DEF ConsumeCreate
  <2> QED BY <2>1, <2>2, GatherSame, GatherTypes
<1>4. ASSUME NEW c \in New, FinishNew(c) PROVE GatherInv'
  <2>1. UNCHANGED <<folded, continuing, queue, pc>> /\ \A d \in Direct : fate'[d] = fate[d]
    BY <1>4, GatherTypes, CauseTypes DEF FinishNew
  <2> QED BY <2>1, GatherSame
<1>5. CASE \/ \E m \in Msg : ConsumeCommand(m)
           \/ \E m \in Automations : ConsumeDefer(m)
  <2>1. UNCHANGED <<folded, continuing, queue, pc, fate>>
    BY <1>5 DEF ConsumeCommand, ConsumeDefer
  <2> QED BY <2>1, GatherSame
<1> QED BY <1>1, <1>2, <1>3, <1>4, <1>5 DEF RunLoop

\* The end of a turn at its budget: the rest of the queue, and the next slice.
LEMMA GatherFinish ==
  ASSUME TypeInv, PlaceInv, GatherInv, NEW m \in Turns, pc[m] \in {"turn", "await"}, m \notin Direct,
         NEW rest \in Seq(Msg), Range(rest) \subseteq Range(queue[m]), FinishAtBudget(m, rest),
         \A t \in Turns : t # m => folded'[t] = folded[t],
         folded'[m] \subseteq folded[m] \cup Range(queue[m]), fate' = fate
  PROVE  GatherInv'
<1>1. /\ \A t \in Turns : t # m => queue'[t] = queue[t] /\ pc'[t] = pc[t]
      /\ pc'[m] \in InTurn
  BY GatherTypes, FollowTypes DEF FinishAtBudget
<1>2. m \notin continuing
  BY DEF PlaceInv, Slices
<1>3. /\ Range(queue'[m]) \subseteq Range(queue[m]) \cup {m}
      /\ continuing' \subseteq continuing \cup {m}
      /\ m \in continuing' => m \in Range(queue'[m])
  <2>1. CASE Continues(m) /\ Len(rest) < PendingMax
    <3>1. m \in Msg /\ queue'[m] = Append(rest, m) /\ continuing' = continuing \cup {m}
      BY <2>1, GatherTypes DEF Continues, FinishAtBudget, Msg
    <3>2. Range(queue'[m]) = Range(rest) \cup {m}
      BY <3>1, AppendRange
    <3> QED BY <3>1, <3>2
  <2>2. CASE ~ (Continues(m) /\ Len(rest) < PendingMax)
    BY <1>2, <2>2, GatherTypes DEF FinishAtBudget
  <2> QED BY <2>1, <2>2
<1>4. ASSUME NEW t \in Turns, NEW x \in Range(queue'[t]) \cup folded'[t]
      PROVE  SessionOf[x] = SessionOf[t]
  <2>1. x \in Range(queue[t]) \cup folded[t] \/ x = t
    BY <1>1, <1>3
  <2> QED BY <2>1 DEF GatherInv
<1>5. \A t \in Turns : folded'[t] # {} => t \notin Direct /\ pc'[t] \in InTurn
  BY <1>1 DEF GatherInv
<1>6. \A t \in continuing' : t \in Range(queue'[t])
  BY <1>1, <1>3, GatherTypes DEF GatherInv
<1>7. \A d \in Direct : pc'[d] # "idle" => fate'[d] = "open"
  BY <1>1, GatherTypes DEF GatherInv
<1> QED BY <1>4, <1>5, <1>6, <1>7 DEF GatherInv

\* The runner.
LEMMA GatherRunner ==
  ASSUME TypeInv, PlaceInv, OwnInv, NoOrphanedFollowup, GatherInv, NEW m \in Turns, Runner(m)
  PROVE  GatherInv'
<1> USE DEF busVars, loopVars, lockVars, turnVars, goalVars, resultVars
<1>1. /\ \A t \in Turns : t # m => pc'[t] = pc[t]
      /\ pc[m] \in {"turn", "await"} /\ pc'[m] \in InTurn /\ fate' = fate
      /\ m \notin continuing
  BY GatherTypes, FollowTypes DEF Runner, Inject, BlockOnSubagents, Wake, AwaitTimeout, EndTurn,
     EndAtBudget, FinishAtBudget, LongTask, CompleteGoal, RunnerAt, PlaceInv, Slices
<1>2. queue[m] # <<>> => m \notin Direct
  BY OwnTypes DEF NoOrphanedFollowup, OwnInv, RegistryInv
<1>3. /\ Range(Drained(m)) \subseteq Range(queue[m]) /\ Range(Undrained(m)) \subseteq Range(queue[m])
      /\ Undrained(m) \in Seq(Msg) /\ queue[m] \in Seq(Msg)
  BY GatherTypes, DrainedType, DrainSplits DEF PlaceInv, Placed
<1>4. ASSUME FoldIn(m)
      PROVE  /\ folded'[m] \subseteq folded[m] \cup Range(queue[m])
             /\ \A t \in Turns : t # m => folded'[t] = folded[t]
  BY <1>3, <1>4, GatherTypes DEF FoldIn
<1>5. CASE Inject(m) \/ Wake(m)
  <2>1. /\ queue[m] # <<>> /\ FoldIn(m) /\ queue'[m] = Undrained(m) /\ continuing' = continuing
        /\ \A t \in Turns : t # m => queue'[t] = queue[t]
    BY <1>5, GatherTypes DEF Inject, Wake, Fold
  <2>2. ASSUME NEW t \in Turns, NEW x \in Range(queue'[t]) \cup folded'[t]
        PROVE  SessionOf[x] = SessionOf[t]
    <3>1. x \in Range(queue[t]) \cup folded[t]
      BY <1>3, <1>4, <2>1
    <3> QED BY <3>1 DEF GatherInv
  <2>3. \A t \in Turns : folded'[t] # {} => t \notin Direct /\ pc'[t] \in InTurn
    BY <1>1, <1>2, <1>4, <2>1 DEF GatherInv
  <2>4. \A t \in continuing' : t \in Range(queue'[t])
    BY <1>1, <2>1, GatherTypes DEF GatherInv
  <2>5. \A d \in Direct : pc'[d] # "idle" => fate'[d] = "open"
    BY <1>1, GatherTypes, FollowTypes DEF GatherInv
  <2> QED BY <2>2, <2>3, <2>4, <2>5 DEF GatherInv
<1>6. ASSUME queue' = queue, folded' = folded, continuing' = continuing PROVE GatherInv'
  <2>1. \A t \in Turns : pc[t] \in InTurn => pc'[t] \in InTurn
    BY <1>1
  <2>2. \A d \in Direct : pc'[d] # "idle" => pc[d] # "idle"
    BY <1>1, GatherTypes
  <2> QED BY <1>1, <1>6, <2>1, <2>2, GatherSame
<1>7. CASE BlockOnSubagents(m) \/ EndTurn(m) \/ LongTask(m) \/ CompleteGoal(m)
  BY <1>6, <1>7 DEF BlockOnSubagents, EndTurn, LongTask, CompleteGoal
<1>8. ASSUME FinishAtBudget(m, queue[m]), folded' = folded PROVE GatherInv'
  <2>1. CASE m \notin Direct
    BY <1>1, <1>3, <1>8, <2>1, GatherFinish
  <2>2. CASE m \in Direct
    <3>1. ~Continues(m)
      BY <2>2, SetsAssumption DEF Continues, Msg
    <3>2. queue' = queue /\ continuing' = continuing
      BY <1>8, <3>1, GatherTypes DEF FinishAtBudget
    <3> QED BY <1>6, <1>8, <3>2
  <2> QED BY <2>1, <2>2
<1>9. CASE AwaitTimeout(m)
  <2>1. CASE FinishAtBudget(m, <<>>)
    <3>1. FinishAtBudget(m, queue[m]) /\ folded' = folded
      BY <1>9, <2>1 DEF AwaitTimeout, FinishAtBudget
    <3> QED BY <1>8, <3>1
  <2>2. CASE ~FinishAtBudget(m, <<>>)
    BY <1>6, <1>9, <2>2 DEF AwaitTimeout
  <2> QED BY <2>1, <2>2
<1>10. CASE EndAtBudget(m)
  <2>1. CASE FinishAtBudget(m, queue[m]) /\ UNCHANGED folded
    BY <1>8, <2>1
  <2>2. CASE FinishAtBudget(m, Undrained(m)) /\ FoldIn(m) /\ queue[m] # <<>>
    BY <1>1, <1>2, <1>3, <1>4, <2>2, GatherFinish
  <2> QED BY <1>10, <2>1, <2>2 DEF EndAtBudget
<1> QED BY <1>5, <1>7, <1>9, <1>10 DEF Runner

\* The ends of a task.
LEMMA GatherEnd ==
  ASSUME TypeInv, PlaceInv, CauseInv, GatherInv, NEW m \in Turns, End(m) PROVE GatherInv'
<1> USE DEF busVars, loopVars, lockVars, turnVars, goalVars, resultVars
<1>1. ASSUME Close(m) \/ Fail(m) \/ CancelTurn(m) PROVE GatherInv'
  <2>1. /\ queue'[m] = <<>> /\ folded'[m] = {} /\ continuing' = continuing \ {m}
        /\ \A t \in Turns : t # m => queue'[t] = queue[t] /\ folded'[t] = folded[t] /\ pc'[t] = pc[t]
        /\ m \notin Direct
    BY <1>1, GatherTypes DEF Close, Fail, CancelTurn, Finally, CauseInv, Cancellable
  <2>2. PICK own, others : Settle(m, own, others)
    BY <1>1 DEF Close, Fail, CancelTurn
  <2>3. \A d \in Direct : fate'[d] = fate[d]
    <3>1. \A d \in Direct : d # m /\ d \notin folded[m]
      BY <2>1, GatherTypes
    <3> QED BY <2>2, <3>1 DEF Settle
  <2>4. ASSUME NEW t \in Turns, NEW x \in Range(queue'[t]) \cup folded'[t]
        PROVE  SessionOf[x] = SessionOf[t]
    <3>1. t # m
      BY <2>1, NothingInEmpty
    <3> QED BY <2>1, <3>1 DEF GatherInv
  <2>5. \A t \in Turns : folded'[t] # {} => t \notin Direct /\ pc'[t] \in InTurn
    BY <2>1 DEF GatherInv
  <2>6. \A t \in continuing' : t \in Range(queue'[t])
    BY <2>1, GatherTypes DEF GatherInv
  <2>7. \A d \in Direct : pc'[d] # "idle" => fate'[d] = "open"
    BY <2>1, <2>3, GatherTypes DEF GatherInv
  <2> QED BY <2>4, <2>5, <2>6, <2>7 DEF GatherInv
<1>2. ASSUME CloseDirect(m) \/ AbortDirect(m) \/ CancelCreated(m) \/ CancelWaiting(m) PROVE GatherInv'
  <2>1. /\ UNCHANGED <<queue, folded, continuing>> /\ pc'[m] = "idle"
        /\ \A t \in Turns : t # m => pc'[t] = pc[t]
        /\ \A x \in Direct : x # m => fate'[x] = fate[x]
        /\ folded[m] = {}
    BY <1>2, GatherTypes, FollowTypes DEF CloseDirect, AbortDirect, CancelCreated, CancelWaiting, GatherInv
  <2> QED BY <2>1, GatherTypes DEF GatherInv
<1> QED BY <1>1, <1>2 DEF End

\* Every step.
LEMMA GatherStep ==
  ASSUME TypeInv, PlaceInv, OwnInv, FollowInv, CauseInv, GatherInv, [Next]_vars PROVE GatherInv'
<1> USE DEF busVars, loopVars, lockVars, turnVars, goalVars, resultVars
<1>1. ASSUME NEW d \in Direct, CallDirect(d) PROVE GatherInv'
  <2>1. /\ UNCHANGED <<queue, folded, continuing, fate>> /\ pc[d] = "idle" /\ fate[d] = "open"
        /\ \A t \in Turns : t # d => pc'[t] = pc[t]
    BY <1>1, GatherTypes DEF CallDirect, AskLock, HoldLock, BeginTurn
  <2> QED BY <2>1, GatherSame, GatherTypes
<1>2. CASE Produce /\ ~ \E d \in Direct : CallDirect(d)
  <2>1. UNCHANGED <<queue, folded, continuing, fate, pc>>
    BY <1>2 DEF Produce, Send, Submit, Spawn, Announce
  <2> QED BY <2>1, GatherSame
<1>3. ASSUME NEW m \in Turns, Acquire(m) PROVE GatherInv'
  <2>1. /\ UNCHANGED <<folded, continuing, fate>> /\ pc[m] \in {"created", "lock", "gate"}
        /\ \A t \in Turns : t # m => pc'[t] = pc[t] /\ queue'[t] = queue[t]
        /\ queue'[m] \in {queue[m], <<>>}
    BY <1>3, GatherTypes DEF Acquire, Start, TakeLock, TakeGate, AskLock, HoldLock, BeginTurn
  <2> QED BY <2>1, GatherSame, GatherTypes, FollowTypes
<1>4. ASSUME NEW c \in New, Command(c) PROVE GatherInv'
  <2>1. /\ UNCHANGED <<queue, folded, continuing, fate>> /\ pc[c] \in InTurn /\ pc'[c] \in InTurn
        /\ \A t \in Turns : t # c => pc'[t] = pc[t]
    BY <1>4, GatherTypes, CauseTypes, FollowTypes DEF Command, BeginNew, EndNew
  <2> QED BY <2>1, GatherSame, GatherTypes
<1>5. CASE UNCHANGED vars
  BY <1>5, GatherSame DEF vars
<1>6. NoOrphanedFollowup
  BY DEF FollowInv
<1> QED BY <1>1, <1>2, <1>3, <1>4, <1>5, <1>6, GatherRunLoop, GatherRunner, GatherEnd DEF Next, Produce

\* Both invariants, over a behaviour.
LEMMA CauseInvariant == Spec => []CauseInv
<1>1. TypeInv /\ PlaceInv /\ (HoldInv /\ RoomInv) /\ CauseInv /\ [Next]_vars => CauseInv'
  BY CauseStep
<1> QED BY <1>1, CauseInit, TypeInvariant, PlaceInvariant, HoldInvariant, PTL DEF Spec

LEMMA GatherInvariant == Spec => []GatherInv
<1>1. TypeInv /\ PlaceInv /\ OwnInv /\ FollowInv /\ CauseInv /\ GatherInv /\ [Next]_vars => GatherInv'
  BY GatherStep
<1> QED BY <1>1, GatherInit, TypeInvariant, PlaceInvariant, OwnInvariant, FollowInvariant,
           CauseInvariant, PTL DEF Spec

-----------------------------------------------------------------------------
(* Dropped by a command.  What a command has begun to do shows in its fate *)
(* as soon as it no longer shows in where it is executing.                 *)

Begun(c) == \/ fate[c] \in {"answered", "failed"}
            \/ inline = c
            \/ c \in New /\ pc[c] \in {"new", "closing"}

\* The fate of a message is final.
LEMMA FateIsFinal ==
  ASSUME TypeInv, PlaceInv, HoldInv, GatherInv, NEW x \in Msg, fate[x] # "open", [Next]_vars
  PROVE  fate'[x] = fate[x]
<1> USE DEF busVars, loopVars, lockVars, turnVars, goalVars, resultVars
<1>1. ~Held(x)
  BY DEF HoldInv, Counted
<1>2. ~Waits(x) /\ ~Merged(x) /\ inline # x /\ ~Tasked(x)
  BY <1>1 DEF Held
<1>3. ~Alive(x)
  BY <1>2 DEF Tasked, Alive, GatherInv, Waits
<1>4. fate \in [Msg \cup Direct -> Fates] /\ Direct \cap Msg = {}
  BY GatherTypes
<1>5. ASSUME NEW m \in Turns, End(m) PROVE fate'[x] = fate[x]
  <2>1. ASSUME NEW own, NEW others, Settle(m, own, others), pc[m] # "idle" PROVE fate'[x] = fate[x]
    BY <1>2, <1>3, <2>1 DEF Settle, Merged, Alive
  <2>2. CASE Close(m) \/ Fail(m) \/ CancelTurn(m)
    BY <2>1, <2>2, FollowTypes DEF Close, Fail, CancelTurn
  <2>3. CASE CloseDirect(m) \/ AbortDirect(m) \/ CancelCreated(m) \/ CancelWaiting(m)
    BY <1>3, <1>4, <2>3 DEF CloseDirect, AbortDirect, CancelCreated, CancelWaiting, Alive
  <2> QED BY <1>5, <2>2, <2>3 DEF End
<1>6. ASSUME NEW c \in Stop, FinishStop(c) PROVE fate'[x] = fate[x]
  <2>1. registry[SessionOf[c]] # None => x \notin Range(queue[registry[SessionOf[c]]])
    BY <1>2, OwnTypes, FollowTypes DEF Waits
  <2> QED BY <1>2, <1>4, <1>6, <2>1 DEF FinishStop
<1>7. CASE Produce \/ UNCHANGED vars
  BY <1>7 DEF Produce, Send, Submit, Spawn, Announce, CallDirect, vars
<1>8. CASE RunLoop /\ ~ \E c \in Stop : FinishStop(c)
  BY <1>2, <1>4, <1>8
  DEF RunLoop, ConsumeCommand, ConsumeDefer, ConsumeRoute, ConsumeCreate, FinishNew
<1>9. ASSUME NEW m \in Turns, Acquire(m) PROVE fate'[x] = fate[x]
  BY <1>9 DEF Acquire, Start, TakeLock, TakeGate
<1>10. ASSUME NEW m \in Turns, Runner(m) PROVE fate'[x] = fate[x]
  BY <1>10 DEF Runner, Inject, BlockOnSubagents, Wake, AwaitTimeout, EndTurn, EndAtBudget, LongTask,
     CompleteGoal
<1>11. ASSUME NEW c \in New, Command(c) PROVE fate'[x] = fate[x]
  BY <1>11 DEF Command, BeginNew, EndNew
<1> QED BY <1>5, <1>6, <1>7, <1>8, <1>9, <1>10, <1>11 DEF Next

\* A command that has begun remains one.
LEMMA BegunStays ==
  ASSUME TypeInv, PlaceInv, HoldInv, CauseInv, GatherInv, NEW c \in Stop \cup New, Begun(c), [Next]_vars
  PROVE  Begun(c)'
<1> USE DEF busVars, loopVars, lockVars, turnVars, goalVars, resultVars
<1>0. fate \in [Msg \cup Direct -> Fates] /\ c \in Msg /\ pc \in [Turns -> TaskState]
  BY GatherTypes, FollowTypes
<1>1. CASE fate[c] \in {"answered", "failed"}
  BY <1>0, <1>1, FateIsFinal DEF Begun
<1>2. CASE inline = c
  <2>1. inline' = inline \/ fate'[c] = "answered"
    <3>1. ASSUME NEW b \in Stop, FinishStop(b) PROVE fate'[c] = "answered"
      BY <1>0, <1>2, <3>1 DEF FinishStop
    <3>2. ASSUME NEW b \in New, FinishNew(b) PROVE fate'[c] = "answered"
      BY <1>0, <1>2, <3>2 DEF FinishNew
    <3>3. CASE RunLoop /\ ~ \/ \E b \in Stop : FinishStop(b)
                            \/ \E b \in New : FinishNew(b)
      <4>1. inline # None
        BY <1>0, <1>2, SetFacts DEF Msg
      <4> QED BY <3>3, <4>1 DEF RunLoop, ConsumeCommand, ConsumeDefer, ConsumeRoute, ConsumeCreate, Consume
    <3>4. CASE Produce \/ UNCHANGED vars
      BY <3>4 DEF Produce, Send, Submit, Spawn, Announce, CallDirect, vars
    <3>5. ASSUME NEW m \in Turns, Acquire(m) \/ Runner(m) \/ End(m) PROVE inline' = inline
      <4>1. Acquire(m) => inline' = inline
        BY DEF Acquire, Start, TakeLock, TakeGate
      <4>2. Runner(m) => inline' = inline
        BY DEF Runner, Inject, BlockOnSubagents, Wake, AwaitTimeout, EndTurn, EndAtBudget, LongTask,
           CompleteGoal
      <4>3. End(m) => inline' = inline
        BY DEF End, Close, Fail, CloseDirect, AbortDirect, CancelTurn, CancelCreated, CancelWaiting, Finally
      <4> QED BY <3>5, <4>1, <4>2, <4>3
    <3>6. ASSUME NEW b \in New, Command(b) PROVE inline' = inline
      BY <3>6 DEF Command, BeginNew, EndNew
    <3>7. CASE RunLoop
      BY <3>1, <3>2, <3>3, <3>7
    <3> QED BY <3>4, <3>5, <3>6, <3>7 DEF Next
  <2> QED BY <1>2, <2>1 DEF Begun
<1>3. CASE c \in New /\ pc[c] \in {"new", "closing"}
  <2>0. c \in Turns /\ c \notin Direct /\ c \notin cancelReq /\ c \notin continuing
    <3>1. c \in Turns /\ c \notin Direct /\ c \notin cancelReq
      BY <1>3, CauseTypes DEF CauseInv, Cancellable
    <3>2. c \notin continuing
      BY <1>3, SetsAssumption DEF PlaceInv, Slices
    <3> QED BY <3>1, <3>2
  <2>1. ASSUME pc'[c] = pc[c] PROVE Begun(c)'
    BY <1>3, <2>1 DEF Begun
  <2>2. ASSUME NEW m \in Turns, End(m) PROVE Begun(c)'
    <3>1. CASE m = c
      <4>1. Close(c) \/ Fail(c)
        BY <1>3, <2>0, <2>2, <3>1 DEF End, CloseDirect, AbortDirect, CancelTurn, CancelCreated, CancelWaiting
      <4> QED BY <1>0, <2>0, <4>1 DEF Close, Fail, Settle, Begun
    <3>2. CASE m # c
      <4>1. pc'[c] = pc[c]
        BY <1>0, <2>0, <2>2, <3>2
        DEF End, Close, Fail, CloseDirect, AbortDirect, CancelTurn, CancelCreated, CancelWaiting, Finally
      <4> QED BY <2>1, <4>1
    <3> QED BY <3>1, <3>2
  <2>3. ASSUME NEW m \in Turns, Acquire(m) PROVE Begun(c)'
    <3>1. pc'[c] = pc[c]
      BY <1>0, <1>3, <2>0, <2>3
      DEF Acquire, Start, TakeLock, TakeGate, AskLock, HoldLock, BeginTurn
    <3> QED BY <2>1, <3>1
  <2>4. ASSUME NEW m \in Turns, Runner(m) PROVE Begun(c)'
    <3>1. m \notin New
      BY <2>4 DEF Runner, Inject, BlockOnSubagents, Wake, AwaitTimeout, EndTurn, EndAtBudget,
         LongTask, CompleteGoal, RunnerAt
    <3>2. pc'[c] = pc[c]
      BY <1>0, <1>3, <2>0, <2>4, <3>1
      DEF Runner, Inject, BlockOnSubagents, Wake, AwaitTimeout, EndTurn, EndAtBudget,
          FinishAtBudget, LongTask, CompleteGoal
    <3> QED BY <2>1, <3>2
  <2>5. ASSUME NEW b \in New, Command(b) PROVE Begun(c)'
    <3>1. pc'[c] \in {"new", "closing"}
      BY <1>0, <1>3, <2>0, <2>5 DEF Command, BeginNew, EndNew
    <3> QED BY <1>3, <3>1 DEF Begun
  <2>6. CASE Produce \/ UNCHANGED vars
    <3>1. pc'[c] = pc[c]
      BY <1>0, <2>0, <2>6 DEF Produce, Send, Submit, Spawn, Announce, CallDirect, AskLock, HoldLock,
         BeginTurn, vars
    <3> QED BY <2>1, <3>1
  <2>7. CASE RunLoop
    <3>1. ASSUME NEW m \in Msg, ConsumeCreate(m) PROVE pc'[c] = pc[c]
      <4>1. m # c
        BY <1>3, <2>0, <3>1, ConsumePlace DEF ConsumeCreate
      <4> QED BY <1>0, <2>0, <3>1, <4>1 DEF ConsumeCreate
    <3>2. CASE ~ \E m \in Msg : ConsumeCreate(m)
      <4>1. pc' = pc
        BY <2>7, <3>2 DEF RunLoop, ConsumeCommand, ConsumeDefer, ConsumeRoute, FinishStop, FinishNew
      <4> QED BY <2>1, <4>1
    <3> QED BY <2>1, <3>1, <3>2
  <2> QED BY <2>2, <2>3, <2>4, <2>5, <2>6, <2>7 DEF Next
<1> QED BY <1>1, <1>2, <1>3 DEF Begun

\* Who is dropped in a step is of the session of a command that has begun.
LEMMA DropHasCause ==
  ASSUME TypeInv, PlaceInv, OwnInv, HoldInv, CauseInv, GatherInv, [Next]_vars,
         NEW x \in Msg, fate[x] = "open", fate'[x] = "dropped"
  PROVE  \E c \in Stop \cup New : SessionOf[c] = SessionOf[x] /\ (Begun(c) \/ fate'[c] = "answered")
<1> USE DEF busVars, loopVars, lockVars, turnVars, goalVars, resultVars
<1>0. fate \in [Msg \cup Direct -> Fates] /\ Direct \cap Msg = {}
  BY GatherTypes
<1>1. ASSUME NEW m \in cancelReq, SessionOf[m] = SessionOf[x]
      PROVE  \E c \in Stop \cup New : SessionOf[c] = SessionOf[x] /\ Begun(c)
  BY <1>1 DEF CauseInv, CausedBy, Executing, Begun
<1>2. ASSUME NEW m \in Turns, End(m) PROVE \E c \in Stop \cup New : SessionOf[c] = SessionOf[x] /\ Begun(c)
  <2>1. m \in cancelReq /\ (x = m \/ x \in folded[m])
    <3>1. CASE Close(m) \/ Fail(m)
      BY <3>1 DEF Close, Fail, Settle
    <3>2. CASE CancelTurn(m)
      BY <3>2 DEF CancelTurn, Settle
    <3>3. CASE CloseDirect(m) \/ AbortDirect(m) \/ CancelCreated(m) \/ CancelWaiting(m)
      BY <1>0, <3>3 DEF CloseDirect, AbortDirect, CancelCreated, CancelWaiting
    <3> QED BY <1>2, <3>1, <3>2, <3>3 DEF End
  <2>2. SessionOf[m] = SessionOf[x]
    BY <2>1 DEF GatherInv
  <2> QED BY <1>1, <2>1, <2>2
<1>3. ASSUME NEW c \in Stop, FinishStop(c) PROVE SessionOf[c] = SessionOf[x] /\ fate'[c] = "answered"
  <2>1. c \in Msg
    BY FollowTypes
  <2>2. fate'[c] = "answered"
    BY <1>3, <2>1 DEF FinishStop
  <2>3. x # c
    BY <2>2
  <2>4. registry[SessionOf[c]] # None /\ x \in Range(queue[registry[SessionOf[c]]])
    BY <1>3, <2>3 DEF FinishStop
  <2>5. SessionOf[registry[SessionOf[c]]] = SessionOf[c] /\ registry[SessionOf[c]] \in Turns
    BY <2>1, <2>4, OwnTypes, FollowTypes DEF OwnInv, RegistryInv
  <2> QED BY <2>2, <2>4, <2>5 DEF GatherInv
<1>4. CASE RunLoop /\ ~ \E c \in Stop : FinishStop(c)
  BY <1>0, <1>4 DEF RunLoop, ConsumeCommand, ConsumeDefer, ConsumeRoute, ConsumeCreate, FinishNew
<1>5. CASE Produce \/ UNCHANGED vars
  BY <1>5 DEF Produce, Send, Submit, Spawn, Announce, CallDirect, vars
<1>6. ASSUME NEW m \in Turns, Acquire(m) PROVE fate' = fate
  BY <1>6 DEF Acquire, Start, TakeLock, TakeGate
<1>7. ASSUME NEW m \in Turns, Runner(m) PROVE fate' = fate
  BY <1>7 DEF Runner, Inject, BlockOnSubagents, Wake, AwaitTimeout, EndTurn, EndAtBudget, LongTask,
     CompleteGoal
<1>8. ASSUME NEW c \in New, Command(c) PROVE fate' = fate
  BY <1>8 DEF Command, BeginNew, EndNew
<1> QED BY <1>2, <1>3, <1>4, <1>5, <1>6, <1>7, <1>8 DEF Next

\* A message disappears unanswered only because a /stop or /new of its own
\* session has begun, through any sequence of cancellations, failures of turns
\* and continuations.
THEOREM DropsAreCommanded == Spec => []DroppedByCommand
<1> DEFINE Dropped == \A x \in Msg : fate[x] = "dropped" =>
                        \E c \in Stop \cup New : SessionOf[c] = SessionOf[x] /\ Begun(c)
<1>1. Init => Dropped
  <2>1. Init => \A x \in Msg : fate[x] = "open"
    BY DEF Init
  <2> QED BY <2>1
<1>2. TypeInv /\ PlaceInv /\ OwnInv /\ (HoldInv /\ RoomInv) /\ CauseInv /\ GatherInv /\ Dropped
        /\ [Next]_vars => Dropped'
  <2> SUFFICES ASSUME TypeInv, PlaceInv, OwnInv, HoldInv, CauseInv, GatherInv, Dropped, [Next]_vars,
                      NEW x \in Msg, fate'[x] = "dropped"
               PROVE  \E c \in Stop \cup New : SessionOf[c] = SessionOf[x] /\ Begun(c)'
    OBVIOUS
  <2>1. \A c \in Stop \cup New : Begun(c) => Begun(c)'
    BY BegunStays
  <2>2. CASE fate[x] # "open"
    <3>1. fate[x] = "dropped"
      BY <2>2, FateIsFinal
    <3> QED BY <2>1, <3>1
  <2>3. CASE fate[x] = "open"
    <3>1. PICK c \in Stop \cup New : SessionOf[c] = SessionOf[x] /\ (Begun(c) \/ fate'[c] = "answered")
      BY <2>3, DropHasCause
    <3> QED BY <2>1, <3>1 DEF Begun
  <2> QED BY <2>2, <2>3
<1>3. Dropped => DroppedByCommand
  BY DEF DroppedByCommand, Begun
<1> HIDE DEF Dropped
<1> QED BY <1>1, <1>2, <1>3, TypeInvariant, PlaceInvariant, OwnInvariant, HoldInvariant,
           CauseInvariant, GatherInvariant, PTL DEF Spec

-----------------------------------------------------------------------------
(* The refinement of SessionTurns.  Under the invariants the cases of the  *)
(* mapping exclude each other, and where a message stands can be read off  *)
(* in this order.                                                          *)

Runs(w)    == w \in Turns /\ pc[w] \in InTurn
Arrived(w) == w \in sent \/ (w \in Direct /\ pc[w] # "idle")

Stage(w) == IF fate[w] # "open" THEN fate[w]
            ELSE IF inline = w THEN "executing"
            ELSE IF Runs(w) THEN "turn"
            ELSE IF Merged(w) THEN "folded"
            ELSE IF Arrived(w) THEN "waiting" ELSE "unsent"

StageInv == \A w \in Msg \cup Direct : LifeOf(w) = Stage(w)

LEMMA StageIs == TypeInv /\ HoldInv => StageInv
<1> SUFFICES ASSUME TypeInv, HoldInv, NEW w \in Msg \cup Direct PROVE LifeOf(w) = Stage(w)
  BY DEF StageInv
<1>1. Runs(w) <=> w \in Turns /\ pc[w] \in InTurn
  BY DEF Runs
<1>2. Merged(w) <=> \E m \in Turns : w \in folded[m]
  BY DEF Merged
<1>3. Arrived(w) <=> w \in sent \/ (w \in Direct /\ pc[w] # "idle")
  BY DEF Arrived
<1>4. Merged(w) => inline # w /\ ~Runs(w)
  <2>1. w \in Msg => (Merged(w) => inline # w /\ ~Alive(w))
    BY DEF HoldInv, Single
  <2>2. Merged(w) => w \in Msg
    BY GatherTypes DEF Merged
  <2>3. Runs(w) => Alive(w)
    BY TaskStates DEF Runs, Alive
  <2> QED BY <2>1, <2>2, <2>3
<1> DEFINE M == \E m \in Turns : w \in folded[m]
           R == w \in Turns /\ pc[w] \in InTurn
           A == w \in sent \/ (w \in Direct /\ pc[w] # "idle")
<1>5. LifeOf(w) = CASE fate[w] # "open" -> fate[w]
                    [] fate[w] = "open" /\ inline = w -> "executing"
                    [] fate[w] = "open" /\ inline # w /\ R -> "turn"
                    [] fate[w] = "open" /\ M -> "folded"
                    [] OTHER -> IF A THEN "waiting" ELSE "unsent"
  BY DEF LifeOf
<1>6. Stage(w) = IF fate[w] # "open" THEN fate[w]
                 ELSE IF inline = w THEN "executing"
                 ELSE IF R THEN "turn" ELSE IF M THEN "folded"
                 ELSE IF A THEN "waiting" ELSE "unsent"
  BY <1>1, <1>2, <1>3 DEF Stage
<1>7. M => inline # w /\ ~R
  BY <1>1, <1>2, <1>4
<1> HIDE DEF M, R, A
<1>8. CASE fate[w] # "open"
  BY <1>5, <1>6, <1>8
<1>9. CASE fate[w] = "open"
  BY <1>5, <1>6, <1>7, <1>9
<1> QED BY <1>8, <1>9

LEMMA StageIsNext == TypeInv' /\ HoldInv' => StageInv'
BY StageIs, PTL

\* What cannot be seen outside.
LEMMA StageSame ==
  ASSUME NEW w, fate'[w] = fate[w], inline' = w <=> inline = w, Runs(w)' <=> Runs(w),
         Merged(w)' <=> Merged(w), Arrived(w)' <=> Arrived(w)
  PROVE  Stage(w)' = Stage(w)
BY DEF Stage

-----------------------------------------------------------------------------
(* The steps of SessionTurns, in terms of the stages. *)

Others(S) == \A v \in (Msg \cup Direct) \ S : Stage(v)' = Stage(v)

LEMMA MapStutter ==
  ASSUME StageInv, StageInv', Others({})
  PROVE  UNCHANGED [w \in Msg \cup Direct |-> LifeOf(w)]
BY DEF StageInv, Others

LEMMA MapArrive ==
  ASSUME StageInv, StageInv', NEW w \in Msg \cup Direct, Others({w}),
         Stage(w) = "unsent", Stage(w)' = "waiting"
  PROVE  Abstract!AbsNext
<1>1. Abstract!Arrive(w)
  BY DEF Abstract!Arrive, StageInv, Others
<1> QED BY <1>1 DEF Abstract!AbsNext

LEMMA MapBegin ==
  ASSUME StageInv, StageInv', NEW w \in Msg \cup Direct, Others({w}),
         Stage(w) \in {"unsent", "waiting"}, Stage(w)' = "turn",
         \A v \in Msg \cup Direct : SessionOf[v] = SessionOf[w] => Stage(v) # "turn"
  PROVE  Abstract!AbsNext
<1>1. Abstract!Begin(w)
  BY DEF Abstract!Begin, Abstract!Idle, Abstract!SameSession, StageInv, Others
<1> QED BY <1>1 DEF Abstract!AbsNext

LEMMA MapMerge ==
  ASSUME StageInv, StageInv', NEW w \in Msg \cup Direct, NEW F, F # {}, Others(F), Stage(w) = "turn",
         \A v \in F : /\ v \in Msg \cup Direct /\ SessionOf[v] = SessionOf[w]
                      /\ Stage(v) = "waiting" /\ Stage(v)' = "folded"
  PROVE  Abstract!AbsNext
<1>1. F \in SUBSET Abstract!SameSession(w)
  BY DEF Abstract!SameSession
<1>2. Abstract!Merge(w, F)
  BY <1>1 DEF Abstract!Merge, Abstract!SameSession, StageInv, Others
<1> QED BY <1>1, <1>2 DEF Abstract!AbsNext

LEMMA MapExecute ==
  ASSUME StageInv, StageInv', NEW c \in Stop \cup New, Others({c}), c \in Msg,
         Stage(c) = "waiting", Stage(c)' = "executing"
  PROVE  Abstract!AbsNext
<1>1. Abstract!Execute(c)
  BY DEF Abstract!Execute, StageInv, Others
<1> QED BY <1>1 DEF Abstract!AbsNext

LEMMA MapComplete ==
  ASSUME StageInv, StageInv', NEW c \in Stop \cup New, c \in Msg, NEW D, c \notin D, Others(D \cup {c}),
         Stage(c) = "executing", Stage(c)' = "answered",
         \A v \in D : /\ v \in Msg \cup Direct /\ SessionOf[v] = SessionOf[c]
                      /\ Stage(v) = "waiting" /\ Stage(v)' = "dropped"
  PROVE  Abstract!AbsNext
<1>1. D \in SUBSET Abstract!SameSession(c)
  BY DEF Abstract!SameSession
<1>2. Abstract!Complete(c, D)
  BY <1>1 DEF Abstract!Complete, Abstract!SameSession, StageInv, Others
<1> QED BY <1>1, <1>2 DEF Abstract!AbsNext

Commanding(w) ==
  \E c \in Stop \cup New : /\ c \in Msg /\ SessionOf[c] = SessionOf[w]
                           /\ Stage(c) \in {"executing", "turn"}

LEMMA MapWithdraw ==
  ASSUME StageInv, StageInv', NEW d \in Direct, Others({d}), Stage(d) = "waiting", Stage(d)' = "failed"
  PROVE  Abstract!AbsNext
<1>1. Abstract!Withdraw(d)
  BY DEF Abstract!Withdraw, StageInv, Others
<1> QED BY <1>1 DEF Abstract!AbsNext

LEMMA MapDiscard ==
  ASSUME StageInv, StageInv', NEW w \in Msg \cup Direct, Others({w}), Commanding(w),
         Stage(w) = "waiting", Stage(w)' = "dropped"
  PROVE  Abstract!AbsNext
<1>1. Abstract!Commanded(w)
  BY DEF Abstract!Commanded, Abstract!SameSession, Commanding, StageInv
<1>2. Abstract!Discard(w)
  BY <1>1 DEF Abstract!Discard, StageInv, Others
<1> QED BY <1>2 DEF Abstract!AbsNext

\* G is what is merged into the turn of w.
LEMMA MapFinish ==
  ASSUME StageInv, StageInv', NEW w \in Msg \cup Direct, NEW G, w \notin G, Others(G \cup {w}),
         Stage(w) = "turn",
         \A v \in Msg \cup Direct : v \in G <=> SessionOf[v] = SessionOf[w] /\ Stage(v) = "folded",
         NEW own, NEW others, Stage(w)' = own, \A v \in G : v \in Msg \cup Direct => Stage(v)' = others,
         \/ own = "waiting" /\ others \in {"merged", "failed", "dropped"}
         \/ own = "answered" /\ others = "merged"
         \/ own = "failed" /\ others = "failed"
         \/ own = "dropped" /\ others = "dropped" /\ Commanding(w)
  PROVE  Abstract!AbsNext
<1>1. <<own, others>> \in Abstract!Ends(w)
  <2>1. Commanding(w) => Abstract!Commanded(w)
    BY DEF Abstract!Commanded, Abstract!SameSession, Commanding, StageInv
  <2> QED BY <2>1 DEF Abstract!Ends
<1>2. \A v \in Msg \cup Direct : v \in Abstract!Folded(w) <=> v \in G
  BY DEF Abstract!Folded, Abstract!SameSession, StageInv
<1>3. Abstract!Finish(w)
  <2> DEFINE e == <<own, others>>
  <2>1. [v \in Msg \cup Direct |-> LifeOf(v)]' =
          [v \in Msg \cup Direct |-> IF v = w THEN e[1]
                                     ELSE IF v \in Abstract!Folded(w) THEN e[2] ELSE
                                       [u \in Msg \cup Direct |-> LifeOf(u)][v]]
    BY <1>2 DEF StageInv, Others
  <2> HIDE DEF e
  <2> QED BY <1>1, <2>1 DEF Abstract!Finish, StageInv, e
<1> QED BY <1>3 DEF Abstract!AbsNext

-----------------------------------------------------------------------------
(* Where the messages stand before the steps that move them. *)

Steady == /\ TypeInv /\ PlaceInv /\ OwnInv /\ FollowInv /\ HoldInv /\ CauseInv /\ GatherInv
          /\ StageInv /\ StageInv'

\* What is in a queue waits, unless it is the next slice of a turn in progress.
LEMMA WaitingStage ==
  ASSUME TypeInv, PlaceInv, HoldInv, NEW x \in Msg, Waits(x), x \notin continuing
  PROVE  Stage(x) = "waiting"
<1>1. fate[x] = "open" /\ x \in sent /\ ~Merged(x) /\ inline # x
  BY DEF HoldInv, Single, Counted, Held
<1>2. x \in Turns => pc[x] = "idle"
  BY DEF PlaceInv, Busy, Waits
<1> QED BY <1>1, <1>2, TaskStates DEF Stage, Runs, Arrived

\* A task that exists is of a message that is open; it stands in the turn or waits for it.
LEMMA AliveStage ==
  ASSUME TypeInv, PlaceInv, HoldInv, GatherInv, NEW m \in Turns, pc[m] # "idle"
  PROVE  /\ m \in Msg \cup Direct /\ fate[m] = "open" /\ inline # m /\ ~Merged(m) /\ Arrived(m)
         /\ Stage(m) = IF pc[m] \in InTurn THEN "turn" ELSE "waiting"
<1>1. m \in Msg \cup Direct
  BY SetFacts
<1>2. CASE m \in Msg
  <2>1. Held(m)
    BY GatherTypes DEF Held, Tasked, Alive, Waits, GatherInv
  <2>2. fate[m] = "open" /\ m \in sent /\ inline # m /\ ~Merged(m)
    BY <1>2, <2>1 DEF HoldInv, Single, Counted, Alive
  <2> QED BY <1>1, <2>2 DEF Stage, Runs, Arrived
<1>3. CASE m \in Direct
  <2>1. fate[m] = "open" /\ m \notin Msg
    BY <1>3, GatherTypes DEF GatherInv
  <2>2. ~Merged(m)
    BY <2>1, GatherTypes DEF Merged
  <2>3. inline \in Msg \cup {None}
    BY FollowTypes DEF TypeInv, CoreOK
  <2>4. inline # m
    BY <2>1, <2>3, SetFacts
  <2> QED BY <1>1, <1>3, <2>1, <2>2, <2>4 DEF Stage, Runs, Arrived
<1> QED BY <1>1, <1>2, <1>3

\* One turn of a session: the one that holds the lock.
LEMMA TurnStage ==
  ASSUME TypeInv, OwnInv, HoldInv, NEW v \in Msg \cup Direct, Stage(v) = "turn"
  PROVE  v \in Turns /\ pc[v] \in InTurn /\ lockOwner[SessionOf[v]] = v
<1>1. Runs(v)
  BY GatherTypes DEF Stage, Fates
<1> QED BY <1>1, TaskStates DEF Runs, OwnInv, LockInv

\* What is merged into the turn of a session is in the hands of its owner.
LEMMA FoldedStage ==
  ASSUME TypeInv, PlaceInv, OwnInv, HoldInv, GatherInv, NEW m \in Turns, pc[m] \in InTurn
  PROVE  /\ m \notin folded[m] /\ folded[m] \subseteq Msg
         /\ \A v \in Msg \cup Direct :
              v \in folded[m] <=> SessionOf[v] = SessionOf[m] /\ Stage(v) = "folded"
<1>1. ~Merged(m) /\ folded[m] \subseteq Msg
  BY AliveStage, GatherTypes
<1>2. ASSUME NEW v \in folded[m] PROVE SessionOf[v] = SessionOf[m] /\ Stage(v) = "folded"
  <2>1. v \in Msg /\ Merged(v) /\ SessionOf[v] = SessionOf[m]
    BY <1>1 DEF Merged, GatherInv
  <2>2. fate[v] = "open" /\ ~Alive(v) /\ inline # v
    BY <2>1 DEF HoldInv, Single, Counted, Held
  <2> QED BY <2>1, <2>2, TaskStates DEF Stage, Runs, Alive
<1>3. ASSUME NEW v \in Msg \cup Direct, SessionOf[v] = SessionOf[m], Stage(v) = "folded"
      PROVE  v \in folded[m]
  <2>1. Merged(v)
    BY <1>3, GatherTypes DEF Stage, Fates
  <2>2. PICK t \in Turns : v \in folded[t]
    BY <2>1 DEF Merged
  <2>3. SessionOf[t] = SessionOf[m] /\ pc[t] \in InTurn
    BY <1>3, <2>2 DEF GatherInv
  <2>4. t = m
    BY <2>3, TaskStates DEF OwnInv, LockInv
  <2> QED BY <2>2, <2>4
<1> QED BY <1>1, <1>2, <1>3 DEF Merged

\* Who is cancelled is of the session of a command that is in progress.
LEMMA CancelStage ==
  ASSUME TypeInv, PlaceInv, HoldInv, CauseInv, GatherInv, NEW m \in cancelReq
  PROVE  Commanding(m)
<1>1. PICK c \in Stop \cup New : CausedBy(c, m)
  BY DEF CauseInv
<1>2. c \in Msg /\ SessionOf[c] = SessionOf[m] /\ Executing(c)
  BY <1>1, FollowTypes DEF CausedBy
<1>3. CASE inline = c
  <2>1. fate[c] = "open"
    BY <1>2, <1>3 DEF HoldInv, Counted, Held
  <2> QED BY <1>2, <1>3, <2>1 DEF Commanding, Stage
<1>4. CASE c \in New /\ pc[c] = "new"
  <2>1. c \in Turns /\ pc[c] \in InTurn /\ pc[c] # "idle"
    BY <1>4, CauseTypes, FollowTypes
  <2>2. Stage(c) = "turn"
    BY <2>1, AliveStage
  <2> QED BY <1>2, <2>2 DEF Commanding
<1> QED BY <1>2, <1>3, <1>4 DEF Executing

-----------------------------------------------------------------------------
(* The steps *)

\* A message is put on the bus.
LEMMA SentStage ==
  ASSUME Steady, NEW m \in Msg \ sent, sent' = sent \cup {m}, UNCHANGED <<inline, fate, pc, folded>>
  PROVE  Abstract!AbsNext
<1> USE DEF Steady
<1>1. fate[m] = "open" /\ inline # m /\ ~Merged(m) /\ ~Tasked(m) /\ ~Waits(m)
  BY DEF HoldInv, Counted, Held
<1>2. ~Runs(m) /\ m \notin Direct
  BY <1>1, TaskStates, GatherTypes DEF Runs, Tasked, Alive, GatherInv, Waits
<1>3. Stage(m) = "unsent"
  BY <1>1, <1>2 DEF Stage, Arrived
<1>4. Stage(m)' = "waiting"
  BY <1>1, <1>2 DEF Stage, Arrived, Runs, Merged
<1>5. Others({m})
  BY StageSame DEF Others, Runs, Merged, Arrived
<1> QED BY <1>3, <1>4, <1>5, MapArrive

LEMMA RefineProduce ==
  ASSUME Steady, Produce
  PROVE  Abstract!AbsNext \/ UNCHANGED [w \in Msg \cup Direct |-> LifeOf(w)]
<1> USE DEF Steady, busVars, loopVars, lockVars, turnVars, goalVars, resultVars
<1>1. ASSUME NEW m \in Chat \cup Stop \cup New, Send(m) PROVE Abstract!AbsNext
  <2>1. m \in Msg \ sent /\ sent' = sent \cup {m} /\ UNCHANGED <<inline, fate, pc, folded>>
    BY <1>1 DEF Send, Msg
  <2> QED BY <2>1, SentStage
<1>2. ASSUME NEW a \in Automations, Submit(a) PROVE Abstract!AbsNext
  <2>1. a \in Msg \ sent /\ sent' = sent \cup {a} /\ UNCHANGED <<inline, fate, pc, folded>>
    BY <1>2 DEF Submit, Msg, PlaceInv, Known
  <2> QED BY <2>1, SentStage
<1>3. ASSUME NEW a \in Sub, Announce(a) PROVE Abstract!AbsNext
  <2>1. a \in Msg \ sent /\ sent' = sent \cup {a} /\ UNCHANGED <<inline, fate, pc, folded>>
    BY <1>3 DEF Announce, Msg, PlaceInv, Known
  <2> QED BY <2>1, SentStage
<1>4. ASSUME NEW m \in Turns, NEW a \in Sub, Spawn(m, a)
      PROVE  UNCHANGED [w \in Msg \cup Direct |-> LifeOf(w)]
  <2>1. UNCHANGED <<sent, inline, fate, pc, folded>>
    BY <1>4 DEF Spawn
  <2>2. Others({})
    BY <2>1, StageSame DEF Others, Runs, Merged, Arrived
  <2> QED BY <2>2, MapStutter
<1>5. ASSUME NEW d \in Direct, CallDirect(d) PROVE Abstract!AbsNext
  <2>1. /\ UNCHANGED <<sent, inline, fate, folded>> /\ d \in Turns /\ d \notin Msg /\ d \in Msg \cup Direct
        /\ pc[d] = "idle" /\ fate[d] = "open" /\ pc'[d] \in {"lock", "turn"}
        /\ pc'[d] = "turn" => lockOwner[SessionOf[d]] = None
        /\ \A t \in Turns : t # d => pc'[t] = pc[t]
    BY <1>5, GatherTypes DEF CallDirect, AskLock, HoldLock, LockFree
  <2>2. ~Merged(d) /\ inline # d /\ d \notin sent
    <3>1. inline \in Msg \cup {None} /\ sent \subseteq Msg
      BY FollowTypes DEF TypeInv, CoreOK
    <3>2. ~Merged(d)
      BY <2>1, GatherTypes DEF Merged
    <3> QED BY <2>1, <3>1, <3>2, SetFacts
  <2>3. Stage(d) = "unsent"
    BY <2>1, <2>2, TaskStates, FollowTypes DEF Stage, Arrived, Runs
  <2>4. ~Merged(d)' /\ inline' # d /\ Arrived(d)' /\ fate'[d] = "open"
    BY <2>1, <2>2 DEF Merged, Arrived
  <2>5. Others({d})
    <3>1. ASSUME NEW v \in Msg \cup Direct, v # d PROVE Stage(v)' = Stage(v)
      <4>1. (Runs(v)' <=> Runs(v)) /\ (Arrived(v)' <=> Arrived(v))
        BY <2>1, <3>1, OwnTypes DEF Runs, Arrived
      <4> QED BY <2>1, <4>1, StageSame DEF Merged
    <3> QED BY <3>1 DEF Others
  <2>6. CASE pc'[d] = "lock"
    <3>1. Stage(d)' = "waiting"
      BY <2>4, <2>6, FollowTypes DEF Stage, Runs
    <3> QED BY <2>1, <2>3, <2>5, <3>1, MapArrive
  <2>7. CASE pc'[d] = "turn"
    <3>1. Stage(d)' = "turn"
      BY <2>1, <2>4, <2>7, FollowTypes DEF Stage, Runs
    <3>2. \A v \in Msg \cup Direct : SessionOf[v] = SessionOf[d] => Stage(v) # "turn"
      BY <2>1, <2>7, TurnStage, OwnTypes
    <3> QED BY <2>1, <2>3, <2>5, <3>1, <3>2, MapBegin
  <2> QED BY <2>1, <2>6, <2>7
<1> QED BY <1>1, <1>2, <1>3, <1>4, <1>5 DEF Produce

LEMMA RefineRunLoop ==
  ASSUME Steady, RunLoop
  PROVE  Abstract!AbsNext \/ UNCHANGED [w \in Msg \cup Direct |-> LifeOf(w)]
<1> USE DEF Steady, busVars, loopVars, lockVars, turnVars, goalVars, resultVars
<1>0. None \notin Msg \cup Direct
  BY SetsAssumption
<1>1. ASSUME NEW m \in Msg, ConsumeCommand(m) PROVE Abstract!AbsNext
  <2>1. /\ UNCHANGED <<sent, fate, pc, folded>> /\ inline = None /\ inline' = m /\ m \in Stop \cup New
        /\ m \in sent /\ fate[m] = "open" /\ ~Merged(m) /\ ~Alive(m)
    BY <1>1, ConsumeHold DEF ConsumeCommand
  <2>2. ~Runs(m)
    BY <2>1, TaskStates DEF Runs, Alive
  <2>3. Stage(m) = "waiting" /\ Stage(m)' = "executing"
    BY <1>0, <2>1, <2>2 DEF Stage, Arrived
  <2>4. Others({m})
    BY <1>0, <2>1, StageSame DEF Others, Runs, Merged, Arrived
  <2> QED BY <2>1, <2>3, <2>4, MapExecute
<1>2. ASSUME NEW m \in Msg, ConsumeDefer(m) \/ ConsumeRoute(m) \/ ConsumeCreate(m)
      PROVE  UNCHANGED [w \in Msg \cup Direct |-> LifeOf(w)]
  <2>1. /\ UNCHANGED <<sent, fate, folded, inline>> /\ m \notin Direct
        /\ \A t \in Turns : t # m => pc'[t] = pc[t]
        /\ m \in Turns => pc[m] = "idle" /\ pc'[m] \in {"idle", "created"}
    <3>1. m \notin Direct /\ pc \in [Turns -> TaskState]
      BY GatherTypes
    <3>2. m \in Turns => pc[m] = "idle"
      BY <1>2, ConsumePlace DEF ConsumeDefer, ConsumeRoute, ConsumeCreate
    <3> QED BY <1>2, <3>1, <3>2 DEF ConsumeDefer, ConsumeRoute, ConsumeCreate
  <2>2. ASSUME NEW v \in Msg \cup Direct PROVE Stage(v)' = Stage(v)
    <3>1. (Runs(v)' <=> Runs(v)) /\ (Arrived(v)' <=> Arrived(v))
      BY <2>1, OwnTypes, FollowTypes DEF Runs, Arrived
    <3> QED BY <2>1, <3>1, StageSame DEF Merged
  <2>3. Others({})
    BY <2>2 DEF Others
  <2> QED BY <2>3, MapStutter
<1>3. ASSUME NEW c \in Stop, FinishStop(c) PROVE Abstract!AbsNext
  <2> DEFINE o == registry[SessionOf[c]]
             D == IF o = None THEN {} ELSE Range(queue[o])
  <2>1. /\ inline = c /\ inline' = None /\ UNCHANGED <<sent, pc, folded>>
        /\ fate' = [x \in Msg \cup Direct |->
                      IF x = c THEN "answered" ELSE IF x \in D THEN "dropped" ELSE fate[x]]
    BY <1>3 DEF FinishStop
  <2>2. c \in Msg /\ fate[c] = "open" /\ ~Waits(c)
    BY <2>1, FollowTypes DEF HoldInv, Counted, Held, Single
  <2>3. ASSUME NEW x \in D
        PROVE  x \in Msg /\ Waits(x) /\ x \notin continuing /\ SessionOf[x] = SessionOf[c]
    <3>1. o # None /\ x \in Range(queue[o])
      BY <2>3
    <3>2. o \in New /\ o \in Turns /\ SessionOf[o] = SessionOf[c]
      BY <1>3, <2>2, <3>1, StopOwner, OwnTypes, FollowTypes DEF OwnInv, RegistryInv
    <3>3. x \in Msg /\ Waits(x) /\ SessionOf[x] = SessionOf[c]
      BY <3>1, <3>2, GatherTypes, RangeOfSeq DEF Waits, GatherInv
    <3>4. x \notin continuing
      <4>1. ASSUME x \in continuing PROVE FALSE
        <5>1. x \in Turns /\ pc[x] # "idle" /\ x \in Chat \cup Automations
          BY <4>1, GatherTypes DEF PlaceInv, Slices
        <5>2. x = o
          BY <3>1, <3>2, <5>1 DEF PlaceInv, Busy
        <5> QED BY <3>2, <5>1, <5>2, SetsAssumption
      <4> QED BY <4>1
    <3> QED BY <3>3, <3>4
  <2> HIDE DEF D
  <2>4. ASSUME NEW x \in D PROVE Stage(x) = "waiting"
    BY <2>3, WaitingStage
  <2>5. c \notin D /\ Stage(c) = "executing" /\ Stage(c)' = "answered"
    <3>1. c \notin D
      BY <2>2, <2>3
    <3>2. fate'[c] = "answered"
      BY <2>1, <2>2
    <3> QED BY <2>1, <2>2, <3>1, <3>2 DEF Stage
  <2>6. ASSUME NEW x \in D PROVE Stage(x)' = "dropped"
    <3>1. fate'[x] = "dropped"
      BY <2>1, <2>3, <2>5
    <3> QED BY <3>1 DEF Stage
  <2>7. Others(D \cup {c})
    <3>1. ASSUME NEW v \in (Msg \cup Direct) \ (D \cup {c}) PROVE Stage(v)' = Stage(v)
      <4>1. fate'[v] = fate[v] /\ inline # v /\ inline' # v
        BY <1>0, <2>1
      <4> QED BY <2>1, <4>1, StageSame DEF Runs, Merged, Arrived
    <3> QED BY <3>1 DEF Others
  <2> QED BY <2>2, <2>3, <2>4, <2>5, <2>6, <2>7, MapComplete
<1>4. ASSUME NEW c \in New, FinishNew(c) PROVE Abstract!AbsNext
  <2>1. /\ inline = c /\ inline' = None /\ UNCHANGED <<sent, pc, folded>> /\ c \in Msg
        /\ fate' = [fate EXCEPT ![c] = "answered"]
    BY <1>4, FollowTypes DEF FinishNew
  <2>2. fate[c] = "open" /\ fate'[c] = "answered"
    BY <2>1, GatherTypes DEF HoldInv, Counted, Held
  <2>3. Stage(c) = "executing" /\ Stage(c)' = "answered"
    BY <2>1, <2>2 DEF Stage
  <2> DEFINE D == {}
  <2>4. Others(D \cup {c})
    <3>1. ASSUME NEW v \in (Msg \cup Direct) \ (D \cup {c}) PROVE Stage(v)' = Stage(v)
      <4>1. fate'[v] = fate[v] /\ inline # v /\ inline' # v
        BY <1>0, <2>1, GatherTypes
      <4> QED BY <2>1, <4>1, StageSame DEF Runs, Merged, Arrived
    <3> QED BY <3>1 DEF Others
  <2>5. c \notin D /\ \A v \in D : /\ v \in Msg \cup Direct /\ SessionOf[v] = SessionOf[c]
                                  /\ Stage(v) = "waiting" /\ Stage(v)' = "dropped"
    OBVIOUS
  <2> HIDE DEF D
  <2> QED BY <2>1, <2>3, <2>4, <2>5, MapComplete
<1> QED BY <1>1, <1>2, <1>3, <1>4, FollowTypes DEF RunLoop, Msg

LEMMA RefineAcquire ==
  ASSUME Steady, NEW m \in Turns, Acquire(m)
  PROVE  Abstract!AbsNext \/ UNCHANGED [w \in Msg \cup Direct |-> LifeOf(w)]
<1> USE DEF Steady, busVars, loopVars, lockVars, turnVars, goalVars, resultVars
<1>1. /\ UNCHANGED <<sent, inline, fate, folded>> /\ pc[m] \in {"created", "lock", "gate"}
      /\ pc'[m] \in {"lock", "gate", "turn"}
      /\ pc'[m] = "turn" => \/ lockOwner[SessionOf[m]] = None
                            \/ pc[m] = "gate"
      /\ \A t \in Turns : t # m => pc'[t] = pc[t]
  BY GatherTypes DEF Acquire, Start, TakeLock, TakeGate, AskLock, HoldLock, BeginTurn, LockFree
<1>2. /\ pc[m] # "idle" /\ pc[m] \notin InTurn /\ pc'[m] # "idle" /\ (pc'[m] \in InTurn <=> pc'[m] = "turn")
  BY <1>1, FollowTypes
<1>3. /\ m \in Msg \cup Direct /\ fate[m] = "open" /\ inline # m /\ ~Merged(m) /\ Arrived(m)
      /\ Stage(m) = "waiting"
  BY <1>2, AliveStage
<1>4. ~Merged(m)' /\ inline' # m /\ fate'[m] = "open" /\ Arrived(m)'
  BY <1>1, <1>2, <1>3 DEF Merged, Arrived
<1>5. Others({m})
  <2>1. ASSUME NEW v \in Msg \cup Direct, v # m PROVE Stage(v)' = Stage(v)
    <3>1. (Runs(v)' <=> Runs(v)) /\ (Arrived(v)' <=> Arrived(v))
      BY <1>1, <2>1, OwnTypes DEF Runs, Arrived
    <3> QED BY <1>1, <3>1, StageSame DEF Merged
  <2> QED BY <2>1 DEF Others
<1>6. CASE pc'[m] = "turn"
  <2>1. Stage(m)' = "turn"
    BY <1>2, <1>4, <1>6 DEF Stage, Runs
  <2>2. ASSUME NEW v \in Msg \cup Direct, SessionOf[v] = SessionOf[m], Stage(v) = "turn" PROVE FALSE
    <3>1. v \in Turns /\ pc[v] \in InTurn /\ lockOwner[SessionOf[m]] = v
      BY <2>2, TurnStage
    <3>2. pc[m] = "gate"
      BY <1>1, <1>6, <3>1, OwnTypes
    <3>3. lockOwner[SessionOf[m]] = m
      BY <3>2, TaskStates DEF OwnInv, LockInv
    <3> QED BY <1>2, <3>1, <3>3
  <2> QED BY <1>3, <1>5, <2>1, <2>2, MapBegin
<1>7. CASE pc'[m] # "turn"
  <2>1. Stage(m)' = "waiting"
    BY <1>2, <1>4, <1>7 DEF Stage, Runs
  <2>2. Others({})
    BY <1>3, <1>5, <2>1 DEF Others
  <2> QED BY <2>2, MapStutter
<1> QED BY <1>6, <1>7

LEMMA RefineRunner ==
  ASSUME Steady, NEW m \in Turns, Runner(m)
  PROVE  Abstract!AbsNext \/ UNCHANGED [w \in Msg \cup Direct |-> LifeOf(w)]
<1> USE DEF Steady, busVars, loopVars, lockVars, turnVars, goalVars, resultVars
<1>1. /\ UNCHANGED <<sent, inline, fate>> /\ pc[m] \in {"turn", "await"} /\ pc'[m] \in InTurn
      /\ \A t \in Turns : t # m => pc'[t] = pc[t]
      /\ folded' = folded \/ FoldIn(m)
  BY GatherTypes, FollowTypes DEF Runner, Inject, BlockOnSubagents, Wake, AwaitTimeout, EndTurn,
     EndAtBudget, FinishAtBudget, LongTask, CompleteGoal, RunnerAt, Fold
<1>2. pc[m] \in InTurn /\ pc[m] # "idle" /\ pc[m] # "closing" /\ pc'[m] # "idle"
  BY <1>1, FollowTypes
<1>3. PICK F : /\ F \subseteq Range(queue[m]) /\ folded'[m] = folded[m] \cup F
               /\ \A t \in Turns : t # m => folded'[t] = folded[t]
  <2>1. CASE FoldIn(m)
    <3> DEFINE G == Range(Drained(m))
    <3>1. /\ G \subseteq Range(queue[m]) /\ folded'[m] = folded[m] \cup G
          /\ \A t \in Turns : t # m => folded'[t] = folded[t]
      BY <2>1, GatherTypes, DrainSplits DEF PlaceInv, Placed, FoldIn
    <3> HIDE DEF G
    <3> QED BY <3>1
  <2>2. CASE folded' = folded
    <3> DEFINE G == {}
    <3>1. /\ G \subseteq Range(queue[m]) /\ folded'[m] = folded[m] \cup G
          /\ \A t \in Turns : t # m => folded'[t] = folded[t]
      BY <2>2
    <3> HIDE DEF G
    <3> QED BY <3>1
  <2> QED BY <1>1, <2>1, <2>2
<1>4. m \in Msg \cup Direct /\ Stage(m) = "turn"
  BY <1>2, AliveStage
<1>5. ASSUME NEW v \in F
      PROVE  /\ v \in Msg /\ SessionOf[v] = SessionOf[m] /\ fate[v] = "open" /\ inline # v
             /\ Stage(v) = "waiting" /\ ~Runs(v) /\ v # m
  <2>1. v \in Msg /\ Waits(v) /\ SessionOf[v] = SessionOf[m]
    BY <1>3, GatherTypes, RangeOfSeq DEF Waits, GatherInv
  <2>2. v # m /\ (v \in Turns => pc[v] = "idle")
    BY <1>2, <1>3 DEF PlaceInv, Busy, Slices
  <2>3. v \notin continuing
    BY <2>2, GatherTypes DEF PlaceInv, Slices
  <2>4. Stage(v) = "waiting"
    BY <2>1, <2>3, WaitingStage
  <2>5. fate[v] = "open" /\ inline # v
    BY <2>1 DEF HoldInv, Single, Counted, Held
  <2> QED BY <2>1, <2>2, <2>4, <2>5, TaskStates DEF Runs
<1>6. ASSUME NEW v \in F PROVE Stage(v)' = "folded"
  <2>1. Merged(v)' /\ ~Runs(v)' /\ fate'[v] = "open" /\ inline' # v
    BY <1>1, <1>3, <1>5 DEF Merged, Runs
  <2> QED BY <2>1 DEF Stage
<1>7. Others(F)
  <2>1. ASSUME NEW v \in (Msg \cup Direct) \ F PROVE Stage(v)' = Stage(v)
    <3>1. (Runs(v)' <=> Runs(v)) /\ (Arrived(v)' <=> Arrived(v))
      BY <1>1, <1>2, OwnTypes DEF Runs, Arrived
    <3>2. Merged(v)' <=> Merged(v)
      BY <1>3 DEF Merged
    <3> QED BY <1>1, <3>1, <3>2, StageSame
  <2> QED BY <2>1 DEF Others
<1>8. CASE F = {}
  BY <1>7, <1>8, MapStutter
<1>9. CASE F # {}
  BY <1>4, <1>5, <1>6, <1>7, <1>9, MapMerge
<1> QED BY <1>8, <1>9

\* The end of a turn and of what was merged into it.
LEMMA RefineFinally ==
  ASSUME Steady, NEW m \in Turns, pc[m] \in InTurn, Finally(m), NEW own, NEW others,
         Settle(m, own, others),
         \/ own = "answered" /\ others = "merged"
         \/ own = "failed" /\ others = "failed"
         \/ own = "dropped" /\ others = "dropped" /\ m \in cancelReq
  PROVE  Abstract!AbsNext
<1> USE DEF Steady
<1>1. /\ UNCHANGED <<sent, inline>> /\ pc'[m] = "idle" /\ folded'[m] = {}
      /\ \A t \in Turns : t # m => pc'[t] = pc[t] /\ folded'[t] = folded[t]
  BY GatherTypes DEF Finally, PublishNextDeferred
<1>2. /\ m \in Msg \cup Direct /\ fate[m] = "open" /\ inline # m /\ ~Merged(m) /\ Arrived(m)
      /\ Stage(m) = "turn"
  BY AliveStage, GatherTypes
<1> DEFINE G == folded[m]
<1>3. /\ m \notin G /\ G \subseteq Msg
      /\ \A v \in Msg \cup Direct : v \in G <=> SessionOf[v] = SessionOf[m] /\ Stage(v) = "folded"
  BY FoldedStage
<1>4. \A x \in Msg \cup Direct :
        fate'[x] = IF x = m /\ m \notin continuing THEN own ELSE IF x \in G THEN others ELSE fate[x]
  BY DEF Settle
<1>5. ASSUME NEW v \in G PROVE Stage(v)' = others
  BY <1>3, <1>4 DEF Stage
<1>6. Others(G \cup {m})
  <2>1. ASSUME NEW v \in (Msg \cup Direct) \ (G \cup {m}) PROVE Stage(v)' = Stage(v)
    <3>1. (Runs(v)' <=> Runs(v)) /\ (Arrived(v)' <=> Arrived(v))
      BY <1>1, OwnTypes DEF Runs, Arrived
    <3>2. Merged(v)' <=> Merged(v)
      BY <1>1 DEF Merged
    <3>3. fate'[v] = fate[v]
      BY <1>4
    <3> QED BY <1>1, <3>1, <3>2, <3>3, StageSame
  <2> QED BY <2>1 DEF Others
<1>7. own = "dropped" => Commanding(m)
  BY CancelStage
<1> HIDE DEF G
<1>8. CASE m \notin continuing
  <2>1. Stage(m)' = own
    BY <1>2, <1>4, <1>8 DEF Stage
  <2> QED BY <1>2, <1>3, <1>5, <1>6, <1>7, <2>1, MapFinish
<1>9. CASE m \in continuing
  <2>1. m \in Chat \cup Automations
    BY <1>9 DEF PlaceInv, Slices
  <2>2. m \in sent /\ m \in Msg
    BY <1>2, <2>1, GatherTypes, SetsAssumption DEF Arrived, Msg
  <2>3. fate'[m] = "open" /\ inline' # m /\ ~Runs(m)' /\ ~Merged(m)' /\ Arrived(m)'
    <3>1. fate'[m] = "open"
      BY <1>2, <1>3, <1>4, <1>9
    <3>2. ~Merged(m)'
      BY <1>1, <1>2 DEF Merged
    <3> QED BY <1>1, <1>2, <2>2, <3>1, <3>2, GatherTypes DEF Runs, Arrived
  <2>4. Stage(m)' = "waiting"
    BY <2>3 DEF Stage
  <2>5. others \in {"merged", "failed", "dropped"}
    OBVIOUS
  <2> DEFINE stay == "waiting"
  <2>6. Stage(m)' = stay /\ stay = "waiting" /\ others \in {"merged", "failed", "dropped"}
    BY <2>4, <2>5
  <2> HIDE DEF stay
  <2> QED BY <1>2, <1>3, <1>5, <1>6, <2>6, MapFinish
<1> QED BY <1>8, <1>9

LEMMA RefineEnd ==
  ASSUME Steady, NEW m \in Turns, End(m)
  PROVE  Abstract!AbsNext
<1> USE DEF Steady, busVars, loopVars, lockVars, turnVars, goalVars, resultVars
<1>1. CASE Close(m)
  <2>1. pc[m] \in InTurn /\ Finally(m) /\ Settle(m, "answered", "merged")
    BY <1>1, FollowTypes DEF Close
  <2> QED BY <2>1, RefineFinally
<1>2. CASE Fail(m)
  <2>1. pc[m] \in InTurn /\ Finally(m) /\ Settle(m, "failed", "failed")
    BY <1>2, FollowTypes DEF Fail
  <2> QED BY <2>1, RefineFinally
<1>3. CASE CancelTurn(m)
  <2>1. pc[m] \in InTurn /\ Finally(m) /\ Settle(m, "dropped", "dropped") /\ m \in cancelReq
    BY <1>3 DEF CancelTurn
  <2> QED BY <2>1, RefineFinally
<1>4. CASE CloseDirect(m) \/ (AbortDirect(m) /\ pc[m] # "lock")
  <2> DEFINE own == IF CloseDirect(m) THEN "answered" ELSE "failed"
             others == IF CloseDirect(m) THEN "merged" ELSE "failed"
  <2>1. /\ m \in Direct /\ pc[m] \in {"turn", "closing"} /\ pc' = [pc EXCEPT ![m] = "idle"]
        /\ fate' = [fate EXCEPT ![m] = own] /\ UNCHANGED <<sent, inline, folded>>
    BY <1>4 DEF CloseDirect, AbortDirect
  <2>7. \/ own = "answered" /\ others = "merged"
        \/ own = "failed" /\ others = "failed"
    OBVIOUS
  <2> HIDE DEF own, others
  <2>2. /\ pc[m] \in InTurn /\ pc[m] # "idle" /\ fate'[m] = own /\ folded[m] = {}
        /\ \A t \in Turns : t # m => pc'[t] = pc[t]
        /\ \A x \in Msg \cup Direct : x # m => fate'[x] = fate[x]
    BY <2>1, GatherTypes, FollowTypes DEF GatherInv
  <2>3. m \in Msg \cup Direct /\ Stage(m) = "turn" /\ Stage(m)' = own
    BY <2>2, <2>7, AliveStage DEF Stage
  <2> DEFINE G == folded[m]
  <2>4. /\ m \notin G /\ G = {}
        /\ \A v \in Msg \cup Direct : v \in G <=> SessionOf[v] = SessionOf[m] /\ Stage(v) = "folded"
    BY <2>2, FoldedStage
  <2> HIDE DEF G
  <2>5. Others(G \cup {m})
    <3>1. ASSUME NEW v \in (Msg \cup Direct) \ (G \cup {m}) PROVE Stage(v)' = Stage(v)
      <4>1. (Runs(v)' <=> Runs(v)) /\ (Arrived(v)' <=> Arrived(v))
        BY <2>1, <2>2, OwnTypes DEF Runs, Arrived
      <4> QED BY <2>1, <2>2, <4>1, StageSame DEF Merged
    <3> QED BY <3>1 DEF Others
  <2>6. \A v \in G : Stage(v)' = others
    BY <2>4
  <2> QED BY <2>3, <2>4, <2>5, <2>6, <2>7, MapFinish
<1>6. CASE AbortDirect(m) /\ pc[m] = "lock"
  <2>1. /\ m \in Direct /\ pc' = [pc EXCEPT ![m] = "idle"]
        /\ fate' = [fate EXCEPT ![m] = "failed"] /\ UNCHANGED <<sent, inline, folded>>
    BY <1>6 DEF AbortDirect
  <2>2. /\ pc[m] # "idle" /\ pc[m] \notin InTurn /\ fate'[m] = "failed"
        /\ \A t \in Turns : t # m => pc'[t] = pc[t]
        /\ \A x \in Msg \cup Direct : x # m => fate'[x] = fate[x]
    BY <1>6, <2>1, GatherTypes, FollowTypes
  <2>3. Stage(m) = "waiting" /\ Stage(m)' = "failed"
    BY <2>1, <2>2, AliveStage DEF Stage
  <2>4. Others({m})
    <3>1. ASSUME NEW v \in Msg \cup Direct, v # m PROVE Stage(v)' = Stage(v)
      <4>1. (Runs(v)' <=> Runs(v)) /\ (Arrived(v)' <=> Arrived(v))
        BY <2>1, <2>2, <3>1, OwnTypes DEF Runs, Arrived
      <4> QED BY <2>1, <2>2, <3>1, <4>1, StageSame DEF Merged
    <3> QED BY <3>1 DEF Others
  <2> QED BY <2>1, <2>3, <2>4, MapWithdraw
<1>5. CASE CancelCreated(m) \/ CancelWaiting(m)
  <2>1. /\ m \in cancelReq /\ pc[m] \in {"created", "lock", "gate"} /\ UNCHANGED <<sent, inline, folded>>
        /\ pc' = [pc EXCEPT ![m] = "idle"] /\ fate' = [fate EXCEPT ![m] = "dropped"]
    BY <1>5 DEF CancelCreated, CancelWaiting, PublishNextDeferred
  <2>2. pc[m] # "idle" /\ pc[m] \notin InTurn /\ m \in Turns \ Direct
    BY <2>1, FollowTypes DEF CauseInv, Cancellable
  <2>3. m \in Msg \cup Direct /\ Stage(m) = "waiting"
    BY <2>2, AliveStage
  <2>4. /\ fate'[m] = "dropped"
        /\ \A t \in Turns : t # m => pc'[t] = pc[t]
        /\ \A x \in Msg \cup Direct : x # m => fate'[x] = fate[x]
    BY <2>1, <2>3, GatherTypes
  <2>5. Stage(m)' = "dropped"
    BY <2>4 DEF Stage
  <2>6. Others({m})
    <3>1. ASSUME NEW v \in Msg \cup Direct, v # m PROVE Stage(v)' = Stage(v)
      <4>1. (Runs(v)' <=> Runs(v)) /\ (Arrived(v)' <=> Arrived(v))
        BY <2>1, <2>4, <3>1, OwnTypes DEF Runs, Arrived
      <4> QED BY <2>1, <2>4, <3>1, <4>1, StageSame DEF Merged
    <3> QED BY <3>1 DEF Others
  <2>7. Commanding(m)
    BY <2>1, CancelStage
  <2> QED BY <2>3, <2>5, <2>6, <2>7, MapDiscard
<1> QED BY <1>1, <1>2, <1>3, <1>4, <1>5, <1>6 DEF End

LEMMA RefineCommand ==
  ASSUME Steady, NEW c \in New, Command(c)
  PROVE  UNCHANGED [w \in Msg \cup Direct |-> LifeOf(w)]
<1> USE DEF Steady, busVars, loopVars, lockVars, turnVars, goalVars, resultVars
<1>1. /\ UNCHANGED <<sent, inline, fate, folded>> /\ pc[c] \in InTurn /\ pc'[c] \in InTurn
      /\ pc[c] # "idle" /\ pc'[c] # "idle"
      /\ \A t \in Turns : t # c => pc'[t] = pc[t]
  BY GatherTypes, CauseTypes, FollowTypes DEF Command, BeginNew, EndNew
<1>2. ASSUME NEW v \in Msg \cup Direct PROVE Stage(v)' = Stage(v)
  <2>1. (Runs(v)' <=> Runs(v)) /\ (Arrived(v)' <=> Arrived(v))
    BY <1>1, OwnTypes DEF Runs, Arrived
  <2> QED BY <1>1, <2>1, StageSame DEF Merged
<1>3. Others({})
  BY <1>2 DEF Others
<1> QED BY <1>3, MapStutter

\* Every step of the dispatcher is a step of SessionTurns, or none.
LEMMA RefineStep ==
  ASSUME Steady, [Next]_vars
  PROVE  [Abstract!AbsNext]_[w \in Msg \cup Direct |-> LifeOf(w)]
<1>1. CASE UNCHANGED vars
  <2>1. UNCHANGED [w \in Msg \cup Direct |-> LifeOf(w)]
    BY <1>1 DEF vars, busVars, loopVars, turnVars, resultVars, LifeOf
  <2> QED BY <2>1
<1>2. CASE Next
  BY <1>2, RefineProduce, RefineRunLoop, RefineAcquire, RefineRunner, RefineEnd, RefineCommand
  DEF Next
<1> QED BY <1>1, <1>2

LEMMA RefineInit == Init => Abstract!AbsInit
<1> SUFFICES ASSUME Init PROVE Abstract!AbsInit
  OBVIOUS
<1>1. ASSUME NEW w \in Msg \cup Direct PROVE LifeOf(w) = "unsent"
  <2>1. /\ fate[w] = "open" /\ inline # w /\ ~(w \in Turns /\ pc[w] \in InTurn)
        /\ ~ \E m \in Turns : w \in folded[m]
        /\ ~(w \in sent \/ (w \in Direct /\ pc[w] # "idle"))
    BY OwnTypes, SetsAssumption, TaskStates DEF Init, Turns
  <2> QED BY <2>1 DEF LifeOf
<1> QED BY <1>1 DEF Abstract!AbsInit

\* Whatever the run loop, the tasks, the locks and the queues do, seen from
\* outside it is a session that works one turn at a time, merges follow-ups
\* into the turn in progress, which then share its end, and discards work only
\* while a command of the session is in progress.
THEOREM TurnsImplemented == Spec => ImplementsSessionTurns
<1>1. /\ TypeInv /\ PlaceInv /\ OwnInv /\ FollowInv /\ (HoldInv /\ RoomInv) /\ CauseInv /\ GatherInv
      /\ TypeInv' /\ (HoldInv /\ RoomInv)' /\ [Next]_vars
      => [Abstract!AbsNext]_[w \in Msg \cup Direct |-> LifeOf(w)]
  <2>1. /\ TypeInv /\ PlaceInv /\ OwnInv /\ FollowInv /\ HoldInv /\ CauseInv /\ GatherInv
        /\ TypeInv' /\ HoldInv'
        => Steady
    BY StageIs, StageIsNext DEF Steady
  <2> QED BY <2>1, RefineStep
<1> QED BY <1>1, RefineInit, TypeInvariant, PlaceInvariant, OwnInvariant, FollowInvariant,
           HoldInvariant, CauseInvariant, GatherInvariant, PTL
        DEF Spec, ImplementsSessionTurns, Abstract!AbsSpec

-----------------------------------------------------------------------------
(* A deferred automation turn has a waker.  When the run loop gives way    *)
(* between two messages, a command finds no task that has not begun: then  *)
(* the only task that ends without handing back a deferred turn was        *)
(* cancelled by a /new that is a task itself.                              *)

NoneCreated == inline # None => \A t \in Turns : pc[t] # "created"

\* While a command executes the run loop creates no task.
LEMMA CreatedInit == Init => NoneCreated
BY DEF Init, NoneCreated

LEMMA CreatedStep ==
  ASSUME RunLoopYields, TypeInv, NoneCreated, [Next]_vars
  PROVE  NoneCreated'
<1> USE DEF busVars, loopVars, lockVars, turnVars, goalVars, resultVars
<1>1. CASE RunLoop
  <2>1. CASE \E m \in Msg : ConsumeCommand(m)
    BY <2>1 DEF ConsumeCommand, Consume, NoneCreated
  <2>2. CASE ~ \E m \in Msg : ConsumeCommand(m)
    BY <1>1, <2>2 DEF RunLoop, ConsumeDefer, ConsumeRoute, ConsumeCreate, Consume, FinishStop,
       FinishNew, NoneCreated
  <2> QED BY <2>1, <2>2
<1>2. CASE Produce \/ UNCHANGED vars
  BY <1>2, CauseTypes DEF Produce, Send, Submit, Spawn, Announce, CallDirect, AskLock, HoldLock,
     BeginTurn, NoneCreated, vars
<1>3. ASSUME NEW m \in Turns, Acquire(m) \/ Runner(m) \/ End(m) PROVE NoneCreated'
  <2>1. Acquire(m) => inline' = inline /\ pc'[m] # "created" /\ \A t \in Turns : t # m => pc'[t] = pc[t]
    BY CauseTypes DEF Acquire, Start, TakeLock, TakeGate, AskLock, HoldLock, BeginTurn
  <2>2. Runner(m) => inline' = inline /\ \A t \in Turns : pc'[t] = "created" => pc[t] = "created"
    BY CauseTypes DEF Runner, Inject, BlockOnSubagents, Wake, AwaitTimeout, EndTurn, EndAtBudget,
       FinishAtBudget, LongTask, CompleteGoal
  <2>3. End(m) => inline' = inline /\ pc'[m] # "created" /\ \A t \in Turns : t # m => pc'[t] = pc[t]
    BY CauseTypes DEF End, Close, Fail, CloseDirect, AbortDirect, CancelTurn, CancelCreated, CancelWaiting, Finally
  <2> QED BY <1>3, <2>1, <2>2, <2>3 DEF NoneCreated
<1>4. ASSUME NEW c \in New, Command(c) PROVE NoneCreated'
  BY <1>4, CauseTypes DEF Command, BeginNew, EndNew, NoneCreated
<1> QED BY <1>1, <1>2, <1>3, <1>4 DEF Next

\* Where no task ends and no automation turn is consumed, a waker stays one.
LEMMA WakerStays ==
  ASSUME NEW s, HasWaker(s), \A m \in Turns \ Direct : pc[m] # "idle" => pc'[m] # "idle",
         \A a \in Range(inbound) : a \in Automations => a \in Range(inbound') \/ pc'[a] # "idle",
         Automations \subseteq Turns \ Direct
  PROVE  HasWaker(s)'
BY DEF HasWaker

\* The end of a task hands back a deferred turn, if there is one.
LEMMA WakerPublished ==
  ASSUME TypeInv, RoomInv, NEW m \in Turns, NEW before \in Seq(Msg),
         Range(inbound) \subseteq Range(before), PublishNextDeferred(SessionOf[m], before),
         \A t \in Turns : t # m => pc'[t] = pc[t],
         NEW s \in Sessions, deferred'[s] # <<>>, deferred[s] # <<>> => HasWaker(s)
  PROVE  HasWaker(s)'
<1>1. /\ deferred[s] \in Seq(Automations) /\ deferred \in [Sessions -> Seq(Automations)]
      /\ SessionOf[m] \in Sessions /\ Automations \subseteq Msg
  BY OwnTypes DEF TypeInv, CoreOK, Msg
<1>2. deferred[s] # <<>>
  BY <1>1 DEF PublishNextDeferred
<1>3. CASE s = SessionOf[m]
  <2> DEFINE h == Head(deferred[s])
  <2>1. h \in Automations /\ h \in Range(deferred[s])
    BY <1>1, <1>2, TailRange
  <2>2. inbound' = before \o <<h>>
    BY <1>2, <1>3 DEF PublishNextDeferred, NextDeferred
  <2>3. <<h>> \in Seq(Msg) /\ Range(<<h>>) = {h}
    <3>1. <<h>> \in Seq(Msg) /\ DOMAIN <<h>> = {1} /\ <<h>>[1] = h
      BY <1>1, <2>1
    <3> QED BY <3>1, Zenon DEF Range
  <2>4. h \in Range(inbound')
    <3> DEFINE q == <<h>>
    <3>1. inbound' = before \o q /\ q \in Seq(Msg) /\ h \in Range(q)
      BY <2>2, <2>3
    <3> HIDE DEF q
    <3>2. Range(before \o q) = Range(before) \cup Range(q)
      BY <3>1, ConcatRange
    <3> QED BY <3>1, <3>2
  <2>5. SessionOf[h] = s
    BY <2>1 DEF RoomInv
  <2> HIDE DEF h
  <2> QED BY <2>1, <2>4, <2>5 DEF HasWaker
<1>4. CASE s # SessionOf[m]
  <2>1. Range(inbound) \subseteq Range(inbound')
    <3> DEFINE q == NextDeferred(SessionOf[m])
    <3>1. q \in Seq(Msg)
      <4>1. deferred[SessionOf[m]] \in Seq(Automations)
        BY <1>1
      <4>2. CASE deferred[SessionOf[m]] = <<>>
        BY <4>2, EmptySeq DEF NextDeferred
      <4>3. CASE deferred[SessionOf[m]] # <<>>
        <5>1. Head(deferred[SessionOf[m]]) \in Msg
          BY <1>1, <4>1, <4>3, TailRange
        <5> QED BY <4>3, <5>1 DEF NextDeferred
      <4> QED BY <4>2, <4>3
    <3>2. inbound' = before \o q
      BY DEF PublishNextDeferred
    <3> HIDE DEF q
    <3>3. Range(before \o q) = Range(before) \cup Range(q)
      BY <3>1, ConcatRange
    <3> QED BY <3>2, <3>3
  <2>2. HasWaker(s)
    BY <1>2
  <2> QED BY <1>4, <2>1, <2>2 DEF HasWaker
<1> QED BY <1>3, <1>4

LEMMA WakerStep ==
  ASSUME RunLoopYields, TypeInv, PlaceInv, OwnInv, RoomInv, CauseInv, NoneCreated, DeferredHasWaker,
         [Next]_vars
  PROVE  DeferredHasWaker'
<1> USE DEF busVars, loopVars, lockVars, turnVars, goalVars, resultVars
<1>0. /\ Automations \subseteq Turns \ Direct /\ pc \in [Turns -> TaskState] /\ inbound \in Seq(Msg)
      /\ deferred \in [Sessions -> Seq(Automations)]
  BY SetFacts DEF TypeInv, CoreOK
<1>1. \A s \in Sessions : deferred[s] # <<>> => HasWaker(s)
  BY DEF DeferredHasWaker
<1> SUFFICES ASSUME NEW s \in Sessions, deferred'[s] # <<>> PROVE HasWaker(s)'
  BY DEF DeferredHasWaker
<1>2. ASSUME deferred'[s] = deferred[s], Range(inbound) \subseteq Range(inbound'),
             \A t \in Turns \ Direct : pc[t] # "idle" => pc'[t] # "idle"
      PROVE  HasWaker(s)'
  BY <1>0, <1>1, <1>2, WakerStays
<1>3. CASE Produce
  <2>1. \/ inbound' = inbound
        \/ \E m \in Msg : inbound' = Append(inbound, m)
    BY <1>3, SMT DEF Produce, Send, Submit, Spawn, Announce, CallDirect, Msg
  <2>2. Range(inbound) \subseteq Range(inbound')
    <3>1. \A m \in Msg : Range(Append(inbound, m)) = Range(inbound) \cup {m}
      BY <1>0, AppendRange
    <3> QED BY <2>1, <3>1
  <2>3. deferred' = deferred /\ \A t \in Turns \ Direct : pc'[t] = pc[t]
    BY <1>0, <1>3 DEF Produce, Send, Submit, Spawn, Announce, CallDirect, AskLock, HoldLock, BeginTurn
  <2> QED BY <1>2, <2>2, <2>3
<1>4. CASE RunLoop
  <2>1. ASSUME NEW m \in Automations, ConsumeDefer(m) PROVE HasWaker(s)'
    <3>1. pc' = pc /\ \A r \in Sessions : r # SessionOf[m] => deferred'[r] = deferred[r]
      BY <1>0, <2>1 DEF ConsumeDefer
    <3>2. Consume(m)
      BY <2>1 DEF ConsumeDefer
    <3>3. CASE s = SessionOf[m]
      <4>1. registry[s] \in Turns \ Direct /\ SessionOf[registry[s]] = s /\ pc[registry[s]] # "idle"
        BY <2>1, <3>3, OwnTypes, TaskStates DEF ConsumeDefer, OwnInv, RegistryInv
      <4> QED BY <3>1, <4>1 DEF HasWaker
    <3>4. CASE s # SessionOf[m]
      <4>1. HasWaker(s)
        BY <1>1, <3>1, <3>4
      <4>2. Range(inbound) = {m} \cup Range(inbound')
        BY <3>2, ConsumePlace
      <4> QED BY <3>1, <3>4, <4>1, <4>2 DEF HasWaker
    <3> QED BY <3>3, <3>4
  <2>2. ASSUME NEW m \in Msg, ConsumeCreate(m) PROVE HasWaker(s)'
    <3>1. /\ Consume(m) /\ deferred' = deferred /\ m \in Turns
          /\ \A t \in Turns : pc'[t] = IF t = m THEN "created" ELSE pc[t]
      BY <1>0, <2>2 DEF ConsumeCreate
    <3>2. Range(inbound) = {m} \cup Range(inbound')
      BY <3>1, ConsumePlace
    <3> QED BY <1>0, <1>1, <3>1, <3>2, WakerStays
  <2>3. ASSUME NEW m \in Msg \ Automations, ConsumeCommand(m) \/ ConsumeRoute(m) PROVE HasWaker(s)'
    <3>1. Consume(m) /\ deferred' = deferred /\ pc' = pc
      BY <2>3 DEF ConsumeCommand, ConsumeRoute
    <3>2. Range(inbound) = {m} \cup Range(inbound')
      BY <3>1, ConsumePlace
    <3> QED BY <1>0, <1>1, <2>3, <3>1, <3>2, WakerStays
  <2>4. ASSUME NEW c, FinishStop(c) \/ FinishNew(c) PROVE HasWaker(s)'
    <3>1. UNCHANGED <<inbound, deferred, pc>>
      BY <2>4 DEF FinishStop, FinishNew
    <3> QED BY <1>2, <3>1
  <2>5. /\ \A m \in Msg : ConsumeCommand(m) => m \in Msg \ Automations
        /\ \A m \in Chat \cup Sub : m \in Msg \ Automations
    BY SetsAssumption DEF ConsumeCommand, Msg
  <2> QED BY <1>4, <2>1, <2>2, <2>3, <2>4, <2>5 DEF RunLoop
<1>5. ASSUME NEW m \in Turns, Acquire(m) \/ Runner(m) PROVE HasWaker(s)'
  <2>1. UNCHANGED <<inbound, deferred>> /\ \A t \in Turns : pc[t] # "idle" => pc'[t] # "idle"
    <3>1. Acquire(m) => UNCHANGED <<inbound, deferred>> /\ \A t \in Turns : pc[t] # "idle" => pc'[t] # "idle"
      BY <1>0 DEF Acquire, Start, TakeLock, TakeGate, AskLock, HoldLock, BeginTurn
    <3>2. Runner(m) => UNCHANGED <<inbound, deferred>> /\ \A t \in Turns : pc[t] # "idle" => pc'[t] # "idle"
      BY <1>0 DEF Runner, Inject, BlockOnSubagents, Wake, AwaitTimeout, EndTurn, EndAtBudget,
         FinishAtBudget, LongTask, CompleteGoal
    <3> QED BY <1>5, <3>1, <3>2
  <2> QED BY <1>2, <2>1
<1>6. ASSUME NEW m \in Turns, End(m) PROVE HasWaker(s)'
  <2>1. \A t \in Turns : t # m => pc'[t] = pc[t]
    BY <1>0, <1>6 DEF End, Close, Fail, CloseDirect, AbortDirect, CancelTurn, CancelCreated, CancelWaiting, Finally
  <2>2. ASSUME NEW before \in Seq(Msg), Range(inbound) \subseteq Range(before),
               PublishNextDeferred(SessionOf[m], before)
        PROVE  HasWaker(s)'
    BY <1>1, <2>1, <2>2, WakerPublished
  <2>3. CASE Close(m) \/ Fail(m) \/ CancelTurn(m)
    <3>1. PublishNextDeferred(SessionOf[m], inbound \o queue[m])
      BY <2>3 DEF Close, Fail, CancelTurn, Finally, Leftovers
    <3>2. inbound \o queue[m] \in Seq(Msg) /\ Range(inbound) \subseteq Range(inbound \o queue[m])
      BY <1>0, GatherTypes, ConcatRange
    <3> QED BY <2>2, <3>1, <3>2
  <2>4. CASE CancelWaiting(m)
    BY <1>0, <2>2, <2>4 DEF CancelWaiting
  <2>5. CASE CloseDirect(m) \/ AbortDirect(m)
    BY <1>2, <2>1, <2>5 DEF CloseDirect, AbortDirect
  <2>6. CASE CancelCreated(m)
    <3>1. UNCHANGED <<inbound, deferred>> /\ pc[m] = "created" /\ m \in cancelReq
      BY <2>6 DEF CancelCreated
    <3>2. PICK c \in Stop \cup New : CausedBy(c, m)
      BY <3>1 DEF CauseInv
    <3>3. c \in New /\ pc[c] = "new" /\ SessionOf[c] = SessionOf[m] /\ c \in Turns \ Direct
      BY <3>1, <3>2, CauseTypes, FollowTypes DEF CausedBy, Executing, NoneCreated
    <3>4. pc'[c] # "idle"
      BY <2>1, <3>1, <3>3
    <3>5. HasWaker(s)
      BY <1>1, <3>1
    <3> QED BY <2>1, <3>1, <3>3, <3>4, <3>5 DEF HasWaker
  <2> QED BY <1>6, <2>3, <2>4, <2>5, <2>6 DEF End
<1>7. ASSUME NEW c \in New, Command(c) PROVE HasWaker(s)'
  <2>1. UNCHANGED <<inbound, deferred>> /\ \A t \in Turns : pc[t] # "idle" => pc'[t] # "idle"
    BY <1>0, <1>7 DEF Command, BeginNew, EndNew
  <2> QED BY <1>2, <2>1
<1>8. CASE UNCHANGED vars
  BY <1>2, <1>8 DEF vars
<1> QED BY <1>3, <1>4, <1>5, <1>6, <1>7, <1>8 DEF Next

\* A deferred automation turn is never left with nobody to release it: when its
\* session defers it, and at every later end, cancellation or command, a task of
\* the session or an automation turn on the bus remains.
THEOREM DeferredWakes == ASSUME RunLoopYields PROVE Spec => []DeferredHasWaker
<1>1. Init => NoneCreated /\ DeferredHasWaker
  BY CreatedInit DEF Init, DeferredHasWaker
<1>2. /\ TypeInv /\ PlaceInv /\ OwnInv /\ (HoldInv /\ RoomInv) /\ CauseInv
      /\ NoneCreated /\ DeferredHasWaker /\ [Next]_vars
      => (NoneCreated /\ DeferredHasWaker)'
  BY CreatedStep, WakerStep
<1> QED BY <1>1, <1>2, TypeInvariant, PlaceInvariant, OwnInvariant, HoldInvariant, CauseInvariant,
           PTL DEF Spec

-----------------------------------------------------------------------------
(* Automation turns keep to themselves, and what their submitter is told   *)
(* agrees with their fate.  Only a goal makes a turn end twice.            *)

\* The submitter of a is told exactly what became of it.
Told(a) ==
  /\ waiter[a] = "answered" <=> fate[a] = "answered"
  /\ waiter[a] = "failed" => fate[a] \in {"failed", "dropped"}
  /\ fate[a] = "failed" => waiter[a] = "failed"

ReportInv ==
  /\ \A s \in Sessions : goal[s] # "none" => recorded[s] # 0
  /\ \A m \in continuing : recorded[SessionOf[m]] # 0
  /\ \A t \in Turns : Automations \cap (Range(queue[t]) \cup folded[t]) \subseteq {t}
  /\ \A a \in Automations : recorded[SessionOf[a]] = 0 => Told(a)

\* What the steps below need of the types.
LEMMA ReportTypes ==
  ASSUME TypeInv, GoalType
  PROVE  /\ goal \in [Sessions -> {"none", "active", "gated"}] /\ recorded \in [Sessions -> 0..GoalMax]
         /\ waiter \in [Automations -> {"none", "waiting", "answered", "failed"}]
         /\ fate \in [Msg \cup Direct -> Fates] /\ GoalMax \in Nat
         /\ Automations \subseteq Turns /\ Automations \subseteq Msg
         /\ \A m \in Turns \cup Msg : SessionOf[m] \in Sessions
BY SetFacts, BoundsAssumption DEF TypeInv, CoreOK, GoalType, Turns, Msg

LEMMA ReportInit == Init => ReportInv
<1> SUFFICES ASSUME Init PROVE ReportInv
  OBVIOUS
<1>1. /\ \A t \in Turns : queue[t] = <<>> /\ folded[t] = {}
      /\ continuing = {} /\ \A s \in Sessions : goal[s] = "none"
      /\ \A a \in Automations : waiter[a] = "none" /\ fate[a] = "open"
  BY DEF Init, Msg
<1> QED BY <1>1, NothingInEmpty DEF ReportInv, Told

\* Steps that end no turn and take no goal away from the record.
LEMMA ReportSame ==
  ASSUME ReportInv,
         \A s \in Sessions : /\ recorded'[s] = 0 => recorded[s] = 0
                             /\ goal'[s] # "none" => goal[s] # "none" \/ recorded'[s] # 0,
         \A m \in continuing' : m \in continuing \/ recorded'[SessionOf[m]] # 0,
         \A m \in Turns \cup Msg : SessionOf[m] \in Sessions, continuing \subseteq Turns,
         Automations \subseteq Msg,
         \A t \in Turns : Automations \cap (Range(queue'[t]) \cup folded'[t]) \subseteq {t},
         \A a \in Automations : recorded'[SessionOf[a]] = 0 /\ Told(a) => Told(a)'
  PROVE  ReportInv'
<1>1. \A a \in Automations : recorded'[SessionOf[a]] = 0 => Told(a)'
  BY DEF ReportInv
<1>2. \A m \in continuing' : recorded'[SessionOf[m]] # 0
  BY DEF ReportInv
<1>3. \A s \in Sessions : goal'[s] # "none" => recorded'[s] # 0
  BY DEF ReportInv
<1> QED BY <1>1, <1>2, <1>3 DEF ReportInv

\* No automation turn is merged into another.
LEMMA NoneMerged ==
  ASSUME TypeInv, PlaceInv, HoldInv, ReportInv, NEW m \in Turns, pc[m] # "idle", NEW a \in Automations
  PROVE  a \notin folded[m]
<1>1. a \in folded[m] => a = m /\ Merged(a) /\ Alive(a) /\ a \in Msg
  BY DEF ReportInv, Merged, Alive, Msg
<1> QED BY <1>1 DEF HoldInv, Single

LEMMA ReportProduce ==
  ASSUME TypeInv, GoalType, PlaceInv, HoldInv, ReportInv, Produce PROVE ReportInv'
<1> USE DEF busVars, loopVars, lockVars, turnVars, goalVars, resultVars
<1>0. /\ continuing \subseteq Turns /\ queue \in [Turns -> Seq(Msg)]
  BY GatherTypes
<1>1. /\ UNCHANGED <<goal, recorded, continuing, folded, fate>>
      /\ \A t \in Turns : queue'[t] = queue[t] \/ queue'[t] = <<>>
      /\ \A a \in Automations : waiter'[a] = waiter[a] \/ (waiter[a] = "none" /\ waiter'[a] = "waiting")
  BY <1>0, ReportTypes DEF Produce, Send, Submit, Spawn, Announce, CallDirect, AskLock, HoldLock, BeginTurn
<1>2. \A t \in Turns : Automations \cap (Range(queue'[t]) \cup folded'[t]) \subseteq {t}
  BY <1>1, NothingInEmpty DEF ReportInv
<1>3. \A a \in Automations : Told(a) => Told(a)'
  BY <1>1 DEF Told
<1> QED BY <1>0, <1>1, <1>2, <1>3, ReportTypes, ReportSame

LEMMA ReportRunLoop ==
  ASSUME TypeInv, GoalType, PlaceInv, OwnInv, FollowInv, HoldInv, CauseInv, ReportInv, RunLoop
  PROVE  ReportInv'
<1> USE DEF busVars, loopVars, lockVars, turnVars, goalVars, resultVars
<1>0. /\ continuing \subseteq Turns /\ queue \in [Turns -> Seq(Msg)]
      /\ \A t \in Turns : Automations \cap (Range(queue[t]) \cup folded[t]) \subseteq {t}
  BY GatherTypes DEF ReportInv
<1> DEFINE Kept == /\ UNCHANGED <<recorded, continuing, folded, waiter>>
                   /\ \A s \in Sessions : goal'[s] # "none" => goal[s] # "none"
<1>1. Kept
  <2>1. ASSUME NEW m, Consume(m)
        PROVE  recorded' = recorded /\ \A s \in Sessions : goal'[s] # "none" => goal[s] # "none"
    BY <2>1, ReportTypes DEF Consume
  <2>2. ASSUME NEW m, ConsumeCommand(m) \/ ConsumeDefer(m) \/ ConsumeCreate(m) PROVE Kept
    BY <2>1, <2>2, Zenon DEF ConsumeCommand, ConsumeDefer, ConsumeCreate
  <2>3. ASSUME NEW m, ConsumeRoute(m) PROVE Kept
    BY <2>1, <2>3 DEF ConsumeRoute
  <2>4. ASSUME NEW c, FinishStop(c) \/ FinishNew(c) PROVE Kept
    BY <2>4 DEF FinishStop, FinishNew
  <2> HIDE DEF Kept
  <2> QED BY <2>2, <2>3, <2>4 DEF RunLoop
<1>2. ASSUME NEW m \in Chat \cup Sub, ConsumeRoute(m) PROVE ReportInv'
  <2> DEFINE o == registry[SessionOf[m]]
  <2>1. m \in Msg /\ m \notin Automations /\ fate' = fate
    BY <1>2, SetsAssumption DEF ConsumeRoute, Msg
  <2>2. o \in Turns
    BY <2>1, <1>2, OwnTypes, FollowTypes DEF ConsumeRoute, RoutesToPending
  <2>3. \A t \in Turns : queue'[t] = IF t = o THEN Append(queue[t], m) ELSE queue[t]
    BY <1>0, <1>2 DEF ConsumeRoute
  <2> HIDE DEF o
  <2>4. \A t \in Turns : Range(queue'[t]) \subseteq Range(queue[t]) \cup {m}
    BY <1>0, <2>1, <2>3, AppendRange
  <2>5. \A t \in Turns : Automations \cap (Range(queue'[t]) \cup folded'[t]) \subseteq {t}
    BY <1>0, <1>1, <2>1, <2>4
  <2>6. \A a \in Automations : Told(a) => Told(a)'
    BY <1>1, <2>1 DEF Told
  <2> QED BY <1>0, <1>1, <2>5, <2>6, ReportTypes, ReportSame
<1>3. ASSUME NEW c \in Stop, FinishStop(c) PROVE ReportInv'
  <2> DEFINE o == registry[SessionOf[c]]
             D == IF o = None THEN {} ELSE Range(queue[o])
  <2>1. /\ \A t \in Turns : queue'[t] = <<>> \/ queue'[t] = queue[t]
        /\ \A x \in Msg \cup Direct : fate'[x] = IF x = c THEN "answered"
                                                 ELSE IF x \in D THEN "dropped" ELSE fate[x]
    BY <1>3 DEF FinishStop
  <2>2. \A a \in Automations : a \notin D /\ a # c
    <3>1. o # None => o \in New /\ o \in Turns
      BY <1>3, StopOwner, OwnTypes, FollowTypes
    <3> QED BY <1>0, <3>1, SetsAssumption
  <2> HIDE DEF D
  <2>3. \A a \in Automations : Told(a) => Told(a)'
    BY <1>1, <2>1, <2>2, ReportTypes DEF Told
  <2>4. \A t \in Turns : Automations \cap (Range(queue'[t]) \cup folded'[t]) \subseteq {t}
    BY <1>0, <1>1, <2>1, NothingInEmpty
  <2> QED BY <1>0, <1>1, <2>3, <2>4, ReportTypes, ReportSame
<1>4. CASE ~ \/ \E m \in Chat \cup Sub : ConsumeRoute(m)
             \/ \E c \in Stop : FinishStop(c)
  <2>1. queue' = queue /\ \A x \in Msg : x \notin New => fate'[x] = fate[x]
    BY <1>4, ReportTypes
    DEF RunLoop, ConsumeCommand, ConsumeDefer, ConsumeCreate, FinishNew
  <2>2. \A a \in Automations : Told(a) => Told(a)'
    BY <1>1, <2>1, ReportTypes, SetsAssumption DEF Told
  <2> QED BY <1>0, <1>1, <2>1, <2>2, ReportTypes, ReportSame
<1> QED BY <1>2, <1>3, <1>4

LEMMA ReportRunner ==
  ASSUME TypeInv, GoalType, PlaceInv, HoldInv, ReportInv, NEW m \in Turns, Runner(m)
  PROVE  ReportInv'
<1> USE DEF busVars, loopVars, lockVars, turnVars, goalVars, resultVars
<1>0. /\ continuing \subseteq Turns /\ queue \in [Turns -> Seq(Msg)] /\ queue[m] \in Seq(Msg)
      /\ SessionOf[m] \in Sessions
      /\ \A t \in Turns : Automations \cap (Range(queue[t]) \cup folded[t]) \subseteq {t}
  BY GatherTypes, ReportTypes DEF ReportInv
<1>1. /\ UNCHANGED <<fate, waiter>> /\ pc[m] \in {"turn", "await"}
      /\ \A s \in Sessions : /\ recorded'[s] = 0 => recorded[s] = 0
                             /\ goal'[s] # "none" => goal[s] # "none" \/ recorded'[s] # 0
  <2>1. CASE LongTask(m)
    BY <2>1, ReportTypes DEF LongTask, RunnerAt
  <2>2. CASE ~LongTask(m)
    BY <2>2, ReportTypes DEF Runner, Inject, BlockOnSubagents, Wake, AwaitTimeout, EndTurn,
       EndAtBudget, FinishAtBudget, CompleteGoal, RunnerAt
  <2> QED BY <2>1, <2>2
<1>2. /\ Range(Drained(m)) \subseteq Range(queue[m]) /\ Range(Undrained(m)) \subseteq Range(queue[m])
      /\ Undrained(m) \in Seq(Msg)
  BY <1>0, DrainedType, DrainSplits DEF PlaceInv, Placed
<1>3. /\ \A t \in Turns : t # m => folded'[t] = folded[t]
      /\ folded'[m] \subseteq folded[m] \cup Range(queue[m])
  BY <1>2, GatherTypes DEF Runner, Inject, BlockOnSubagents, Wake, AwaitTimeout, EndTurn,
       EndAtBudget, LongTask, CompleteGoal, Fold, FoldIn
<1>4. ASSUME NEW rest \in Seq(Msg), Range(rest) \subseteq Range(queue[m]), FinishAtBudget(m, rest)
      PROVE  /\ \A t \in Turns : Range(queue'[t]) \subseteq Range(queue[t]) \cup {t}
             /\ \A t \in continuing' : t \in continuing \/ recorded'[SessionOf[t]] # 0
  <2>1. CASE Continues(m) /\ Len(rest) < PendingMax
    <3>1. /\ m \in Msg /\ continuing' = continuing \cup {m}
          /\ \A t \in Turns : queue'[t] = IF t = m THEN Append(rest, m) ELSE queue[t]
      BY <1>0, <1>4, <2>1 DEF FinishAtBudget, Continues, Msg
    <3>2. recorded'[SessionOf[m]] # 0
      <4>1. goal[SessionOf[m]] # "none" /\ recorded' = recorded
        BY <1>4, <2>1 DEF Continues, GoalContinues, FinishAtBudget
      <4> QED BY <1>0, <4>1 DEF ReportInv
    <3>3. Range(Append(rest, m)) = Range(rest) \cup {m}
      BY <3>1, AppendRange
    <3>4. ASSUME NEW t \in Turns PROVE Range(queue'[t]) \subseteq Range(queue[t]) \cup {t}
      <4>1. CASE t = m
        <5>1. queue'[t] = Append(rest, m)
          BY <3>1, <4>1
        <5> QED BY <1>4, <3>3, <4>1, <5>1
      <4>2. CASE t # m
        BY <3>1, <4>2
      <4> QED BY <4>1, <4>2
    <3>5. \A t \in continuing' : t \in continuing \/ t = m
      BY <3>1
    <3> QED BY <3>2, <3>4, <3>5
  <2>2. CASE ~ (Continues(m) /\ Len(rest) < PendingMax)
    BY <1>0, <1>4, <2>2 DEF FinishAtBudget
  <2> QED BY <2>1, <2>2
<1>5. /\ \A t \in Turns : Range(queue'[t]) \subseteq Range(queue[t]) \cup {t}
      /\ \A t \in continuing' : t \in continuing \/ recorded'[SessionOf[t]] # 0
  <2>1. CASE FinishAtBudget(m, queue[m])
    BY <1>0, <1>4, <2>1
  <2>2. CASE FinishAtBudget(m, Undrained(m))
    BY <1>2, <1>4, <2>2
  <2>3. CASE queue' = queue /\ continuing' = continuing
    BY <2>3
  <2>4. CASE queue' = [queue EXCEPT ![m] = Undrained(m)] /\ continuing' = continuing
    BY <1>0, <1>2, <2>4
  <2>5. CASE AwaitTimeout(m)
    <3>1. queue[m] = <<>>
      BY <2>5 DEF AwaitTimeout
    <3>2. FinishAtBudget(m, <<>>) => FinishAtBudget(m, queue[m])
      BY <3>1
    <3> QED BY <2>1, <2>3, <2>5, <3>2 DEF AwaitTimeout
  <2>6. CASE EndAtBudget(m)
    BY <2>1, <2>2, <2>6 DEF EndAtBudget
  <2>7. CASE Inject(m) \/ Wake(m)
    BY <2>4, <2>7 DEF Inject, Wake, Fold
  <2>8. CASE BlockOnSubagents(m) \/ EndTurn(m) \/ LongTask(m) \/ CompleteGoal(m)
    BY <2>3, <2>8 DEF BlockOnSubagents, EndTurn, LongTask, CompleteGoal
  <2> QED BY <2>5, <2>6, <2>7, <2>8 DEF Runner
<1>6. \A t \in Turns : Automations \cap (Range(queue'[t]) \cup folded'[t]) \subseteq {t}
  BY <1>0, <1>3, <1>5
<1>7. \A a \in Automations : Told(a) => Told(a)'
  BY <1>1 DEF Told
<1> QED BY <1>0, <1>1, <1>5, <1>6, <1>7, ReportTypes, ReportSame

\* The ends of a task: the fate and what the submitter is told are decided together.
LEMMA ReportEnd ==
  ASSUME TypeInv, GoalType, PlaceInv, HoldInv, CauseInv, GatherInv, ReportInv,
         NEW m \in Turns, End(m)
  PROVE  ReportInv'
<1> USE DEF busVars, loopVars, lockVars, turnVars, goalVars, resultVars
<1>0. /\ continuing \subseteq Turns /\ queue \in [Turns -> Seq(Msg)] /\ folded \in [Turns -> SUBSET Msg]
      /\ \A t \in Turns : Automations \cap (Range(queue[t]) \cup folded[t]) \subseteq {t}
  BY GatherTypes DEF ReportInv
<1>1. /\ UNCHANGED <<goal, recorded>> /\ continuing' \subseteq continuing
      /\ \A t \in Turns : /\ queue'[t] = queue[t] \/ queue'[t] = <<>>
                          /\ folded'[t] \subseteq folded[t]
  BY <1>0 DEF End, Close, Fail, CloseDirect, AbortDirect, CancelTurn, CancelCreated, CancelWaiting, Finally
<1>2. \A t \in Turns : Automations \cap (Range(queue'[t]) \cup folded'[t]) \subseteq {t}
  BY <1>0, <1>1, NothingInEmpty
<1>3. ASSUME NEW own, NEW others, NEW result, Settle(m, own, others), Complete(m, result),
             pc[m] \in InTurn,
             \/ own = "answered" /\ result = "answered"
             \/ own \in {"failed", "dropped"} /\ result = "failed",
             NEW a \in Automations, recorded[SessionOf[a]] = 0, Told(a)
      PROVE  Told(a)'
  <2>1. a \in Msg \cup Direct /\ a \in Msg
    BY ReportTypes
  <2>2. pc[m] # "idle" /\ a \notin folded[m]
    BY <1>3, NoneMerged, GatherTypes
  <2>3. CASE a # m
    <3>1. fate'[a] = fate[a] /\ waiter'[a] = waiter[a]
      BY <1>3, <2>1, <2>2, <2>3 DEF Settle, Complete
    <3> QED BY <1>3, <3>1 DEF Told
  <2>4. CASE a = m
    <3>1. m \notin continuing
      BY <1>3, <2>4 DEF ReportInv
    <3>2. fate'[a] = own
      BY <1>3, <2>1, <2>4, <3>1 DEF Settle
    <3>3. fate[a] = "open" /\ a \in sent
      <4>1. Held(a)
        BY <2>2, <2>4, <3>1 DEF Held, Tasked, Alive
      <4> QED BY <2>1, <4>1 DEF HoldInv, Counted
    <3>4. waiter[a] = "waiting"
      <4>1. waiter[a] # "none"
        BY <3>3 DEF PlaceInv, Known
      <4> QED BY <1>3, <3>3, <4>1, ReportTypes DEF Told
    <3>5. waiter'[a] = result
      BY <1>3, <2>4, <3>4 DEF Complete
    <3> QED BY <1>3, <3>2, <3>5 DEF Told
  <2> QED BY <2>3, <2>4
<1>4. ASSUME NEW a \in Automations, recorded[SessionOf[a]] = 0, Told(a) PROVE Told(a)'
  <2>1. CASE Close(m) \/ Fail(m) \/ CancelTurn(m)
    BY <1>3, <1>4, <2>1, FollowTypes DEF Close, Fail, CancelTurn
  <2>2. CASE CloseDirect(m) \/ AbortDirect(m)
    <3>1. a # m
      BY <2>2, SetFacts DEF CloseDirect, AbortDirect
    <3> QED BY <1>4, <2>2, <3>1, ReportTypes DEF CloseDirect, AbortDirect, Told
  <2>3. CASE CancelCreated(m) \/ CancelWaiting(m)
    <3>1. waiter' = waiter /\ fate' = [fate EXCEPT ![m] = "dropped"] /\ pc[m] # "idle"
      BY <2>3 DEF CancelCreated, CancelWaiting
    <3>2. CASE a # m
      BY <1>4, <3>1, <3>2, ReportTypes DEF Told
    <3>3. CASE a = m
      <4>1. fate[a] = "open" /\ fate'[a] = "dropped"
        BY <3>1, <3>3, AliveStage, ReportTypes
      <4> QED BY <1>4, <3>1, <4>1 DEF Told
    <3> QED BY <3>2, <3>3
  <2> QED BY <1>1, <2>1, <2>2, <2>3 DEF End
<1> QED BY <1>0, <1>1, <1>2, <1>4, ReportTypes, ReportSame

LEMMA ReportStep ==
  ASSUME TypeInv, GoalType, PlaceInv, OwnInv, FollowInv, HoldInv, CauseInv, GatherInv, ReportInv,
         [Next]_vars
  PROVE  ReportInv'
<1> USE DEF busVars, loopVars, lockVars, turnVars, goalVars, resultVars
<1>1. ASSUME UNCHANGED <<goal, recorded, continuing, folded, waiter, fate>>,
             \A t \in Turns : queue'[t] = queue[t] \/ queue'[t] = <<>>
      PROVE  ReportInv'
  <2>1. \A t \in Turns : Automations \cap (Range(queue'[t]) \cup folded'[t]) \subseteq {t}
    BY <1>1, NothingInEmpty DEF ReportInv
  <2>2. \A a \in Automations : Told(a) => Told(a)'
    BY <1>1 DEF Told
  <2> QED BY <1>1, <2>1, <2>2, GatherTypes, ReportTypes, ReportSame
<1>2. ASSUME NEW m \in Turns, Acquire(m) PROVE ReportInv'
  BY <1>1, <1>2, GatherTypes DEF Acquire, Start, TakeLock, TakeGate, AskLock, HoldLock, BeginTurn
<1>3. ASSUME NEW c \in New, Command(c) PROVE ReportInv'
  BY <1>1, <1>3 DEF Command, BeginNew, EndNew
<1>4. CASE UNCHANGED vars
  BY <1>1, <1>4 DEF vars
<1> QED BY <1>2, <1>3, <1>4, ReportProduce, ReportRunLoop, ReportRunner, ReportEnd DEF Next

\* An automation turn is never merged into another turn, and its submitter is
\* told exactly what became of it, in every session that has had no goal.
THEOREM AutomationsReported == Spec => []AutomationsSeparate
<1>1. /\ TypeInv /\ GoalType /\ PlaceInv /\ OwnInv /\ FollowInv /\ (HoldInv /\ RoomInv)
      /\ CauseInv /\ GatherInv /\ ReportInv /\ [Next]_vars
      => ReportInv'
  BY ReportStep
<1>2. ReportInv => AutomationsSeparate
  BY DEF ReportInv, AutomationsSeparate, Told
<1> QED BY <1>1, <1>2, ReportInit, TypeInvariant, GoalInvariant, PlaceInvariant, OwnInvariant,
           FollowInvariant, HoldInvariant, CauseInvariant, GatherInvariant, PTL DEF Spec
=============================================================================
