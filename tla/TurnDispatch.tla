---------------------------- MODULE TurnDispatch ----------------------------
(***************************************************************************)
(* How the gateway turns inbound messages into session turns:              *)
(*                                                                         *)
(*   MessageBus.inbound  ->  AgentLoop.run  ->  task AgentLoop._dispatch   *)
(*                                                                         *)
(* The run loop consumes one message at a time.  It executes commands      *)
(* inline, defers automation turns of a busy session, routes follow-ups of *)
(* a busy session to the pending queue of the running turn, and creates a  *)
(* task for everything else.  A task takes the session lock and then the   *)
(* global concurrency gate, publishes its pending queue, runs the turn     *)
(* (folding follow-ups into it), and in its finally block hands everything *)
(* it still holds back to the bus.                                         *)
(*                                                                         *)
(* One step is the code between two suspension points of asyncio: other    *)
(* tasks, and the delivery of a cancellation, happen only between steps.   *)
(***************************************************************************)
EXTENDS Naturals, Sequences, FiniteSets, SequencesExt

CONSTANTS
  Sessions,         \* effective session keys
  Chat,             \* messages of users
  Automations,      \* cron and local-trigger turns, one run id each
  Sub,              \* results announced by subagents
  Stop,             \* "/stop", a priority command
  New,              \* "/new", an ordinary command
  Direct,           \* calls of process_direct
  SessionOf,        \* the session each of them belongs to
  Mixes,            \* bound: the sets of messages that come in one behaviour
  Approvals,        \* chats that approve a goal ("proceed")
  GoalMax,          \* bound: goals the model records in a session
  MayFail,          \* turns whose processing may raise
  GateSlots,        \* NANOBOT_MAX_CONCURRENT_REQUESTS (3)
  PendingMax,       \* maxsize of a pending queue (20)
  InjectLimit,      \* _MAX_INJECTIONS_PER_TURN (3)
  CycleMax,         \* _MAX_INJECTION_CYCLES (5)
  ContinuationMax,  \* _MAX_GOAL_CONTINUATION_ROUNDS (12)
  RunLoopYields,    \* TRUE: asyncio.wait_for suspends once even when the
                    \* queue has an item (Python 3.11); FALSE: it does not (3.12)
  None              \* no message, no task

Msg   == Chat \cup Automations \cup Sub \cup Stop \cup New
Turns == Chat \cup Automations \cup Sub \cup New \cup Direct

ASSUME SetsAssumption ==
  /\ None \notin Msg \cup Direct
  /\ Direct \cap Msg = {}
  /\ Automations \cap (Chat \cup Sub \cup Stop \cup New) = {}
  /\ Sub \cap (Chat \cup Stop \cup New) = {}
  /\ Chat \cap (Stop \cup New) = {}
  /\ Stop \cap New = {}
  /\ SessionOf \in [Msg \cup Direct -> Sessions]
  /\ Approvals \subseteq Chat
  /\ MayFail \subseteq Turns
  /\ IsFiniteSet(Msg)

ASSUME BoundsAssumption ==
  /\ GateSlots \in Nat \ {0}
  /\ PendingMax \in Nat \ {0}
  /\ InjectLimit \in Nat \ {0}
  /\ CycleMax \in Nat \ {0}
  /\ ContinuationMax \in Nat
  /\ GoalMax \in Nat
  /\ RunLoopYields \in BOOLEAN

VARIABLES
  inbound,      \* MessageBus.inbound
  sent,         \* messages their producer has put on the bus
  inline,       \* the command the run loop is executing, or None
  awaits,       \* awaits[c]: the tasks command c has cancelled
  active,       \* _active_tasks
  pc,           \* where the task of a turn is suspended
  cancelReq,    \* tasks with an undelivered Task.cancel()
  lockOwner,    \* holder of _session_locks[s]
  lockWaiters,  \* its waiters, in FIFO order
  gate,         \* tasks holding a slot of _concurrency_gate
  gateWaiters,  \* its waiters, in FIFO order
  registry,     \* _pending_queues: the task whose queue is published
  queue,        \* queue[m]: the pending queue task m created
  folded,       \* folded[m]: follow-ups injected into m's running turn
  cycles,       \* injection cycles of m's running turn
  continuing,   \* turns whose next slice has been queued
  goal,         \* the sustained goal of a session: none, active, or gated
                \* (active and waiting for the user's approval)
  recorded,     \* goals recorded in a session so far
  rounds,       \* continuation slices scheduled in a session
  silent,       \* turns that skip the final response at their budget
  deferred,     \* _deferred_automation_turns
  waiter,       \* the future submit() waits on, per automation turn
  sub,          \* life of each subagent
  fate          \* what became of each message

busVars    == <<inbound, sent, deferred>>
loopVars   == <<inline, awaits, active>>
lockVars   == <<lockOwner, lockWaiters, gate, gateWaiters>>
turnVars   == <<registry, queue, folded, cycles, continuing>>
goalVars   == <<goal, recorded, rounds, silent>>
resultVars == <<waiter, sub, fate>>
vars == <<busVars, loopVars, lockVars, turnVars, goalVars, resultVars, pc, cancelReq>>

(* pc of a task: it does not exist, has not run yet, waits for the session *)
(* lock, waits for the gate, is inside the runner, waits for a subagent in *)
(* _drain_pending, waits to queue a continuation, waits in cmd_new for the *)
(* tasks it cancelled, or is past the last drain of the turn.              *)
Holding   == {"gate", "turn", "await", "cont", "new", "closing"}
InTurn    == Holding \ {"gate"}
TaskState == Holding \cup {"idle", "created", "lock"}

Fates == {"open", "answered", "merged", "failed", "dropped"}

TypeOK ==
  /\ inbound \in Seq(Msg)
  /\ sent \subseteq Msg
  /\ inline \in Stop \cup New \cup {None}
  /\ awaits \in [Stop \cup New -> SUBSET Turns]
  /\ active \in [Sessions -> SUBSET Turns]
  /\ pc \in [Turns -> TaskState]
  /\ cancelReq \subseteq Turns
  /\ lockOwner \in [Sessions -> Turns \cup {None}]
  /\ lockWaiters \in [Sessions -> Seq(Turns)]
  /\ gate \subseteq Turns
  /\ gateWaiters \in Seq(Turns)
  /\ registry \in [Sessions -> Turns \cup {None}]
  /\ queue \in [Turns -> Seq(Msg)]
  /\ folded \in [Turns -> SUBSET Msg]
  /\ cycles \in [Turns -> 0..CycleMax]
  /\ continuing \subseteq Turns
  /\ goal \in [Sessions -> {"none", "active", "gated"}]
  /\ recorded \in [Sessions -> 0..GoalMax]
  /\ rounds \in [Sessions -> 0..ContinuationMax]
  /\ silent \subseteq Turns
  /\ deferred \in [Sessions -> Seq(Automations)]
  /\ waiter \in [Automations -> {"none", "waiting", "answered", "failed"}]
  /\ sub \in [Sub -> {"new", "running", "announced", "cancelled"}]
  /\ fate \in [Msg \cup Direct -> Fates]

Init ==
  /\ inbound = <<>>
  /\ sent = {}
  /\ inline = None
  /\ awaits = [c \in Stop \cup New |-> {}]
  /\ active = [s \in Sessions |-> {}]
  /\ pc = [m \in Turns |-> "idle"]
  /\ cancelReq = {}
  /\ lockOwner = [s \in Sessions |-> None]
  /\ lockWaiters = [s \in Sessions |-> <<>>]
  /\ gate = {}
  /\ gateWaiters = <<>>
  /\ registry = [s \in Sessions |-> None]
  /\ queue = [m \in Turns |-> <<>>]
  /\ folded = [m \in Turns |-> {}]
  /\ cycles = [m \in Turns |-> 0]
  /\ continuing = {}
  /\ goal = [s \in Sessions |-> "none"]
  /\ recorded = [s \in Sessions |-> 0]
  /\ rounds = [s \in Sessions |-> 0]
  /\ silent = {}
  /\ deferred = [s \in Sessions |-> <<>>]
  /\ waiter = [a \in Automations |-> "none"]
  /\ sub = [a \in Sub |-> "new"]
  /\ fate = [m \in Msg \cup Direct |-> "open"]

-----------------------------------------------------------------------------
(* async with lock, gate.  Both are FIFO; what is free is taken without a  *)
(* suspension.                                                             *)

\* Mutant of LockFree: only the queue of waiters is looked at.
LockSeemsFree(s) == lockWaiters[s] = <<>>

LockFree(s) == lockOwner[s] = None /\ lockWaiters[s] = <<>>
GateFree    == Cardinality(gate) < GateSlots /\ gateWaiters = <<>>

\* A goal lets a turn go on in another slice when its budget is spent.
GoalContinues(s) == goal[s] = "active" /\ rounds[s] < ContinuationMax

\* Only the task that owns the lock and a slot publishes its queue.  Whether
\* the turn may skip its final response is decided before it runs.
BeginTurn(m) ==
  /\ gate' = gate \cup {m}
  /\ registry' = [registry EXCEPT ![SessionOf[m]] = m]
  /\ queue' = [queue EXCEPT ![m] = <<>>]
  /\ pc' = [pc EXCEPT ![m] = "turn"]
  /\ silent' = IF GoalContinues(SessionOf[m]) THEN silent \cup {m} ELSE silent
  /\ UNCHANGED <<folded, cycles, continuing, goal, recorded, rounds>>

HoldLock(m) ==
  /\ lockOwner' = [lockOwner EXCEPT ![SessionOf[m]] = m]
  /\ \/ /\ m \in Direct
        /\ pc' = [pc EXCEPT ![m] = "turn"]
        /\ UNCHANGED <<gate, gateWaiters, turnVars, goalVars>>
     \/ /\ m \notin Direct /\ GateFree
        /\ BeginTurn(m)
        /\ UNCHANGED gateWaiters
     \/ /\ m \notin Direct /\ ~GateFree
        /\ pc' = [pc EXCEPT ![m] = "gate"]
        /\ gateWaiters' = Append(gateWaiters, m)
        /\ UNCHANGED <<gate, turnVars, goalVars>>

AskLock(m) ==
  \/ /\ LockFree(SessionOf[m])
     /\ HoldLock(m)
     /\ UNCHANGED lockWaiters
  \/ /\ ~LockFree(SessionOf[m])
     /\ pc' = [pc EXCEPT ![m] = "lock"]
     /\ lockWaiters' = [lockWaiters EXCEPT ![SessionOf[m]] = Append(@, m)]
     /\ UNCHANGED <<lockOwner, gate, gateWaiters, turnVars, goalVars>>

-----------------------------------------------------------------------------
(* Producers *)

MayCome(m) == \E mix \in Mixes : sent \cup {m} \subseteq mix \cup Sub

\* A channel hands a user message or a command to the bus.
Send(m) ==
  /\ m \in Chat \cup Stop \cup New
  /\ m \notin sent /\ MayCome(m)
  /\ sent' = sent \cup {m}
  /\ inbound' = Append(inbound, m)
  /\ UNCHANGED <<deferred, loopVars, lockVars, turnVars, goalVars, resultVars, pc, cancelReq>>

\* cron and local triggers submit a turn and wait for its future.
Submit(a) ==
  /\ a \in Automations
  /\ waiter[a] = "none" /\ MayCome(a)
  /\ waiter' = [waiter EXCEPT ![a] = "waiting"]
  /\ sent' = sent \cup {a}
  /\ inbound' = Append(inbound, a)
  /\ UNCHANGED <<deferred, loopVars, lockVars, turnVars, goalVars, sub, fate, pc, cancelReq>>

\* A running turn spawns a subagent of its session ...
Spawn(m, a) ==
  /\ pc[m] = "turn" /\ m \notin New \cup cancelReq
  /\ sub[a] = "new"
  /\ SessionOf[a] = SessionOf[m]
  /\ sub' = [sub EXCEPT ![a] = "running"]
  /\ UNCHANGED <<busVars, loopVars, lockVars, turnVars, goalVars, waiter, fate, pc, cancelReq>>

\* ... which later announces its result on the bus.
Announce(a) ==
  /\ sub[a] = "running"
  /\ sub' = [sub EXCEPT ![a] = "announced"]
  /\ sent' = sent \cup {a}
  /\ inbound' = Append(inbound, a)
  /\ UNCHANGED <<deferred, loopVars, lockVars, turnVars, goalVars, waiter, fate, pc, cancelReq>>

\* process_direct: no task of the run loop, no pending queue, no gate.
CallDirect(d) ==
  /\ d \in Direct
  /\ pc[d] = "idle" /\ fate[d] = "open"
  /\ AskLock(d)
  /\ UNCHANGED <<busVars, loopVars, resultVars, cancelReq>>

-----------------------------------------------------------------------------
(* The run loop *)

Running(s) == {a \in Sub : sub[a] = "running" /\ SessionOf[a] = s}

\* The run loop takes the head m of the inbound queue.  A message that says
\* so approves the goal of its session, wherever it goes then.
Consume(m) ==
  /\ inline = None
  /\ inbound # <<>>
  /\ m = Head(inbound)
  /\ RunLoopYields => \A t \in Turns : pc[t] # "created"
  /\ inbound' = Tail(inbound)
  /\ goal' = [goal EXCEPT ![SessionOf[m]] =
                IF @ = "gated" /\ m \in Approvals THEN "active" ELSE @]
  /\ UNCHANGED <<recorded, rounds, silent>>

\* Mutant of CancelActive: the tasks of every session are cancelled.
CancelEverything(c, tasks) ==
  /\ awaits' = [awaits EXCEPT ![c] = tasks]
  /\ active' = [s \in Sessions |-> {}]
  /\ cancelReq' = cancelReq \cup UNION {active[s] : s \in Sessions}

\* _cancel_active_tasks(key), up to its first await.
CancelActive(c, tasks) ==
  /\ awaits' = [awaits EXCEPT ![c] = tasks]
  /\ active' = [active EXCEPT ![SessionOf[c]] = {}]
  /\ cancelReq' = cancelReq \cup tasks

\* An approval-gated goal takes follow-ups as turns of their own.
Gated(m) == goal[SessionOf[m]] = "gated" /\ m \notin Approvals

RoutesToPending(m) == registry[SessionOf[m]] # None /\ ~Gated(m)

\* "/stop" always, and "/new" while a turn is running, execute in the run
\* loop itself, which consumes nothing until they return.
ConsumeCommand(m) ==
  /\ Consume(m)
  /\ \/ m \in Stop
     \/ m \in New /\ RoutesToPending(m)
  /\ inline' = m
  /\ CancelActive(m, active[SessionOf[m]])
  /\ UNCHANGED <<sent, deferred, lockVars, turnVars, resultVars, pc>>

ConsumeDefer(m) ==
  /\ m \in Automations
  /\ registry[SessionOf[m]] # None
  /\ Consume(m)
  /\ deferred' = [deferred EXCEPT ![SessionOf[m]] = Append(@, m)]
  /\ UNCHANGED <<sent, loopVars, lockVars, turnVars, resultVars, pc, cancelReq>>

ConsumeRoute(m) ==
  LET owner == registry[SessionOf[m]] IN
  /\ m \in Chat \cup Sub
  /\ Consume(m)
  /\ RoutesToPending(m)
  /\ Len(queue[owner]) < PendingMax
  /\ queue' = [queue EXCEPT ![owner] = Append(@, m)]
  /\ UNCHANGED <<sent, deferred, loopVars, lockVars, registry, folded, cycles,
                 continuing, resultVars, pc, cancelReq>>

\* No turn to join, or no room in its queue: a task of its own.
ConsumeCreate(m) ==
  LET s == SessionOf[m] IN
  /\ Consume(m)
  /\ m \in Turns
  /\ \/ registry[s] = None
     \/ m \notin Automations /\ Gated(m)
     \/ /\ m \in Chat \cup Sub
        /\ registry[s] # None /\ Len(queue[registry[s]]) >= PendingMax
  /\ pc' = [pc EXCEPT ![m] = "created"]
  /\ active' = [active EXCEPT ![s] = @ \cup {m}]
  /\ UNCHANGED <<sent, deferred, inline, awaits, lockVars, turnVars, resultVars, cancelReq>>

-----------------------------------------------------------------------------
(* The first steps of a task *)

Start(m) ==
  /\ pc[m] = "created" /\ m \notin cancelReq
  /\ AskLock(m)
  /\ UNCHANGED <<busVars, loopVars, resultVars, cancelReq>>

\* The first waiter finds the lock released.
TakeLock(m) ==
  LET s == SessionOf[m] IN
  /\ pc[m] = "lock" /\ m \notin cancelReq
  /\ lockOwner[s] = None
  /\ lockWaiters[s] # <<>> /\ m = Head(lockWaiters[s])
  /\ lockWaiters' = [lockWaiters EXCEPT ![s] = Tail(@)]
  /\ HoldLock(m)
  /\ UNCHANGED <<busVars, loopVars, resultVars, cancelReq>>

TakeGate(m) ==
  /\ pc[m] = "gate" /\ m \notin cancelReq
  /\ Cardinality(gate) < GateSlots
  /\ gateWaiters # <<>> /\ m = Head(gateWaiters)
  /\ gateWaiters' = Tail(gateWaiters)
  /\ BeginTurn(m)
  /\ UNCHANGED <<busVars, loopVars, lockOwner, lockWaiters, resultVars, cancelReq>>

-----------------------------------------------------------------------------
(* Inside the runner.  The commands of a turn never reach it. *)

RunnerAt(m, at) == pc[m] = at /\ m \notin New \cup cancelReq

\* _drain_pending takes what is there, at most InjectLimit messages.
Drained(m) == SubSeq(queue[m], 1, IF Len(queue[m]) < InjectLimit
                                  THEN Len(queue[m]) ELSE InjectLimit)

Undrained(m) == SubSeq(queue[m], Len(Drained(m)) + 1, Len(queue[m]))

FoldIn(m) ==
  /\ folded' = [folded EXCEPT ![m] = @ \cup Range(Drained(m))]
  /\ cycles' = [cycles EXCEPT ![m] = @ + 1]

Fold(m) ==
  /\ FoldIn(m)
  /\ queue' = [queue EXCEPT ![m] = Undrained(m)]
  /\ UNCHANGED <<registry, continuing>>

\* Mutant of Inject: without the limit on cycles.
InjectUnbounded(m) ==
  /\ RunnerAt(m, "turn") /\ m \notin Direct
  /\ queue[m] # <<>>
  /\ Fold(m)
  /\ UNCHANGED <<busVars, loopVars, lockVars, goalVars, resultVars, pc, cancelReq>>

\* A drain at one of the injection points of the runner: the turn goes on.
Inject(m) ==
  /\ RunnerAt(m, "turn") /\ m \notin Direct
  /\ cycles[m] < CycleMax
  /\ queue[m] # <<>>
  /\ Fold(m)
  /\ UNCHANGED <<busVars, loopVars, lockVars, goalVars, resultVars, pc, cancelReq>>

\* Nothing to drain, but subagents of the session are still running.
BlockOnSubagents(m) ==
  /\ RunnerAt(m, "turn") /\ m \notin Direct
  /\ cycles[m] < CycleMax
  /\ queue[m] = <<>>
  /\ Running(SessionOf[m]) # {}
  /\ pc' = [pc EXCEPT ![m] = "await"]
  /\ UNCHANGED <<busVars, loopVars, lockVars, turnVars, goalVars, resultVars, cancelReq>>

Wake(m) ==
  /\ RunnerAt(m, "await")
  /\ queue[m] # <<>>
  /\ Fold(m)
  /\ pc' = [pc EXCEPT ![m] = "turn"]
  /\ UNCHANGED <<busVars, loopVars, lockVars, goalVars, resultVars, cancelReq>>

\* The tool long_task records a goal unless one is active; it waits for an
\* approval when its text says so.  complete_goal ends it.
LongTask(m) ==
  LET s == SessionOf[m] IN
  /\ RunnerAt(m, "turn")
  /\ goal[s] = "none" /\ recorded[s] < GoalMax
  /\ \E state \in {"active", "gated"} : goal' = [goal EXCEPT ![s] = state]
  /\ recorded' = [recorded EXCEPT ![s] = @ + 1]
  /\ UNCHANGED <<busVars, loopVars, lockVars, turnVars, rounds, silent, resultVars, pc,
                 cancelReq>>

CompleteGoal(m) ==
  /\ RunnerAt(m, "turn")
  /\ goal[SessionOf[m]] # "none"
  /\ goal' = [goal EXCEPT ![SessionOf[m]] = "none"]
  /\ UNCHANGED <<busVars, loopVars, lockVars, turnVars, recorded, rounds, silent,
                 resultVars, pc, cancelReq>>

\* Another slice follows, unless the turn answers a subagent: those are
\* processed by a function of their own, which schedules none.
Continues(m) == m \in Chat \cup Automations /\ GoalContinues(SessionOf[m])

\* maybe_continue_turn: the round is counted, and the continuation goes to the
\* turn's own bounded queue (rest is what the last drain left there).  Nobody
\* takes from that queue any more, so a turn that finds it full waits until it is
\* cancelled.
FinishAtBudget(m, rest) ==
  /\ queue' = [queue EXCEPT ![m] =
                 IF Continues(m) /\ Len(rest) < PendingMax THEN Append(rest, m) ELSE rest]
  /\ rounds' = [rounds EXCEPT ![SessionOf[m]] = IF Continues(m) THEN @ + 1 ELSE @]
  /\ continuing' = IF Continues(m) /\ Len(rest) < PendingMax
                   THEN continuing \cup {m} ELSE continuing
  /\ UNCHANGED <<goal, recorded, silent>>
  /\ pc' = [pc EXCEPT ![m] = IF Continues(m) /\ Len(rest) >= PendingMax
                             THEN "cont" ELSE "closing"]

\* After 300 seconds the drain returns nothing: the turn goes on, or this was
\* its last drain and it ends.
AwaitTimeout(m) ==
  /\ RunnerAt(m, "await")
  /\ queue[m] = <<>>
  /\ \/ /\ \E next \in {"turn", "closing"} : pc' = [pc EXCEPT ![m] = next]
        /\ UNCHANGED <<queue, continuing, goalVars>>
     \/ FinishAtBudget(m, <<>>)
  /\ UNCHANGED <<busVars, loopVars, lockVars, registry, folded, cycles, resultVars, cancelReq>>

NothingToInject(m) ==
  \/ m \in Direct
  \/ cycles[m] = CycleMax
  \/ queue[m] = <<>> /\ Running(SessionOf[m]) = {}

\* The model gave its final response and the last drain found nothing.
EndTurn(m) ==
  /\ RunnerAt(m, "turn")
  /\ NothingToInject(m)
  /\ pc' = [pc EXCEPT ![m] = "closing"]
  /\ UNCHANGED <<busVars, loopVars, lockVars, turnVars, goalVars, resultVars, cancelReq>>

\* The iteration budget is spent: one more drain, and the turn ends.
EndAtBudget(m) ==
  /\ RunnerAt(m, "turn")
  /\ \/ /\ NothingToInject(m)
        /\ FinishAtBudget(m, queue[m])
        /\ UNCHANGED <<folded, cycles>>
     \/ /\ ~NothingToInject(m) /\ queue[m] # <<>>
        /\ FinishAtBudget(m, Undrained(m))
        /\ FoldIn(m)
  /\ UNCHANGED <<busVars, loopVars, lockVars, registry, resultVars, cancelReq>>

-----------------------------------------------------------------------------
(* The ends of a task *)

NextDeferred(s) == IF deferred[s] = <<>> THEN <<>> ELSE <<Head(deferred[s])>>

\* Mutants of PublishNextDeferred: nothing is handed back; what is handed back
\* stays deferred.
PublishNothing(s, before) ==
  /\ inbound' = before
  /\ UNCHANGED <<deferred, sent>>

PublishAgain(s, before) ==
  /\ inbound' = before \o NextDeferred(s)
  /\ UNCHANGED <<deferred, sent>>

\* Hand the first deferred automation turn of s back to the bus.
PublishNextDeferred(s, before) ==
  /\ inbound' = before \o NextDeferred(s)
  /\ deferred' = [deferred EXCEPT ![s] = IF @ = <<>> THEN @ ELSE Tail(@)]
  /\ UNCHANGED sent

\* What is left in the pending queue goes back to the bus.
\* Mutant of Leftovers: it is forgotten.
NoLeftovers(m) == <<>>

Leftovers(m) == queue[m]

\* The queue of m is withdrawn, if it is still the published one.
\* Mutant of Unpublish: it stays.
StayPublished(m) == UNCHANGED registry

Unpublish(m) ==
  registry' = [registry EXCEPT ![SessionOf[m]] = IF @ = m THEN None ELSE @]

\* The finally block of _dispatch and the release of lock and gate.
Finally(m) ==
  LET s == SessionOf[m] IN
  /\ PublishNextDeferred(s, inbound \o Leftovers(m))
  /\ Unpublish(m)
  /\ queue' = [queue EXCEPT ![m] = <<>>]
  /\ folded' = [folded EXCEPT ![m] = {}]
  /\ cycles' = [cycles EXCEPT ![m] = 0]
  /\ continuing' = continuing \ {m}
  /\ lockOwner' = [lockOwner EXCEPT ![s] = None]
  /\ gate' = gate \ {m}
  /\ active' = [active EXCEPT ![s] = @ \ {m}]
  /\ pc' = [pc EXCEPT ![m] = "idle"]
  /\ cancelReq' = cancelReq \ {m}
  /\ silent' = silent \ {m}
  /\ UNCHANGED <<inline, awaits, lockWaiters, gateWaiters, goal, recorded, sub>>

\* Mutant of Settle: what was injected is lost with the turn.
SettleAlone(m, own, others) ==
  fate' = [x \in Msg \cup Direct |->
             IF x = m /\ m \notin continuing THEN own
             ELSE IF x \in folded[m] THEN "dropped"
             ELSE fate[x]]

\* A turn that has queued its next slice is not over.
Settle(m, own, others) ==
  fate' = [x \in Msg \cup Direct |->
             IF x = m /\ m \notin continuing THEN own
             ELSE IF x \in folded[m] THEN others
             ELSE fate[x]]

\* Mutants of Complete: every turn counts as answered; nobody is told.
CompleteAsAnswered(m, result) ==
  waiter' = [a \in Automations |-> IF a = m /\ waiter[a] = "waiting" THEN "answered" ELSE waiter[a]]

CompleteNobody(m, result) == UNCHANGED waiter

\* AutomationTurnCoordinator.complete
Complete(m, result) ==
  waiter' = [a \in Automations |-> IF a = m /\ waiter[a] = "waiting" THEN result ELSE waiter[a]]

\* SAVE forgets the continuations of a session that has no goal any more.
\* The turns of commands and of subagents do not come by.
SaveBoundary(m) ==
  rounds' = [rounds EXCEPT ![SessionOf[m]] =
               IF m \in Sub \cup New \/ goal[SessionOf[m]] # "none" THEN @ ELSE 0]

\* SAVE comes before or after what ends the turn early.
MaybeSaved(m) == UNCHANGED rounds \/ (pc[m] = "closing" /\ SaveBoundary(m))

\* The turn is saved, its response published, its waiter answered.
Close(m) ==
  /\ pc[m] = "closing" /\ m \notin Direct \cup cancelReq
  /\ SaveBoundary(m)
  /\ Finally(m)
  /\ Settle(m, "answered", "merged")
  /\ Complete(m, "answered")

\* Processing raised: an error response, and the injected follow-ups go
\* down with the turn.
Fail(m) ==
  /\ pc[m] \in {"turn", "closing"} /\ m \in MayFail \ (Direct \cup cancelReq)
  /\ MaybeSaved(m)
  /\ Finally(m)
  /\ Settle(m, "failed", "failed")
  /\ Complete(m, "failed")

CancelTurn(m) ==
  /\ pc[m] \in InTurn /\ m \in cancelReq
  /\ MaybeSaved(m)
  /\ Finally(m)
  /\ Settle(m, "dropped", "dropped")
  /\ Complete(m, "failed")

\* Cancelled before the first step of the coroutine: no code of _dispatch runs.
CancelCreated(m) ==
  /\ pc[m] = "created" /\ m \in cancelReq
  /\ pc' = [pc EXCEPT ![m] = "idle"]
  /\ cancelReq' = cancelReq \ {m}
  /\ active' = [active EXCEPT ![SessionOf[m]] = @ \ {m}]
  /\ fate' = [fate EXCEPT ![m] = "dropped"]
  /\ UNCHANGED <<busVars, inline, awaits, lockVars, turnVars, goalVars, waiter, sub>>

\* Cancelled while waiting for the lock or the gate: the outer finally block
\* publishes a deferred turn and nobody completes the waiter.
CancelWaiting(m) ==
  LET s == SessionOf[m] IN
  /\ m \in cancelReq
  /\ \/ /\ pc[m] = "lock"
        /\ \E i \in DOMAIN lockWaiters[s] :
             /\ lockWaiters[s][i] = m
             /\ lockWaiters' = [lockWaiters EXCEPT ![s] = RemoveAt(@, i)]
        /\ UNCHANGED <<lockOwner, gateWaiters>>
     \/ /\ pc[m] = "gate"
        /\ \E i \in DOMAIN gateWaiters :
             /\ gateWaiters[i] = m
             /\ gateWaiters' = RemoveAt(gateWaiters, i)
        /\ lockOwner' = [lockOwner EXCEPT ![s] = None]
        /\ UNCHANGED lockWaiters
  /\ PublishNextDeferred(s, inbound)
  /\ pc' = [pc EXCEPT ![m] = "idle"]
  /\ cancelReq' = cancelReq \ {m}
  /\ active' = [active EXCEPT ![s] = @ \ {m}]
  /\ fate' = [fate EXCEPT ![m] = "dropped"]
  /\ UNCHANGED <<inline, awaits, gate, turnVars, goalVars, waiter, sub>>

CloseDirect(d) ==
  /\ d \in Direct /\ pc[d] = "closing"
  /\ MaybeSaved(d)
  /\ pc' = [pc EXCEPT ![d] = "idle"]
  /\ lockOwner' = [lockOwner EXCEPT ![SessionOf[d]] = None]
  /\ fate' = [fate EXCEPT ![d] = "answered"]
  /\ UNCHANGED <<busVars, loopVars, lockWaiters, gate, gateWaiters, turnVars,
                 goal, recorded, silent, waiter, sub, cancelReq>>

\* process_direct raises, or its caller gives up, as the API does after a
\* timeout (api/server.py:324).
AbortDirect(d) ==
  LET s == SessionOf[d] IN
  /\ d \in Direct
  /\ \/ /\ pc[d] = "lock"
        /\ \E i \in DOMAIN lockWaiters[s] :
             /\ lockWaiters[s][i] = d
             /\ lockWaiters' = [lockWaiters EXCEPT ![s] = RemoveAt(@, i)]
        /\ UNCHANGED <<lockOwner, rounds>>
     \/ /\ pc[d] \in {"turn", "closing"}
        /\ MaybeSaved(d)
        /\ lockOwner' = [lockOwner EXCEPT ![s] = None]
        /\ UNCHANGED lockWaiters
  /\ pc' = [pc EXCEPT ![d] = "idle"]
  /\ fate' = [fate EXCEPT ![d] = "failed"]
  /\ UNCHANGED <<busVars, loopVars, gate, gateWaiters, turnVars, goal, recorded, silent,
                 waiter, sub, cancelReq>>

-----------------------------------------------------------------------------
(* Commands *)

CancelSubagents(s) ==
  sub' = [a \in Sub |-> IF a \in Running(s) THEN "cancelled" ELSE sub[a]]

Cancelled(c) == \A t \in awaits[c] : pc[t] = "idle"

\* cmd_stop: every cancelled task has ended; what is left of a published
\* pending queue is discarded.
FinishStop(c) ==
  LET s == SessionOf[c]
      owner == registry[s]
      discarded == IF owner = None THEN {} ELSE Range(queue[owner])
  IN
  /\ inline = c /\ c \in Stop
  /\ Cancelled(c)
  /\ CancelSubagents(s)
  /\ registry' = [registry EXCEPT ![s] = None]
  /\ queue' = [m \in Turns |-> IF m = owner THEN <<>> ELSE queue[m]]
  /\ fate' = [x \in Msg \cup Direct |->
                IF x = c THEN "answered" ELSE IF x \in discarded THEN "dropped" ELSE fate[x]]
  /\ inline' = None
  /\ awaits' = [awaits EXCEPT ![c] = {}]
  /\ UNCHANGED <<busVars, active, lockVars, folded, cycles, continuing, goalVars,
                 waiter, pc, cancelReq>>

\* cmd_new in the run loop.
FinishNew(c) ==
  /\ inline = c /\ c \in New
  /\ Cancelled(c)
  /\ CancelSubagents(SessionOf[c])
  /\ fate' = [fate EXCEPT ![c] = "answered"]
  /\ inline' = None
  /\ awaits' = [awaits EXCEPT ![c] = {}]
  /\ UNCHANGED <<busVars, active, lockVars, turnVars, goalVars, waiter, pc, cancelReq>>

\* cmd_new in a task of its own cancels the other tasks of the session; the
\* cancellation of itself is swallowed when it awaits itself.
BeginNew(c) ==
  /\ pc[c] = "turn" /\ c \in New \ cancelReq
  /\ CancelActive(c, active[SessionOf[c]] \ {c})
  /\ pc' = [pc EXCEPT ![c] = "new"]
  /\ UNCHANGED <<busVars, inline, lockVars, turnVars, goalVars, resultVars>>

EndNew(c) ==
  /\ pc[c] = "new" /\ c \notin cancelReq
  /\ Cancelled(c)
  /\ CancelSubagents(SessionOf[c])
  /\ pc' = [pc EXCEPT ![c] = "closing"]
  /\ awaits' = [awaits EXCEPT ![c] = {}]
  /\ UNCHANGED <<busVars, inline, active, lockVars, turnVars, goalVars, waiter, fate, cancelReq>>

-----------------------------------------------------------------------------

Produce ==
  \/ \E m \in Chat \cup Stop \cup New : Send(m)
  \/ \E a \in Automations : Submit(a)
  \/ \E m \in Turns, a \in Sub : Spawn(m, a)
  \/ \E a \in Sub : Announce(a)
  \/ \E d \in Direct : CallDirect(d)

RunLoop ==
  \/ \E m \in Msg : ConsumeCommand(m)
  \/ \E m \in Automations : ConsumeDefer(m)
  \/ \E m \in Chat \cup Sub : ConsumeRoute(m)
  \/ \E m \in Msg : ConsumeCreate(m)
  \/ \E c \in Stop : FinishStop(c)
  \/ \E c \in New : FinishNew(c)

Acquire(m) == Start(m) \/ TakeLock(m) \/ TakeGate(m)

Runner(m) ==
  \/ Inject(m) \/ BlockOnSubagents(m) \/ Wake(m) \/ AwaitTimeout(m)
  \/ EndTurn(m) \/ EndAtBudget(m)
  \/ LongTask(m) \/ CompleteGoal(m)

End(m) ==
  \/ Close(m) \/ Fail(m) \/ CloseDirect(m) \/ AbortDirect(m)
  \/ CancelTurn(m) \/ CancelCreated(m) \/ CancelWaiting(m)

Command(c) == BeginNew(c) \/ EndNew(c)

Next ==
  \/ Produce
  \/ RunLoop
  \/ \E m \in Turns : Acquire(m) \/ Runner(m) \/ End(m)
  \/ \E c \in New : Command(c)

Spec == Init /\ [][Next]_vars

(* The event loop runs every ready task, a subagent and a model call end   *)
(* (their timeouts), and a turn reaches its last drain (max_iterations).   *)
Fairness ==
  /\ WF_vars(RunLoop)
  /\ \A a \in Sub : WF_vars(Announce(a))
  /\ \A m \in Turns :
       /\ WF_vars(Acquire(m))
       /\ WF_vars(Wake(m) \/ AwaitTimeout(m))
       /\ SF_vars(EndTurn(m) \/ EndAtBudget(m))
       /\ WF_vars(Close(m) \/ CloseDirect(m))
       /\ WF_vars(CancelTurn(m) \/ CancelCreated(m) \/ CancelWaiting(m))
  /\ \A c \in New : WF_vars(Command(c))

FairSpec == Spec /\ Fairness
-----------------------------------------------------------------------------
(* Properties *)

\* At most one turn of a session is in progress, whoever started it: the run
\* loop, a leftover, an automation or process_direct.
SerialSessions ==
  \A m, t \in Turns :
    /\ SessionOf[m] = SessionOf[t]
    /\ pc[m] \in InTurn
    /\ pc[t] \in InTurn
    => m = t

\* "Only the task that owns the session lock may publish the active mid-turn
\* injection queue for this session" (loop.py:1310): a published queue is the
\* queue of the turn in progress, which still has to clean it up.
RegistryIsOwner ==
  \A s \in Sessions : registry[s] # None =>
    /\ lockOwner[s] = registry[s]
    /\ pc[registry[s]] \in InTurn
    /\ registry[s] \in gate

\* A follow-up waits only in a queue that is published and whose turn will
\* still drain it or hand it back: leftovers are not "silently lost"
\* (loop.py:1423).
NoOrphanedFollowup ==
  \A m \in Turns : queue[m] # <<>> => pc[m] \in InTurn /\ registry[SessionOf[m]] = m

Occurrences(m, q) == Cardinality({i \in DOMAIN q : q[i] = m})
Count(b) == IF b THEN 1 ELSE 0

\* How many components are responsible for message m.  The task of a turn
\* whose next slice is queued no longer is.
Holders(m) ==
  Occurrences(m, inbound)
  + Cardinality({p \in Turns \X (1..PendingMax) :
                    p[2] <= Len(queue[p[1]]) /\ queue[p[1]][p[2]] = m})
  + Occurrences(m, deferred[SessionOf[m]])
  + Cardinality({t \in Turns : m \in folded[t]})
  + Count(m \in Turns /\ pc[m] # "idle" /\ m \notin continuing)
  + Count(inline = m)

\* No message is lost and none is handled twice: from the moment it is sent
\* until its fate is decided exactly one queue, turn or task holds it.
OneHolder ==
  \A m \in Msg : Holders(m) = Count(m \in sent /\ fate[m] = "open")

\* A message disappears unanswered only because a /stop or /new of its own
\* session has begun; a /new may have failed since.
DroppedByCommand ==
  \A m \in Msg : fate[m] = "dropped" =>
    \E c \in Stop \cup New :
      /\ SessionOf[c] = SessionOf[m]
      /\ \/ fate[c] \in {"answered", "failed"}
         \/ inline = c
         \/ c \in New /\ pc[c] \in {"new", "closing"}

\* A deferred automation turn is released at the end of some task of its
\* session, so one has to be on its way (unless /stop can cancel a task before
\* its first step, which needs a run loop that does not yield).
HasWaker(s) ==
  \/ \E m \in Turns \ Direct : SessionOf[m] = s /\ pc[m] # "idle"
  \/ \E a \in Range(inbound) : a \in Automations /\ SessionOf[a] = s

DeferredHasWaker == \A s \in Sessions : deferred[s] # <<>> => HasWaker(s)

\* Automation turns are not mixed into live injections (automation_turns.py:34)
\* and the submitter is told exactly what became of a turn that ran, in a
\* session that has had no goal (a turn that a goal continues is answered with
\* its first slice).
AutomationsSeparate ==
  /\ \A m \in Turns : Automations \cap (Range(queue[m]) \cup folded[m]) \subseteq {m}
  /\ \A a \in Automations : recorded[SessionOf[a]] = 0 =>
       /\ waiter[a] = "answered" <=> fate[a] = "answered"
       /\ waiter[a] = "failed" => fate[a] \in {"failed", "dropped"}
       /\ fate[a] = "failed" => waiter[a] = "failed"

\* The same with goals, as submit() has it: "wait for its session response"
\* (automation_turns.py:62); the submitter is told "answered" with the answer.
AutomationResponded ==
  \A a \in Automations : waiter[a] = "answered" => fate[a] = "answered"

\* A turn of the session, or one that keeps the last slot, waits for room in its
\* own full queue, which only its own end makes (turn_continuation.py:165).
Stalled(s) ==
  \E t \in Turns : pc[t] = "cont" /\ (SessionOf[t] = s \/ Cardinality(gate) = GateSlots)

\* A /stop has cancelled the task that would have released m, before its first
\* step.
Orphaned(m) ==
  /\ m \in Range(deferred[SessionOf[m]]) /\ ~HasWaker(SessionOf[m])
  /\ \E c \in Stop : SessionOf[c] = SessionOf[m] /\ fate[c] = "answered"

\* Every message that is sent is answered, merged into an answered turn,
\* failed, or dropped by a command, unless a turn waits for itself for ever or
\* /stop has orphaned the message for ever: whatever is deferred, pending, handed
\* back or continued, nothing else is left behind, also after a stall has ended.
EverythingSettles ==
  \A m \in Msg :
    \/ m \in sent ~> fate[m] # "open"
    \/ <>[](Stalled(SessionOf[m]) \/ Orphaned(m))

\* Without the exceptions: the code does not keep it.
NothingHangs ==
  \A m \in Msg : m \in sent ~> fate[m] # "open"

\* submit(): "Submit an automation turn and wait for its session response"
\* (automation_turns.py:62): the wait ends.
AutomationAnswered ==
  \A a \in Automations : waiter[a] = "waiting" ~> waiter[a] # "waiting"

\* What the code keeps of it: a submitter waits for ever only for a turn that a
\* command dropped or orphaned, or behind a turn that waits for itself for ever.
AutomationSettled ==
  \A a \in Automations :
    \/ waiter[a] = "waiting" ~> waiter[a] # "waiting" \/ fate[a] = "dropped"
    \/ <>[](Stalled(SessionOf[a]) \/ Orphaned(a))

\* "The next queued continuation slice owns the eventual user-visible
\* response" (turn_continuation.py:92): a slice that ends at its budget gets
\* its continuation queued.
ContinuationQueued ==
  \A m \in Turns : pc[m] = "cont" ~> pc[m] # "cont"

\* The same promise: a turn that skipped its final response because a slice
\* was to follow has that slice queued, or is waiting to.
SilentTurnContinues ==
  [][\A m \in silent : EndAtBudget(m) => m \in continuing' \/ pc'[m] = "cont"]_vars

\* "Reset policy bookkeeping once its owning runtime mode is inactive"
\* (turn_continuation.py:207): no new goal starts with the continuations an
\* earlier one has spent.
GoalStartsAfresh ==
  [][\A m \in Turns : LongTask(m) => rounds'[SessionOf[m]] = 0]_vars

\* cmd_stop: "Also drain pending queue" (builtin.py:180), "1 cancelled + 2
\* drained" (test_stop_pending_queue.py:35): a follow-up that was pending when
\* /stop began does not start a turn once /stop has been answered.
PendingAtStop(c) ==
  UNION {Range(queue[m]) : m \in awaits[c] \cap {registry[SessionOf[c]]}}

StopDropsPending ==
  [][\A c \in Stop : inline = c =>
       \A m \in PendingAtStop(c) : m \notin Range(inbound')]_vars

\* "Drain any remaining injections so they are appended to the conversation
\* history instead of being re-published as independent inbound messages by
\* _dispatch's finally block" (runner.py:770).
BudgetDrainsAll ==
  [][\A m \in Turns : EndAtBudget(m) => queue'[m] = <<>>]_vars

\* The refinement mapping: what each component's state says about a message.
LifeOf(w) ==
  CASE fate[w] # "open" -> fate[w]
    [] fate[w] = "open" /\ inline = w -> "executing"
    [] fate[w] = "open" /\ inline # w /\ w \in Turns /\ pc[w] \in InTurn -> "turn"
    [] fate[w] = "open" /\ (\E m \in Turns : w \in folded[m]) -> "folded"
    [] OTHER -> IF w \in sent \/ (w \in Direct /\ pc[w] # "idle") THEN "waiting" ELSE "unsent"

\* The dispatcher implements the abstract specification of session turns:
\* serial per session, every message ends with the turn it was merged into,
\* nothing disappears unless a command of its session is executing.
Abstract == INSTANCE SessionTurns
  WITH Work <- Msg \cup Direct, Commands <- Stop \cup New, Calls <- Direct,
       SessionKey <- SessionOf,
       life <- [w \in Msg \cup Direct |-> LifeOf(w)]

ImplementsSessionTurns == Abstract!AbsSpec
=============================================================================
