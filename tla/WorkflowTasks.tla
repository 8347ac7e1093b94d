---------------------------- MODULE WorkflowTasks ----------------------------
(***************************************************************************)
(* The durable tasks of WorkflowService (workflow/service.py) over its     *)
(* store (workflow/store.py): run, resume, cancel, the bounded wait of the *)
(* caller, leases, and the recovery at the start of the process.           *)
(*                                                                         *)
(* An execution is one coroutine _execute_and_persist.  A call awaits it   *)
(* shielded; when the wait times out a tracked task goes on with it.  With *)
(* sync_wait_seconds <= 0 the timeout comes at once.                       *)
(***************************************************************************)
EXTENDS Naturals, FiniteSets

CONSTANTS
  Tasks,
  Callers,       \* turns, one at a time per session, and runtime-control messages
  Executions,    \* enough places for all executions at a time
  StopIn,        \* calls ("run", "resume") in whose wait /stop may cancel the turn
  LateIn,        \* calls whose result may come between the timeout and its handler
  MaxQuestions,  \* bound on the questions a task asks
  MaxDeaths,     \* bound on the times the process ends
  None

ASSUME WorkflowAssumption ==
  /\ StopIn \subseteq {"run", "resume"} /\ LateIn \subseteq {"run", "resume"}
  /\ MaxQuestions \in Nat /\ MaxDeaths \in Nat
  /\ None \notin Callers

VARIABLES
  process,   \* "up", "stopping" after stop(), or "down"
  row,       \* per task, its state in the store and the question it waits on
  lease,     \* per task: lease_until lies in the future or not
  execs,     \* the executions of the process
  asked,     \* per task, the questions it has asked
  executed,  \* per task and question, the executions its answers started
  cut,       \* per task and question, the executions that died with the process
  deaths     \* times the process ended

histVars == <<asked, executed, cut, deaths>>
vars == <<process, row, lease, execs, histVars>>

Results   == {"COMPLETED", "FAILED", "NEEDS_ATTENTION", "WAITING_USER"}
States    == Results \cup {"RUNNING", "CANCELLED"}
Questions == 0..MaxQuestions    \* 0 before the first question
Row       == [state : States, question : Questions]
Execution == [task : Tasks, call : {"run", "resume"}, question : Questions,
              caller : Callers \cup {None},        \* who waits for it
              phase : {"running", "ended"},
              late : BOOLEAN,                      \* its wait has timed out
              tracked : BOOLEAN]                   \* it is in _tasks

ASSUME NoneAssumption == None \notin Row \cup Execution

TypeOK ==
  /\ process \in {"up", "stopping", "down"}
  /\ row \in [Tasks -> Row \cup {None}]
  /\ lease \in [Tasks -> {"live", "expired"}]
  /\ execs \in [Executions -> Execution \cup {None}]
  /\ asked \in [Tasks -> Questions]
  /\ executed \in [Tasks -> [Questions -> Nat]]
  /\ cut \in [Tasks -> [Questions -> Nat]]
  /\ deaths \in 0..MaxDeaths

Zero == [t \in Tasks |-> [q \in Questions |-> 0]]

Init ==
  /\ process = "down"
  /\ row = [t \in Tasks |-> None]
  /\ lease = [t \in Tasks |-> "expired"]
  /\ execs = [e \in Executions |-> None]
  /\ asked = [t \in Tasks |-> 0]
  /\ executed = Zero /\ cut = Zero /\ deaths = 0

IsRunning(t) == row[t] # None /\ row[t].state = "RUNNING"
Live        == {e \in Executions : execs[e] # None}
Running(t)  == {e \in Live : execs[e].task = t /\ execs[e].phase = "running"}
Free(c)     == process = "up" /\ \A e \in Live : execs[e].caller # c
Upsert(t, state, question) == [row EXCEPT ![t] = [state |-> state, question |-> question]]

-----------------------------------------------------------------------------
(* The calls of a turn, or of a runtime-control message *)

Begin(c, t, call, question) ==
  \E e \in Executions \ Live :
    execs' = [execs EXCEPT ![e] =
      [task |-> t, call |-> call, question |-> question, caller |-> c,
       phase |-> "running", late |-> FALSE, tracked |-> FALSE]]

Run(c, t) ==
  /\ Free(c) /\ row[t] = None
  /\ row' = Upsert(t, "RUNNING", 0)
  /\ lease' = [lease EXCEPT ![t] = "live"]
  /\ Begin(c, t, "run", 0)
  /\ UNCHANGED <<process, histVars>>

Resumable(t) == row[t] # None /\ row[t].state = "WAITING_USER"

\* The row still says WAITING_USER while the caller waits.
Resume(c, t) ==
  /\ Free(c) /\ Resumable(t)
  /\ Begin(c, t, "resume", row[t].question)
  /\ executed' = [executed EXCEPT ![t][row[t].question] = @ + 1]
  /\ UNCHANGED <<process, row, lease, asked, cut, deaths>>

\* A required tool, or the step after the wait, is missing.
ResumeRefused(c, t) ==
  /\ Free(c) /\ Resumable(t)
  /\ row' = Upsert(t, "NEEDS_ATTENTION", 0)
  /\ UNCHANGED <<process, lease, execs, histVars>>

\* Whatever the state; an execution of the task goes on.
Cancel(c, t) ==
  /\ Free(c) /\ row[t] # None
  /\ row' = Upsert(t, "CANCELLED", 0)
  /\ UNCHANGED <<process, lease, execs, histVars>>

-----------------------------------------------------------------------------
(* Executions and waits *)

\* A caller that still waits gets the result; one whose wait has timed out
\* has its handler to run.
Ended(e) == IF execs[e].late THEN [execs EXCEPT ![e].phase = "ended"] ELSE [execs EXCEPT ![e] = None]

\* _execute_and_persist, without a look at the row.
Finish(e) ==
  /\ execs[e] # None /\ execs[e].phase = "running"
  /\ LET t == execs[e].task IN
     \E state \in Results :
       /\ state = "WAITING_USER" => asked[t] < MaxQuestions
       /\ asked' = IF state = "WAITING_USER" THEN [asked EXCEPT ![t] = @ + 1] ELSE asked
       /\ row' = Upsert(t, state, IF state = "WAITING_USER" THEN asked[t] + 1 ELSE 0)
  /\ execs' = Ended(e)
  /\ UNCHANGED <<process, lease, executed, cut, deaths>>

\* wait_for gives up: the shield is cancelled, and the caller's task is woken.
WaitTimesOut(e) ==
  /\ execs[e] # None /\ execs[e].caller # None /\ ~execs[e].late
  /\ execs[e].call \in LateIn
  /\ execs' = [execs EXCEPT ![e].late = TRUE]
  /\ UNCHANGED <<process, row, lease, histVars>>

\* Mutant of GoesOn: the handler starts the execution over.
GoesOnAnew(e) ==
  IF execs[e].phase = "ended" THEN [execs EXCEPT ![e] = None]
  ELSE [execs EXCEPT ![e].caller = None, ![e].late = FALSE,
                     ![CHOOSE f \in Executions \ Live : TRUE] =
                        [execs[e] EXCEPT !.caller = None, !.late = FALSE, !.tracked = TRUE]]

\* Mutant of GoesOn: without the shield, the timeout cancels the execution.
GoesOnUnshielded(e) == [execs EXCEPT ![e] = None]

\* A tracked task goes on with the same coroutine.
GoesOn(e) ==
  IF execs[e].phase = "ended" THEN [execs EXCEPT ![e] = None]
  ELSE [execs EXCEPT ![e].caller = None, ![e].late = FALSE, ![e].tracked = TRUE]

\* Only the handler of resume writes the row.
Noted(e) == IF execs[e].call = "resume" THEN Upsert(execs[e].task, "RUNNING", 0) ELSE row

\* The except clause.
HandleTimeout(e) ==
  /\ execs[e] # None /\ execs[e].caller # None
  /\ execs[e].late \/ execs[e].call \notin LateIn
  /\ execs' = GoesOn(e)
  /\ row' = Noted(e)
  /\ lease' = IF execs[e].call = "resume" THEN [lease EXCEPT ![execs[e].task] = "live"] ELSE lease
  /\ UNCHANGED <<process, histVars>>

\* /stop cancels the turn in its wait; the shielded execution goes on.
StopTurn(e) ==
  /\ execs[e] # None /\ execs[e].caller # None /\ ~execs[e].late
  /\ execs[e].call \in StopIn
  /\ execs' = [execs EXCEPT ![e].caller = None]
  /\ UNCHANGED <<process, row, lease, histVars>>

-----------------------------------------------------------------------------
(* The process *)

\* Executions that end without a result.
Kill(es) ==
  /\ execs' = [e \in Executions |-> IF e \in es THEN None ELSE execs[e]]
  /\ cut' = [t \in Tasks |-> [q \in Questions |->
               cut[t][q] + Cardinality({e \in es \cap Running(t) : execs[e].question = q})]]

\* stop() cancels the tracked tasks and writes nothing.
Stop ==
  /\ process = "up" /\ process' = "stopping"
  /\ Kill({e \in Live : execs[e].tracked})
  /\ UNCHANGED <<row, lease, asked, executed, deaths>>

\* The process ends, after stop() or by a crash.
Die ==
  /\ process # "down" /\ process' = "down"
  /\ deaths < MaxDeaths /\ deaths' = deaths + 1
  /\ Kill(Live)
  /\ UNCHANGED <<row, lease, asked, executed>>

\* 300 s after the lease was set, which is never renewed.
LeaseExpires(t) ==
  /\ lease[t] = "live"
  /\ lease' = [lease EXCEPT ![t] = "expired"]
  /\ UNCHANGED <<process, row, execs, histVars>>

\* _recover_expired_leases
Abandoned(t) == IsRunning(t) /\ lease[t] = "expired"

Start ==
  /\ process = "down" /\ process' = "up"
  /\ row' = [t \in Tasks |-> IF Abandoned(t) THEN [row[t] EXCEPT !.state = "NEEDS_ATTENTION"] ELSE row[t]]
  /\ UNCHANGED <<lease, execs, histVars>>

-----------------------------------------------------------------------------

Call(c, t) == Run(c, t) \/ Resume(c, t) \/ ResumeRefused(c, t) \/ Cancel(c, t)

Next ==
  \/ \E c \in Callers, t \in Tasks : Call(c, t)
  \/ \E e \in Executions : Finish(e) \/ WaitTimesOut(e) \/ HandleTimeout(e) \/ StopTurn(e)
  \/ \E t \in Tasks : LeaseExpires(t)
  \/ Stop \/ Die \/ Start

Spec == Init /\ [][Next]_vars

(* The model and the tools answer, so an execution ends, and the event loop *)
(* runs the handler of a timeout.                                           *)
FairSpec == Spec /\ \A e \in Executions : WF_vars(Finish(e)) /\ WF_vars(HandleTimeout(e))

-----------------------------------------------------------------------------
(* Properties *)

\* "automatically replaying from the last persisted input could duplicate side
\* effects" (service.py:74): a task has one execution at a time, through
\* timeouts, cancellation and restarts.
OneExecution == \A t \in Tasks : Cardinality(Running(t)) <= 1

\* "could duplicate side effects" (service.py:74) of answers: those to a question
\* start one execution, and another only after the process died in the one
\* before.  The code does not keep it: with two callers, or /stop in resume, an
\* answer meets a row that still says WAITING_USER.
AnsweredOnce ==
  \A t \in Tasks, q \in Questions : executed[t][q] <= 1 + cut[t][q]

\* A task that is RUNNING gets a result, unless the process died in it.
RunningResolves ==
  \A t \in Tasks :
    IsRunning(t) ~> ~IsRunning(t) \/ \E q \in Questions : cut[t][q] > 0

\* "mark abandoned RUNNING tasks for attention" (service.py:70): after a
\* restart no task is RUNNING that nothing runs.
AbandonedSurfaces ==
  \A t \in Tasks :
    process = "up" /\ IsRunning(t) => Running(t) # {}

\* cancel() "workflow task cancelled" (service.py:352): it stays cancelled.
CancelledStays ==
  [][\A t \in Tasks : row[t] # None /\ row[t].state = "CANCELLED" => row'[t] = row[t]]_vars
=============================================================================
