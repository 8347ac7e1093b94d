-------------------------- MODULE WorkflowTasksProofs --------------------------
(***************************************************************************)
(* A task has one execution at a time, for any number of tasks,            *)
(* executions, questions and deaths of the process, when the calls of a    *)
(* task come from one caller and /stop cannot cancel a turn that waits in  *)
(* resume.                                                                 *)
(*                                                                         *)
(*   ExecInv   who waits for an execution, and what the row of its task    *)
(*             says while it runs                                          *)
(***************************************************************************)
EXTENDS WorkflowTasks, FiniteSetTheorems, TLAPS

\* Two callers can both find the row WAITING_USER, and a turn that is stopped
\* in resume leaves it so while its execution goes on.
Sequential ==
  /\ \A c, d \in Callers : c = d
  /\ "resume" \notin StopIn

Waiting(t)    == row[t] # None /\ row[t].state = "WAITING_USER"
IsExec(e, t)  == execs[e] # None /\ execs[e].task = t /\ execs[e].phase = "running"

ExecOK(e) ==
  execs[e] # None =>
    /\ execs[e].phase = "ended" => execs[e].late
    /\ execs[e].late => execs[e].caller # None
    /\ execs[e].tracked => execs[e].caller = None
    /\ row[execs[e].task] # None
    /\ execs[e].phase = "running" /\ Waiting(execs[e].task)
         => execs[e].call = "resume" /\ execs[e].caller # None

ExecInv ==
  /\ \A t \in Tasks : \A e, f \in Executions : IsExec(e, t) /\ IsExec(f, t) => e = f
  /\ \A e \in Executions : ExecOK(e)

Inv == TypeOK /\ ExecInv

-----------------------------------------------------------------------------

\* The one caller is free only when nobody waits.
LEMMA NobodyWaits ==
  ASSUME Sequential, TypeOK, NEW c \in Callers, Free(c), NEW e \in Executions, execs[e] # None
  PROVE  execs[e].caller = None
BY DEF Sequential, TypeOK, Free, Live, Execution

\* So nothing runs for a task that waits for its user.
LEMMA NothingRuns ==
  ASSUME Sequential, TypeOK, ExecInv, NEW c \in Callers, Free(c), NEW t \in Tasks, Waiting(t),
         NEW e \in Executions
  PROVE  ~IsExec(e, t)
BY NobodyWaits DEF ExecInv, ExecOK, IsExec

\* No task and no execution at first.
LEMMA InitInv == Init => Inv
<1> SUFFICES ASSUME Init PROVE Inv
  OBVIOUS
<1>1. TypeOK
  BY WorkflowAssumption DEF Init, TypeOK, Zero, Questions
<1>2. ExecInv
  BY DEF Init, ExecInv, ExecOK, IsExec
<1> QED BY <1>1, <1>2 DEF Inv

-----------------------------------------------------------------------------
(* The calls *)

\* A new task starts its first execution.
LEMMA RunInv ==
  ASSUME Sequential, Inv, NEW c \in Callers, NEW t \in Tasks, Run(c, t) PROVE Inv'
<1> USE DEF Inv
<1>1. PICK e \in Executions \ Live :
        execs' = [execs EXCEPT ![e] =
          [task |-> t, call |-> "run", question |-> 0, caller |-> c,
           phase |-> "running", late |-> FALSE, tracked |-> FALSE]]
  BY DEF Run, Begin
<1>2. /\ row[t] = None /\ row' = [row EXCEPT ![t] = [state |-> "RUNNING", question |-> 0]]
      /\ lease' = [lease EXCEPT ![t] = "live"]
      /\ UNCHANGED <<process, asked, executed, cut, deaths>>
  BY DEF Run, Upsert, histVars
<1>3. execs[e] = None /\ c # None /\ 0 \in Questions /\ row'[t] # None
  BY <1>2, WorkflowAssumption, NoneAssumption DEF TypeOK, Live, Questions, Row, States
<1>4. TypeOK'
  BY <1>1, <1>2, <1>3 DEF TypeOK, Row, States, Execution
<1>5. \A f \in Executions : ~IsExec(f, t)
  BY <1>2 DEF ExecInv, ExecOK, IsExec
<1>6. ExecInv'
  <2>1. \A u \in Tasks : \A f, g \in Executions : IsExec(f, u)' /\ IsExec(g, u)' => f = g
    BY <1>1, <1>5 DEF TypeOK, ExecInv, IsExec
  <2>2. ASSUME NEW f \in Executions, execs'[f] # None PROVE ExecOK(f)'
    <3>1. CASE f = e
      BY <1>1, <1>2, <1>3, <3>1 DEF TypeOK, ExecOK, Waiting
    <3>2. CASE f # e
      <4>1. execs'[f] = execs[f] /\ execs[f] # None /\ execs[f].task \in Tasks
        BY <1>1, <2>2, <3>2 DEF TypeOK, Execution
      <4>2. execs[f].task # t
        BY <1>2, <4>1 DEF ExecInv, ExecOK
      <4>3. row'[execs[f].task] = row[execs[f].task]
        BY <1>2, <4>1, <4>2 DEF TypeOK
      <4> QED BY <4>1, <4>3 DEF ExecInv, ExecOK, Waiting
    <3> QED BY <3>1, <3>2
  <2> QED BY <2>1, <2>2 DEF ExecInv, ExecOK
<1> QED BY <1>4, <1>6

\* An answer starts an execution of a task for which nothing runs.
LEMMA ResumeInv ==
  ASSUME Sequential, Inv, NEW c \in Callers, NEW t \in Tasks, Resume(c, t) PROVE Inv'
<1> USE DEF Inv
<1> DEFINE q == row[t].question
<1>1. PICK e \in Executions \ Live :
        execs' = [execs EXCEPT ![e] =
          [task |-> t, call |-> "resume", question |-> q, caller |-> c,
           phase |-> "running", late |-> FALSE, tracked |-> FALSE]]
  BY DEF Resume, Begin
<1>2. /\ row[t] # None /\ Waiting(t) /\ q \in Questions
      /\ executed' = [executed EXCEPT ![t][q] = @ + 1]
      /\ UNCHANGED <<process, row, lease, asked, cut, deaths>>
  BY DEF Resume, Resumable, Waiting, TypeOK, Row
<1>3. execs[e] = None /\ c # None
  BY WorkflowAssumption DEF Live
<1>4. execs'[e] # None /\ execs'[e] =
         [task |-> t, call |-> "resume", question |-> q, caller |-> c,
          phase |-> "running", late |-> FALSE, tracked |-> FALSE]
  <2> DEFINE x == [task |-> t, call |-> "resume", question |-> q, caller |-> c,
                   phase |-> "running", late |-> FALSE, tracked |-> FALSE]
  <2> HIDE DEF q
  <2>1. x \in Execution
    BY <1>2 DEF Execution
  <2>2. execs'[e] = x
    BY <1>1 DEF TypeOK
  <2> QED BY <2>1, <2>2, NoneAssumption
<1>5. \A f \in Executions : ~IsExec(f, t)
  BY <1>2, NothingRuns DEF Resume
<1>6. executed[t][q] \in Nat
  BY <1>2 DEF TypeOK
<1> HIDE DEF q
<1>7. TypeOK'
  <2>1. execs' \in [Executions -> Execution \cup {None}]
    BY <1>1, <1>2 DEF TypeOK, Execution
  <2>2. executed' \in [Tasks -> [Questions -> Nat]]
    BY <1>2, <1>6 DEF TypeOK
  <2> QED BY <1>2, <2>1, <2>2 DEF TypeOK
<1>8. ExecInv'
  <2>1. \A u \in Tasks : \A f, g \in Executions : IsExec(f, u)' /\ IsExec(g, u)' => f = g
    BY <1>1, <1>4, <1>5 DEF TypeOK, ExecInv, IsExec
  <2>2. ASSUME NEW f \in Executions PROVE ExecOK(f)'
    <3>1. CASE f = e
      BY <1>2, <1>3, <1>4, <3>1 DEF ExecOK, Waiting
    <3>2. CASE f # e
      BY <1>1, <1>2, <3>2 DEF TypeOK, ExecInv, ExecOK, Waiting
    <3> QED BY <3>1, <3>2
  <2> QED BY <2>1, <2>2 DEF ExecInv
<1> QED BY <1>7, <1>8

-----------------------------------------------------------------------------
(* What most steps keep *)

\* Rows are overwritten, and no task waits for its user that did not before.
LEMMA RowsKept ==
  ASSUME TypeOK, ExecInv, UNCHANGED execs,
         \A t \in Tasks : row[t] # None => row'[t] # None,
         \A t \in Tasks : Waiting(t)' => row'[t] = row[t]
  PROVE  ExecInv'
<1>1. \A t \in Tasks, e \in Executions : IsExec(e, t)' <=> IsExec(e, t)
  BY DEF IsExec
<1>2. ASSUME NEW e \in Executions PROVE ExecOK(e)'
  <2>1. execs[e] # None => execs[e].task \in Tasks
    BY DEF TypeOK, Execution
  <2> QED BY <2>1 DEF ExecInv, ExecOK, Waiting
<1> QED BY <1>1, <1>2 DEF ExecInv

\* A row that is written is a row, and says what was written.
LEMMA UpsertFacts ==
  ASSUME TypeOK, NEW t \in Tasks, NEW state \in States, NEW q \in Questions,
         row' = Upsert(t, state, q)
  PROVE  /\ row' \in [Tasks -> Row \cup {None}]
         /\ row'[t] # None /\ row'[t].state = state /\ row'[t].question = q
         /\ \A u \in Tasks : u # t => row'[u] = row[u]
<1>1. [state |-> state, question |-> q] \in Row
  BY DEF Row
<1>2. row'[t] = [state |-> state, question |-> q] /\ \A u \in Tasks : u # t => row'[u] = row[u]
  BY DEF TypeOK, Upsert
<1>3. row' \in [Tasks -> Row \cup {None}]
  BY <1>1 DEF TypeOK, Upsert
<1> QED BY <1>1, <1>2, <1>3, NoneAssumption

\* A refused answer and a cancel() change the row only.
LEMMA ResumeRefusedInv ==
  ASSUME Inv, NEW c \in Callers, NEW t \in Tasks, ResumeRefused(c, t) PROVE Inv'
<1> USE DEF Inv, ResumeRefused, histVars
<1>1. "NEEDS_ATTENTION" \in States \ {"WAITING_USER"} /\ 0 \in Questions
  BY WorkflowAssumption DEF States, Results, Questions
<1>2. /\ row' \in [Tasks -> Row \cup {None}]
      /\ row'[t] # None /\ row'[t].state = "NEEDS_ATTENTION"
      /\ \A u \in Tasks : u # t => row'[u] = row[u]
  BY <1>1, UpsertFacts
<1>3. TypeOK'
  BY <1>2 DEF TypeOK
<1>4. \A u \in Tasks : (row[u] # None => row'[u] # None) /\ (Waiting(u)' => row'[u] = row[u])
  BY <1>2 DEF Waiting
<1> QED BY <1>3, <1>4, RowsKept

LEMMA CancelInv ==
  ASSUME Inv, NEW c \in Callers, NEW t \in Tasks, Cancel(c, t) PROVE Inv'
<1> USE DEF Inv, Cancel, histVars
<1>1. "CANCELLED" \in States \ {"WAITING_USER"} /\ 0 \in Questions
  BY WorkflowAssumption DEF States, Results, Questions
<1>2. /\ row' \in [Tasks -> Row \cup {None}]
      /\ row'[t] # None /\ row'[t].state = "CANCELLED"
      /\ \A u \in Tasks : u # t => row'[u] = row[u]
  BY <1>1, UpsertFacts
<1>3. TypeOK'
  BY <1>2 DEF TypeOK
<1>4. \A u \in Tasks : (row[u] # None => row'[u] # None) /\ (Waiting(u)' => row'[u] = row[u])
  BY <1>2 DEF Waiting
<1> QED BY <1>3, <1>4, RowsKept

\* Leases and recovery change no task that waits for its user.
LEMMA LeaseExpiresInv == ASSUME Inv, NEW t \in Tasks, LeaseExpires(t) PROVE Inv'
<1> USE DEF Inv, LeaseExpires, histVars
<1>1. TypeOK'
  BY DEF TypeOK
<1> QED BY <1>1, RowsKept

LEMMA StartInv == ASSUME Inv, Start PROVE Inv'
<1> USE DEF Inv, Start, histVars
<1>1. \A t \in Tasks : row[t] # None => row[t] \in Row /\ [row[t] EXCEPT !.state = "NEEDS_ATTENTION"] \in Row
  <2> SUFFICES ASSUME NEW t \in Tasks, row[t] # None
               PROVE  row[t] \in Row /\ [row[t] EXCEPT !.state = "NEEDS_ATTENTION"] \in Row
    OBVIOUS
  <2>1. row[t] \in Row
    BY DEF TypeOK
  <2>2. ASSUME NEW r \in Row PROVE [r EXCEPT !.state = "NEEDS_ATTENTION"] \in Row
    BY DEF Row, States, Results
  <2> QED BY <2>1, <2>2
<1>2. \A t \in Tasks :
        \/ row'[t] = row[t]
        \/ row[t] # None /\ row'[t] = [row[t] EXCEPT !.state = "NEEDS_ATTENTION"]
  BY DEF Abandoned, IsRunning
<1>3. TypeOK'
  BY <1>1, <1>2 DEF TypeOK
<1>4. \A t \in Tasks : (row[t] # None => row'[t] # None) /\ (Waiting(t)' => row'[t] = row[t])
  BY <1>1, <1>2, NoneAssumption DEF Waiting, Row
<1> QED BY <1>3, <1>4, RowsKept

-----------------------------------------------------------------------------
(* Executions and waits *)

\* An execution ends, for its caller or for the handler of its timeout.
LEMMA EndedFacts ==
  ASSUME TypeOK, NEW e \in Executions, execs[e] # None, execs' = Ended(e)
  PROVE  /\ execs' \in [Executions -> Execution \cup {None}]
         /\ \A f \in Executions \ {e} : execs'[f] = execs[f]
         /\ \/ execs'[e] = None
            \/ /\ execs[e].late /\ execs'[e] # None /\ execs'[e].phase = "ended"
               /\ execs'[e].task = execs[e].task /\ execs'[e].caller = execs[e].caller
               /\ execs'[e].late = execs[e].late /\ execs'[e].tracked = execs[e].tracked
<1>1. execs[e] \in Execution
  BY DEF TypeOK
<1>2. ASSUME NEW x \in Execution
      PROVE  LET y == [x EXCEPT !.phase = "ended"] IN
             /\ y \in Execution /\ y.phase = "ended" /\ y.task = x.task /\ y.caller = x.caller
             /\ y.late = x.late /\ y.tracked = x.tracked
  BY DEF Execution
<1>3. CASE execs[e].late
  <2>1. execs' = [execs EXCEPT ![e] = [execs[e] EXCEPT !.phase = "ended"]]
    BY <1>3 DEF Ended
  <2>2. execs'[e] = [execs[e] EXCEPT !.phase = "ended"]
    BY <2>1 DEF TypeOK
  <2>3. execs' \in [Executions -> Execution \cup {None}] /\ \A f \in Executions \ {e} : execs'[f] = execs[f]
    BY <1>1, <1>2, <2>1 DEF TypeOK
  <2>4. execs'[e] # None
    BY <1>1, <1>2, <2>2, NoneAssumption
  <2>5. LET y == execs'[e] IN
        /\ y.phase = "ended" /\ y.task = execs[e].task /\ y.caller = execs[e].caller
        /\ y.late = execs[e].late /\ y.tracked = execs[e].tracked
    BY <1>1, <1>2, <2>2
  <2> QED BY <1>3, <2>3, <2>4, <2>5
<1>4. CASE ~execs[e].late
  BY <1>4 DEF Ended, TypeOK
<1> QED BY <1>3, <1>4

\* An execution ends and writes its result over the row, whatever it says.
LEMMA FinishInv == ASSUME Inv, NEW e \in Executions, Finish(e) PROVE Inv'
<1> USE DEF Inv
<1> DEFINE t == execs[e].task
<1>1. /\ execs[e] # None /\ execs[e].phase = "running" /\ execs' = Ended(e)
      /\ UNCHANGED <<process, lease, executed, cut, deaths>>
      /\ t \in Tasks /\ IsExec(e, t)
  BY DEF Finish, TypeOK, Execution, IsExec
<1>2. PICK state \in Results :
        /\ state = "WAITING_USER" => asked[t] < MaxQuestions
        /\ asked' = IF state = "WAITING_USER" THEN [asked EXCEPT ![t] = @ + 1] ELSE asked
        /\ row' = Upsert(t, state, IF state = "WAITING_USER" THEN asked[t] + 1 ELSE 0)
  BY DEF Finish
<1> HIDE DEF t
<1>3. /\ asked[t] \in Nat /\ state \in States
      /\ (IF state = "WAITING_USER" THEN asked[t] + 1 ELSE 0) \in Questions
  BY <1>1, <1>2, WorkflowAssumption DEF TypeOK, Questions, States
<1>4. /\ row' \in [Tasks -> Row \cup {None}] /\ row'[t] # None
      /\ row'[t].state = state
      /\ row'[t].question = IF state = "WAITING_USER" THEN asked[t] + 1 ELSE 0
      /\ \A u \in Tasks : u # t => row'[u] = row[u]
  BY <1>1, <1>2, <1>3, UpsertFacts
<1>5. /\ execs' \in [Executions -> Execution \cup {None}]
      /\ \A f \in Executions \ {e} : execs'[f] = execs[f]
      /\ \/ execs'[e] = None
         \/ /\ execs[e].late /\ execs'[e] # None /\ execs'[e].phase = "ended"
            /\ execs'[e].task = t /\ execs'[e].caller = execs[e].caller
            /\ execs'[e].late = execs[e].late /\ execs'[e].tracked = execs[e].tracked
  BY <1>1, EndedFacts DEF t
<1>6. asked' \in [Tasks -> Questions]
  BY <1>1, <1>2, <1>3 DEF TypeOK
<1>7. TypeOK'
  BY <1>1, <1>4, <1>5, <1>6 DEF TypeOK
<1>8. \A u \in Tasks, f \in Executions : IsExec(f, u)' => f # e /\ IsExec(f, u)
  BY <1>5 DEF IsExec
<1>9. ExecInv'
  <2>1. ASSUME NEW f \in Executions PROVE ExecOK(f)'
    <3>1. CASE f = e
      BY <1>1, <1>4, <1>5, <3>1 DEF ExecInv, ExecOK
    <3>2. CASE f # e
      <4>1. execs'[f] = execs[f] /\ (execs[f] # None => execs[f].task \in Tasks)
        BY <1>5, <3>2 DEF TypeOK, Execution
      <4>2. CASE execs[f] # None /\ execs[f].task = t
        <5>1. execs[f].phase # "running"
          BY <1>1, <3>2, <4>2 DEF ExecInv, IsExec
        <5> QED BY <1>4, <4>1, <4>2, <5>1 DEF ExecInv, ExecOK
      <4>3. CASE execs[f] # None /\ execs[f].task # t
        BY <1>4, <4>1, <4>3 DEF ExecInv, ExecOK, Waiting
      <4> QED BY <4>1, <4>2, <4>3 DEF ExecOK
    <3> QED BY <3>1, <3>2
  <2> QED BY <1>8, <2>1 DEF ExecInv
<1> QED BY <1>7, <1>9

\* A step that changes flags of one execution, or removes one that has ended,
\* and whose task waits for its user only if it did before.
LEMMA FlagsChange ==
  ASSUME TypeOK, ExecInv,
         NEW e \in Executions, execs[e] # None,
         \A f \in Executions \ {e} : execs'[f] = execs[f],
         \/ execs'[e] = None /\ execs[e].phase = "ended"
         \/ /\ execs'[e] # None /\ execs'[e].phase = execs[e].phase
            /\ execs'[e].task = execs[e].task,
         \A t \in Tasks : row[t] # None => row'[t] # None,
         \A t \in Tasks : Waiting(t)' => row'[t] = row[t],
         ExecOK(e)'
  PROVE  ExecInv'
<1>1. \A t \in Tasks, f \in Executions : IsExec(f, t)' <=> IsExec(f, t)
  BY DEF IsExec
<1>2. ASSUME NEW f \in Executions, f # e PROVE ExecOK(f)'
  <2>1. execs'[f] = execs[f] /\ (execs[f] # None => execs[f].task \in Tasks)
    BY <1>2 DEF TypeOK, Execution
  <2> QED BY <2>1 DEF ExecInv, ExecOK, Waiting
<1> QED BY <1>1, <1>2 DEF ExecInv

\* A caller leaves an execution behind, by its timeout or by /stop.
LEMMA WaitTimesOutInv == ASSUME Inv, NEW e \in Executions, WaitTimesOut(e) PROVE Inv'
<1> USE DEF Inv, WaitTimesOut, histVars
<1>1. execs[e] \in Execution
  BY DEF TypeOK
<1>2. ASSUME NEW x \in Execution
      PROVE  LET y == [x EXCEPT !.late = TRUE] IN
             /\ y \in Execution /\ y.phase = x.phase /\ y.task = x.task /\ y.caller = x.caller
             /\ y.late = TRUE /\ y.tracked = x.tracked /\ y.call = x.call
  BY DEF Execution
<1>3. execs'[e] = [execs[e] EXCEPT !.late = TRUE] /\ \A f \in Executions \ {e} : execs'[f] = execs[f]
  BY DEF TypeOK
<1>4. TypeOK'
  BY <1>1, <1>2 DEF TypeOK
<1>5. ExecOK(e)'
  BY <1>1, <1>2, <1>3 DEF ExecInv, ExecOK, Waiting
<1>6. execs'[e] # None
  BY <1>1, <1>2, <1>3, NoneAssumption
<1> QED BY <1>1, <1>2, <1>3, <1>4, <1>5, <1>6, FlagsChange

LEMMA StopTurnInv ==
  ASSUME Sequential, Inv, NEW e \in Executions, StopTurn(e) PROVE Inv'
<1> USE DEF Inv, StopTurn, histVars
<1>1. execs[e] \in Execution
  BY DEF TypeOK
<1>2. ASSUME NEW x \in Execution
      PROVE  LET y == [x EXCEPT !.caller = None] IN
             /\ y \in Execution /\ y.phase = x.phase /\ y.task = x.task /\ y.caller = None
             /\ y.late = x.late /\ y.tracked = x.tracked /\ y.call = x.call
  BY DEF Execution
<1>3. execs'[e] = [execs[e] EXCEPT !.caller = None] /\ \A f \in Executions \ {e} : execs'[f] = execs[f]
  BY DEF TypeOK
<1>4. TypeOK'
  BY <1>1, <1>2 DEF TypeOK
<1>5. ExecOK(e) /\ execs[e].call # "resume" /\ execs[e].phase = "running"
  BY <1>1 DEF ExecInv, ExecOK, Sequential, Execution
<1>6. ExecOK(e)'
  BY <1>1, <1>2, <1>3, <1>5 DEF ExecOK, Waiting
<1>7. execs'[e] # None
  BY <1>1, <1>2, <1>3, NoneAssumption
<1> QED BY <1>1, <1>2, <1>3, <1>4, <1>6, <1>7, FlagsChange

\* The handler of a timeout hands the execution to the background.
LEMMA HandleTimeoutInv == ASSUME Inv, NEW e \in Executions, HandleTimeout(e) PROVE Inv'
<1> USE DEF Inv
<1>0. PICK t \in Tasks : t = execs[e].task
  BY DEF HandleTimeout, TypeOK, Execution
<1>1. /\ execs[e] # None /\ execs[e] \in Execution /\ t = execs[e].task
      /\ execs' = GoesOn(e) /\ row' = Noted(e)
      /\ lease' = IF execs[e].call = "resume" THEN [lease EXCEPT ![t] = "live"] ELSE lease
      /\ UNCHANGED <<process, asked, executed, cut, deaths>>
  BY <1>0 DEF HandleTimeout, TypeOK, histVars
<1>2. ExecOK(e)
  BY DEF ExecInv
<1>3. /\ row' \in [Tasks -> Row \cup {None}]
      /\ execs[e].call = "resume" => ~Waiting(t)'
      /\ execs[e].call # "resume" => row' = row
      /\ \A u \in Tasks : row[u] # None => row'[u] # None
      /\ \A u \in Tasks : Waiting(u)' => row'[u] = row[u]
  <2>1. CASE execs[e].call = "resume"
    <3>1. row' = Upsert(t, "RUNNING", 0) /\ "RUNNING" \in States /\ 0 \in Questions
      BY <1>1, <2>1, WorkflowAssumption DEF Noted, States, Questions
    <3>2. /\ row' \in [Tasks -> Row \cup {None}]
          /\ row'[t] # None /\ row'[t].state = "RUNNING"
          /\ \A u \in Tasks : u # t => row'[u] = row[u]
      BY <1>1, <3>1, UpsertFacts
    <3>3. ~Waiting(t)' /\ \A u \in Tasks : row[u] # None => row'[u] # None
      BY <3>2 DEF Waiting
    <3>4. ASSUME NEW u \in Tasks, Waiting(u)' PROVE row'[u] = row[u]
      BY <3>2, <3>4 DEF Waiting
    <3> QED BY <2>1, <3>2, <3>3, <3>4
  <2>2. CASE execs[e].call # "resume"
    BY <1>1, <2>2 DEF Noted, TypeOK
  <2> QED BY <2>1, <2>2
<1>4. CASE execs[e].phase = "ended"
  <2>1. execs' = [execs EXCEPT ![e] = None]
    BY <1>1, <1>4 DEF GoesOn
  <2>2. TypeOK'
    BY <1>1, <1>3, <2>1 DEF TypeOK
  <2>3. execs'[e] = None /\ (\A f \in Executions \ {e} : execs'[f] = execs[f]) /\ ExecOK(e)'
    BY <2>1 DEF TypeOK, ExecOK
  <2> QED BY <1>1, <1>3, <1>4, <2>2, <2>3, FlagsChange
<1>5. CASE execs[e].phase # "ended"
  <2>1. ASSUME NEW x \in Execution
        PROVE  LET y == [x EXCEPT !.caller = None, !.late = FALSE, !.tracked = TRUE] IN
               /\ y \in Execution /\ y.phase = x.phase /\ y.task = x.task /\ y.caller = None
               /\ y.late = FALSE /\ y.tracked = TRUE /\ y.call = x.call
    BY DEF Execution
  <2>2. PICK y \in Execution :
          /\ y = [execs[e] EXCEPT !.caller = None, !.late = FALSE, !.tracked = TRUE]
          /\ y.phase = execs[e].phase /\ y.task = execs[e].task /\ y.caller = None
          /\ y.late = FALSE /\ y.tracked = TRUE /\ y.call = execs[e].call
    <3>1. execs[e] \in Execution
      BY <1>1
    <3> QED BY <2>1, <3>1
  <2>3. execs' = [execs EXCEPT ![e] = y]
    BY <1>1, <1>5, <2>2 DEF GoesOn
  <2>7. execs'[e] = y /\ \A f \in Executions \ {e} : execs'[f] = execs[f]
    BY <2>3 DEF TypeOK
  <2>4. TypeOK'
    <3>1. execs' \in [Executions -> Execution \cup {None}]
      <4>1. execs \in [Executions -> Execution \cup {None}] /\ y \in Execution
        BY <2>2 DEF TypeOK
      <4> QED BY <2>3, <4>1
    <3>2. lease' \in [Tasks -> {"live", "expired"}]
      BY <1>1 DEF TypeOK
    <3> QED BY <1>1, <1>3, <3>1, <3>2 DEF TypeOK
  <2>5. execs'[e] # None
    BY <2>2, <2>7, NoneAssumption
  <2>6. ExecOK(e)'
    <3>1. /\ execs'[e].phase = execs[e].phase /\ execs'[e].task = t /\ execs'[e].caller = None
          /\ execs'[e].late = FALSE /\ execs'[e].call = execs[e].call
      BY <1>1, <2>2, <2>7
    <3>2. execs[e].phase = "running" => ~Waiting(t)'
      <4>1. CASE execs[e].call = "resume"
        BY <1>3, <4>1
      <4>2. CASE execs[e].call # "resume"
        BY <1>1, <1>2, <1>3, <4>2 DEF ExecOK, Waiting
      <4> QED BY <4>1, <4>2
    <3>3. row'[t] # None
      BY <1>1, <1>2, <1>3 DEF ExecOK
    <3>4. execs'[e].tracked => execs'[e].caller = None
      BY <3>1
    <3> QED BY <1>5, <3>1, <3>2, <3>3, <3>4 DEF ExecOK, Waiting
  <2>8. execs'[e].phase = execs[e].phase /\ execs'[e].task = execs[e].task
    BY <2>2, <2>7
  <2> QED BY <1>1, <1>3, <2>4, <2>5, <2>6, <2>7, <2>8, FlagsChange
<1> QED BY <1>4, <1>5

-----------------------------------------------------------------------------
(* The process *)

\* The size of a set without two elements.
LEMMA AtMostOne ==
  ASSUME NEW S, \A x, y \in S : x = y
  PROVE  Cardinality(S) \in Nat /\ Cardinality(S) <= 1 /\ (S # {} => Cardinality(S) = 1)
<1>1. CASE S = {}
  <2>1. Cardinality(S) = 0
    BY <1>1, FS_EmptySet
  <2> QED BY <1>1, <2>1
<1>2. CASE S # {}
  <2>1. PICK x : x \in S
    BY <1>2
  <2>2. S = {x}
    BY <2>1
  <2>3. Cardinality(S) = 1
    BY <2>2, FS_Singleton
  <2> QED BY <2>3
<1> QED BY <1>1, <1>2

\* What dies with the process is gone, and counted as cut.
LEMMA KillKeeps ==
  ASSUME Inv, NEW es \in SUBSET Live, Kill(es), UNCHANGED row
  PROVE  /\ ExecInv' /\ execs' \in [Executions -> Execution \cup {None}]
         /\ cut' \in [Tasks -> [Questions -> Nat]]
<1> USE DEF Inv
<1>1. \A e \in Executions : execs'[e] = IF e \in es THEN None ELSE execs[e]
  BY DEF Kill
<1>2. execs' \in [Executions -> Execution \cup {None}]
  BY DEF Kill, TypeOK
<1>3. ASSUME NEW t \in Tasks, NEW q \in Questions PROVE cut'[t][q] \in Nat
  <2> DEFINE hit == {e \in es \cap Running(t) : execs[e].question = q}
  <2>1. \A e, f \in hit : e = f
    BY DEF Running, Live, ExecInv, IsExec
  <2>2. cut'[t][q] = cut[t][q] + Cardinality(hit) /\ cut[t][q] \in Nat
    BY DEF Kill, TypeOK
  <2> HIDE DEF hit
  <2>3. Cardinality(hit) \in Nat
    BY <2>1, AtMostOne
  <2> QED BY <2>2, <2>3
<1>4. cut' \in [Tasks -> [Questions -> Nat]]
  BY <1>3 DEF Kill
<1>5. ExecInv'
  <2>1. \A t \in Tasks, e \in Executions : IsExec(e, t)' => IsExec(e, t)
    BY <1>1 DEF IsExec
  <2>2. \A e \in Executions : ExecOK(e)'
    BY <1>1 DEF ExecInv, ExecOK, Waiting
  <2> QED BY <2>1, <2>2 DEF ExecInv
<1> QED BY <1>2, <1>4, <1>5

\* An orderly end and the death of the process.
LEMMA StopInv == ASSUME Inv, Stop PROVE Inv'
<1>1. ExecInv' /\ execs' \in [Executions -> Execution \cup {None}]
      /\ cut' \in [Tasks -> [Questions -> Nat]]
  BY KillKeeps DEF Stop
<1> QED BY <1>1 DEF Inv, Stop, TypeOK

LEMMA DieInv == ASSUME Inv, Die PROVE Inv'
<1>1. ExecInv' /\ execs' \in [Executions -> Execution \cup {None}]
      /\ cut' \in [Tasks -> [Questions -> Nat]]
  BY KillKeeps DEF Die
<1>2. deaths' \in 0..MaxDeaths
  BY WorkflowAssumption DEF Die, Inv, TypeOK
<1> QED BY <1>1, <1>2 DEF Inv, Die, TypeOK

-----------------------------------------------------------------------------

\* Every step keeps the invariant.
LEMMA StepInv == ASSUME Sequential, Inv, [Next]_vars PROVE Inv'
<1>1. CASE \E c \in Callers, t \in Tasks : Call(c, t)
  BY <1>1, RunInv, ResumeInv, ResumeRefusedInv, CancelInv DEF Call
<1>2. CASE \E e \in Executions : Finish(e) \/ WaitTimesOut(e) \/ HandleTimeout(e) \/ StopTurn(e)
  BY <1>2, FinishInv, WaitTimesOutInv, HandleTimeoutInv, StopTurnInv
<1>3. CASE \E t \in Tasks : LeaseExpires(t)
  BY <1>3, LeaseExpiresInv
<1>4. CASE Stop \/ Die \/ Start
  BY <1>4, StopInv, DieInv, StartInv
<1>5. CASE UNCHANGED vars
  BY <1>5 DEF vars, histVars, Inv, TypeOK, ExecInv, ExecOK, IsExec, Waiting
<1> QED BY <1>1, <1>2, <1>3, <1>4, <1>5 DEF Next

\* The invariant holds of every behaviour.
LEMMA Invariance == ASSUME Sequential PROVE Spec => []Inv
<1>1. Inv /\ [Next]_vars => Inv'
  BY StepInv
<1> QED BY InitInv, <1>1, PTL DEF Spec

\* Rows, leases, executions and counters keep their types.
THEOREM TaskTypes == ASSUME Sequential PROVE Spec => []TypeOK
<1>1. Inv => TypeOK
  BY DEF Inv
<1> QED BY Invariance, <1>1, PTL

\* With one caller that /stop does not cancel in resume, a task never has two
\* executions, through timeouts, cancel() and restarts.
THEOREM OneAtATime == ASSUME Sequential PROVE Spec => []OneExecution
<1>1. Inv => OneExecution
  <2> SUFFICES ASSUME Inv, NEW t \in Tasks PROVE Cardinality(Running(t)) <= 1
    BY DEF OneExecution
  <2>1. \A e, f \in Running(t) : e = f
    BY DEF Inv, ExecInv, IsExec, Running, Live
  <2> QED BY <2>1, AtMostOne
<1> QED BY Invariance, <1>1, PTL

================================================================================
