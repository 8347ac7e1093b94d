----------------------------- MODULE CronService -----------------------------
(***************************************************************************)
(* The scheduler of cron jobs: one timer task that runs the due jobs one   *)
(* after another, calls of the public API from agent tools and the WebUI,  *)
(* manual runs in tasks of their own, and the job store, which is read     *)
(* again from its file at almost every call.                               *)
(*                                                                         *)
(* A step is the code between two suspension points.  Cancelling the timer *)
(* task takes effect at once: asyncio wakes the cancelled tick before the  *)
(* tick that was created after it.                                         *)
(***************************************************************************)
EXTENDS Integers, Sequences, FiniteSets, FiniteSetsExt, SequencesExt

CONSTANTS
  Jobs,        \* job ids; an id is never used twice
  OneTime,     \* jobs of kind "at"
  DeletedAfterRun, \* those of them that are deleted after they ran
  AtTime,      \* when they are due
  Period,      \* everyMs of the other jobs
  MaxSleep,    \* max_sleep_ms
  Callers,     \* concurrent calls of run_job
  LateCalls,   \* whether run_job may be called while the service is stopped
  MaxDamages,  \* bound on the times the file becomes unreadable
  Horizon,     \* bound on the time
  MaxEdits,    \* bound on the calls that change or run jobs
  None,        \* no job, no file, no store, no request, never
  Unreadable,  \* the content of a damaged file
  Deletion,    \* lines of action.jsonl that remove a job
  Withdrawal   \* lines that put a job and then remove it

ASSUME CronAssumption ==
  /\ IsFiniteSet(Jobs) /\ OneTime \subseteq Jobs /\ DeletedAfterRun \subseteq OneTime
  /\ Period \in Nat \ {0} /\ MaxSleep \in Nat \ {0} /\ AtTime \in Nat
  /\ Horizon \in Nat /\ MaxEdits \in Nat
  /\ MaxDamages \in Nat /\ LateCalls \in BOOLEAN
  /\ Jobs \cap {None, Unreadable, Deletion, Withdrawal} = {}

VARIABLES
  now,       \* _now_ms
  disk,      \* jobs.json: its jobs, Unreadable, or None when there is no file
  actions,   \* action.jsonl: per job, what the lines of other instances ask for
  sight,     \* the job that another instance has loaded and is about to change
  store,     \* _store
  running,   \* _running
  tick,      \* the timer task; _timer_active is tick.phase = "running"
  calls,     \* the run_job call of each caller
  turns,     \* agent turns submitted for a job: 0, 1, or 2 for more
  finished,  \* when the timer last completed a job
  removed,   \* jobs whose removal was acknowledged
  crossed,   \* jobs about which a line was lost, or came with older news
  known,     \* ids that have been used
  edits,     \* calls that changed or ran jobs
  damages    \* times the file became unreadable

fileVars == <<disk, actions>>
histVars == <<turns, finished, removed, crossed, known, edits, damages>>
vars == <<now, fileVars, sight, store, running, tick, calls, histVars>>

Times == 0..Horizon + Period + MaxSleep + AtTime
Job   == [enabled : BOOLEAN, next : Times \cup {None}]
Store == [Jobs -> Job \cup {None}]

(* The marks are no times, no jobs and no stores. *)
ASSUME MarksAssumption ==
  /\ None \notin Nat \cup Job \cup Store \cup {Unreadable, Deletion, Withdrawal}
  /\ Unreadable \notin Store /\ Deletion # Withdrawal /\ Job \cap {Deletion, Withdrawal} = {}

NoJobs == [j \in Jobs |-> None]
NoTick == [phase |-> "none", wake |-> 0, due |-> <<>>]
NoCall == [job |-> None, attached |-> FALSE, was |-> FALSE]

TypeOK ==
  /\ now \in 0..Horizon
  /\ disk \in Store \cup {Unreadable, None}
  /\ actions \in [Jobs -> Job \cup {None, Deletion, Withdrawal}]
  /\ sight \in known \cup {None}
  /\ store \in Store \cup {None}
  /\ running \in BOOLEAN /\ (running => store # None)
  /\ tick \in [phase : {"none", "sleeping", "running"}, wake : Times, due : Seq(Jobs)]
  /\ calls \in [Callers -> [job : Jobs \cup {None}, attached : BOOLEAN, was : BOOLEAN]]
  /\ turns \in [Jobs -> 0..2]
  /\ finished \in [Jobs -> 0..Horizon \cup {None}]
  /\ removed \subseteq known /\ crossed \subseteq known /\ known \subseteq Jobs
  /\ edits \in 0..MaxEdits /\ damages \in 0..MaxDamages

Init ==
  /\ now = 0
  /\ disk = None
  /\ actions = NoJobs
  /\ sight = None
  /\ store = None
  /\ running = FALSE
  /\ tick = NoTick
  /\ calls = [c \in Callers |-> NoCall]
  /\ turns = [j \in Jobs |-> 0]
  /\ finished = [j \in Jobs |-> None]
  /\ removed = {}
  /\ crossed = {}
  /\ known = {}
  /\ edits = 0
  /\ damages = 0

-----------------------------------------------------------------------------
(* Schedules, loading and saving *)

\* _compute_next_run
NextRun(j, t) ==
  IF j \notin OneTime THEN t + Period ELSE IF AtTime > t THEN AtTime ELSE None

\* _load_store keeps the store while the timer runs its jobs.
\* Mutant of Reads: it is always read again.
ReadsAlways == TRUE

Reads == tick.phase # "running" \/ store = None

\* _load_jobs, of a file that can be read
OnDisk == IF disk = None THEN NoJobs ELSE disk

\* A line puts the job, as its instance knew it.
Puts(j) == actions[j] \in Job

\* _merge_action, of the lines in their order: a removal of a job that is not
\* there raises and is passed over.
\* Mutant of Applies: removals are passed over.
AppliesAdditions(j, jobs) == actions[j] \in Job

Applies(j, jobs) == actions[j] # None /\ (actions[j] = Deletion => jobs[j] # None)

Merged(jobs) ==
  [j \in Jobs |-> IF ~Applies(j, jobs) THEN jobs[j]
                  ELSE IF Puts(j) THEN actions[j] ELSE None]

\* Mutant of Load: a damaged file counts as empty.
LoadForgets(run) ==
  [store   |-> IF disk = Unreadable THEN NoJobs ELSE OnDisk,
   disk    |-> IF disk = Unreadable THEN None ELSE disk,
   actions |-> actions,
   reread  |-> TRUE]

\* _load_store, with run the value of _running: what the store, the file and
\* the actions become, and whether the jobs are new objects.
Load(run) ==
  LET jobs    == OnDisk
      saves   == run /\ \E j \in Jobs : Applies(j, jobs)
      same    == [store |-> store, disk |-> disk, actions |-> actions, reread |-> FALSE]
  IN  IF ~Reads THEN same
      ELSE IF disk = Unreadable THEN [same EXCEPT !.disk = None]
      ELSE [store   |-> Merged(jobs),
            disk    |-> IF saves THEN Merged(jobs) ELSE disk,
            actions |-> IF saves THEN NoJobs ELSE actions,
            reread  |-> TRUE]

\* A run that holds a job object which is no longer in the store.
Detach(reread, dropped) ==
  [c \in Callers |-> [calls[c] EXCEPT !.attached = @ /\ ~reread /\ calls[c].job \notin dropped]]

\* The jobs of the loaded store, changed and saved.
Save(loaded, jobs) ==
  /\ store' = jobs
  /\ disk' = jobs
  /\ actions' = loaded.actions

\* _arm_timer: the old tick, sleeping or running, is cancelled; run is _running.
Wakes(jobs) == {jobs[j].next : j \in {i \in Jobs : jobs[i] # None /\ jobs[i].enabled}} \ {None}

\* Mutants of Arm: a tick with more jobs to run goes on; it has no successor.
ArmBeside(jobs, run) ==
  tick' = IF Len(tick.due) > 1 THEN tick
          ELSE [phase |-> IF run THEN "sleeping" ELSE "none", wake |-> now, due |-> <<>>]

ArmOnce(jobs, run) ==
  tick' = IF run /\ tick.phase = "none"
          THEN [phase |-> "sleeping", wake |-> now, due |-> <<>>] ELSE NoTick

Arm(jobs, run) ==
  LET earliest == Min(Wakes(jobs) \cup {now + MaxSleep})
      wake     == IF earliest > now THEN earliest ELSE now
  IN  tick' = IF run THEN [phase |-> "sleeping", wake |-> wake, due |-> <<>>] ELSE NoTick

Submitted(j) == turns' = [turns EXCEPT ![j] = IF @ < 2 THEN @ + 1 ELSE @]

-----------------------------------------------------------------------------
(* The life of the service *)

Pass ==
  /\ now < Horizon
  /\ now' = now + 1
  /\ UNCHANGED <<fileVars, sight, store, running, tick, calls, histVars>>

\* start: a corrupt file is moved aside and the service does not start.
Start ==
  LET l == Load(TRUE)
      jobs == [j \in Jobs |-> IF l.store[j] # None /\ l.store[j].enabled
                              THEN [l.store[j] EXCEPT !.next = NextRun(j, now)]
                              ELSE l.store[j]]
  IN
  /\ ~running /\ tick.phase = "none" /\ \A c \in Callers : calls[c] = NoCall
  /\ IF l.store = None
     THEN /\ disk' = l.disk
          /\ UNCHANGED <<actions, store, running, tick, calls>>
     ELSE /\ Save(l, jobs)
          /\ running' = TRUE
          /\ Arm(jobs, TRUE)
          /\ calls' = Detach(l.reread, {})
  /\ UNCHANGED <<now, sight, histVars>>

Stop ==
  /\ running
  /\ running' = FALSE
  /\ tick' = NoTick
  /\ UNCHANGED <<now, fileVars, sight, store, calls, histVars>>

\* _merge_action has cleared action.jsonl, and not yet saved the store or, in
\* start, only that.
MergeCut ==
  /\ running \/ (tick.phase = "none" /\ \A c \in Callers : calls[c] = NoCall)
  /\ Reads /\ disk # Unreadable /\ \E j \in Jobs : Applies(j, OnDisk)
  /\ actions' = NoJobs
  /\ \/ UNCHANGED disk /\ crossed' = crossed \cup {j \in Jobs : actions[j] # None}
     \/ disk' = Merged(OnDisk) /\ UNCHANGED crossed

\* The process dies, between two writes of a step, too; its turns die with it.
Crash ==
  /\ \/ store # None /\ UNCHANGED <<fileVars, crossed>>
     \/ MergeCut
  /\ store' = None
  /\ running' = FALSE
  /\ tick' = NoTick
  /\ calls' = [c \in Callers |-> NoCall]
  /\ UNCHANGED <<now, sight, turns, finished, removed, known, edits, damages>>

\* The file is damaged from outside.
Corrupt ==
  /\ damages < MaxDamages /\ damages' = damages + 1
  /\ disk \notin {None, Unreadable}
  /\ disk' = Unreadable
  /\ UNCHANGED <<now, actions, sight, store, running, tick, calls, turns, finished, removed, crossed,
                 known, edits>>

-----------------------------------------------------------------------------
(* The timer *)

Due(j) ==
  /\ store[j] # None /\ store[j].enabled
  /\ store[j].next # None /\ store[j].next <= now

\* _on_timer, up to the first job.  A tick that finds the service stopped does
\* nothing.
Fire ==
  LET l == Load(running)
      due == {j \in Jobs : /\ l.store[j] # None /\ l.store[j].enabled
                           /\ l.store[j].next # None /\ l.store[j].next <= now}
  IN
  /\ tick.phase = "sleeping" /\ tick.wake <= now
  /\ IF ~running
     THEN tick' = NoTick /\ UNCHANGED <<fileVars, store, calls, turns>>
     ELSE /\ calls' = Detach(l.reread, {})
          /\ IF due = {}
             THEN Save(l, l.store) /\ Arm(l.store, TRUE) /\ UNCHANGED turns
             ELSE \E order \in SetToSeqs(due) :
                    /\ store' = l.store /\ disk' = l.disk /\ actions' = l.actions
                    /\ tick' = [phase |-> "running", wake |-> now, due |-> order]
                    /\ Submitted(Head(order))
  /\ UNCHANGED <<now, sight, running, finished, removed, crossed, known, edits, damages>>

\* What _execute_job leaves of a job that has run.
Executed(jobs, j) ==
  [jobs EXCEPT ![j] =
     IF @ = None \/ j \in DeletedAfterRun THEN None
     ELSE IF j \in OneTime THEN [enabled |-> FALSE, next |-> None]
     ELSE [@ EXCEPT !.next = NextRun(j, now)]]

\* The turn of the first due job ends, well or badly, and the next one starts.
JobEnds ==
  LET j == Head(tick.due)
      rest == Tail(tick.due)
      jobs == Executed(store, j)
  IN
  /\ tick.phase = "running"
  /\ store' = jobs
  /\ finished' = [finished EXCEPT ![j] = now]
  /\ crossed' = crossed \cup {i \in {j} : Puts(i)}
  /\ calls' = Detach(FALSE, {j} \cap DeletedAfterRun)
  /\ IF rest = <<>>
     THEN disk' = jobs /\ Arm(jobs, running) /\ UNCHANGED turns
     ELSE /\ tick' = [tick EXCEPT !.due = rest]
          /\ Submitted(Head(rest))
          /\ UNCHANGED disk
  /\ UNCHANGED <<now, actions, sight, running, removed, known, edits, damages>>

-----------------------------------------------------------------------------
(* The public API of the running service *)

\* list_jobs, get_job
List ==
  LET l == Load(running) IN
  /\ store # None
  /\ store' = l.store /\ disk' = l.disk /\ actions' = l.actions
  /\ calls' = Detach(l.reread, {})
  /\ UNCHANGED <<now, sight, running, tick, histVars>>

Edit == running /\ edits < MaxEdits /\ edits' = edits + 1

\* What add, remove, enable and update share: load, change, save, arm.
Change(l, jobs, dropped) ==
  /\ Save(l, jobs)
  /\ Arm(jobs, running)
  /\ calls' = Detach(l.reread, dropped)
  /\ UNCHANGED <<now, sight, running, turns, finished, damages>>

AddJob(j) ==
  LET l == Load(running) IN
  /\ Edit /\ j \notin known
  /\ Change(l, [l.store EXCEPT ![j] = [enabled |-> TRUE, next |-> NextRun(j, now)]], {})
  /\ known' = known \cup {j}
  /\ UNCHANGED <<removed, crossed>>

RemoveJob(j) ==
  LET l == Load(running) IN
  /\ Edit /\ l.store[j] # None
  /\ Change(l, [l.store EXCEPT ![j] = None], {j})
  /\ removed' = removed \cup {j}
  /\ crossed' = crossed \cup {i \in {j} : l.actions[i] \in Job}
  /\ UNCHANGED known

\* enable_job, and update_job with on the flag the job already has
EnableJob(j, on) ==
  LET l == Load(running) IN
  /\ Edit /\ l.store[j] # None
  /\ Change(l, [l.store EXCEPT ![j] =
                  [enabled |-> on, next |-> IF on THEN NextRun(j, now) ELSE None]], {})
  /\ UNCHANGED <<removed, crossed, known>>

\* run_job, up to the turn of the job: a job that has gone since the caller saw
\* it, or is disabled and not forced, is not run, but the timer is armed all the
\* same.
RunJob(c, j, force) ==
  LET l == Load(TRUE)
      runs == l.store[j] # None /\ (l.store[j].enabled \/ force)
  IN
  /\ store # None /\ calls[c] = NoCall
  /\ running \/ LateCalls
  /\ l.store[j] # None \/ j \in removed \/ finished[j] # None
  /\ edits < MaxEdits /\ edits' = edits + 1
  /\ store' = l.store /\ disk' = l.disk /\ actions' = l.actions
  /\ IF runs
     THEN /\ running' = TRUE
          /\ calls' = [Detach(l.reread, {}) EXCEPT ![c] =
                         [job |-> j, attached |-> TRUE, was |-> running]]
          /\ Submitted(j)
          /\ UNCHANGED tick
     ELSE /\ calls' = Detach(l.reread, {})
          /\ IF running THEN Arm(l.store, TRUE) ELSE UNCHANGED tick
          /\ UNCHANGED <<running, turns>>
  /\ UNCHANGED <<now, sight, finished, removed, crossed, known, damages>>

\* The rest of run_job.  A job is deleted by its id, and changed through the
\* object that the call holds.
RunJobEnds(c) ==
  LET j == calls[c].job
      jobs == IF j \in DeletedAfterRun \/ calls[c].attached THEN Executed(store, j) ELSE store
  IN
  /\ j # None
  /\ store' = jobs /\ disk' = jobs
  /\ running' = calls[c].was
  /\ IF calls[c].was THEN Arm(jobs, TRUE) ELSE UNCHANGED tick
  /\ calls' = [Detach(FALSE, {j} \cap DeletedAfterRun) EXCEPT ![c] = NoCall]
  /\ UNCHANGED <<now, actions, sight, turns, finished, removed, crossed, known, edits, damages>>

-----------------------------------------------------------------------------
(* An instance in another process that is not running appends its request,  *)
(* after it has loaded the job, without saving, where the request is about   *)
(* one.                                                                      *)

Asks == edits < MaxEdits /\ edits' = edits + 1

ExternalAdd(j) ==
  /\ Asks
  /\ j \notin known
  /\ actions' = [actions EXCEPT ![j] = [enabled |-> TRUE, next |-> NextRun(j, now)]]
  /\ known' = known \cup {j}
  /\ UNCHANGED <<now, disk, sight, store, running, tick, calls, turns, finished, removed, crossed, damages>>

ExternalLoad(j) ==
  /\ \/ disk = Unreadable /\ disk' = None /\ UNCHANGED sight
     \/ disk # Unreadable /\ Merged(OnDisk)[j] # None /\ sight' = j /\ UNCHANGED disk
  /\ UNCHANGED <<now, actions, store, running, tick, calls, histVars>>

\* The whole job, with the next run from now on.
ExternalUpdate(j, on) ==
  /\ Asks
  /\ sight = j /\ sight' = None
  /\ actions' = [actions EXCEPT ![j] = [enabled |-> on, next |-> IF on THEN NextRun(j, now) ELSE None]]
  /\ crossed' = crossed \cup ({j} \cap removed)
  /\ UNCHANGED <<now, disk, store, running, tick, calls, turns, finished, removed, known, damages>>

ExternalRemove(j) ==
  /\ Asks
  /\ sight = j /\ sight' = None
  /\ actions' = [actions EXCEPT ![j] = IF @ \in Job \cup {Withdrawal} THEN Withdrawal ELSE Deletion]
  /\ removed' = removed \cup {j}
  /\ UNCHANGED <<now, disk, store, running, tick, calls, turns, finished, crossed, known, damages>>

-----------------------------------------------------------------------------

Edits(j) ==
  \/ AddJob(j) \/ RemoveJob(j) \/ (\E on \in BOOLEAN : EnableJob(j, on))
  \/ ExternalAdd(j) \/ ExternalLoad(j) \/ ExternalRemove(j)
  \/ (\E on \in BOOLEAN : ExternalUpdate(j, on))

Next ==
  \/ Pass \/ Start \/ Stop \/ Crash \/ Corrupt
  \/ Fire \/ JobEnds \/ List
  \/ \E j \in Jobs : Edits(j)
  \/ \E c \in Callers, j \in Jobs, force \in BOOLEAN : RunJob(c, j, force)
  \/ \E c \in Callers : RunJobEnds(c)

Spec == Init /\ [][Next]_vars

(* Time passes, the event loop wakes the timer, and a turn ends. *)
FairSpec == Spec /\ WF_vars(Pass) /\ WF_vars(Fire) /\ WF_vars(JobEnds)

-----------------------------------------------------------------------------
(* Properties *)

\* The due jobs are collected before the first turn and started one by one:
\* whatever was removed, disabled or rescheduled in between is not started.
DueStillDue ==
  tick.phase = "running" => \A i \in DOMAIN tick.due : Due(tick.due[i])

\* A removal that was acknowledged, by this instance or by another one, is
\* never undone by a later save or reload, unless its line was lost when the
\* process died (service.py:334), or another instance's update of the job
\* crossed it.
RemovedStaysRemoved ==
  disk # Unreadable => \A j \in removed \ crossed : Merged(OnDisk)[j] = None

\* A job leaves the store only because it was removed or, being a one-time
\* job, has run, or because a file that was damaged is gone: the reload that
\* meets the damaged file drops nothing, as service.py:343 says, but a later
\* one does.
JobsNotDropped ==
  [][store # None /\ store' # None =>
       \A j \in Jobs : store[j] # None /\ store'[j] = None
                      => \/ j \in removed'
                         \/ j \in OneTime /\ turns[j] > 0
                         \/ damages > 0 /\ disk = None]_vars

\* "the in-memory next_run_at_ms update must not be lost"
\* (test_cron_service.py:928): a job the timer has run is not due again for
\* the time it has been run for, unless an update of the job by another
\* instance waited to be merged while it ran.
NotRolledBack ==
  running => \A j \in Jobs \ crossed :
    store[j] # None /\ finished[j] # None /\ store[j].next # None
      => store[j].next > finished[j]

\* What the code does not keep: the three without their exceptions.
RemovedForGood ==
  disk # Unreadable => \A j \in removed : Merged(OnDisk)[j] = None

NeverDropped ==
  [][store # None /\ store' # None =>
       \A j \in Jobs : store[j] # None /\ store'[j] = None
                      => j \in removed' \/ (j \in OneTime /\ turns[j] > 0)]_vars

RunsRemembered ==
  running => \A j \in Jobs :
    store[j] # None /\ finished[j] # None /\ store[j].next # None
      => store[j].next > finished[j]

\* "One-time - runs once at a specific time" (skills/cron/SKILL.md:26).
OneTimeRunsOnce == \A j \in OneTime : turns[j] <= 1

\* "Manually run a job without disturbing the service's running state"
\* (service.py:835): a service that was stopped stays stopped.
StoppedStaysStopped ==
  [][~running /\ running' => Start \/ \E c \in Callers : calls'[c] # calls[c] /\ calls'[c].job # None]_vars

\* A due job of a running service is run, or is no longer due: no call leaves
\* the service without its timer.
DueRuns ==
  \A j \in Jobs :
    (running /\ Due(j) /\ now + MaxSleep <= Horizon) ~> (~running \/ ~Due(j))
=============================================================================
