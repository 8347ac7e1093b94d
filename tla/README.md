# A TLA+ model of nanobot's session core

nanobot is a personal AI agent: a gateway process takes messages from chat
channels, cron jobs, local triggers and subagents, runs them as turns of a
session with a language model and tools, and sends replies back.  Almost all of
it is one Python process with one asyncio event loop; what survives that process
is a handful of files and two SQLite databases.  The hard part of the program is therefore not the data
but the order of things: tasks that are cancelled between two awaits, queues
that are handed back in `finally` blocks, files that are read again at every
call, and a process that may die between two writes.

This directory models that part, checks it with TLC and proves, with TLAPS, every
safety property of its passing runs for every value of the constants, some under a
hypothesis that the proofs section names.  All paths below are relative to
`src/nanobot/`.

Contents: [inventory](#inventory) · [plan](#plan) · [modules](#modules) ·
[runs](#runs) · [fairness](#fairness) · [proofs](#proofs) ·
[statements the code does not meet](#statements-the-code-does-not-meet) ·
[abstractions](#abstractions) · [not modelled](#not-modelled)

## Inventory

Status: M modelled in part or whole, L planned for later, - left out.
`PROJECT.json` lists the same components with their sources, and the hazards of
each at the line where they bite.

| Component | State | Operations | What makes it correct | |
|---|---|---|---|---|
| Turn dispatch: `agent/loop.py` (`run`, `_dispatch`), `bus/queue.py`, `agent/automation_turns.py` | inbound queue, active tasks, session locks, concurrency gate, published pending queues, deferred automations, submitters' futures | consume, route, defer, create a task, acquire lock and gate, fold follow-ups in, finish, fail, cancel, hand leftovers back | one turn of a session at a time; no message lost or handled twice; a published queue belongs to the running turn; deferred automations are released; submitters are told | M |
| Sustained goals: `session/goal_state.py`, `session/turn_continuation.py`, `agent/tools/long_task.py` | goal and continuation counter in the session's metadata | record, complete, approve, continue | a turn that skips its final response has a slice to follow; the counter belongs to a goal | M |
| Slash commands: `command/builtin.py`, `command/router.py` | none of their own | `/stop`, `/new`, and readers | a command stops its own session only | M |
| Subagents: `agent/subagent.py` | running tasks per session | spawn, announce, cancel | each result reaches its session once or is cancelled | M |
| Turn runner and history: `agent/loop.py` (`_state_*`, `_save_turn`), `agent/runner.py`, `session/manager.py` | session file, cached session, runtime checkpoint, pending-turn marker | restore, build, iterate, checkpoint, inject, finalize, save, cancel, clear | the transcript is legal for a provider and holds each message once, through crashes | M |
| Session trimming: `session/manager.py` | messages of a session, the offset of what is consolidated | retain a suffix, cap the file | what is dropped is archived first, the offset stays right | M |
| Cron service: `cron/service.py` | `jobs.json`, `action.jsonl`, the store in memory, the timer task | add, remove, enable, run, list, reload and merge, tick, start, stop | a due job runs, once; edits and runs are not lost or undone | M |
| Local triggers: `triggers/local_store.py`, `triggers/local_runner.py` | inbox, processing and failed directories, trigger list | enqueue, recover, claim, submit, complete, retry, drop, delete | a delivery is handled at least once, a bounded number of times, and never lost | M |
| Channel delivery: `channels/manager.py`, `bus/outbound_events.py` | outbound queue, fingerprints of replies, the event put aside while coalescing | filter, coalesce, suppress, send, retry, cancel | order of publication, only repeats are suppressed, nothing waits for ever | M |
| Providers: `providers/base.py`, `providers/fallback_provider.py` | failure counter, trip time | retry, fall back, probe | one probe while half-open; retries bounded | L |
| Exec sessions: `agent/tools/exec_session.py` | running processes | start, poll, write, clean up | limits hold; no session is killed in use | L |
| Memory and consolidation: `agent/memory.py`, `agent/autocompact.py` | cached session and its file, consolidation lock, `history.jsonl` | consolidate in a turn and in the background, compact an idle session, cap, `/new` | no message lost to a stale save, none archived twice | M |
| Workflow tasks: `workflow/service.py`, `workflow/store.py` | SQLite task rows, leases, executions | run, wait, time out, resume, cancel, stop, recover | one execution at a time, an answer used once, a running task gets a result | M |
| Pairing: `pairing/store.py` | codes and approved senders in a file | generate, approve, revoke | no lost update | L |
| Skills: `skill_store.py`, `webui/skill_manage_api.py`, `agent/tools/skill_request_approval.py` | skill files, SQLite index and drafts, the pending question of a chat | index, transition, draft, compose, approve, update, ask, answer | search offers only ids that a human approved or that came with the program; a failed approval takes back the file it wrote | M |
| Reasoning, evidence, conversation focus | procedures in memory | staged model calls, scoring, classification | sequential code with little state | - |
| Channel adapters, providers' adapters, tools, MCP, WebUI and its services, HTTP API, SDK, CLI, configuration, security checks, utilities | connections and caches | I/O | mostly protocol translation | - |

**How the components interact.**  Channels, cron, triggers and subagents put
`InboundMessage`s on one bus queue.  `AgentLoop.run` consumes it and either
executes a command inline, defers an automation turn of a busy session, puts the
message into the pending queue of the turn in progress, or creates a
`_dispatch` task.  A task takes the session's lock, then a slot of the global
gate, publishes its pending queue, and runs the turn; the runner folds in what
the pending queue holds after each iteration.  In its `finally` block the task
withdraws the queue, publishes what is left in it, and releases the next
deferred automation.  Cron and triggers *submit* a turn and await its future;
`process_direct` (SDK, HTTP API, heartbeat) takes the same lock without the bus.
The turn itself writes the session file at every iteration.  Before and after a
turn a consolidation may shorten the session under a second lock, and so does the
compaction of idle sessions; both wait for a model while they hold it.  What a
turn says goes through the outbound queue to one dispatcher for all channels.  A
workflow task outlives the turn that started it and writes its row when it ends;
the skill index is shared with the command line, which is another process.

**Hard behaviour.**  Cancellation can arrive at any await, including the ones
inside `finally`; `/stop` awaits the tasks it cancels and only then cleans up;
whether `asyncio.wait_for` suspends on a non-empty queue depends on the Python
version; three files (`jobs.json`, `action.jsonl`, session files) are read back
while their owners still hold unsaved state; session objects live on after they
left the cache, in tasks that will save them; the result of a workflow may come
between its timeout and the handler of it; crashes split the two writes that move
a delivery and the six that approve a skill.

## Plan

Done, in this order, most important first:

1. `SessionTurns` (abstract) and `TurnDispatch` (detailed, refines it).
2. `TurnHistory`, which relies on `TurnDispatch` for one turn at a time.
3. `CronService` and `LocalTriggers`, which submit turns to the dispatcher.
4. `ChannelDelivery`, the way back from the turns to the channels.
5. `WorkflowTasks`, `SkillRegistry`: state in databases, shared by tasks and by
   processes.
6. `Consolidation`: who shortens the log that `TurnHistory`'s turns write.
7. The proofs about `TurnDispatch`, `TurnHistory`, `LocalTriggers`,
   `CronService`, `WorkflowTasks`, `SkillRegistry`, `ChannelDelivery` and
   `Consolidation`, each in a module `...Proofs`.

To come:

8. `ProviderFallback` (the breaker whose half-open state lets every concurrent
   call through) and `ExecSessions`.
9. The cursors of `history.jsonl` and the Dream pass over the memory files.
10. A composition of `LocalTriggers` and `CronService` with the submit interface
    of `SessionTurns`.

Every safety property of a passing run is a theorem; theorems to come are those of
the modules to come.  No module of the project declares a RECURSIVE operator.

## Modules

In every module one step is the code between two suspension points of the event
loop (or, where processes may die, between two writes).  Definitions are named
after the code where they can be; `PROJECT.json` "map" gives the lines of each.
Next to a definition stand its mutants: plausible bugs that some property of a
run must reject.

### TurnDispatch

| State | Code |
|---|---|
| `inbound`, `sent` | `MessageBus.inbound`, and what producers have put there |
| `inline`, `awaits` | the command `run` is executing, and the cancelled tasks it awaits |
| `active`, `pc`, `cancelReq` | `_active_tasks`, where each task is suspended, undelivered `Task.cancel()` |
| `lockOwner`, `lockWaiters` | `_session_locks[key]`, an asyncio lock with FIFO waiters |
| `gate`, `gateWaiters` | `_concurrency_gate`, a semaphore |
| `registry`, `queue` | `_pending_queues`, and the queue each task created |
| `folded`, `cycles` | follow-ups injected into the running turn, injection cycles |
| `goal`, `recorded`, `rounds`, `silent`, `continuing` | goal state, goals so far (a bound), continuation counter, the decision `finalize_on_max_iterations`, slices queued |
| `deferred`, `waiter` | `_deferred_automation_turns`, the futures of `submit` |
| `sub`, `fate` | life of each subagent, what became of each message |

The actions follow a message through the code: producers (`Send`, `Submit`,
`Spawn`, `Announce`, `CallDirect`), the run loop (`ConsumeCommand`,
`ConsumeDefer`, `ConsumeRoute`, `ConsumeCreate`, `FinishStop`, `FinishNew`), a
task acquiring lock and gate (`Start`, `TakeLock`, `TakeGate`), the runner
(`Inject`, `BlockOnSubagents`, `Wake`, `AwaitTimeout`, `LongTask`,
`CompleteGoal`, `EndTurn`, `EndAtBudget`), the ends of a task (`Close`, `Fail`,
`CancelTurn`, `CancelCreated`, `CancelWaiting`, `CloseDirect`, and `AbortDirect` for
a direct call that raises or whose caller gives up), and `/new` run as a turn
(`BeginNew`, `EndNew`).  `Finally` is the whole inner `finally` block; every way a
turn ends goes through it.  `publish_inbound` puts into an unbounded queue and never
suspends, so the block is one step.

Properties: `SerialSessions`, `RegistryIsOwner`, `NoOrphanedFollowup`,
`OneHolder` (exactly one queue, turn or task answers for each open message),
`DroppedByCommand`, `DeferredHasWaker`, `AutomationsSeparate` (what a submitter is
told is what became of its turn, in a session without goals),
`EverythingSettles`, `AutomationSettled` (the wait of a submitter ends, unless a
command dropped its turn), `ImplementsSessionTurns`.  The two liveness properties
except what the code does not settle, and only while it lasts for ever: a turn that
waits for room in its own full queue (`Stalled`) and an automation whose releasing
task `/stop` cancelled before its first step (`Orphaned`).  `turn_live` reaches
both; `NothingHangs`, `ContinuationQueued` and `AutomationAnswered` are the promises
without the exceptions, which TLC refutes.

### SessionTurns

What the dispatcher promises, without tasks, locks or queues: work of a session
arrives, begins as its only turn, may join the turn in progress and then shares
its end, is discarded only while a command of its session executes, or hands
over to a further slice of itself; a caller of `process_direct` may withdraw it
while it waits.  `LifeOf` in `TurnDispatch` is the refinement
mapping.

### TurnHistory

The states RESTORE, COMMAND, BUILD, RUN, SAVE of one turn at a time, on the
session file (`disk`), the cached session (`mem`) and the runner's new messages
(`work`).  An entry is one message, with the turn and step it comes from; the
tool calls of an iteration are one entry and their results another.
`BeginTurn` restores what an interrupted turn left (`RestoreCheckpoint` with its
overlap test, `ClosePendingUser`); `ModelCalls`, `ToolsDone`, `ToolsReported`,
`ToolsFail`, `ModelFinal`, `ModelCorrected`, `ReportCorrected`, `ModelRetries`,
`ModelFails`, `BudgetSpent` are the runner; `SaveTurn`, `Fail`, `FailInStore`,
`Cancel`, `Crash` and `ClearSession` (`/new`) end a turn or drop the cache.
`SaveTurn` enforces the file cap (`Window`, `LegalStart`, `Kept`): what it drops goes
to `history.jsonl` (`archived`) before the session is saved, and `CrashInSave` is
the death of the process between these two writes.

Properties: `LegalTranscript`, `NoDuplicates`, `AsksAnswered`,
`NothingOnlyInMemory`, `CheckpointIsOfTurn`, `NothingForgotten` (only `/new` and the
cap take messages out of the history, and the cap archives them first),
`CheckpointNotForgotten`.

### CronService

`disk` is `jobs.json`, `actions` is `action.jsonl`, `store` is `_store`.  `Load`
is `_load_store` with the merge and its save; `Detach` keeps track of a manual
run whose job object belongs to a store that has since been replaced; `Arm` is
`_arm_timer`, which cancels the current tick wherever it is.  `Fire`, `JobEnds`
are the tick; `AddJob`, `RemoveJob`, `EnableJob`, `RunJob`, `RunJobEnds`, `List`
are the API; `Corrupt` damages the file; `Start`, `Stop`, `Crash` are the process.
`ExternalAdd`, `ExternalUpdate`, `ExternalRemove` are another instance, which
appends to `action.jsonl`; for the last two it has loaded the job before
(`ExternalLoad`, `sight`), so what it appends may be about a job that has changed
since.  An update carries the whole job, its next run included.

A merge clears `action.jsonl` and then saves the store (`cron/service.py:334`), two
writes: `MergeCut` is a crash between them, or between them and what the same step
saves afterwards.  `crossed` has the jobs about which a line was lost that way, or
whose removal or run met an older update of another instance; `RemovedStaysRemoved`
and `NotRolledBack` are stated of the others.

### LocalTriggers

Three directories map a delivery to the attempts its file counts.  `Recover`,
`Claim`, `Submit`, `Drop`, `TurnEnds`, `Complete` are the queue loop; `Error` and
`Shutdown` take the retry path; `Crash` may fall between the two writes of a
move, so that a delivery's old and new file both survive.

### ChannelDelivery

`published` numbers the events of all turns in the order they are published;
everything else refers to an event by its number.  `queue` is `bus.outbound`,
`pending` the event that `_coalesce_stream_deltas` took from the queue and could
not merge, `sending` what `_send_with_retry` has in its hands, `fingerprints` is
`_origin_reply_fingerprints`.  `Notice`, `Delta`, `EndSegment`, `Reply`,
`Streamed` are what a turn publishes, notices only where the turn runs with their
callbacks, which a subagent's report does not (`agent/loop.py:1555`); `Take` is the body of
`_dispatch_outbound` up to the send: filter, merge, suppress; `SendOnce`,
`SendFails` are an attempt, which may fail after the platform took the message;
`StopAll` cancels the dispatcher anywhere.  `MCChannelDelivery` gives it a user's
turn with a subagent that reports on it, and a streamed turn in another chat.

Properties: `InPublishedOrder`, `SuppressedRepeats` (a suppressed reply has the text
of the last reply about the same message handed to the channel in its chat, with no
other in between), `EverythingDispatched`.

### WorkflowTasks

`row` and `lease` are the store, `execs` the executions of `_execute_and_persist`
with the caller that waits for each.  `Run`, `Resume`, `ResumeRefused`, `Cancel`
are the calls; `Finish` is the end of an execution, which writes its result
without looking at the row; `WaitTimesOut` and `HandleTimeout` are the two halves
of a timeout, `StopTurn` is `/stop` in the wait; `Stop`, `Die`, `Start`,
`LeaseExpires` are the process.  `cut` counts the executions that died with it.

Properties: `OneExecution`, `RunningResolves`.

### SkillRegistry

`file` and `newer` are the SKILL.md files and which are newer than the database,
`row` and `draft` its two tables.  A row has an id, which the file declares
(`Declares`) or which is made from its name, and reindexing keeps the status of a
row by this id; a workspace file hides the bundled skill of its name (`Bundled`).
`EnsureIndex`, `CliReindex` rebuild the index;
`Transition`, `CliTransition` are a human's; `ImportDraft`, `ComposeDraft`,
`CompleteSkillDraft`, `DeleteSkillDraft` are drafts; `ApproveComposedDraft` and
`UpdateSkill` begin an operation (`op`) whose writes are `WriteSkill`,
`WriteExtras`, `Reindex`, `Register`, `MarkApproved`, `SetStatus`, `Undo`, with the
command line and crashes between them; `WriteFails`, `UpdateFails` and a failing
`WriteExtras` are writes that break off, which leave what was open; `Ask`, `AnswerYes`, `Dismiss`,
`OtherMessage`, `Expire` are the approval in a chat; `Edit` is anyone with an
editor.  `blessed` remembers the ids that a human approved, or kept by an update of
the WebUI, or that a bundled skill brought; `writer` whose draft a file is.

Properties: `ApprovedOnly`, `NoLeftovers`, `ComposingSettles`.

### Consolidation

One session whose objects are places of a `heap`, since an object that
`invalidate` took from the cache may still be saved by the task that holds it;
`queue` is the consolidation lock, `work` what each task does with it.  `Lock`
and `Consolidate` are `maybe_consolidate_by_tokens` in a turn and in the
background, `Expire`, `BeginCompaction`, `EndCompaction` are `AutoCompact` and
`compact_idle_session`, `BeginTurn`, `EndTurn` (with the file cap), `Command`,
`Stop`, `New` are what `TurnHistory` sees of the session from the other side;
`ArchiveLeft` is the archive task of `/new`.  Every operation that archives, except
`/new`, writes `history.jsonl` and then saves the session; `CrashInSave` is the death
of the process between the two, and `unsaved` counts, for each message, the entries
that were written so.  `ArchivedOnce` allows one entry beside those.  `Overlaps` says
which operations may fall into an await of the model.

Properties: `NothingLost`, `ArchivedOnce`, `CompactionSettles`; `OffsetInRange`
fails, see below.

## Runs

Every run is listed in `PROJECT.json` with its properties, and every property of
a passing run has a mutant of the code that breaks it under the same
configuration.

| Run | Asks | Bounds |
|---|---|---|
| `turn_stop` | all safety properties of the dispatcher under `/stop` | 2 sessions, 2 chats, 2 automations, a subagent, `process_direct`, `/stop`; 1 gate slot, 1 place in a pending queue, 1 injection per drain, 1 cycle; 522 k states |
| `turn_live` | everything settles and every submitter is told, but for the two exceptions; `TurnDispatch` implements `SessionTurns` | 1 session, 2 chats (one an approval), 2 automations, `/stop`, `/new`, a goal with 1 round, 1 place in a pending queue, 1 cycle; each behaviour takes the messages of one of four `Mixes` (both chats, an automation and `/stop`; a chat, both automations and `/stop`; both chats and `/new`; a chat, an automation and `/new`); 45 k states, liveness |
| `history` | the transcript through interruption and crash | 2 turns, 2 iterations, 1 follow-up, a file cap of 6; 1.4 M states |
| `history_store` | checkpoints and what leaves the history, with a failing event store and guarded reports | the same, also with more than 6 messages after the last user message; 4.2 M states |
| `cron` | completed runs, due lists and live jobs under edits, another instance, crashes and a damaged file | 1 periodic and 1 one-time job, time 0..4, 4 edits, 1 damage; 2.8 M states |
| `cron_calls` | acknowledged removals stand, due jobs run, with a manual run and another instance | time 0..4, 4 edits; 900 k states, liveness |
| `triggers` | nothing lost, nothing repeated without need, everything settled | 2 deliveries, 3 attempts, 4 interruptions; 474 k states, liveness |
| `channel` | order, suppression, nothing waits for ever | 3 turns in 2 chats, any 4 events of them, 2 texts, 2 attempts; 4.0 M states, liveness |
| `workflow` | one execution, results arrive | 2 tasks, 1 caller, 2 questions, 2 ends of the process; 244 k states, liveness |
| `skills` | what is offered has an approved or shipped id, failed approvals clean up, composing ends | 2 names, one of a bundled skill, 2 contents, one of which declares the bundled skill's id, status `verified` and a flag, 1 draft, 1 edit, 1 failed write or crash; 490 k states, liveness |
| `consolidation` | nothing lost, nothing archived twice, rest | cap 4, suffix 2, 14 messages, 1 `/new`, 1 crash, also between archive and save; 145 k states, liveness |
| `consolidation_new` | **violated**: the offset of the session in use is in range | 8 messages, 1 `/new`, during a background consolidation |

**Why the bounds are enough.**  The limits of the code (20 places, 3 injections,
5 cycles, 12 rounds, 3 slots, 10 attempts) are constants; the runs set them to 1
or 2 so that three messages already reach them, and the proofs cover every value.
One session needs a turn in progress, a follow-up in its queue and a message
waiting for the lock to show every hand-over between them, two automations
to have one deferred behind another, and a second session with one gate slot to
wait for a lock and for the gate at once.  A chat with a goal and a follow-up that
fills its queue at the budget make a turn wait for itself, and an automation deferred
behind another task and `/stop` make an orphan.  Two jobs are enough for a due list with
something after its head.  A second turn is enough to restore what a first one
left, and a crash may come after each of its writes; a cap of 6 messages is passed in
the second turn, in its first already with two tool rounds and a follow-up.  Three
events can show one put aside behind a delta, one merged and one that came later, and
four a reply, another about the same message, the first again, and something beside
them; two texts are a repeat and a change.  A workflow task with two questions has a
wait of a first run and one of a resumed run, and three places hold every execution
at a time.  Two skill names, one
of them also that of a bundled skill, let a file hide it and another take its id,
or share it, which fails the whole index as a file that indexing refuses does.
With a cap of 4 and a suffix of 2 a log of user messages and answers is cut by each of its four operations, and 14 messages let them follow each
other.  `CHECK_DEADLOCK FALSE` is
set throughout: all work is bounded and the system may come to rest.

`RunLoopYields` is TRUE where `asyncio.wait_for` suspends even when the queue has
an item (Python 3.11) and FALSE where it does not (3.12); the project supports
both, so `turn_stop` takes one and `turn_live` the other.  The type invariants of
all modules hold under the configurations of their runs; only that of
`TurnDispatch`, which is proved, is a property of one.

## Fairness

* `TurnDispatch`: the event loop runs every ready task, the run loop, and
  delivers cancellations (weak fairness per action and task); a wait for a
  subagent ends by its result or after 300 s; a model call ends, and a turn
  reaches its last drain because `max_iterations` bounds it (strong fairness,
  since injections may come first).  Nothing is assumed about users, commands or
  failures.
* `CronService`: time passes, the timer wakes, a job's turn ends.
* `LocalTriggers`: the gateway is started again after it died and its loop runs;
  a submitted turn ends, which is `AutomationSettled`: its wait ends, unless a
  command drops or orphans it or a turn waits for itself, cases left out here.
* `ChannelDelivery`: the dispatcher is run, and a send ends, one way or the other.
* `WorkflowTasks`: an execution ends, since the model and the tools answer, and
  the event loop runs the handler of a timeout.
* `SkillRegistry`: a synchronous call goes on, and the composer's task gets its
  turn between such calls (strong fairness).
* `Consolidation`: the task that has the lock goes on, the model answers or its
  calls time out, a turn ends, and the check for idle sessions comes round.

## Proofs

A theorem holds for every value of the constants that its module assumes; TLC
evaluates these assumptions in the module's runs.  Each has the shape *the
invariant holds at first, every action keeps it, it implies the property*: one
lemma per action (or group of like actions), one step under it per conjunct that
the action can disturb, and only the last step is temporal.  The invariants were
checked by TLC on the runs' configurations before they were proved.

| Module, theorem | Property | Hypothesis |
|---|---|---|
| `TurnDispatchProofs`: `TypeCorrect`, `SerialTurns`, `PublishedByOwner`, `FollowupsKept` | `TypeOK`, `SerialSessions`, `RegistryIsOwner`, `NoOrphanedFollowup` | |
| `TurnDispatchProofs`: `HeldOnce`, `DropsAreCommanded`, `AutomationsReported` | `OneHolder`, `DroppedByCommand`, `AutomationsSeparate` | |
| `TurnDispatchProofs`: `TurnsImplemented` | `ImplementsSessionTurns` (the refinement) | |
| `TurnDispatchProofs`: `DeferredWakes` | `DeferredHasWaker` | `RunLoopYields` |
| `TurnHistoryProofs`: `HistoryTypes`, `HistoryKept`, `CheckpointsOfTheTurn`, `CheckpointsAreKept` | `TypeOK`, `NothingForgotten` (an action property), `CheckpointIsOfTurn`, `CheckpointNotForgotten` (an action property) | |
| `TurnHistoryProofs`: `SavedBetweenTurns`, `NothingTwice` | `NothingOnlyInMemory`, `NoDuplicates` | `~StoreMayFail` |
| `TurnHistoryProofs`: `AsksGetReactions` | `AsksAnswered` | `~StoreMayFail`, `~LongTails` |
| `TurnHistoryProofs`: `TranscriptsAreLegal` | `LegalTranscript` | `~GuardsReports`, `~LongTails` |
| `LocalTriggersProofs`: `QueueTypes`, `DeliveriesAreKept`, `RunsAreBounded`, `RunsAreNeeded`, `DirectoriesAreDisjoint` | `TypeOK`, `NothingLost`, `RunsBounded`, `NoNeedlessRun`, `OneDirectory` | |
| `ChannelDeliveryProofs`: `DeliveryTypes`, `SuppressionIsScoped`, `DeliveredInOrder` | `TypeOK`, `SuppressedRepeats`, `InPublishedOrder` (an action property) | |
| `SkillRegistryProofs`: `RegistryTypes`, `ApprovedByHuman`, `NothingLeftOver` | `TypeOK`, `ApprovedOnly`, `NoLeftovers` | |
| `WorkflowTasksProofs`: `TaskTypes`, `OneAtATime` | `TypeOK`, `OneExecution` | `Sequential` |
| `CronServiceProofs`: `ServiceTypes` | `TypeOK` | |
| `CronServiceProofs`: `DueWhenStarted` | `DueStillDue` | `~LateCalls` or no callers |
| `CronServiceProofs`: `RemovalsStand`, `NoJobIsDropped` | `RemovedStaysRemoved`, `JobsNotDropped` (an action property) | |
| `CronServiceProofs`: `RunsAreNotRolledBack` | `NotRolledBack` | no callers |
| `ConsolidationProofs`: `ConsolidationTypes` | `TypeOK` | |
| `ConsolidationProofs`: `NothingIsLost` | `NothingLost` | `Overlaps \subseteq {"stale"}` |
| `ConsolidationProofs`: `ArchivedAtMostOnce` | `ArchivedOnce` | `Overlaps \subseteq {"unlocked", "kill"}` |
| `ConsolidationProofs`: `CalmInRange`, `CalmStartsFresh` | `OffsetInRange`, `NewStartsFresh` | `"new" \notin Overlaps` |

**The hypotheses** name what the code does not exclude and what breaks the
property, each with a counterexample of TLC.  `RunLoopYields` says that the run
loop suspends after it created a task (`asyncio.wait_for` up to Python 3.11);
without it `/stop` cancels a task before its first step, and nobody is left to
release what was deferred behind it.  `StoreMayFail` is an insert into the event
store that raises between the change of the cached session and its save: the
cache is then ahead of the file, and TLC finds each of the three properties
violated (3 turns, 1 iteration, no follow-ups).  `GuardsReports` is a premature
final beside calls of reporting tools, whose results the checkpoint lacks.
`LongTails` is more than `FileCap` messages after the last user message: the cap then
keeps a window from that message on, which may end between calls and their results;
`AsksAnswered` is proved without it and no counterexample is known with it.
`Sequential` says that a task has
one caller and that `/stop` does not cancel a turn waiting in `resume`; without it
the row still says WAITING_USER while the resumed execution runs, and a second
answer starts another.  `LateCalls` is a manual run of a stopped service, which
leaves the timer beside it; any manual run re-arms the timer without saving what
the tick has done, which undoes it (no callers).  `Overlaps` names what may come while a task of the
session waits for the model or the lock: `/new` beside a task (`"new"`), a command
or the closing of an interrupted turn beside a compaction (`"unlocked"`), a turn
with an object that a waiting compaction will replace (`"stale"`), the death of
the process before the archive of `/new` is written (`"kill"`).  TLC refutes
`NothingLost` with each of them but `"stale"`, `ArchivedOnce` with `"stale"` and
with `"new"`, and the other two with `"new"`, so each hypothesis on `Overlaps` is the
weakest of its form.  All hypotheses hold in the run of the property, except that
`consolidation_new` shows `OffsetInRange` violated.

**The assumptions** beyond the shapes of the constants: `None` and the other marks
are no record and no member of a set of the model (`NoneAssumption`,
`MarksAssumption`), the jobs and deliveries are finitely many, since
directories are listed and due lists are sorted, and there is a place for a new
session object beside any two (`PlacesAssumption` of `Consolidation`): only the
cached object and that of the turn are in use when another is made.

**TurnDispatch.**  No property is inductive alone.  The invariant has layers,
each proved from those before it:

1. `TypeInv` (with `GoalType`): the types, and that a turn waiting for a subagent
   has a cycle left, without which the counter could pass its bound.
2. `PlaceInv`: what waits for a lock or the gate is where its `pc` says; a
   message with a task is in no queue that could create the task again; active
   tasks belong to their session; a queued slice belongs to a closing turn.
   Without it a message could start a second task and take a lock twice.
3. `OwnInv`: a task past the lock owns it (`LockInv`), and a published queue is
   the owner's (`RegistryInv`).  `SerialSessions` and `RegistryIsOwner` follow.
4. `FollowInv`: a cancelled task is one that a command awaits, a turn past the
   gate has published its queue, and so a non-empty queue is published.
5. `HoldInv` (with `RoomInv`): each sent and open message is in one place, stated
   as "one of these, at one index" for every pair of places, since the provers
   cannot reason about the sums of `Holders`.  `OneHolder` counts the same places
   and follows at the end.
6. `CauseInv` and `GatherInv`: every cancellation is awaited by a command of the
   same session that is still executing, and what a turn collects (queue, folded,
   a deferred automation) is of its session.  So a drop has its command.
7. `ReportInv`: what the submitter of an automation was told is what became of
   its turn, while its session has recorded no goal.
8. `NoneCreated` and `Waker`: where the run loop yields, no task is cancelled
   before its first step, so each deferred automation has a task that will end.

For the refinement, `StageInv` reads `LifeOf` off the place of a message
(`Stage`); then every action is one abstract step or a stutter (`Map...` and
`Refine...`).

**TurnHistory.**  Except for `ModelCalls` and `BudgetSpent`, each step of the runner
has one of two shapes: it adds messages that are no calls (`Grow`), or follow-ups
at most (`Keep`).  So an invariant needs a few lemmas for the runner and one for
each step of the turn.  Each uses those before it:

1. `TypeInv` (with `PhaseInv`): a turn in progress has a session, and the cached
   checkpoint is that of the file, since both are changed by one save.
2. `SameInv`: without failures of the event store the cached history is that of
   the file.  `AheadInv`: with them it continues that of the file.  So what the cap
   drops from the cached history and what the file keeps make up the file before.
3. `CheckpointInv`: a turn starts without a checkpoint and saves its own, of few
   shapes: calls that are pending, while the tools run, then calls with their
   results, or a final response.
4. `CoverInv`: unless the tools run, the runner's messages cover the checkpoint, so
   the save of the turn may give it up; an interruption restores it at once or
   leaves it to the next turn.
5. `LegalInv` (with `BlankInv`): calls and results match in the file, in the cache
   and in the runner's messages, which end with unanswered calls exactly while the
   tools run.
6. `AskInv`: an ask at the end of the history is still to be closed, by the pending
   flag or by a checkpoint; what the runner has holds no ask and starts with a
   reaction.
7. `WorkInv` and `OnceInv`: the runner has each message of its iterations once, and
   of a turn in progress, or of the turn of a checkpoint, the history has only the
   ask.  What is restored or saved is therefore new; `NoDuplicates` alone says
   nothing of what is still to come.

**LocalTriggers.**  `BatchInv` ties what the loop holds in memory to
`processing/`, where a claimed file is unless its trigger was deleted.
`FileInv` says which counts the files of each directory may have, `RunInv` that
every run is counted by the file that will be read next, `NeedInv` that a
delivery that will run again was cut short.  A crash between the two writes of a
move is harmless only because the file left in `processing/` counts less.

**ChannelDelivery.**  `FlowInv` orders what is being sent, put aside and queued,
`DeliveredInv` puts what was delivered before all of it or makes it the batch that
is sent again, `SendingInv` keeps a batch to one stream.  `SettledInv`: what became of
an event is decided before anything behind it is looked at.  Suppression rests on
`FingerprintInv`: a fingerprint is the text of a reply of its chat that was handed
to the channel, precedes everything still on its way, and after which no other about
the same message was handed over (`LastOf`).

**SkillRegistry.**  A reindex offers what came with the program or what has the id
of a row offered before (`KeptFacts`), whatever ids the files declare, so that
`ApprovedOnly` is inductive; `OpInv` and `DraftInv` say what an operation under way
may rely on, in particular that a draft being approved stays ready; `WriterInv`
says whose file lies in a directory and what `Undo` will take away.

**WorkflowTasks.**  `ExecInv`: a task has one running execution, and while it runs
the row is WAITING_USER only if it was resumed and its caller still waits for it.

**CronService.**  `BaseInv` (types, the due list is distinct and belongs to a
loaded store, a stored or requested id was used) carries `DueStillDue`.
`RemovedInv`: a removed job that nothing crossed is nowhere, or its removal is
requested.  `RunInv` compares the last completed run of a job with its next run in
memory, on disk and in the requests (`LaterInv`, `FinishedInv`, `OffInv`).
`NoJobIsDropped` needs `RanInv` and `StoredInv`: what is in memory is on disk or
requested, or may leave, or the file that had it was damaged.

**Consolidation.**  What matters are the sessions that may go on from a state
(`Sessions`): the file, the cached object and the object of the turn.

1. `TypeInv` (`LockType`, `SessionInv`, `TurnInv`): numbers of messages ascend and
   of two in a row one is a user's (`Neat`), so a cut is never far from a boundary; the
   task that works is the head of the lock's queue; a turn that runs is alone and
   its message is the last.
2. `CalmInv`: without `"new"`, offsets are in range (`RangeInv`), and a task that
   waits for the model works on the cached object, in which its chunk is still the
   part behind the offset (`JobsInv`).  What `/new` clears under a task breaks both.
3. From `CalmInv` each step is brought into one shape, `Step(C)`: every session
   afterwards continues one before it, with the new messages and without the
   archived set `C` (`Flow`), and `C` was seen before (`Archived`).  There is one
   such lemma for each action except `/new`, the archive task and the crashes; the
   overlaps say which half of `Flow` each of them may break.
4. `FreshInv`, `KeptInv` and `OnceInv` state `NewStartsFresh`, `NothingLost` and
   `ArchivedOnce` of *every* session that may go on, not of the file alone, and
   `OnceInv` adds that what is archived beyond the entries counted in `unsaved`, or in
   the hands of the archive tasks of `/new`, is seen by none.  Given `Step(C)` each is kept by
   one argument for all those actions.

**Only model-checked**: liveness, since fairness and ENABLED are outside the
prover: `EverythingSettles`, `AutomationSettled`, `DueRuns`, `DeliveriesSettle`,
`EverythingDispatched`, `RunningResolves`, `ComposingSettles` and
`CompactionSettles`.

## Statements the code does not meet

One disagreement between the code and its documentation has a run of its own
(`consolidation_new`; `PROJECT.json` "findings"): `/new` clears the session that a
background consolidation has in its hands, and when the model answers, the
consolidation advances the offset of the cleared session
(`agent/memory.py:1074`, `:879`) and puts it back into cache and file.  The new
conversation's first messages then lie before the offset, and the model does not
see them.

The modules state further promises, quoted from comments, docstrings, tests and
documentation, that TLC refutes; no passing run lists them.  To see the
counterexample, check the definition with the constants given, the others as in
the run of that module (`turn_live` or `turn_stop` as said;
`history`; `cron_calls`).

| Definition | Promise | What happens | Constants |
|---|---|---|---|
| `AutomationAnswered` | `agent/automation_turns.py:62` "Submit an automation turn and wait for its session response" | an automation turn that `/stop` cancels while it waits for the lock or the gate leaves by the outer `finally` (`agent/loop.py:1451`), which tells nobody, and its submitter waits for ever | as `turn_live` |
| `NothingHangs` | `agent/loop.py:1423` follow-ups are not "silently lost": every message sent is settled in the end | a turn waits for room in its own full queue (as for `ContinuationQueued`), or `/stop` orphans a deferred automation, and what waits behind them stays open | as `turn_live` |
| `StopDropsPending` | `command/builtin.py:180` "Also drain pending queue" | `/stop` awaits the cancelled turn, whose `finally` has by then re-published the queue (`agent/loop.py:1426`) | as `turn_live` |
| `ContinuationQueued` | `session/turn_continuation.py:92` "The next queued continuation slice owns the eventual user-visible response" | the turn waits for room in its own full queue (`:165`), holding lock and gate | as `turn_live` |
| `SilentTurnContinues` | the same | the decision to stay silent is taken before the run (`agent/loop.py:1155`); a subagent's turn, or one whose goal ended meanwhile, queues no slice | as `turn_live` |
| `GoalStartsAfresh` | `session/turn_continuation.py:207` "Reset policy bookkeeping once its owning runtime mode is inactive" | a goal recorded in the turn that ended the last one inherits its rounds | as `turn_live`, `GoalMax = 2` |
| `BudgetDrainsAll` | `agent/runner.py:768` "Drain any remaining injections so they are appended to the conversation history instead of being re-published" | one batch is drained, and none when the cycles are spent | as `turn_live`, 3 chats in one mix, `PendingMax = 2`, `GoalMax = 0` |
| `AutomationResponded` | `agent/automation_turns.py:62` "Submit an automation turn and wait for its session response" | an automation turn that continues a goal tells its submitter it is done with no response (`agent/loop.py:1375`) | as `turn_live` |
| `DeferredHasWaker` | an automation deferred behind a busy session runs when it is idle | `/stop` cancels a task before its first step, its `finally` never runs, and the next deferred turn waits for the next message | as `turn_stop`, `RunLoopYields = FALSE` |
| `PartialContextKept` | `agent/loop.py:1381` "the user does not lose tool results and assistant messages accumulated before /stop" | only the last checkpoint is restored | 1 turn, 2 iterations |
| `NoDuplicates` | `tests/agent/test_loop_save_turn.py:557` (restoring dedupes an overlapping tail) | a failed event insert leaves the saved turn's checkpoint, and the overlap test no longer matches | 3 turns, 1 iteration, `StoreMayFail = TRUE` |
| `FollowUpsRecorded` | `agent/runner.py:769` "appended to the conversation history" | a follow-up injected before the turn's first message is merged into the prompt, which is not saved | 1 turn, 2 iterations, 1 follow-up |
| `LegalTranscript` | `tests/agent/test_stop_preserves_context.py:3` (the checkpoint is materialized) | the checkpoint of a guarded report has calls without results or pending entries (`agent/runner.py:380`) | 1 turn, 2 iterations, `GuardsReports = TRUE` |
| `LegalTranscript` | `session/manager.py:346` "avoid persisting orphan tool results at the front": the cap keeps a legal history | after a turn of more messages than the cap the window starts at the last user message and is cut at its end (`:344`), between calls and their results | `LongTails = TRUE` |
| `NotRolledBack` | `tests/cron/test_cron_service.py:928` "the in-memory next_run_at_ms update must not be lost" | `run_job` of a disabled or missing job cancels the tick without saving (`cron/service.py:852`) | 1 caller, 3 edits |
| `StoppedStaysStopped` | `cron/service.py:835` "without disturbing the service's running state" | a manual run spanning `stop()` restores the flag it read before | 1 caller, 2 edits |
| `NeverDropped` | `cron/service.py:343` "a transient corruption does not drop live jobs" | the first reload renames the bad file, the next one finds none and loads an empty store | `MaxDamages = 1`, 1 edit |
| `RunsRemembered` | as `NotRolledBack` | another instance's `update` carries the next run it computed before the job ran (`cron/service.py:778`, `:829`), and is merged after the run | as `cron`, 2 edits |
| `RemovedForGood` | a removal that was acknowledged stands | the process dies after `action.jsonl` is cleared and before the store is saved (`cron/service.py:334`), or another instance's update of the job, which it loaded before, puts it back | as `cron_calls` |
| `OneTimeRunsOnce` | `skills/cron/SKILL.md:26` "One-time - runs once at a specific time, then auto-deletes" | an edit re-arms the timer by cancelling the tick that is running the job (`cron/service.py:537`), before it is removed | 2 edits |
| `SuppressedWasSeen` | `channels/manager.py:423` "repeated content from separate turns is still delivered" | the fingerprint is recorded before the send (`:351`), which may give up | as `channel` |
| `AbandonedSurfaces` | `workflow/service.py:70` "Mark abandoned RUNNING tasks for attention" | a process that is started again within the 300 s of a lease leaves the task RUNNING | 1 task |
| `CancelledStays` | `workflow/service.py:352` "workflow task cancelled" | an execution that goes on overwrites the row (`_execute_and_persist` does not look at it) | 1 task |
| `OneExecution`, `AnsweredOnce` | `workflow/service.py:74` "could duplicate side effects" | the row says WAITING_USER while a resumed execution runs; after `/stop`, or with a second caller, another answer resumes it again | 1 task, `StopIn` with `"resume"`, or 2 callers |
| `RunningResolves` | a task that is RUNNING gets a result | a result that comes between the timeout of `resume` and its handler is overwritten by RUNNING (`:327`) | 1 task, `LateIn` with `"resume"` |
| `FilesEnterAsDraft` | `skill_store.py:1164` "runtime-written files always enter as draft and only a human approval (CLI/WebUI) moves them to candidate" | the status is kept by the id (`:1619`), which a file may declare (`:652`): one that declares the id of an approved or bundled skill no longer in place has its status at once | as `skills`, `CliAmid = FALSE` |
| `NoResurrection` | a deprecated or rejected skill leaves the search | `update_skill_markdown` sets the status it computed before (`skill_store.py:2356`), over a transition of the command line | as `skills` |
| `EditsEnterAsDraft` | `skill_store.py:1164` "runtime-written files always enter as draft" | the row of an approved skill keeps its status when its file is rewritten | `CliAmid = FALSE` |
| `IndexCurrent` | `ensure_index` brings the index up to date | whether to reindex goes by the newest file (`skill_store.py:1590`): a removed file is not noticed, nor one written before any write to the database | `CliAmid = FALSE` |
| `ReadyApprovable` | a draft that is ready can be approved | a write of SKILL.md that fails leaves the directory, with a cut-off file if it was open (`:2687`; the cleanup wants `wrote_skill`), and an attachment cut off keeps the directory (`:2697`); `mkdir` (`:2683`) refuses it for ever | `CliAmid = FALSE` |
| `NextMessageOnly` | `agent/tools/skill_request_approval.py:67` "Only the user's very next message" | a message that is neither yes nor no leaves the question open (`agent/loop.py:1794`) | `CliAmid = FALSE` |
| `AskedIsApproved` | the yes is about the draft the user was asked about | the answer looks the draft up by name (`webui/skill_manage_api.py:624`) | 2 drafts, `MaxEdits = 0` |
| `NothingLost` | `agent/memory.py:1103` "all session mutation goes through a single lock-protected path" | a command, or the closing of an interrupted turn, saves without the lock while a compaction waits for the model, which then saves its own copy (`:1151`) | `Overlaps = {"unlocked"}` |
| `NothingLost` | the same of what `/new` hands to its archive task | the process dies before the task is done | `Overlaps = {"kill"}` |
| `NeverTwice` | a message is consolidated once | the entry of `history.jsonl` is written before the session is saved (`agent/memory.py:976` before `:880`, `:1075` and `:1153`, `agent/loop.py:2186` before `:2197`); a process that dies between them archives the messages again | as `consolidation` |
| `ArchivedOnce` | a message is consolidated once | the session expires during a background consolidation, a turn begins while the compaction waits for the lock, and later saves its older object over the compacted one | `Overlaps = {"stale"}` |
| `NothingLost`, `ArchivedOnce`, `NewStartsFresh` | `docs/chat-commands.md:7` "start a new conversation" | `/new` during a consolidation or a compaction: the task saves what it holds, or archives it again | `Overlaps = {"new"}` |

`Overlaps` names what the code does not exclude while a consolidation or a
compaction awaits the model.  The run `consolidation` takes none of them.
`NothingLost` also holds with `{"stale"}` and `ArchivedOnce` with
`{"unlocked", "kill"}`, as proved above, and
`CompactionSettles` with all four (10 messages).
`AsksAnswered` and `NothingOnlyInMemory` also fail when the event store fails as
for `NoDuplicates`, and `DueStillDue` when a manual run begins while the service is
stopped (as `cron`, 1 caller); the runs leave those cases out and say so by
`StoreMayFail` and `LateCalls`, and the theorems by their hypotheses.

## Abstractions

* Messages are model values; text, channel, media and metadata are left out.
  Whether a goal waits for approval, and whether a chat approves it, are choices
  (`LongTask`, `Approvals`).
* `GoalMax` bounds the goals the model records in a session; the code does not.
* In `TurnHistory` follow-ups of users and of subagents are alike, and several
  that the runner merges into one message are entries of their own.
* `FileCap` stands for `FILE_MAX_MESSAGES` (2000).  In `TurnHistory` it applies to a
  history of which nothing is consolidated; the offset is the matter of
  `Consolidation`.
* Files are replaced atomically, as `os.replace` does; writes succeed or the
  process dies; an entry of `history.jsonl` is written whole or not at all.  In `SkillRegistry`, which writes into the file itself, they may
  break off.
* A schedule is a period or a single time; `MaxSleep` is the longest sleep.
* In `ChannelDelivery` an event is its place in the order of publication, with
  the text only where suppression looks at it.  An end of a stream carries no
  text, so it is never merged; a streamed response takes part in neither
  suppression nor fingerprints.
* In `WorkflowTasks` the steps of an execution are one, and it may end in any of
  its results.  After a timeout a second task is created on the coroutine the
  first still drives; both wait for the same future, and the model keeps one.
  What comes after a timeout reaches nobody: `deliver_background` has no caller.
* In `SkillRegistry` one bad file, or two with one id, stop the indexing of all, as
  in the code; a skill's name is that of its directory, whatever its frontmatter
  says; bundled files are older than the database and `verified`; routing cases and
  attachments are one write after that of the skill's file.  What the cleanup
  removes can be removed, and the database does not fail.  A "yes" that
  arrives while the asking turn runs is a message to the model, no answer.
* In `Consolidation` the weight of a message is left open, so a consolidation may
  stop at any user message; the log alternates user messages and answers; a summary
  and the raw dump that replaces it are alike; saving a compaction does not fail.
* `Horizon`, `MaxEdits`, `MaxTurns`, `MaxFollowUps`, `MaxInterruptions`, `MaxEvents`,
  `MaxQuestions`, `MaxDeaths`, `MaxFaults`, `MaxMessages`, `MaxNews`, `MaxCrashes`
  and `MaxDamages` bound the runs and nothing in the code.

## Not modelled

`PROJECT.json` says of each component why.  By kind:

* Protocol translation and I/O, the bulk of the repository: the channel adapters,
  the adapters of language models, image generation and transcription, tools, MCP,
  the services and the front end of the WebUI, the HTTP API, the SDK, the command
  line, onboarding and settings.  They keep connections and caches, and what could
  be said of them is about formats.
* Sequential procedures: prompt construction, reasoning, evidence, conversation
  focus, security checks, search and ranking of memories and skills.
* State worth a module of its own later: the breaker of
  `providers/fallback_provider.py`, whose half-open state lets every concurrent
  call through (`:112`); exec sessions; the cursors of `history.jsonl` and Dream;
  file state tracking; MCP reconnection.  In the cron service, a save that raises at
  the end of a tick (`cron/service.py:576`), and a one-time job whose time passed
  while the service was down (`:514`), of which nothing says what it should do.

Within the modelled components: streaming, runtime events and replies of the
dispatcher; prompt construction and hooks of the runner; cron expressions, time
zones and run history; creating triggers and run records; the supervision of
channels; the steps of the workflow executor and access to tasks; system skills,
evaluation and usage counters.

The modules map the concurrent core, some files of `agent/`, `session/`, `cron/`,
`triggers/`, `workflow/`, `channels/manager.py` and `skill_store.py`; that is a
small part of the lines of a repository whose size is in its adapters.
