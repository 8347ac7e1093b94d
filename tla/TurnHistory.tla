----------------------------- MODULE TurnHistory -----------------------------
(***************************************************************************)
(* What one session's history keeps of its turns: the turn state machine   *)
(* (RESTORE, COMMAND, BUILD, RUN, SAVE), the runner's messages, the        *)
(* checkpoint it saves at every iteration, and what cancellation, errors,  *)
(* a process crash and /new leave of them.                                 *)
(*                                                                         *)
(* Turns of a session are serial (TurnDispatch), so the module follows one *)
(* turn at a time.  A step is the code between two saves or suspension     *)
(* points.  An entry stands for one message; the tool calls of an          *)
(* iteration, and their results, are one entry each.                       *)
(***************************************************************************)
EXTENDS Naturals, Sequences, FiniteSets, SequencesExt

CONSTANTS
  MaxTurns,       \* bound on the turns of the session
  MaxIterations,  \* max_iterations of a runner slice
  MaxFollowUps,   \* bound on the follow-ups injected into one turn
  FileCap,        \* FILE_MAX_MESSAGES
  LongTails,      \* whether more than FileCap messages may follow the last user message
  StoreMayFail,   \* whether ConversationEventStore.insert_events may raise
  GuardsReports,  \* whether a premature final beside observability calls occurs
  None            \* no checkpoint, no cached session

ASSUME HistoryAssumption ==
  /\ MaxTurns \in Nat \ {0} /\ MaxIterations \in Nat \ {0} /\ MaxFollowUps \in Nat
  /\ FileCap \in Nat \ {0}
  /\ LongTails \in BOOLEAN /\ StoreMayFail \in BOOLEAN /\ GuardsReports \in BOOLEAN

Bodies == {"ask", "followup", "nudge", "correction", "calls", "final", "notice",
           "result", "interrupted"}
Entry  == [body : Bodies, turn : 1..MaxTurns, step : 0..MaxIterations + MaxFollowUps]

Role(e) ==
  CASE e.body \in {"ask", "followup", "nudge", "correction"} -> "user"
    [] e.body \in {"calls", "final", "notice"} -> "assistant"
    [] e.body \in {"result", "interrupted"} -> "tool"

\* A runtime checkpoint: the assistant message of the current iteration, the
\* results of its tools, and the calls still pending.
Checkpoint == [assistant : Entry, results : Seq(Entry), pending : Seq(Entry)]

\* Session.messages and the two flags of its metadata.
Session == [messages : Seq(Entry), checkpoint : Checkpoint \cup {None}, pendingUser : BOOLEAN]

\* None is neither a session nor a checkpoint.
ASSUME NoneAssumption == None \notin Session \cup Checkpoint

EmptySession == [messages |-> <<>>, checkpoint |-> None, pendingUser |-> FALSE]

VARIABLES
  disk,       \* the session file
  archived,   \* what the file cap has written to history.jsonl
  mem,        \* the cached Session, None when it is not loaded
  turn,       \* number of the current or last turn
  kind,       \* "chat", "continuation", "command" or "new"
  phase,      \* where the turn is suspended
  iteration,  \* iteration of the runner
  followups,  \* follow-ups injected into this turn
  work        \* the runner's messages beyond the initial ones

vars == <<disk, archived, mem, turn, kind, phase, iteration, followups, work>>

Kinds  == {"chat", "continuation", "command", "new"}
Phases == {"idle", "restored", "asked", "model", "tools", "ended"}

TypeOK ==
  /\ disk \in Session
  /\ archived \subseteq Entry
  /\ mem \in Session \cup {None}
  /\ turn \in 0..MaxTurns
  /\ kind \in Kinds
  /\ phase \in Phases
  /\ iteration \in 0..MaxIterations
  /\ followups \in 0..MaxFollowUps
  /\ work \in Seq(Entry)

Init ==
  /\ disk = EmptySession
  /\ archived = {}
  /\ mem = None
  /\ turn = 0
  /\ kind = "chat"
  /\ phase = "idle"
  /\ iteration = 0
  /\ followups = 0
  /\ work = <<>>

Item(body, step) == [body |-> body, turn |-> turn, step |-> step]

\* Mutant of Save: only the cached session changes.
SaveLater(session) == mem' = session /\ UNCHANGED disk

\* SessionManager.save: the file is replaced atomically.
Save(session) == mem' = session /\ disk' = session

-----------------------------------------------------------------------------
(* Restoring an unfinished turn *)

\* Mutant of Materialize: pending calls are left without a result.
MaterializeDone(c) == <<c.assistant>> \o c.results

\* The messages a checkpoint stands for.
Materialize(c) ==
  <<c.assistant>> \o c.results
    \o [i \in 1..Len(c.pending) |-> [c.pending[i] EXCEPT !.body = "interrupted"]]

\* How many of the restored messages end the history already.
Overlap(messages, restored) ==
  LET Same(k) == SubSeq(messages, Len(messages) - k + 1, Len(messages)) = SubSeq(restored, 1, k)
      sizes   == {k \in 0..Len(restored) : k <= Len(messages) /\ Same(k)}
  IN  CHOOSE k \in sizes : \A j \in sizes : j <= k

\* Mutants of RestoreCheckpoint: the checkpoint is kept; the history is
\* replaced; the checkpoint is only cleared.
RestoreAndKeep(session) ==
  [session EXCEPT !.messages = @ \o Materialize(session.checkpoint)]

RestoreInstead(session) ==
  [messages |-> Materialize(session.checkpoint), checkpoint |-> None, pendingUser |-> FALSE]

RestoreCleared(session) == [session EXCEPT !.checkpoint = None, !.pendingUser = FALSE]

\* _restore_runtime_checkpoint
RestoreCheckpoint(session) ==
  LET restored == Materialize(session.checkpoint)
      known    == Overlap(session.messages, restored)
  IN  [messages    |-> session.messages \o SubSeq(restored, known + 1, Len(restored)),
       checkpoint  |-> None,
       pendingUser |-> FALSE]

\* _restore_pending_user_turn
ClosePendingUser(session) ==
  LET m == session.messages IN
  [session EXCEPT
     !.pendingUser = FALSE,
     !.messages = IF m # <<>> /\ Role(Last(m)) = "user"
                  THEN Append(m, [Last(m) EXCEPT !.body = "notice"]) ELSE m]

\* Mutants of Restore: a pending user message is not closed; nothing is restored.
RestoreOnlyCheckpoint(session) ==
  IF session.checkpoint # None THEN RestoreCheckpoint(session) ELSE session

RestoreNothing(session) == session

\* What RESTORE makes of the session.
Restore(session) ==
  IF session.checkpoint # None THEN RestoreCheckpoint(session)
  ELSE IF session.pendingUser THEN ClosePendingUser(session)
  ELSE session

-----------------------------------------------------------------------------
(* The turn *)

\* RESTORE: get_or_create, then close whatever an earlier turn left open.
BeginTurn(k) ==
  LET session == IF mem = None THEN disk ELSE mem IN
  /\ phase = "idle" /\ turn < MaxTurns
  /\ turn' = turn + 1
  /\ kind' = k
  /\ phase' = "restored"
  /\ iteration' = 0
  /\ followups' = 0
  /\ work' = <<>>
  /\ IF session.checkpoint # None \/ session.pendingUser
     THEN Save(Restore(session))
     ELSE mem' = session /\ UNCHANGED disk
  /\ UNCHANGED archived

\* _persist_user_message_early: in BUILD, and for a shortcut command.
PersistAsk ==
  /\ phase = "restored" /\ kind \in {"chat", "command"}
  /\ Save([mem EXCEPT !.messages = Append(@, Item("ask", 0)), !.pendingUser = TRUE])
  /\ phase' = IF kind = "chat" THEN "model" ELSE "asked"
  /\ UNCHANGED <<archived, turn, kind, iteration, followups, work>>

\* A continuation slice has no user message of its own.
BuildContinuation ==
  /\ phase = "restored" /\ kind = "continuation"
  /\ phase' = "model"
  /\ UNCHANGED <<disk, archived, mem, turn, kind, iteration, followups, work>>

\* A shortcut command saves its reply and only then clears the pending flag,
\* in memory.
CommandReply ==
  LET answered == [mem EXCEPT !.messages = Append(@, Item("final", 0))] IN
  /\ phase = "asked"
  /\ disk' = answered
  /\ mem' = [answered EXCEPT !.pendingUser = FALSE]
  /\ phase' = "idle"
  /\ UNCHANGED <<archived, turn, kind, iteration, followups, work>>

\* _set_runtime_checkpoint
SaveCheckpoint(assistant, results, pending) ==
  Save([mem EXCEPT !.checkpoint =
          [assistant |-> assistant, results |-> results, pending |-> pending]])

\* Follow-ups are appended to the runner's messages only.  A turn that has not
\* produced a message yet ends with its prompt: the follow-up is merged into
\* that message, which is not one of the new ones.
InjectedAfter(messages, n) ==
  IF messages = <<>> THEN messages
  ELSE messages \o [i \in 1..n |-> Item("followup", followups + i)]

CountFollowUps(n) ==
  /\ followups + n <= MaxFollowUps
  /\ followups' = followups + n

\* for iteration in range(max_iterations)
WithinBudget == iteration < MaxIterations

\* The runner drains n follow-ups and goes on with its next iteration ...
Continue(messages, n) ==
  /\ CountFollowUps(n)
  /\ work' = InjectedAfter(messages, n)
  /\ iteration' = iteration + 1
  /\ phase' = "model"

\* ... or there are none and it returns.
ContinueOrEnd(messages) ==
  \/ \E n \in 1..MaxFollowUps : Continue(messages, n)
  \/ /\ work' = messages
     /\ phase' = "ended"
     /\ UNCHANGED <<iteration, followups>>

\* The model answers with tool calls.
ModelCalls ==
  /\ phase = "model" /\ WithinBudget
  /\ work' = Append(work, Item("calls", iteration))
  /\ SaveCheckpoint(Item("calls", iteration), <<>>, <<Item("calls", iteration)>>)
  /\ phase' = "tools"
  /\ UNCHANGED <<archived, turn, kind, iteration, followups>>

AfterTools == Append(work, Item("result", iteration))

\* The tools have run; the drain after them may inject follow-ups.
ToolsDone ==
  /\ phase = "tools"
  /\ SaveCheckpoint(Item("calls", iteration), <<Item("result", iteration)>>, <<>>)
  /\ \E n \in 0..MaxFollowUps : Continue(AfterTools, n)
  /\ UNCHANGED <<archived, turn, kind>>

\* The tools only report and the response came with their calls: it is final,
\* unless the session works on a goal.
ToolsReported ==
  /\ phase = "tools"
  /\ SaveCheckpoint(Item("calls", iteration), <<Item("result", iteration)>>, <<>>)
  /\ \/ ContinueOrEnd(AfterTools)
     \/ Continue(Append(AfterTools, Item("nudge", iteration)), 0)
  /\ UNCHANGED <<archived, turn, kind>>

\* A fatal tool error ends the turn without another checkpoint.
ToolsFail ==
  /\ phase = "tools"
  /\ ContinueOrEnd(Append(AfterTools, Item("final", iteration)))
  /\ UNCHANGED <<disk, archived, mem, turn, kind>>

\* The model gives a final response: a follow-up or an active goal keeps the
\* turn going, otherwise the runner is done.
ModelFinal ==
  LET answered == Append(work, Item("final", iteration)) IN
  /\ phase = "model" /\ WithinBudget
  /\ SaveCheckpoint(Item("final", iteration), <<>>, <<>>)
  /\ \/ ContinueOrEnd(answered)
     \/ Continue(Append(answered, Item("nudge", iteration)), 0)
  /\ UNCHANGED <<archived, turn, kind>>

\* guard_final: once a turn a premature final is answered by a correction.
Correct(messages, n) ==
  /\ iteration + 1 < MaxIterations
  /\ \A e \in Range(work) : e.body # "correction"
  /\ Continue(Append(messages, Item("correction", iteration)), n)

ModelCorrected ==
  /\ phase = "model"
  /\ SaveCheckpoint(Item("final", iteration), <<>>, <<>>)
  /\ \E n \in 0..MaxFollowUps : Correct(Append(work, Item("final", iteration)), n)
  /\ UNCHANGED <<archived, turn, kind>>

\* The same beside calls of reporting tools: the checkpoint of the correction
\* has neither their results nor their pending calls.
ReportCorrected ==
  /\ GuardsReports
  /\ phase = "tools"
  /\ SaveCheckpoint(Item("calls", iteration), <<>>, <<>>)
  /\ \E n \in 0..MaxFollowUps : Correct(AfterTools, n)
  /\ UNCHANGED <<archived, turn, kind>>

\* _MAX_EMPTY_RETRIES and _MAX_INJECTION_CYCLES are smaller than the budget: it
\* is not spent on iterations without a message.
SpendsLittle == work # <<>> \/ iteration + 1 < MaxIterations

\* An empty response is asked for again, a truncated one is continued.
ModelRetries ==
  /\ phase = "model" /\ WithinBudget
  /\ \/ SpendsLittle /\ Continue(work, 0)
     \/ Continue(work \o <<Item("final", iteration), Item("nudge", iteration)>>, 0)
  /\ UNCHANGED <<disk, archived, mem, turn, kind>>

\* An error of the model or an empty response at last: two drains, before and
\* after the message that closes the turn, and no checkpoint.
ModelFails ==
  /\ phase = "model" /\ WithinBudget
  /\ \/ SpendsLittle /\ \E n \in 1..MaxFollowUps : Continue(work, n)
     \/ ContinueOrEnd(Append(work, Item("final", iteration)))
  /\ UNCHANGED <<disk, archived, mem, turn, kind>>

\* The budget is spent: a last drain, and a closing message, which
\* maybe_continue_turn strips when another slice follows.
BudgetSpent ==
  /\ phase = "model" /\ iteration = MaxIterations
  /\ \E n \in 0..MaxFollowUps, continues \in BOOLEAN :
       /\ CountFollowUps(n)
       /\ work' = InjectedAfter(work, n)
                    \o (IF continues THEN <<>> ELSE <<Item("final", iteration)>>)
  /\ phase' = "ended"
  /\ UNCHANGED <<disk, archived, mem, turn, kind, iteration>>

\* _save_turn: the runner's new messages join the history.
Recorded == [mem EXCEPT !.messages = @ \o work]

Users(m)  == {i \in DOMAIN m : Role(m[i]) = "user"}
Recent(m) == {i \in Users(m) : i > Len(m) - FileCap}

\* retain_recent_legal_suffix: of the last FileCap messages those from the first
\* user message on; without one, as many from the last user message on.
Window(m) ==
  LET users  == Users(m)
      recent == Recent(m)
  IN IF recent # {} THEN [from |-> Min(recent), to |-> Len(m)]
     ELSE IF users # {}
       THEN [from |-> Max(users), to |-> Min({Len(m), Max(users) + FileCap - 1})]
     ELSE [from |-> Len(m) - FileCap + 1, to |-> Len(m)]

\* find_legal_message_start: from there on every result follows its calls.
LegalStart(m, w) ==
  Min({s \in w.from..w.to + 1 :
         \A i \in s..w.to : Role(m[i]) = "tool" =>
           \E j \in s..i - 1 : m[j] = [m[i] EXCEPT !.body = "calls"]})

Kept(m) ==
  LET w == Window(m) IN
  IF Len(m) <= FileCap THEN [from |-> 1, to |-> Len(m)]
  ELSE [from |-> LegalStart(m, w), to |-> w.to]

Capped(m) == LET k == Kept(m) IN SubSeq(m, k.from, k.to)

\* Mutant of Dropped: only the messages beyond the cap are archived.
DroppedExcess(m) == {m[i] : i \in 1..Len(m) - FileCap}

Dropped(m) == LET k == Kept(m) IN {m[i] : i \in DOMAIN m \ k.from..k.to}

\* enforce_file_cap: what the cap drops goes to history.jsonl (raw_archive).
ArchiveDropped ==
  LET m == Recorded.messages IN
  /\ LongTails \/ Len(m) <= FileCap \/ Recent(m) # {}
  /\ archived' = archived \cup Dropped(m)

\* SAVE: the new messages, the file cap, both flags and one save.
SaveTurn ==
  /\ phase = "ended"
  /\ ArchiveDropped
  /\ Save([messages |-> Capped(Recorded.messages), checkpoint |-> None, pendingUser |-> FALSE])
  /\ phase' = "idle"
  /\ UNCHANGED <<turn, kind, iteration, followups, work>>

\* The process dies between the two writes.
CrashInSave ==
  /\ phase = "ended"
  /\ ArchiveDropped
  /\ mem' = None
  /\ phase' = "idle"
  /\ UNCHANGED <<disk, turn, kind, iteration, followups, work>>

-----------------------------------------------------------------------------
(* Interruptions *)

Cancellable == phase \in {"restored", "model", "tools", "ended"}

\* _dispatch, except CancelledError: the checkpoint becomes history.
Cancel ==
  /\ Cancellable
  /\ IF mem.checkpoint # None
     THEN Save(RestoreCheckpoint(mem))
     ELSE UNCHANGED <<disk, mem>>
  /\ phase' = "idle"
  /\ UNCHANGED <<archived, turn, kind, iteration, followups, work>>

\* _dispatch, except Exception: the session is left as it is.
Fail ==
  /\ phase # "idle"
  /\ phase' = "idle"
  /\ UNCHANGED <<disk, archived, mem, turn, kind, iteration, followups, work>>

\* The event store (SQLite) raises between the change of the cached session
\* and its save: in _persist_user_message_early before the pending flag is
\* set, in _save_turn before the flags are cleared.
FailInStore ==
  /\ StoreMayFail
  /\ \/ /\ phase = "restored" /\ kind \in {"chat", "command"}
        /\ mem' = [mem EXCEPT !.messages = Append(@, Item("ask", 0))]
     \/ /\ phase = "ended"
        /\ mem' = Recorded
  /\ phase' = "idle"
  /\ UNCHANGED <<disk, archived, turn, kind, iteration, followups, work>>

\* The process dies: only the file is left.
Crash ==
  /\ mem # None
  /\ mem' = None
  /\ phase' = "idle"
  /\ UNCHANGED <<disk, archived, turn, kind, iteration, followups, work>>

\* cmd_new, in a task of its own or in the run loop after it cancelled the
\* turn in progress.  Session.clear keeps the metadata.
ClearSession ==
  LET session == IF mem = None THEN disk ELSE mem IN
  /\ \/ phase = "restored" /\ kind = "new"
     \/ phase = "idle"
  /\ disk' = [session EXCEPT !.messages = <<>>]
  /\ mem' = None
  /\ phase' = "idle"
  /\ UNCHANGED <<archived, turn, kind, iteration, followups, work>>

Next ==
  \/ \E k \in Kinds : BeginTurn(k)
  \/ PersistAsk \/ BuildContinuation \/ CommandReply
  \/ ModelCalls \/ ToolsDone \/ ToolsReported \/ ToolsFail
  \/ ModelFinal \/ ModelCorrected \/ ReportCorrected \/ ModelRetries \/ ModelFails
  \/ BudgetSpent \/ SaveTurn \/ CrashInSave
  \/ Cancel \/ Fail \/ FailInStore \/ Crash \/ ClearSession

Spec == Init /\ [][Next]_vars

-----------------------------------------------------------------------------
(* Properties *)

Legal(messages) ==
  \A i \in DOMAIN messages :
    LET e == messages[i] IN
    /\ Role(e) = "tool" =>
         i > 1 /\ messages[i - 1] = [e EXCEPT !.body = "calls"]
    /\ e.body = "calls" =>
         /\ i < Len(messages)
         /\ messages[i + 1] \in {[e EXCEPT !.body = "result"], [e EXCEPT !.body = "interrupted"]}

\* Whatever interrupts the turns, a provider accepts the saved history: every
\* tool call is followed by its result and every result follows its call.
LegalTranscript ==
  /\ Legal(disk.messages)
  /\ mem # None => Legal(mem.messages)

\* Restoring a checkpoint never repeats a message that is in the history.
NoDuplicates ==
  \A i, j \in DOMAIN disk.messages : disk.messages[i] = disk.messages[j] => i = j

\* A later turn never meets a user message without any reaction to it.
AsksAnswered ==
  \A i \in DOMAIN disk.messages :
    disk.messages[i].body = "ask" /\ i < Len(disk.messages)
      => Role(disk.messages[i + 1]) = "assistant"

\* Between turns the file holds what the cached session holds, so a crash
\* between turns loses nothing.
NothingOnlyInMemory ==
  phase = "idle" /\ mem # None =>
    /\ mem.messages = disk.messages
    /\ mem.checkpoint = disk.checkpoint

\* An interrupted turn is closed before the next one writes to the history:
\* while a turn runs the checkpoint on disk is its own.
CheckpointIsOfTurn ==
  phase # "idle" /\ disk.checkpoint # None => disk.checkpoint.assistant.turn = turn

\* The history grows at its end.  Only /new and the file cap take messages out of
\* it: those of the cap are in history.jsonl before, and what is left stays
\* together and in its order, before the messages that join it.
Retains(from, to) ==
  /\ IsPrefix(SubSeq(disk.messages, from, to), disk'.messages)
  /\ \A i \in DOMAIN disk.messages : i \in from..to \/ disk.messages[i] \in archived'

NothingForgotten ==
  [][\/ IsPrefix(disk.messages, disk'.messages)
     \/ ClearSession
     \/ \E from \in 1..Len(disk.messages) + 1, to \in 0..Len(disk.messages) : Retains(from, to)]_vars

\* The checkpoint is given up only for its messages in the history or, past the
\* file cap, in history.jsonl, where a result may stand for a call that was
\* pending, or for the next checkpoint of the same turn.
CheckpointNotForgotten ==
  [][disk.checkpoint # None /\ disk'.checkpoint = None =>
       \A e \in Range(Materialize(disk.checkpoint)) :
         \/ e \in Range(disk'.messages) \cup archived'
         \/ /\ e.body = "interrupted"
            /\ [e EXCEPT !.body = "result"] \in Range(disk'.messages) \cup archived']_vars

\* "Preserve partial context from the interrupted turn so the user does not
\* lose tool results and assistant messages accumulated before /stop"
\* (loop.py:1381).
PartialContextKept ==
  [][Cancel => {e \in Range(work) : Role(e) # "user"} \subseteq Range(disk'.messages)]_vars

\* "Drain any remaining injections so they are appended to the conversation
\* history" (runner.py:770): every follow-up a turn took from the queue is in
\* the history once the turn is saved.
FollowUpsRecorded ==
  [][SaveTurn => \A i \in 1..followups :
                   Item("followup", i) \in Range(disk'.messages) \cup archived']_vars
=============================================================================
