---------------------------- MODULE LocalTriggers ----------------------------
(***************************************************************************)
(* Deliveries of local triggers: other processes put them into an inbox    *)
(* directory, the gateway claims them, submits a session turn for each one *)
(* in order and deletes the file when the turn has ended.  A directory     *)
(* entry is the only thing that survives a crash.                          *)
(*                                                                         *)
(* Every operation of the store holds the file lock, so it is one step     *)
(* for the other processes; but the gateway may die between its writes.    *)
(***************************************************************************)
EXTENDS Naturals, Sequences, FiniteSets, FiniteSetsExt, SequencesExt

CONSTANTS
  Triggers,
  Deliveries,
  TriggerOf,         \* the trigger of each delivery
  MaxAttempts,       \* _MAX_DELIVERY_ATTEMPTS (10)
  BatchSize,         \* batch_size (20)
  MaxInterruptions,  \* bound on crashes, shutdowns and exceptions
  None               \* no file

ASSUME TriggersAssumption ==
  /\ TriggerOf \in [Deliveries -> Triggers]
  /\ IsFiniteSet(Deliveries)
  /\ MaxAttempts \in Nat \ {0} /\ BatchSize \in Nat \ {0} /\ MaxInterruptions \in Nat
  /\ None \notin Nat

VARIABLES
  trigger,        \* "enabled", "disabled" or "deleted"
  inbox,          \* inbox[d]: the attempts its file in inbox/ counts, or None
  processing,     \* the same of processing/
  failed,         \* the same of failed/
  pc,             \* the delivery loop: "down", "poll", "deliver", "turn" or "ended"
  batch,          \* what the loop has claimed and not yet handled
  count,          \* attempts of a claimed delivery, in memory
  runs,           \* turns submitted for a delivery
  result,         \* "none", "queued", or how the delivery ended
  interrupted,    \* how often the handling of a delivery was cut short
  interruptions   \* how often any was

fileVars == <<inbox, processing, failed>>
loopVars == <<pc, batch, count>>
histVars == <<runs, result, interrupted, interruptions>>
vars == <<trigger, fileVars, loopVars, histVars>>

Files == [Deliveries -> 0..MaxAttempts \cup {None}]

TypeOK ==
  /\ trigger \in [Triggers -> {"enabled", "disabled", "deleted"}]
  /\ inbox \in Files /\ processing \in Files /\ failed \in Files
  /\ pc \in {"down", "poll", "deliver", "turn", "ended"}
  /\ batch \in Seq(Deliveries)
  /\ count \in [Deliveries -> 0..MaxAttempts]
  /\ runs \in [Deliveries -> Nat]
  /\ result \in [Deliveries -> {"none", "queued", "answered", "dropped", "exhausted"}]
  /\ interrupted \in [Deliveries -> 0..MaxInterruptions]
  /\ interruptions \in 0..MaxInterruptions

Init ==
  /\ trigger = [t \in Triggers |-> "enabled"]
  /\ inbox = [d \in Deliveries |-> None]
  /\ processing = [d \in Deliveries |-> None]
  /\ failed = [d \in Deliveries |-> None]
  /\ pc = "down"
  /\ batch = <<>>
  /\ count = [d \in Deliveries |-> 0]
  /\ runs = [d \in Deliveries |-> 0]
  /\ result = [d \in Deliveries |-> "none"]
  /\ interrupted = [d \in Deliveries |-> 0]
  /\ interruptions = 0

In(directory) == {d \in Deliveries : directory[d] # None}

-----------------------------------------------------------------------------
(* The senders and the owner of the triggers *)

Enqueue(d) ==
  /\ result[d] = "none"
  /\ trigger[TriggerOf[d]] = "enabled"
  /\ inbox' = [inbox EXCEPT ![d] = 0]
  /\ result' = [result EXCEPT ![d] = "queued"]
  /\ UNCHANGED <<trigger, processing, failed, loopVars, runs, interrupted, interruptions>>

\* enable
SetEnabled(t, on) ==
  /\ trigger[t] # "deleted"
  /\ trigger' = [trigger EXCEPT ![t] = IF on THEN "enabled" ELSE "disabled"]
  /\ UNCHANGED <<fileVars, loopVars, histVars>>

\* delete: the trigger and the files of its deliveries in all directories.
Delete(t) ==
  LET Without(directory) ==
        [d \in Deliveries |-> IF TriggerOf[d] = t THEN None ELSE directory[d]]
  IN
  /\ trigger[t] # "deleted"
  /\ trigger' = [trigger EXCEPT ![t] = "deleted"]
  /\ inbox' = Without(inbox)
  /\ processing' = Without(processing)
  /\ failed' = Without(failed)
  /\ UNCHANGED <<loopVars, histVars>>

-----------------------------------------------------------------------------
(* The delivery loop *)

\* The attempt that is being recorded was the last one.
Exhausted(attempts) == attempts + 1 >= MaxAttempts

\* _retry_delivery_unlocked, for the deliveries ds with their attempts: the
\* file is written to its next directory and then removed from processing/,
\* unless the gateway dies in between and it is kept.
Retry(ds, kept, attempts) ==
  /\ inbox' = [d \in Deliveries |-> IF d \in ds /\ ~Exhausted(attempts[d])
                                    THEN attempts[d] + 1 ELSE inbox[d]]
  /\ failed' = [d \in Deliveries |-> IF d \in ds /\ Exhausted(attempts[d])
                                     THEN attempts[d] + 1 ELSE failed[d]]
  /\ processing' = [d \in Deliveries |-> IF d \in ds \ kept THEN None ELSE processing[d]]
  /\ result' = [d \in Deliveries |-> IF d \in ds \ kept /\ Exhausted(attempts[d])
                                     THEN "exhausted" ELSE result[d]]

\* Mutants of Move: the files are deleted; they are copied.
MoveAway(ds) ==
  /\ inbox' = [d \in Deliveries |-> IF d \in ds THEN None ELSE inbox[d]]
  /\ UNCHANGED processing

MoveCopy(ds) ==
  /\ processing' = [d \in Deliveries |-> IF d \in ds THEN inbox[d] ELSE processing[d]]
  /\ UNCHANGED inbox

\* os.replace of every claimed file
Move(ds) ==
  /\ inbox' = [d \in Deliveries |-> IF d \in ds THEN None ELSE inbox[d]]
  /\ processing' = [d \in Deliveries |-> IF d \in ds THEN inbox[d] ELSE processing[d]]

\* Mutants of Recover: the attempts start again; nothing is requeued.
RecoverFresh ==
  /\ pc = "down"
  /\ Retry(In(processing), {}, [d \in Deliveries |-> 0])
  /\ pc' = "poll"
  /\ UNCHANGED <<trigger, batch, count, runs, interrupted, interruptions>>

RecoverNothing ==
  /\ pc = "down"
  /\ pc' = "poll"
  /\ UNCHANGED <<trigger, fileVars, batch, count, histVars>>

\* The gateway starts: recover_processing_deliveries.
Recover ==
  /\ pc = "down"
  /\ Retry(In(processing), {}, processing)
  /\ pc' = "poll"
  /\ UNCHANGED <<trigger, batch, count, runs, interrupted, interruptions>>

\* claim_deliveries: at most BatchSize files move from inbox/ to processing/.
Claim ==
  /\ pc = "poll" /\ In(inbox) # {}
  /\ \E ds \in SUBSET In(inbox) :
       /\ Cardinality(ds) = Min({BatchSize, Cardinality(In(inbox))})
       /\ batch' \in SetToSeqs(ds)
       /\ Move(ds)
       /\ count' = [d \in Deliveries |-> IF d \in ds THEN inbox[d] ELSE count[d]]
  /\ pc' = "deliver"
  /\ UNCHANGED <<trigger, failed, histVars>>

\* The loop goes on with the next delivery of the batch.
Advance ==
  /\ batch' = Tail(batch)
  /\ pc' = IF Tail(batch) = <<>> THEN "poll" ELSE "deliver"

\* _deliver_delivery looks the trigger up again ...
Submit ==
  LET d == Head(batch) IN
  /\ pc = "deliver"
  /\ trigger[TriggerOf[d]] = "enabled"
  /\ runs' = [runs EXCEPT ![d] = @ + 1]
  /\ pc' = "turn"
  /\ UNCHANGED <<trigger, fileVars, batch, count, result, interrupted, interruptions>>

\* ... and drops the delivery of a trigger that is gone or disabled.
Drop ==
  LET d == Head(batch) IN
  /\ pc = "deliver"
  /\ trigger[TriggerOf[d]] # "enabled"
  /\ result' = [result EXCEPT ![d] = "dropped"]
  /\ processing' = [processing EXCEPT ![d] = None]
  /\ Advance
  /\ UNCHANGED <<trigger, inbox, failed, count, runs, interrupted, interruptions>>

\* The turn was answered or failed, and the trigger records it.
TurnEnds ==
  /\ pc = "turn"
  /\ result' = [result EXCEPT ![Head(batch)] = "answered"]
  /\ pc' = "ended"
  /\ UNCHANGED <<trigger, fileVars, batch, count, runs, interrupted, interruptions>>

\* Mutant of Complete: the file stays in processing/.
CompleteKeeps ==
  /\ pc = "ended"
  /\ Advance
  /\ UNCHANGED <<trigger, fileVars, count, histVars>>

\* complete_delivery
Complete ==
  /\ pc = "ended"
  /\ processing' = [processing EXCEPT ![Head(batch)] = None]
  /\ Advance
  /\ UNCHANGED <<trigger, inbox, failed, count, histVars>>

-----------------------------------------------------------------------------
(* What cuts the handling of a delivery short *)

Interrupt(ds) ==
  /\ interruptions < MaxInterruptions
  /\ interruptions' = interruptions + 1
  /\ interrupted' = [d \in Deliveries |-> IF d \in ds THEN interrupted[d] + 1 ELSE interrupted[d]]

\* Any exception other than AutomationTurnError, before the turn, after it or
\* in complete_delivery, and the delivery is queued again.
Error ==
  LET d == Head(batch) IN
  /\ pc \in {"deliver", "turn", "ended"}
  /\ Interrupt({d})
  /\ count' = [count EXCEPT ![d] = @ + 1]
  /\ Retry({d}, {}, count)
  /\ Advance
  /\ UNCHANGED <<trigger, runs>>

\* The gateway shuts down while the loop waits for a turn: this delivery is
\* queued again, the rest of the batch stays in processing/.
Shutdown ==
  LET d == Head(batch) IN
  /\ pc = "turn"
  /\ Interrupt({d})
  /\ Retry({d}, {}, count)
  /\ pc' = "down" /\ batch' = <<>>
  /\ UNCHANGED <<trigger, count, runs>>

\* The gateway dies: between two steps, while it moves the files of a batch,
\* or between the two writes of a retry.
Crash ==
  /\ Interrupt(Range(batch))
  /\ \/ pc # "down" /\ UNCHANGED <<fileVars, result>>
     \/ /\ pc = "poll"
        /\ \E ds \in SUBSET In(inbox) : Move(ds)
        /\ UNCHANGED <<failed, result>>
     \/ /\ pc = "turn"
        /\ Retry({Head(batch)}, {Head(batch)}, count)
     \/ /\ pc = "down"
        /\ \E ds \in SUBSET In(processing), d \in In(processing) :
             Retry(ds \cup {d}, {d}, processing)
  /\ pc' = "down" /\ batch' = <<>>
  /\ UNCHANGED <<trigger, count, runs>>

-----------------------------------------------------------------------------

Loop == Recover \/ Claim \/ Submit \/ Drop \/ TurnEnds \/ Complete

Next ==
  \/ \E d \in Deliveries : Enqueue(d)
  \/ \E t \in Triggers : Delete(t) \/ \E on \in BOOLEAN : SetEnabled(t, on)
  \/ Loop
  \/ Error \/ Shutdown \/ Crash

Spec == Init /\ [][Next]_vars

(* The gateway is started again and its loop runs; a submitted turn ends    *)
(* (AutomationAnswered of TurnDispatch, while no /stop hits a waiting task). *)
FairSpec == Spec /\ WF_vars(Loop)

-----------------------------------------------------------------------------
(* Properties *)

Settled(d) == result[d] \in {"answered", "dropped", "exhausted"}

\* A delivery that was accepted is on disk until it was handled, whatever
\* dies and when; only deleting the trigger discards it.
NothingLost ==
  \A d \in Deliveries :
    result[d] = "queued" /\ trigger[TriggerOf[d]] # "deleted"
      => d \in In(inbox) \cup In(processing) \cup In(failed)

\* A poisonous delivery cannot run for ever: every run is counted as an
\* attempt by a file that survives the crash it causes.
RunsBounded == \A d \in Deliveries : runs[d] <= MaxAttempts

\* A turn is repeated only if the handling of its delivery was cut short.
NoNeedlessRun == \A d \in Deliveries : runs[d] <= 1 + interrupted[d]

\* A delivery is in one directory at a time, except that a crash inside a
\* retry leaves the old file behind, with the smaller count, for the recovery.
OneDirectory ==
  \A d \in Deliveries :
    /\ d \notin In(inbox) \cap In(failed)
    /\ d \in In(processing) \cap (In(inbox) \cup In(failed))
         => pc = "down" /\ processing[d] + 1 \in {inbox[d], failed[d]}

\* "Requeue deliveries left in processing by an interrupted gateway"
\* (local_store.py:212): every accepted delivery is settled in the end.
DeliveriesSettle ==
  \A d \in Deliveries :
    result[d] = "queued" ~> Settled(d) \/ trigger[TriggerOf[d]] = "deleted"
=============================================================================
