-------------------------- MODULE LocalTriggersProofs --------------------------
(***************************************************************************)
(* What holds of the queue of deliveries for every set of deliveries and   *)
(* triggers and every limit.  The four safety properties of LocalTriggers  *)
(* are about single deliveries, and none is inductive: what a crash leaves *)
(* in processing/ is only harmless because of what its file counts.        *)
(*                                                                         *)
(*   BatchInv   what the loop has claimed, in memory and on disk           *)
(*   FileInv    which attempts the files of each directory count           *)
(*   RunInv     every run is counted by the file that will be read next    *)
(*   NeedInv    a delivery that will run again was cut short before        *)
(***************************************************************************)
EXTENDS LocalTriggers, SequenceTheorems, FiniteSetTheorems, TLAPS

-----------------------------------------------------------------------------
(* Sequences *)

\* No element comes twice.
Once(q) == \A i, j \in DOMAIN q : q[i] = q[j] => i = j

\* What is left when the head is taken.
LEMMA TailRange ==
  ASSUME NEW S, NEW q \in Seq(S), q # <<>>
  PROVE  /\ Head(q) \in S /\ Head(q) \in Range(q)
         /\ Tail(q) \in Seq(S)
         /\ Range(q) = {Head(q)} \cup Range(Tail(q))
         /\ Once(q) => Once(Tail(q)) /\ Head(q) \notin Range(Tail(q))
<1>1. /\ Head(q) \in S /\ Tail(q) \in Seq(S)
      /\ Len(q) \in Nat \ {0} /\ DOMAIN q = 1..Len(q)
      /\ Head(q) = q[1]
      /\ DOMAIN Tail(q) = 1..(Len(q) - 1)
      /\ \A i \in 1..(Len(q) - 1) : Tail(q)[i] = q[i + 1]
  BY HeadTailProperties, EmptySeq, LenProperties
<1>2. Range(q) = {Head(q)} \cup Range(Tail(q))
  <2>1. ASSUME NEW x \in Range(q) PROVE x \in {Head(q)} \cup Range(Tail(q))
    <3>1. PICK i \in 1..Len(q) : x = q[i]
      BY <1>1 DEF Range
    <3>2. CASE i = 1 BY <1>1, <3>1, <3>2
    <3>3. CASE i # 1
      <4>1. i - 1 \in DOMAIN Tail(q) /\ x = Tail(q)[i - 1]
        BY <1>1, <3>1, <3>3
      <4> QED BY <4>1, Zenon DEF Range
    <3> QED BY <3>2, <3>3
  <2>2. Head(q) \in Range(q)
    BY <1>1, SMT DEF Range
  <2>3. ASSUME NEW x \in Range(Tail(q)) PROVE x \in Range(q)
    <3>1. PICK i \in 1..(Len(q) - 1) : x = Tail(q)[i]
      BY <1>1, Zenon DEF Range
    <3>2. i + 1 \in DOMAIN q /\ x = q[i + 1]
      BY <1>1, <3>1
    <3> QED BY <3>2, Zenon DEF Range
  <2> QED BY <2>1, <2>2, <2>3
<1>3. Once(q) => Once(Tail(q)) /\ Head(q) \notin Range(Tail(q))
  BY <1>1, SMT DEF Once, Range
<1> QED BY <1>1, <1>2, <1>3, SMT

\* The empty sequence.
LEMMA NothingInEmpty == Once(<<>>) /\ Range(<<>>) = {}
BY SMT DEF Once, Range

\* The orders of a finite set that the community modules enumerate.
LEMMA OrderOfSet ==
  ASSUME NEW S, IsFiniteSet(S), NEW q \in SetToSeqs(S)
  PROVE  /\ q \in Seq(S) /\ Once(q) /\ Range(q) = S
         /\ S # {} => q # <<>>
<1> DEFINE n == Cardinality(S)
<1>1. n \in Nat /\ (n = 0 <=> S = {})
  BY FS_CardinalityType, FS_EmptySet
<1>2. q \in [1..n -> S] /\ \A i, j \in 1..n : i # j => q[i] # q[j]
  BY Zenon DEF SetToSeqs
<1> HIDE DEF n
<1>3. q \in Seq(S) /\ Len(q) = n
  BY <1>1, <1>2, SeqDef, LenProperties
<1>4. Once(q)
  BY <1>2, Zenon DEF Once
<1>5. Range(q) = S
  <2>1. q \in Injection(1..n, S)
    BY <1>2, Zenon DEF Injection, IsInjective
  <2>2. Cardinality(1..n) = n /\ IsFiniteSet(1..n)
    BY <1>1, FS_Interval
  <2>3. q \in Surjection(1..n, S)
    BY <2>1, <2>2, FS_Injection, Zenon DEF n
  <2>4. \A x \in S : \E i \in 1..n : q[i] = x
    BY <2>3, Zenon DEF Surjection
  <2> QED BY <1>2, <2>4, SMT DEF Range
<1>6. S # {} => q # <<>>
  BY <1>1, <1>3, EmptySeq
<1> QED BY <1>3, <1>4, <1>5, <1>6

-----------------------------------------------------------------------------
Busy       == pc \in {"deliver", "turn", "ended"}
Current(d) == pc \in {"turn", "ended"} /\ d = Head(batch)

\* The loop has a batch exactly while it delivers.  What it holds is nowhere
\* but in processing/, or nowhere at all when the trigger was deleted.
BatchInv ==
  /\ Busy <=> batch # <<>>
  /\ Once(batch)
  /\ \A d \in Range(batch) :
       /\ \/ processing[d] = count[d]
          \/ processing[d] = None /\ trigger[TriggerOf[d]] = "deleted"
       /\ count[d] < MaxAttempts
       /\ inbox[d] = None /\ failed[d] = None
       /\ result[d] # "none"
  /\ pc = "ended" => result[Head(batch)] = "answered"

FileInv ==
  \A d \in Deliveries :
    /\ inbox[d] # None => inbox[d] < MaxAttempts
    /\ processing[d] # None => processing[d] < MaxAttempts
    /\ failed[d] # None => failed[d] = MaxAttempts
    /\ result[d] = "none" => /\ inbox[d] = None /\ processing[d] = None /\ failed[d] = None
                             /\ runs[d] = 0

RunInv ==
  \A d \in Deliveries :
    /\ runs[d] <= MaxAttempts
    /\ inbox[d] # None => runs[d] <= inbox[d]
    /\ processing[d] # None => runs[d] <= processing[d] + 1
    /\ d \in Range(batch) => runs[d] <= count[d] + (IF Current(d) THEN 1 ELSE 0)

NeedInv ==
  \A d \in Deliveries :
    /\ runs[d] <= 1 + interrupted[d]
    /\ d \in Range(batch) \cup In(inbox) \cup In(processing) /\ ~Current(d)
         => runs[d] <= interrupted[d]

\* What is interrupted is counted.
CountInv == \A d \in Deliveries : interrupted[d] <= interruptions

Inv ==
  /\ TypeOK /\ BatchInv /\ FileInv /\ RunInv /\ NeedInv /\ CountInv
  /\ OneDirectory /\ NothingLost

-----------------------------------------------------------------------------

\* The delivery at the head of the batch and those behind it.
LEMMA HeadFacts ==
  ASSUME TypeOK, BatchInv, Busy
  PROVE  /\ Head(batch) \in Deliveries /\ Head(batch) \in Range(batch)
         /\ Tail(batch) \in Seq(Deliveries) /\ Range(Tail(batch)) \subseteq Deliveries
         /\ Range(batch) = {Head(batch)} \cup Range(Tail(batch))
         /\ Once(Tail(batch)) /\ Head(batch) \notin Range(Tail(batch))
<1>1. batch \in Seq(Deliveries) /\ batch # <<>> /\ Once(batch)
  BY DEF TypeOK, BatchInv
<1> QED BY <1>1, TailRange, RangeOfSeq

\* The batch is made of deliveries.
LEMMA BatchType == ASSUME TypeOK PROVE Range(batch) \subseteq Deliveries
BY RangeOfSeq DEF TypeOK

\* An empty queue.  Below, each action of Next keeps the invariant.
LEMMA InitInv == Init => Inv
<1> SUFFICES ASSUME Init PROVE Inv
  OBVIOUS
<1>1. TypeOK
  BY TriggersAssumption, EmptySeq DEF Init, TypeOK, Files
<1>2. batch = <<>> /\ Once(<<>>) /\ Range(batch) = {}
  BY NothingInEmpty DEF Init
<1>3. BatchInv
  BY <1>2 DEF Init, BatchInv, Busy
<1>4. FileInv /\ RunInv /\ NeedInv /\ OneDirectory /\ NothingLost
  BY <1>2, TriggersAssumption
     DEF Init, FileInv, RunInv, NeedInv, OneDirectory, NothingLost, In, Current
<1>5. CountInv
  BY DEF Init, CountInv
<1> QED BY <1>1, <1>3, <1>4, <1>5 DEF Inv

-----------------------------------------------------------------------------
(* The senders and the owner of the triggers *)

\* A new delivery has not been run.
LEMMA EnqueueInv == ASSUME Inv, NEW e \in Deliveries, Enqueue(e) PROVE Inv'
<1> USE TriggersAssumption DEF Inv, Enqueue, loopVars
<1>1. Range(batch) \subseteq Deliveries /\ e \notin Range(batch)
  BY BatchType DEF BatchInv
<1>2. TypeOK'
  BY DEF TypeOK, Files
<1>3. BatchInv'
  BY <1>1 DEF TypeOK, BatchInv, Busy, Files
<1>4. FileInv' /\ RunInv'
  <2>1. FileInv'
    BY <1>1 DEF TypeOK, FileInv, Files
  <2>2. RunInv'
    BY <1>1 DEF TypeOK, FileInv, RunInv, Current, Files
  <2> QED BY <2>1, <2>2
<1>5. NeedInv'
  BY <1>1 DEF TypeOK, FileInv, NeedInv, Current, Files, In
<1>6. OneDirectory' /\ NothingLost'
  BY <1>1 DEF TypeOK, FileInv, OneDirectory, NothingLost, Files, In
<1> QED BY <1>2, <1>3, <1>4, <1>5, <1>6 DEF CountInv

LEMMA SetEnabledInv ==
  ASSUME Inv, NEW t \in Triggers, NEW on \in BOOLEAN, SetEnabled(t, on) PROVE Inv'
<1> USE TriggersAssumption DEF Inv, SetEnabled, fileVars, loopVars, histVars
<1>1. Range(batch) \subseteq Deliveries
  BY BatchType
<1>2. TypeOK'
  BY DEF TypeOK
<1>3. BatchInv'
  BY <1>1 DEF TypeOK, BatchInv, Busy
<1>4. FileInv' /\ RunInv' /\ NeedInv' /\ OneDirectory'
  BY DEF FileInv, RunInv, NeedInv, OneDirectory, Current, In
<1>5. NothingLost'
  BY DEF TypeOK, NothingLost, In
<1> QED BY <1>2, <1>3, <1>4, <1>5 DEF CountInv

\* Deleting a trigger removes its files from the three directories.
LEMMA DeleteInv == ASSUME Inv, NEW t \in Triggers, Delete(t) PROVE Inv'
<1> USE TriggersAssumption DEF Inv, Delete, loopVars, histVars
<1>1. Range(batch) \subseteq Deliveries
  BY BatchType
<1>2. TypeOK'
  BY DEF TypeOK, Files
<1>3. BatchInv'
  BY <1>1 DEF TypeOK, BatchInv, Busy
<1>4. FileInv' /\ RunInv'
  BY DEF FileInv, RunInv, Current
<1>5. NeedInv' /\ OneDirectory'
  BY DEF NeedInv, OneDirectory, Current, In
<1>6. NothingLost'
  BY DEF TypeOK, NothingLost, In
<1> QED BY <1>2, <1>3, <1>4, <1>5, <1>6 DEF CountInv

-----------------------------------------------------------------------------
(* The delivery loop *)

\* At a start, what was left in processing/ is moved with one more attempt.
LEMMA RecoverInv == ASSUME Inv, Recover PROVE Inv'
<1> USE TriggersAssumption DEF Inv, Recover
<1>1. batch = <<>> /\ batch' = <<>> /\ Range(batch) = {}
  BY NothingInEmpty DEF BatchInv, Busy
<1>2. \A d \in Deliveries : processing[d] # None => processing[d] \in Nat /\ processing[d] < MaxAttempts
  BY DEF TypeOK, FileInv, Files
<1>3. TypeOK'
  BY <1>2 DEF TypeOK, Files, Retry, In, Exhausted
<1>4. BatchInv'
  BY <1>1, NothingInEmpty DEF BatchInv, Busy
<1>5. FileInv'
  BY <1>2 DEF TypeOK, FileInv, Retry, In, Exhausted, Files
<1>6. RunInv'
  BY <1>1, <1>2 DEF TypeOK, RunInv, Retry, In, Exhausted, Files
<1>7. NeedInv'
  BY <1>1, <1>2 DEF TypeOK, NeedInv, Retry, In, Exhausted, Files, Current
<1>8. OneDirectory'
  BY <1>2 DEF TypeOK, FileInv, OneDirectory, Retry, In, Exhausted, Files
<1>9. NothingLost'
  BY <1>2 DEF TypeOK, NothingLost, Retry, In, Exhausted, Files
<1> QED BY <1>3, <1>4, <1>5, <1>6, <1>7, <1>8, <1>9 DEF CountInv

\* A batch that is claimed: some of the files of the inbox, each of them once.
LEMMA ClaimInv == ASSUME Inv, Claim PROVE Inv'
<1> USE TriggersAssumption DEF Inv, Claim
<1>1. PICK ds \in SUBSET In(inbox) :
        /\ Cardinality(ds) = Min({BatchSize, Cardinality(In(inbox))})
        /\ batch' \in SetToSeqs(ds)
        /\ Move(ds)
        /\ count' = [d \in Deliveries |-> IF d \in ds THEN inbox[d] ELSE count[d]]
  OBVIOUS
<1>2. IsFiniteSet(In(inbox)) /\ IsFiniteSet(ds) /\ ds \subseteq Deliveries
  BY FS_Subset DEF In
<1>3. Cardinality(ds) \in Nat /\ Cardinality(ds) # 0 /\ ds # {}
  <2>1. Cardinality(In(inbox)) \in Nat \ {0}
    BY <1>2, FS_CardinalityType, FS_EmptySet
  <2>2. Min({BatchSize, Cardinality(In(inbox))}) \in {BatchSize, Cardinality(In(inbox))}
    BY <2>1 DEF Min
  <2> QED BY <1>1, <1>2, <2>1, <2>2, FS_CardinalityType, FS_EmptySet
<1>4. batch' \in Seq(ds) /\ Once(batch') /\ Range(batch') = ds /\ batch' # <<>>
  BY <1>1, <1>2, <1>3, OrderOfSet
<1>5. batch = <<>> /\ Range(batch) = {}
  BY NothingInEmpty DEF BatchInv, Busy
<1>6. \A d \in ds : /\ inbox[d] \in Nat /\ inbox[d] < MaxAttempts
                    /\ failed[d] = None /\ processing[d] = None /\ result[d] # "none"
  BY <1>2 DEF TypeOK, FileInv, OneDirectory, In, Files
<1>7. TypeOK'
  <2>1. batch' \in Seq(Deliveries)
    BY <1>2, <1>4, SeqDef
  <2> QED BY <1>1, <1>2, <1>6, <2>1 DEF TypeOK, Files, Move, histVars
<1>8. BatchInv'
  BY <1>1, <1>2, <1>4, <1>6 DEF TypeOK, BatchInv, Busy, Move, histVars
<1>9. FileInv'
  BY <1>1, <1>2, <1>6 DEF TypeOK, FileInv, Move, histVars
<1>10. RunInv'
  <2> SUFFICES ASSUME NEW d \in Deliveries
               PROVE  /\ runs[d] <= MaxAttempts
                      /\ inbox'[d] # None => runs[d] <= inbox'[d]
                      /\ processing'[d] # None => runs[d] <= processing'[d] + 1
                      /\ d \in ds => runs[d] <= count'[d]
    <3>1. runs' = runs /\ Range(batch') = ds /\ \A e \in Deliveries : ~Current(e)'
      BY <1>4 DEF histVars, Current
    <3>2. \A e \in ds : count'[e] \in Nat /\ count'[e] + 0 = count'[e]
      BY <1>1, <1>2, <1>6
    <3> QED BY <3>1, <3>2 DEF RunInv
  <2>1. /\ runs[d] \in Nat /\ runs[d] <= MaxAttempts
        /\ inbox[d] # None => runs[d] <= inbox[d]
        /\ processing[d] # None => runs[d] <= processing[d] + 1
    BY DEF TypeOK, RunInv
  <2>2. CASE d \in ds
    BY <1>1, <1>6, <2>1, <2>2 DEF Move
  <2>3. CASE d \notin ds
    BY <1>1, <2>1, <2>3 DEF Move
  <2> QED BY <2>2, <2>3
<1>11. NeedInv'
  BY <1>1, <1>2, <1>4, <1>5, <1>6 DEF TypeOK, NeedInv, Move, histVars, Current, In
<1>12. OneDirectory' /\ NothingLost'
  BY <1>1, <1>2, <1>6 DEF TypeOK, OneDirectory, NothingLost, Move, histVars, In
<1> QED BY <1>7, <1>8, <1>9, <1>10, <1>11, <1>12 DEF CountInv, histVars

\* The run that begins is counted by the file it was claimed from.
LEMMA SubmitInv == ASSUME Inv, Submit PROVE Inv'
<1> USE TriggersAssumption DEF Inv, Submit, fileVars
<1> DEFINE h == Head(batch)
<1>1. /\ h \in Deliveries /\ h \in Range(batch) /\ Range(batch) \subseteq Deliveries
  BY HeadFacts, BatchType DEF Busy
<1>2. /\ processing[h] = count[h] /\ count[h] \in Nat /\ count[h] < MaxAttempts
      /\ inbox[h] = None /\ result[h] # "none"
  <2>1. trigger[TriggerOf[h]] = "enabled" /\ count[h] \in 0..MaxAttempts
    BY <1>1 DEF TypeOK
  <2> HIDE DEF h
  <2> QED BY <1>1, <2>1 DEF BatchInv
<1>3. inbox[h] = None /\ result[h] # "none"
  BY <1>2
<1>4. /\ runs' = [runs EXCEPT ![h] = @ + 1] /\ runs[h] \in Nat
      /\ pc = "deliver" /\ pc' = "turn" /\ batch' = batch
  BY <1>1 DEF TypeOK
<1>5. runs[h] <= count[h] /\ runs[h] <= interrupted[h] /\ interrupted[h] \in Nat
  BY <1>1 DEF TypeOK, RunInv, NeedInv, Current
<1>6. TypeOK'
  <2>1. runs' \in [Deliveries -> Nat]
    <3>1. runs \in [Deliveries -> Nat] /\ runs[h] + 1 \in Nat
      BY <1>4 DEF TypeOK
    <3>2. runs' = [runs EXCEPT ![h] = runs[h] + 1]
      BY <1>4
    <3> HIDE DEF h
    <3> QED BY <3>1, <3>2
  <2> QED BY <1>4, <2>1 DEF TypeOK
<1>7. BatchInv'
  BY DEF BatchInv, Busy
<1>8. FileInv'
  BY <1>1, <1>3, <1>4 DEF TypeOK, FileInv
<1>9. RunInv'
  <2> SUFFICES ASSUME NEW d \in Deliveries
               PROVE  /\ runs'[d] <= MaxAttempts
                      /\ inbox[d] # None => runs'[d] <= inbox[d]
                      /\ processing[d] # None => runs'[d] <= processing[d] + 1
                      /\ d \in Range(batch) => runs'[d] <= count[d] + (IF Current(d)' THEN 1 ELSE 0)
    BY DEF RunInv
  <2>1. CASE d = h
    BY <1>1, <1>2, <1>3, <1>4, <1>5, <2>1 DEF TypeOK, Current
  <2>2. CASE d # h
    BY <1>4, <2>2 DEF TypeOK, RunInv, Current
  <2> QED BY <2>1, <2>2
<1>10. NeedInv'
  <2> SUFFICES ASSUME NEW d \in Deliveries
               PROVE  /\ runs'[d] <= 1 + interrupted[d]
                      /\ d \in Range(batch) \cup In(inbox) \cup In(processing) /\ ~Current(d)'
                           => runs'[d] <= interrupted[d]
    BY DEF NeedInv, In
  <2>1. CASE d = h
    BY <1>1, <1>4, <1>5, <2>1 DEF TypeOK, Current
  <2>2. CASE d # h
    BY <1>4, <2>2 DEF TypeOK, NeedInv, Current
  <2> QED BY <2>1, <2>2
<1>11. OneDirectory' /\ NothingLost'
  BY DEF OneDirectory, NothingLost, In
<1> QED BY <1>6, <1>7, <1>8, <1>9, <1>10, <1>11 DEF CountInv

\* The rest of the batch is as it was, and the delivery that was handled is
\* not in it.
LEMMA AdvanceFacts ==
  ASSUME TypeOK, BatchInv, Busy, Advance
  PROVE  /\ batch' \in Seq(Deliveries) /\ Once(batch')
         /\ Range(batch') \subseteq Range(batch) \ {Head(batch)}
         /\ pc' \in {"poll", "deliver"}
         /\ pc' = "deliver" <=> batch' # <<>>
         /\ ~Current(Head(batch))'
BY HeadFacts DEF Advance, Current

\* A directory without one of its files.
LEMMA WithoutFile ==
  ASSUME NEW f \in Files, NEW h, NEW g, g = [f EXCEPT ![h] = None] PROVE g \in Files
BY DEF Files

\* A delivery without a usable trigger is dropped before it runs.
LEMMA DropInv == ASSUME Inv, Drop PROVE Inv'
<1> USE TriggersAssumption DEF Inv, Drop
<1> DEFINE h == Head(batch)
<1>1. /\ h \in Deliveries /\ h \in Range(batch) /\ Range(batch) \subseteq Deliveries
  BY HeadFacts, BatchType DEF Busy
<1>2. /\ batch' \in Seq(Deliveries) /\ Once(batch')
      /\ Range(batch') \subseteq Range(batch) \ {h}
      /\ pc' \in {"poll", "deliver"} /\ (pc' = "deliver" <=> batch' # <<>>)
  BY AdvanceFacts DEF Busy
<1>3. /\ result' = [result EXCEPT ![h] = "dropped"]
      /\ processing' = [processing EXCEPT ![h] = None]
      /\ UNCHANGED <<trigger, inbox, failed, count, runs, interrupted, interruptions>>
      /\ pc = "deliver"
      /\ inbox[h] = None /\ failed[h] = None /\ result[h] # "none"
  BY <1>1 DEF BatchInv
<1> HIDE DEF h
<1>4. TypeOK'
  <2>1. processing' \in Files
    <3>1. processing \in Files
      BY DEF TypeOK
    <3>2. processing' = [processing EXCEPT ![h] = None]
      BY <1>3
    <3> QED BY <3>1, <3>2, WithoutFile, Zenon
  <2>2. result' \in [Deliveries -> {"none", "queued", "answered", "dropped", "exhausted"}]
    <3>1. result \in [Deliveries -> {"none", "queued", "answered", "dropped", "exhausted"}]
      BY DEF TypeOK
    <3> QED BY <1>3, <3>1
  <2>3. /\ inbox' \in Files /\ failed' \in Files /\ batch' \in Seq(Deliveries)
        /\ pc' \in {"down", "poll", "deliver", "turn", "ended"}
    BY <1>2, <1>3 DEF TypeOK
  <2> HIDE DEF Drop
  <2> QED BY <1>3, <2>1, <2>2, <2>3 DEF TypeOK
<1>5. BatchInv'
  <2>1. Busy' <=> batch' # <<>>
    BY <1>2 DEF Busy
  <2>2. \A d \in Range(batch') : d \in Range(batch) /\ d # h
    BY <1>2
  <2>3. \A d \in Deliveries \ {h} : processing'[d] = processing[d] /\ result'[d] = result[d]
    BY <1>1, <1>3 DEF TypeOK, Files
  <2>4. \A d \in Range(batch') :
          /\ processing'[d] = count'[d] \/ (processing'[d] = None /\ trigger'[TriggerOf[d]] = "deleted")
          /\ count'[d] < MaxAttempts /\ inbox'[d] = None /\ failed'[d] = None /\ result'[d] # "none"
    BY <1>1, <1>3, <2>2, <2>3 DEF BatchInv
  <2> QED BY <1>2, <2>1, <2>4 DEF BatchInv
<1>6. FileInv'
  BY <1>1, <1>3 DEF TypeOK, FileInv, Files
<1>7. RunInv'
  BY <1>2, <1>3 DEF TypeOK, RunInv, Files, Current
<1>8. NeedInv'
  BY <1>2, <1>3 DEF TypeOK, NeedInv, Files, Current, In
<1>9. OneDirectory' /\ NothingLost'
  BY <1>1, <1>3 DEF TypeOK, OneDirectory, NothingLost, Files, In
<1> QED BY <1>4, <1>5, <1>6, <1>7, <1>8, <1>9 DEF CountInv

\* The turn ends while the file is still in processing/.
LEMMA TurnEndsInv == ASSUME Inv, TurnEnds PROVE Inv'
<1> USE TriggersAssumption DEF Inv, TurnEnds, fileVars
<1>1. /\ Head(batch) \in Deliveries /\ Head(batch) \in Range(batch)
      /\ Range(batch) \subseteq Deliveries
  BY HeadFacts, BatchType DEF Busy
<1>2. TypeOK'
  BY <1>1 DEF TypeOK
<1>3. BatchInv'
  BY <1>1 DEF TypeOK, BatchInv, Busy
<1>4. FileInv'
  BY <1>1 DEF TypeOK, FileInv, BatchInv
<1>5. RunInv' /\ NeedInv'
  BY DEF RunInv, NeedInv, Current, In
<1>6. OneDirectory' /\ NothingLost'
  BY <1>1 DEF TypeOK, OneDirectory, NothingLost, In
<1> QED BY <1>2, <1>3, <1>4, <1>5, <1>6 DEF CountInv

\* The file of a handled delivery is removed.
LEMMA CompleteInv == ASSUME Inv, Complete PROVE Inv'
<1> USE TriggersAssumption DEF Inv, Complete
<1> DEFINE h == Head(batch)
<1>1. /\ h \in Deliveries /\ h \in Range(batch) /\ Range(batch) \subseteq Deliveries
  BY HeadFacts, BatchType DEF Busy
<1>2. /\ batch' \in Seq(Deliveries) /\ Once(batch')
      /\ Range(batch') \subseteq Range(batch) \ {h}
      /\ pc' \in {"poll", "deliver"} /\ (pc' = "deliver" <=> batch' # <<>>)
  BY AdvanceFacts DEF Busy
<1>3. /\ processing' = [processing EXCEPT ![h] = None]
      /\ UNCHANGED <<trigger, inbox, failed, count, runs, result, interrupted, interruptions>>
      /\ pc = "ended" /\ result[h] = "answered"
      /\ inbox[h] = None
  BY <1>1 DEF BatchInv, histVars
<1>4. TypeOK'
  BY <1>1, <1>2, <1>3 DEF TypeOK, Files
<1>5. BatchInv'
  BY <1>1, <1>2, <1>3 DEF TypeOK, BatchInv, Busy, Files
<1>6. FileInv'
  BY <1>1, <1>3 DEF TypeOK, FileInv, Files
<1>7. RunInv'
  BY <1>2, <1>3 DEF TypeOK, RunInv, Files, Current
<1>8. NeedInv'
  <2> SUFFICES ASSUME NEW d \in Deliveries
               PROVE  /\ runs[d] <= 1 + interrupted[d]
                      /\ d \in Range(batch)' \cup In(inbox) \cup In(processing)' /\ ~Current(d)'
                           => runs[d] <= interrupted[d]
    BY <1>3 DEF NeedInv, In
  <2>1. CASE d = h
    BY <1>1, <1>2, <1>3, <2>1 DEF TypeOK, NeedInv, Files, In
  <2>2. CASE d # h
    BY <1>2, <1>3, <2>2 DEF TypeOK, NeedInv, Files, In, Current
  <2> QED BY <2>1, <2>2
<1>9. OneDirectory' /\ NothingLost'
  <2>1. processing'[h] = None /\ \A d \in Deliveries \ {h} : processing'[d] = processing[d]
    BY <1>1, <1>3 DEF TypeOK, Files
  <2>2. OneDirectory'
    BY <1>3, <2>1 DEF OneDirectory, In
  <2>3. NothingLost'
    BY <1>3, <2>1 DEF NothingLost, In
  <2> QED BY <2>2, <2>3
<1> QED BY <1>4, <1>5, <1>6, <1>7, <1>8, <1>9 DEF CountInv, histVars

-----------------------------------------------------------------------------
(* What cuts the handling of a delivery short *)

\* What an interruption of deliveries in ds adds up to.
LEMMA InterruptFacts ==
  ASSUME TypeOK, CountInv, NEW ds, Interrupt(ds)
  PROVE  /\ interruptions' \in 0..MaxInterruptions /\ CountInv'
         /\ interrupted' \in [Deliveries -> 0..MaxInterruptions]
         /\ \A d \in Deliveries :
              /\ interrupted[d] \in Nat
              /\ interrupted'[d] = IF d \in ds THEN interrupted[d] + 1 ELSE interrupted[d]
BY TriggersAssumption DEF TypeOK, CountInv, Interrupt

\* The types of what a retry writes.
LEMMA RetryType ==
  ASSUME TypeOK, NEW ds, NEW kept, NEW attempts,
         \A d \in ds \cap Deliveries : attempts[d] \in Nat /\ attempts[d] < MaxAttempts,
         Retry(ds, kept, attempts)
  PROVE  /\ inbox' \in Files /\ processing' \in Files /\ failed' \in Files
         /\ result' \in [Deliveries -> {"none", "queued", "answered", "dropped", "exhausted"}]
BY TriggersAssumption DEF TypeOK, Files, Retry, Exhausted

\* The delivery at the head of the batch is queued again, or fails for good.
LEMMA RetryHead ==
  ASSUME Inv, Busy, NEW kept, Retry({Head(batch)}, kept, count)
  PROVE  LET h == Head(batch) IN
         /\ h \in Deliveries /\ h \in Range(batch) /\ Range(batch) \subseteq Deliveries
         /\ count[h] \in Nat /\ count[h] + 1 <= MaxAttempts
         /\ processing[h] # count[h]
              => processing[h] = None /\ trigger[TriggerOf[h]] = "deleted"
         /\ \/ count[h] + 1 < MaxAttempts /\ inbox'[h] = count[h] + 1 /\ failed'[h] = None
               /\ result'[h] = result[h]
            \/ count[h] + 1 = MaxAttempts /\ inbox'[h] = None /\ failed'[h] = count[h] + 1
               /\ result'[h] \in {result[h], "exhausted"}
         /\ processing'[h] = IF h \in kept THEN processing[h] ELSE None
         /\ \A d \in Deliveries \ {h} :
              /\ inbox'[d] = inbox[d] /\ processing'[d] = processing[d]
              /\ failed'[d] = failed[d] /\ result'[d] = result[d]
         /\ result[h] # "none"
         /\ runs[h] <= count[h] + 1 /\ runs[h] <= 1 + interrupted[h]
         /\ inbox' \in Files /\ processing' \in Files /\ failed' \in Files
         /\ result' \in [Deliveries -> {"none", "queued", "answered", "dropped", "exhausted"}]
<1> USE TriggersAssumption DEF Inv
<1> DEFINE h == Head(batch)
<1>1. /\ h \in Deliveries /\ h \in Range(batch) /\ Range(batch) \subseteq Deliveries
  BY HeadFacts, BatchType DEF Busy
<1>2. Retry({h}, kept, count)
  OBVIOUS
<1>3. runs[h] <= count[h] + 1
  BY <1>1 DEF TypeOK, RunInv
<1> HIDE DEF h
<1>4. /\ count[h] \in Nat /\ count[h] < MaxAttempts /\ result[h] # "none"
      /\ inbox[h] = None /\ failed[h] = None
      /\ processing[h] # count[h]
              => processing[h] = None /\ trigger[TriggerOf[h]] = "deleted"
  BY <1>1 DEF TypeOK, BatchInv
<1>5. /\ \/ count[h] + 1 < MaxAttempts /\ inbox'[h] = count[h] + 1 /\ failed'[h] = None
            /\ result'[h] = result[h]
         \/ count[h] + 1 = MaxAttempts /\ inbox'[h] = None /\ failed'[h] = count[h] + 1
            /\ result'[h] \in {result[h], "exhausted"}
      /\ processing'[h] = IF h \in kept THEN processing[h] ELSE None
  BY <1>1, <1>2, <1>4 DEF Retry, Exhausted
<1>6. \A d \in Deliveries \ {h} :
              /\ inbox'[d] = inbox[d] /\ processing'[d] = processing[d]
              /\ failed'[d] = failed[d] /\ result'[d] = result[d]
  BY <1>2 DEF Retry
<1>7. runs[h] <= 1 + interrupted[h]
  BY <1>1 DEF NeedInv
<1>8. /\ inbox' \in Files /\ processing' \in Files /\ failed' \in Files
      /\ result' \in [Deliveries -> {"none", "queued", "answered", "dropped", "exhausted"}]
  BY <1>2, <1>4, RetryType
<1> QED BY <1>1, <1>3, <1>4, <1>5, <1>6, <1>7, <1>8 DEF h

\* An exception in the handling of a delivery: it is queued again or fails for good.
LEMMA ErrorInv == ASSUME Inv, Error PROVE Inv'
<1> USE TriggersAssumption DEF Inv
<1> DEFINE h == Head(batch)
<1>1. /\ Busy /\ Retry({h}, {}, count) /\ Interrupt({h}) /\ Advance
      /\ UNCHANGED <<trigger, runs>> /\ count' = [count EXCEPT ![h] = @ + 1]
  BY DEF Error, Busy
<1>2. /\ h \in Deliveries /\ h \in Range(batch) /\ Range(batch) \subseteq Deliveries
      /\ count[h] \in Nat /\ count[h] + 1 <= MaxAttempts
      /\ result[h] # "none"
      /\ runs[h] <= count[h] + 1 /\ runs[h] <= 1 + interrupted[h]
  BY <1>1, RetryHead
<1>3. \/ count[h] + 1 < MaxAttempts /\ inbox'[h] = count[h] + 1 /\ failed'[h] = None
         /\ result'[h] = result[h]
      \/ count[h] + 1 = MaxAttempts /\ inbox'[h] = None /\ failed'[h] = count[h] + 1
         /\ result'[h] \in {result[h], "exhausted"}
  BY <1>1, RetryHead
<1>4. /\ processing'[h] = None
      /\ \A d \in Deliveries \ {h} :
           /\ inbox'[d] = inbox[d] /\ processing'[d] = processing[d]
           /\ failed'[d] = failed[d] /\ result'[d] = result[d]
  <2>1. processing'[h] = None
    BY <1>1, <1>2 DEF Retry
  <2> QED BY <1>1, <2>1, RetryHead
<1>5. /\ inbox' \in Files /\ processing' \in Files /\ failed' \in Files
      /\ result' \in [Deliveries -> {"none", "queued", "answered", "dropped", "exhausted"}]
  BY <1>1, RetryHead
<1>6. /\ batch' \in Seq(Deliveries) /\ Once(batch')
      /\ Range(batch') \subseteq Range(batch) \ {h}
      /\ pc' \in {"poll", "deliver"} /\ (pc' = "deliver" <=> batch' # <<>>)
  BY <1>1, AdvanceFacts
<1>7. /\ interruptions' \in 0..MaxInterruptions /\ CountInv'
      /\ interrupted' \in [Deliveries -> 0..MaxInterruptions]
      /\ \A d \in Deliveries :
              /\ interrupted[d] \in Nat
              /\ interrupted'[d] = IF d = h THEN interrupted[d] + 1 ELSE interrupted[d]
  BY <1>1, InterruptFacts
<1>8. h = Head(batch)
  OBVIOUS
<1> HIDE DEF h
<1>9. count' \in [Deliveries -> 0..MaxAttempts] /\ \A d \in Deliveries \ {h} : count'[d] = count[d]
  BY <1>1, <1>2 DEF TypeOK
<1>10. TypeOK'
  BY <1>1, <1>5, <1>6, <1>7, <1>9 DEF TypeOK
<1>11. BatchInv'
  <2>1. Busy' <=> batch' # <<>>
    BY <1>6 DEF Busy
  <2>2. \A d \in Range(batch') : d \in Range(batch) /\ d \in Deliveries \ {h}
    BY <1>2, <1>6
  <2>3. inbox' \in Files /\ failed' \in Files
    BY <1>5
  <2>4. \A d \in Range(batch') :
          /\ processing'[d] = count'[d] \/ (processing'[d] = None /\ trigger'[TriggerOf[d]] = "deleted")
          /\ count'[d] < MaxAttempts /\ inbox'[d] = None /\ failed'[d] = None /\ result'[d] # "none"
    BY <1>1, <1>4, <1>9, <2>2 DEF BatchInv
  <2> QED BY <1>6, <2>1, <2>4 DEF BatchInv
<1>12. FileInv'
  <2> SUFFICES ASSUME NEW d \in Deliveries
               PROVE  /\ inbox'[d] # None => inbox'[d] < MaxAttempts
                      /\ processing'[d] # None => processing'[d] < MaxAttempts
                      /\ failed'[d] # None => failed'[d] = MaxAttempts
                      /\ result'[d] = "none" => /\ inbox'[d] = None /\ processing'[d] = None
                                                /\ failed'[d] = None /\ runs[d] = 0
    BY <1>1 DEF FileInv
  <2>1. CASE d = h
    BY <1>2, <1>3, <1>4, <2>1
  <2>2. CASE d # h
    BY <1>4, <2>2 DEF FileInv
  <2> QED BY <2>1, <2>2
<1>13. RunInv'
  <2> SUFFICES ASSUME NEW d \in Deliveries
               PROVE  /\ runs[d] <= MaxAttempts
                      /\ inbox'[d] # None => runs[d] <= inbox'[d]
                      /\ processing'[d] # None => runs[d] <= processing'[d] + 1
                      /\ d \in Range(batch') =>
                           runs[d] <= count'[d] + (IF Current(d)' THEN 1 ELSE 0)
    BY <1>1 DEF RunInv
  <2>1. CASE d = h
    BY <1>2, <1>3, <1>4, <1>6, <2>1 DEF TypeOK, RunInv
  <2>2. CASE d # h
    BY <1>4, <1>6, <1>8, <1>9, <2>2 DEF TypeOK, RunInv, Current
  <2> QED BY <2>1, <2>2
<1>14. NeedInv'
  <2> SUFFICES ASSUME NEW d \in Deliveries
               PROVE  /\ runs[d] <= 1 + interrupted'[d]
                      /\ d \in Range(batch') \cup In(inbox)' \cup In(processing)' /\ ~Current(d)'
                           => runs[d] <= interrupted'[d]
    BY <1>1 DEF NeedInv
  <2>1. CASE d = h
    BY <1>2, <1>7, <2>1 DEF TypeOK
  <2>2. CASE d # h
    BY <1>4, <1>6, <1>7, <1>8, <2>2 DEF TypeOK, NeedInv, Current, In
  <2> QED BY <2>1, <2>2
<1>15. OneDirectory'
  BY <1>1, <1>3, <1>4 DEF TypeOK, OneDirectory, In, Busy
<1>16. NothingLost'
  <2> SUFFICES ASSUME NEW d \in Deliveries, result'[d] = "queued",
                      trigger[TriggerOf[d]] # "deleted"
               PROVE  inbox'[d] # None \/ processing'[d] # None \/ failed'[d] # None
    BY <1>1 DEF NothingLost, In
  <2>1. CASE d = h
    BY <1>2, <1>3, <2>1
  <2>2. CASE d # h
    BY <1>4, <2>2 DEF NothingLost, In
  <2> QED BY <2>1, <2>2
<1> QED BY <1>7, <1>10, <1>11, <1>12, <1>13, <1>14, <1>15, <1>16

\* The gateway goes down while a turn runs: its delivery is queued again, and
\* if it dies before the removal the old file is kept.
LEMMA DownInTurn ==
  ASSUME Inv, pc = "turn", NEW ds, Head(batch) \in ds, Interrupt(ds),
         NEW kept, Retry({Head(batch)}, kept, count),
         pc' = "down", batch' = <<>>, UNCHANGED <<trigger, count, runs>>
  PROVE  Inv'
<1> USE TriggersAssumption DEF Inv
<1> DEFINE h == Head(batch)
<1>1. Busy /\ Retry({h}, kept, count) /\ h \in ds
  BY DEF Busy
<1>2. /\ h \in Deliveries /\ h \in Range(batch) /\ Range(batch) \subseteq Deliveries
      /\ count[h] \in Nat /\ count[h] + 1 <= MaxAttempts
      /\ result[h] # "none"
      /\ runs[h] <= count[h] + 1 /\ runs[h] <= 1 + interrupted[h]
      /\ processing[h] # count[h] => processing[h] = None
  BY <1>1, RetryHead
<1>3. \/ count[h] + 1 < MaxAttempts /\ inbox'[h] = count[h] + 1 /\ failed'[h] = None
         /\ result'[h] = result[h]
      \/ count[h] + 1 = MaxAttempts /\ inbox'[h] = None /\ failed'[h] = count[h] + 1
         /\ result'[h] \in {result[h], "exhausted"}
  BY <1>1, RetryHead
<1>4. /\ processing'[h] \in {None, processing[h]}
      /\ \A d \in Deliveries \ {h} :
           /\ inbox'[d] = inbox[d] /\ processing'[d] = processing[d]
           /\ failed'[d] = failed[d] /\ result'[d] = result[d]
  <2>1. processing'[h] \in {None, processing[h]}
    BY <1>1, <1>2 DEF Retry
  <2> QED BY <1>1, <2>1, RetryHead
<1>5. /\ inbox' \in Files /\ processing' \in Files /\ failed' \in Files
      /\ result' \in [Deliveries -> {"none", "queued", "answered", "dropped", "exhausted"}]
  BY <1>1, RetryHead
<1>6. Once(batch') /\ Range(batch') = {} /\ batch' \in Seq(Deliveries)
  BY NothingInEmpty, EmptySeq
<1>7. /\ interruptions' \in 0..MaxInterruptions /\ CountInv'
      /\ interrupted' \in [Deliveries -> 0..MaxInterruptions]
      /\ \A d \in Deliveries :
              /\ interrupted[d] \in Nat
              /\ interrupted'[d] = IF d \in ds THEN interrupted[d] + 1 ELSE interrupted[d]
  BY InterruptFacts
<1>8. \A d \in Deliveries \ {h} : ~Current(d)
  BY DEF Current
<1> HIDE DEF h
<1>9. TypeOK'
  BY <1>5, <1>6, <1>7 DEF TypeOK
<1>10. BatchInv'
  BY <1>6 DEF BatchInv, Busy
<1>11. FileInv'
  <2> SUFFICES ASSUME NEW d \in Deliveries
               PROVE  /\ inbox'[d] # None => inbox'[d] < MaxAttempts
                      /\ processing'[d] # None => processing'[d] < MaxAttempts
                      /\ failed'[d] # None => failed'[d] = MaxAttempts
                      /\ result'[d] = "none" => /\ inbox'[d] = None /\ processing'[d] = None
                                                /\ failed'[d] = None /\ runs[d] = 0
    BY DEF FileInv
  <2>1. CASE d = h
    BY <1>2, <1>3, <1>4, <2>1 DEF FileInv
  <2>2. CASE d # h
    BY <1>4, <2>2 DEF FileInv
  <2> QED BY <2>1, <2>2
<1>12. RunInv'
  <2> SUFFICES ASSUME NEW d \in Deliveries
               PROVE  /\ runs[d] <= MaxAttempts
                      /\ inbox'[d] # None => runs[d] <= inbox'[d]
                      /\ processing'[d] # None => runs[d] <= processing'[d] + 1
    BY <1>6 DEF RunInv
  <2>1. CASE d = h
    BY <1>2, <1>3, <1>4, <2>1 DEF TypeOK, RunInv
  <2>2. CASE d # h
    BY <1>4, <2>2 DEF TypeOK, RunInv
  <2> QED BY <2>1, <2>2
<1>13. NeedInv'
  <2> SUFFICES ASSUME NEW d \in Deliveries
               PROVE  /\ runs[d] <= 1 + interrupted'[d]
                      /\ d \in In(inbox)' \cup In(processing)' => runs[d] <= interrupted'[d]
    BY <1>6 DEF NeedInv
  <2>1. /\ interrupted[d] \in Nat /\ interrupted'[d] \in Nat /\ runs[d] \in Nat
        /\ interrupted'[d] >= interrupted[d]
        /\ d = h => interrupted'[d] = interrupted[d] + 1
    <3>1. runs[d] \in Nat /\ interrupted[d] \in Nat
      BY <1>7 DEF TypeOK
    <3>2. interrupted'[d] = IF d \in ds THEN interrupted[d] + 1 ELSE interrupted[d]
      BY <1>7
    <3> QED BY <1>1, <3>1, <3>2
  <2>2. CASE d = h
    BY <1>2, <2>1, <2>2
  <2>3. CASE d # h
    <3>1. /\ runs[d] <= 1 + interrupted[d]
          /\ d \in In(inbox) \cup In(processing) => runs[d] <= interrupted[d]
      BY <1>8, <2>3 DEF NeedInv
    <3> QED BY <1>4, <2>1, <2>3, <3>1 DEF In
  <2> QED BY <2>2, <2>3
<1>14. OneDirectory'
  BY <1>2, <1>3, <1>4 DEF TypeOK, OneDirectory, In, Busy
<1>15. NothingLost'
  <2> SUFFICES ASSUME NEW d \in Deliveries, result'[d] = "queued",
                      trigger[TriggerOf[d]] # "deleted"
               PROVE  inbox'[d] # None \/ processing'[d] # None \/ failed'[d] # None
    BY DEF NothingLost, In
  <2>1. CASE d = h
    BY <1>2, <1>3, <2>1
  <2>2. CASE d # h
    BY <1>4, <2>2 DEF NothingLost, In
  <2> QED BY <2>1, <2>2
<1> QED BY <1>7, <1>9, <1>10, <1>11, <1>12, <1>13, <1>14, <1>15

\* The gateway dies between two steps, or while it moves the files ds of a
\* batch that it has not got in memory yet.
LEMMA DownBetweenSteps ==
  ASSUME Inv, pc # "down", Interrupt(Range(batch)),
         \/ UNCHANGED <<inbox, processing>>
         \/ pc = "poll" /\ \E ds \in SUBSET In(inbox) : Move(ds),
         pc' = "down", batch' = <<>>, UNCHANGED <<trigger, count, runs, failed, result>>
  PROVE  Inv'
<1> USE TriggersAssumption DEF Inv
<1>1. \A d \in Deliveries :
        \/ inbox'[d] = inbox[d] /\ processing'[d] = processing[d]
        \/ inbox[d] # None /\ inbox'[d] = None /\ processing'[d] = inbox[d]
  BY DEF Move, In
<1>2. inbox' \in Files /\ processing' \in Files
  <2>1. inbox \in Files /\ processing \in Files
    BY DEF TypeOK
  <2>2. CASE UNCHANGED <<inbox, processing>>
    BY <2>1, <2>2
  <2>3. CASE \E ds \in SUBSET In(inbox) : Move(ds)
    BY <2>1, <2>3 DEF Move, Files
  <2> QED BY <2>2, <2>3
<1>3. Once(batch') /\ Range(batch') = {} /\ batch' \in Seq(Deliveries)
  BY NothingInEmpty, EmptySeq
<1>4. Range(batch) \subseteq Deliveries /\ (Busy => Head(batch) \in Range(batch))
  BY BatchType, HeadFacts
<1>5. /\ interruptions' \in 0..MaxInterruptions /\ CountInv'
      /\ interrupted' \in [Deliveries -> 0..MaxInterruptions]
      /\ \A d \in Deliveries :
              /\ interrupted[d] \in Nat
              /\ interrupted'[d] = IF d \in Range(batch) THEN interrupted[d] + 1 ELSE interrupted[d]
  BY InterruptFacts
<1>6. TypeOK'
  BY <1>2, <1>3, <1>5 DEF TypeOK
<1>7. BatchInv'
  BY <1>3 DEF BatchInv, Busy
<1>8. FileInv'
  BY <1>1 DEF TypeOK, FileInv
<1>9. RunInv'
  BY <1>1, <1>3 DEF TypeOK, RunInv, Files
<1>10. NeedInv'
  <2> SUFFICES ASSUME NEW d \in Deliveries
               PROVE  /\ runs[d] <= 1 + interrupted'[d]
                      /\ d \in In(inbox)' \cup In(processing)' => runs[d] <= interrupted'[d]
    BY <1>3 DEF NeedInv
  <2>1. CASE d \in Range(batch)
    BY <1>5, <2>1 DEF TypeOK, NeedInv
  <2>2. CASE d \notin Range(batch)
    BY <1>1, <1>4, <1>5, <2>2 DEF TypeOK, NeedInv, In, Current, Busy
  <2> QED BY <2>1, <2>2
<1>11. OneDirectory'
  BY <1>1 DEF TypeOK, OneDirectory, In
<1>12. NothingLost'
  BY <1>1 DEF TypeOK, NothingLost, In
<1> QED BY <1>5, <1>6, <1>7, <1>8, <1>9, <1>10, <1>11, <1>12

\* The gateway dies while it requeues what an earlier crash left behind: ds is
\* requeued, and of the last delivery d the old file is kept.
LEMMA DownInRecovery ==
  ASSUME Inv, pc = "down", Interrupt(Range(batch)),
         NEW ds \in SUBSET In(processing), NEW e \in In(processing),
         Retry(ds \cup {e}, {e}, processing),
         pc' = "down", batch' = <<>>, UNCHANGED <<trigger, count, runs>>
  PROVE  Inv'
<1> USE TriggersAssumption DEF Inv
<1>1. batch = <<>> /\ Range(batch) = {} /\ Once(batch') /\ Range(batch') = {}
      /\ batch' \in Seq(Deliveries)
  BY NothingInEmpty, EmptySeq DEF BatchInv, Busy
<1>2. \A d \in Deliveries : d \in ds \cup {e} =>
        processing[d] # None /\ processing[d] \in Nat /\ processing[d] < MaxAttempts
  BY DEF TypeOK, FileInv, Files, In
<1>3. \A d \in Deliveries \ (ds \cup {e}) :
        /\ inbox'[d] = inbox[d] /\ processing'[d] = processing[d]
        /\ failed'[d] = failed[d] /\ result'[d] = result[d]
  BY DEF Retry
<1>4. \A d \in Deliveries : d \in ds \cup {e} =>
        /\ processing'[d] = IF d = e THEN processing[d] ELSE None
        /\ \/ /\ processing[d] + 1 < MaxAttempts
              /\ inbox'[d] = processing[d] + 1 /\ failed'[d] = failed[d] /\ result'[d] = result[d]
           \/ /\ processing[d] + 1 = MaxAttempts
              /\ inbox'[d] = inbox[d] /\ failed'[d] = processing[d] + 1
              /\ result'[d] = IF d = e THEN result[d] ELSE "exhausted"
  BY <1>2 DEF Retry, Exhausted
<1>5. /\ inbox' \in Files /\ processing' \in Files /\ failed' \in Files
      /\ result' \in [Deliveries -> {"none", "queued", "answered", "dropped", "exhausted"}]
  BY <1>2, RetryType
<1>6. /\ interruptions' \in 0..MaxInterruptions /\ CountInv'
      /\ interrupted' \in [Deliveries -> 0..MaxInterruptions]
      /\ \A d \in Deliveries : interrupted'[d] = interrupted[d]
  BY <1>1, InterruptFacts
<1>7. TypeOK'
  BY <1>1, <1>5, <1>6 DEF TypeOK
<1>8. BatchInv'
  BY <1>1 DEF BatchInv, Busy
<1>9. FileInv'
  <2> SUFFICES ASSUME NEW d \in Deliveries
               PROVE  /\ inbox'[d] # None => inbox'[d] < MaxAttempts
                      /\ processing'[d] # None => processing'[d] < MaxAttempts
                      /\ failed'[d] # None => failed'[d] = MaxAttempts
                      /\ result'[d] = "none" => /\ inbox'[d] = None /\ processing'[d] = None
                                                /\ failed'[d] = None /\ runs[d] = 0
    BY DEF FileInv
  <2>1. /\ inbox[d] # None => inbox[d] < MaxAttempts
        /\ processing[d] # None => processing[d] < MaxAttempts
        /\ failed[d] # None => failed[d] = MaxAttempts
        /\ result[d] = "none" => inbox[d] = None /\ processing[d] = None /\ failed[d] = None /\ runs[d] = 0
    BY DEF FileInv
  <2>2. CASE d \in ds \cup {e}
    BY <1>2, <1>4, <2>1, <2>2
  <2>3. CASE d \notin ds \cup {e}
    BY <1>3, <2>1, <2>3
  <2> QED BY <2>2, <2>3
<1>10. RunInv'
  BY <1>1, <1>2, <1>3, <1>4 DEF TypeOK, RunInv
<1>11. NeedInv'
  BY <1>1, <1>2, <1>3, <1>4, <1>6 DEF TypeOK, NeedInv, In, Current
<1>12. OneDirectory'
  <2> SUFFICES ASSUME NEW d \in Deliveries
               PROVE  /\ inbox'[d] = None \/ failed'[d] = None
                      /\ processing'[d] # None /\ (inbox'[d] # None \/ failed'[d] # None)
                           => processing'[d] + 1 \in {inbox'[d], failed'[d]}
    BY DEF OneDirectory, In
  <2>1. /\ inbox[d] = None \/ failed[d] = None
        /\ processing[d] # None /\ (inbox[d] # None \/ failed[d] # None)
             => processing[d] + 1 \in {inbox[d], failed[d]}
        /\ inbox[d] # None => inbox[d] < MaxAttempts
        /\ failed[d] # None => failed[d] = MaxAttempts
    BY DEF OneDirectory, FileInv, In
  <2>2. CASE d \in ds \cup {e}
    <3>1. processing[d] \in Nat /\ processing[d] + 1 # None /\ processing[d] # None
      BY <1>2, <2>2
    <3>2. CASE processing[d] + 1 < MaxAttempts
      <4>1. failed[d] = None
        BY <2>1, <3>1, <3>2
      <4>2. inbox'[d] = processing[d] + 1 /\ failed'[d] = None
        BY <1>4, <2>2, <3>2, <4>1
      <4> QED BY <1>4, <2>2, <4>2
    <3>3. CASE processing[d] + 1 = MaxAttempts
      <4>1. inbox[d] = None
        BY <2>1, <3>1, <3>3
      <4>2. inbox'[d] = None /\ failed'[d] = processing[d] + 1
        BY <1>4, <2>2, <3>3, <4>1
      <4> QED BY <1>4, <2>2, <4>2
    <3> QED BY <1>2, <2>2, <3>2, <3>3
  <2>3. CASE d \notin ds \cup {e}
    BY <1>3, <2>1, <2>3
  <2> QED BY <2>2, <2>3
<1>13. NothingLost'
  <2> SUFFICES ASSUME NEW d \in Deliveries, result'[d] = "queued",
                      trigger[TriggerOf[d]] # "deleted"
               PROVE  inbox'[d] # None \/ processing'[d] # None \/ failed'[d] # None
    BY DEF NothingLost, In
  <2>1. CASE d \in ds \cup {e}
    BY <1>2, <1>4, <2>1
  <2>2. CASE d \notin ds \cup {e}
    BY <1>3, <2>2 DEF NothingLost, In
  <2> QED BY <2>1, <2>2
<1> QED BY <1>6, <1>7, <1>8, <1>9, <1>10, <1>11, <1>12, <1>13

\* An orderly end of the gateway.
LEMMA ShutdownInv == ASSUME Inv, Shutdown PROVE Inv'
BY DownInTurn DEF Shutdown

\* A crash between any two writes.
LEMMA CrashInv == ASSUME Inv, Crash PROVE Inv'
<1>1. CASE pc # "down" /\ UNCHANGED <<fileVars, result>>
  BY <1>1, DownBetweenSteps DEF Crash, fileVars
<1>2. CASE pc = "poll" /\ (\E ds \in SUBSET In(inbox) : Move(ds)) /\ UNCHANGED <<failed, result>>
  BY <1>2, DownBetweenSteps DEF Crash
<1>3. CASE pc = "turn" /\ Retry({Head(batch)}, {Head(batch)}, count)
  BY <1>3, DownInTurn, HeadFacts DEF Crash, Busy, Inv
<1>4. CASE /\ pc = "down"
           /\ \E ds \in SUBSET In(processing), d \in In(processing) :
                Retry(ds \cup {d}, {d}, processing)
  BY <1>4, DownInRecovery DEF Crash
<1> QED BY <1>1, <1>2, <1>3, <1>4 DEF Crash

-----------------------------------------------------------------------------

\* Every step keeps the invariant.
LEMMA StepInv == ASSUME Inv, [Next]_vars PROVE Inv'
<1>1. CASE \E d \in Deliveries : Enqueue(d)
  BY <1>1, EnqueueInv
<1>2. CASE \E t \in Triggers : Delete(t) \/ \E on \in BOOLEAN : SetEnabled(t, on)
  BY <1>2, DeleteInv, SetEnabledInv
<1>3. CASE Loop
  BY <1>3, RecoverInv, ClaimInv, SubmitInv, DropInv, TurnEndsInv, CompleteInv DEF Loop
<1>4. CASE Error \/ Shutdown \/ Crash
  BY <1>4, ErrorInv, ShutdownInv, CrashInv
<1>5. CASE UNCHANGED vars
  BY <1>5 DEF vars, fileVars, loopVars, histVars, Inv, TypeOK, BatchInv, FileInv, RunInv,
              NeedInv, CountInv, OneDirectory, NothingLost, Busy, Current, In
<1> QED BY <1>1, <1>2, <1>3, <1>4, <1>5 DEF Next

\* The invariant holds of every behaviour.
LEMMA Invariance == Spec => []Inv
BY InitInv, StepInv, PTL DEF Spec

\* The files, the counters and the loop's batch keep their types; in
\* particular no delivery ever counts more than MaxAttempts attempts.
THEOREM QueueTypes == Spec => []TypeOK
<1>1. Inv => TypeOK
  BY DEF Inv
<1> QED BY Invariance, <1>1, PTL

\* Whatever dies and when, an accepted delivery whose trigger is still there
\* is in one of the three directories until it was handled.
THEOREM DeliveriesAreKept == Spec => []NothingLost
<1>1. Inv => NothingLost
  BY DEF Inv
<1> QED BY Invariance, <1>1, PTL

\* No delivery is submitted more than MaxAttempts times, however often the
\* gateway crashes in its turn.
THEOREM RunsAreBounded == Spec => []RunsBounded
<1>1. Inv => RunsBounded
  BY DEF Inv, RunInv, RunsBounded
<1> QED BY Invariance, <1>1, PTL

\* A delivery runs again only after its handling was cut short.
THEOREM RunsAreNeeded == Spec => []NoNeedlessRun
<1>1. Inv => NoNeedlessRun
  BY DEF Inv, NeedInv, NoNeedlessRun
<1> QED BY Invariance, <1>1, PTL

\* A delivery is in two directories only while the gateway is down, and then
\* the file in processing/ is the older one.
THEOREM DirectoriesAreDisjoint == Spec => []OneDirectory
<1>1. Inv => OneDirectory
  BY DEF Inv
<1> QED BY Invariance, <1>1, PTL
================================================================================
