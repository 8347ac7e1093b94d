--------------------------- MODULE CronServiceProofs ---------------------------
(***************************************************************************)
(* What holds of the cron service for every set of jobs, every schedule    *)
(* and every bound on time, edits and callers.                             *)
(*                                                                         *)
(*   TickInv     the timer runs jobs of a store that is loaded             *)
(*   CallInv     a manual run was started by a running service             *)
(*   KnownInv    an id that is stored or requested has been used           *)
(*   RemovedInv  a removed job that no line crossed is in no store, or its *)
(*               removal is pending                                        *)
(*   OffInv      a job that is disabled has no next run                    *)
(*   FinishedInv no pending line puts a job back to before it ran          *)
(*   LaterInv    a job that has run is due later, in memory and on disk    *)
(*   RanInv      what runs has a turn                                      *)
(*   StoredInv   what is in memory is on disk or requested, or may leave,  *)
(*               or the file that had it was damaged                       *)
(*                                                                         *)
(* Two of the theorems have a hypothesis, and TLC refutes their properties *)
(* without it: run_job of a stopped service leaves the timer beside a run  *)
(* (DueStillDue), and run_job of any job undoes what the tick has not      *)
(* saved yet (NotRolledBack).                                              *)
(***************************************************************************)
EXTENDS CronService, SequenceTheorems, FiniteSetTheorems, WellFoundedInduction, TLAPS

-----------------------------------------------------------------------------
(* Sequences and sets *)

\* No element comes twice.
Once(q) == \A i, j \in DOMAIN q : q[i] = q[j] => i = j

\* What is left when the head is taken.
LEMMA TailRange ==
  ASSUME NEW S, NEW q \in Seq(S), q # <<>>
  PROVE  /\ Head(q) \in S /\ Head(q) \in Range(q)
         /\ Tail(q) \in Seq(S)
         /\ Range(q) = {Head(q)} \cup Range(Tail(q))
         /\ Once(q) => Once(Tail(q)) /\ Head(q) \notin Range(Tail(q))
<1>1. /\ Head(q) \in S /\ Tail(q) \in Seq(S)
      /\ Len(q) \in Nat \ {0} /\ DOMAIN q = 1..Len(q)
      /\ Head(q) = q[1]
      /\ DOMAIN Tail(q) = 1..(Len(q) - 1)
      /\ \A i \in 1..(Len(q) - 1) : Tail(q)[i] = q[i + 1]
  BY HeadTailProperties, EmptySeq, LenProperties
<1>2. Range(q) = {Head(q)} \cup Range(Tail(q))
  <2>1. ASSUME NEW x \in Range(q) PROVE x \in {Head(q)} \cup Range(Tail(q))
    <3>1. PICK i \in 1..Len(q) : x = q[i]
      BY <1>1 DEF Range
    <3>2. CASE i = 1 BY <1>1, <3>1, <3>2
    <3>3. CASE i # 1
      <4>1. i - 1 \in DOMAIN Tail(q) /\ x = Tail(q)[i - 1]
        BY <1>1, <3>1, <3>3
      <4> QED BY <4>1, Zenon DEF Range
    <3> QED BY <3>2, <3>3
  <2>2. Head(q) \in Range(q)
    BY <1>1, SMT DEF Range
  <2>3. ASSUME NEW x \in Range(Tail(q)) PROVE x \in Range(q)
    <3>1. PICK i \in 1..(Len(q) - 1) : x = Tail(q)[i]
      BY <1>1, Zenon DEF Range
    <3>2. i + 1 \in DOMAIN q /\ x = q[i + 1]
      BY <1>1, <3>1
    <3> QED BY <3>2, Zenon DEF Range
  <2> QED BY <2>1, <2>2, <2>3
<1>3. Once(q) => Once(Tail(q)) /\ Head(q) \notin Range(Tail(q))
  BY <1>1, SMT DEF Once, Range
<1> QED BY <1>1, <1>2, <1>3, SMT

\* The orders of a finite set that the community modules enumerate.
LEMMA OrderOfSet ==
  ASSUME NEW S, IsFiniteSet(S), NEW q \in SetToSeqs(S)
  PROVE  /\ q \in Seq(S) /\ Once(q) /\ Range(q) = S
         /\ S # {} => q # <<>>
<1> DEFINE n == Cardinality(S)
<1>1. n \in Nat /\ (n = 0 <=> S = {})
  BY FS_CardinalityType, FS_EmptySet
<1>2. q \in [1..n -> S] /\ \A i, j \in 1..n : i # j => q[i] # q[j]
  BY Zenon DEF SetToSeqs
<1> HIDE DEF n
<1>3. q \in Seq(S) /\ Len(q) = n
  BY <1>1, <1>2, SeqDef, LenProperties
<1>4. Once(q)
  BY <1>2, Zenon DEF Once
<1>5. Range(q) = S
  <2>1. q \in Injection(1..n, S)
    BY <1>2, Zenon DEF Injection, IsInjective
  <2>2. Cardinality(1..n) = n /\ IsFiniteSet(1..n)
    BY <1>1, FS_Interval
  <2>3. q \in Surjection(1..n, S)
    BY <2>1, <2>2, FS_Injection, Zenon DEF n
  <2>4. \A x \in S : \E i \in 1..n : q[i] = x
    BY <2>3, Zenon DEF Surjection
  <2> QED BY <1>2, <2>4, SMT DEF Range
<1>6. S # {} => q # <<>>
  BY <1>1, <1>3, EmptySeq
<1> QED BY <1>3, <1>4, <1>5, <1>6

\* A set of numbers has a least one.
LEMMA LeastOf ==
  ASSUME NEW T, T \subseteq Nat, T # {}
  PROVE  \E x \in T : \A y \in T : x <= y
<1> DEFINE R == OpToRel(<, Nat)
<1>1. IsWellFoundedOn(R, Nat)
  BY NatLessThanWellFounded, Zenon
<1>2. \A i, j \in Nat : i < j => <<i, j>> \in R
  BY SMT DEF OpToRel
<1> HIDE DEF R
<1>3. PICK x \in T : \A y \in T : ~ (<<y, x>> \in R)
  BY <1>1, WFMin, Zenon
<1>4. ASSUME NEW y \in T PROVE x <= y
  <2>1. x \in Nat /\ y \in Nat /\ ~(y < x)
    BY <1>2, <1>3
  <2> QED BY <2>1
<1> QED BY <1>4, Zenon

-----------------------------------------------------------------------------
TickInv == tick.phase = "running" => tick.due # <<>> /\ Once(tick.due) /\ store # None

CallInv ==
  \A c \in Callers : calls[c].job # None => store # None /\ (~LateCalls => calls[c].was)

Has(jobs, j) == jobs \notin {None, Unreadable} /\ jobs[j] # None

KnownInv == \A j \in Jobs : Has(store, j) \/ Has(disk, j) \/ actions[j] # None => j \in known

BaseInv == TypeOK /\ TickInv /\ CallInv /\ KnownInv

Gone(j, st, dk, ac) ==
  ac[j] \in {Deletion, Withdrawal} \/ (ac[j] = None /\ ~Has(dk, j) /\ ~Has(st, j))

RemovedInv == \A j \in removed \ crossed : Gone(j, store, disk, actions)

Off(job) == job \in Job /\ ~job.enabled => job.next = None

OffInv ==
  \A j \in Jobs : /\ Has(store, j) => Off(store[j])
                  /\ Has(disk, j) => Off(disk[j])
                  /\ Off(actions[j])

\* A line does not put the job back to a time before it ran.
Newer(line, ran) == line \in Job /\ line.next # None => line.next > ran

FinishedInv ==
  \A j \in Jobs : finished[j] # None => /\ finished[j] <= now
                                        /\ j \notin crossed => Newer(actions[j], finished[j])

Later(jobs, ran, j) ==
  Has(jobs, j) /\ jobs[j].next # None /\ ran[j] # None => jobs[j].next > ran[j]

LaterInv ==
  running => \A j \in Jobs \ crossed :
    Later(store, finished, j) /\ (tick.phase # "running" => Later(disk, finished, j))

RunInv == OffInv /\ FinishedInv /\ LaterInv

\* The requests of another instance.
External(j) ==
  ExternalAdd(j) \/ ExternalLoad(j) \/ ExternalRemove(j) \/ (\E on \in BOOLEAN : ExternalUpdate(j, on))

\* A line that has just been written puts no job that is due.
Fresh(a) == a \in Job => Off(a) /\ (a.next # None => a.next > now)

Actions == [Jobs -> Job \cup {None, Deletion, Withdrawal}]
TickRec == [phase : {"none", "sleeping", "running"}, wake : Times, due : Seq(Jobs)]
CallRec == [job : Jobs \cup {None}, attached : BOOLEAN, was : BOOLEAN]

-----------------------------------------------------------------------------
(* The operators *)

\* The next run lies after the time it is computed at, or there is none.
LEMMA NextRunFacts ==
  ASSUME NEW j \in Jobs, NEW t \in 0..Horizon
  PROVE  /\ NextRun(j, t) \in Times \cup {None}
         /\ NextRun(j, t) # None => NextRun(j, t) > t
         /\ [enabled |-> TRUE, next |-> NextRun(j, t)] \in Job
         /\ [enabled |-> FALSE, next |-> None] \in Job
<1>1. /\ Horizon \in Nat /\ Period \in Nat /\ Period # 0 /\ MaxSleep \in Nat /\ AtTime \in Nat
      /\ t \in Nat /\ t <= Horizon
  BY CronAssumption
<1>2. t + Period \in Times /\ AtTime \in Times /\ t + Period > t
  BY <1>1 DEF Times
<1>3. NextRun(j, t) \in Times \cup {None} /\ (NextRun(j, t) # None => NextRun(j, t) > t)
  BY <1>1, <1>2, MarksAssumption DEF NextRun
<1> QED BY <1>3 DEF Job

\* Merging the requests into the jobs of a file gives a store.
LEMMA MergedFacts ==
  ASSUME actions \in Actions, NEW jobs \in Store
  PROVE  /\ Merged(jobs) \in Store
         /\ \A j \in Jobs : Merged(jobs)[j] = IF ~Applies(j, jobs) THEN jobs[j]
                                              ELSE IF Puts(j) THEN actions[j] ELSE None
<1>1. \A j \in Jobs : Merged(jobs)[j] = IF ~Applies(j, jobs) THEN jobs[j]
                                        ELSE IF Puts(j) THEN actions[j] ELSE None
  BY DEF Merged
<1>2. \A j \in Jobs : Merged(jobs)[j] \in Job \cup {None}
  BY <1>1 DEF Actions, Store, Puts
<1> QED BY <1>1, <1>2 DEF Merged, Store

\* What a file holds when it can be read.
LEMMA OnDiskFacts ==
  ASSUME disk \in Store \cup {Unreadable, None}, disk # Unreadable
  PROVE  /\ OnDisk \in Store
         /\ \A j \in Jobs : OnDisk[j] # None <=> Has(disk, j)
         /\ \A j \in Jobs : Has(disk, j) => OnDisk[j] = disk[j]
BY MarksAssumption DEF OnDisk, NoJobs, Store, Has

\* _load_store: the store in memory, or what the file and the requests give.
LEMMA LoadFacts ==
  ASSUME TypeOK, NEW run \in BOOLEAN
  PROVE  LET l == Load(run)
         IN  /\ l.store \in Store \cup {None} /\ (store # None => l.store \in Store /\ l.store # None)
             /\ l.disk \in Store \cup {None, Unreadable} /\ l.actions \in Actions
             /\ l.reread \in BOOLEAN
             /\ l.disk = Unreadable => ~Reads
             /\ ~Reads => l.store = store /\ l.disk = disk /\ l.actions = actions
             /\ Reads /\ disk = Unreadable =>
                  l.store = store /\ l.disk = None /\ l.actions = actions
             /\ Reads /\ disk # Unreadable =>
                  /\ l.store = Merged(OnDisk) /\ l.store \in Store /\ l.store # None
                  /\ \/ /\ l.disk = disk /\ l.actions = actions
                        /\ run => \A j \in Jobs : ~Applies(j, OnDisk)
                     \/ run /\ l.disk = Merged(OnDisk) /\ l.actions = NoJobs
<1> DEFINE l == Load(run)
           same == [store |-> store, disk |-> disk, actions |-> actions, reread |-> FALSE]
<1>1. /\ store \in Store \cup {None} /\ disk \in Store \cup {Unreadable, None} /\ actions \in Actions
  BY DEF TypeOK, Actions
<1>2. CASE ~Reads
  <2>1. l = same
    BY <1>2 DEF Load
  <2>2. l.store = store /\ l.disk = disk /\ l.actions = actions /\ l.reread = FALSE
    BY <2>1
  <2> HIDE DEF l
  <2> QED BY <1>1, <1>2, <2>2 DEF l
<1>3. CASE Reads /\ disk = Unreadable
  <2>1. l = [same EXCEPT !.disk = None]
    BY <1>3 DEF Load
  <2>2. l.store = store /\ l.disk = None /\ l.actions = actions /\ l.reread = FALSE
    BY <2>1
  <2>3. None # Unreadable
    BY MarksAssumption
  <2> HIDE DEF l
  <2> QED BY <1>1, <1>3, <2>2, <2>3 DEF l
<1>4. CASE Reads /\ disk # Unreadable
  <2> DEFINE saves == run /\ \E j \in Jobs : Applies(j, OnDisk)
  <2>1. l = [store   |-> Merged(OnDisk),
             disk    |-> IF saves THEN Merged(OnDisk) ELSE disk,
             actions |-> IF saves THEN NoJobs ELSE actions,
             reread  |-> TRUE]
    BY <1>4 DEF Load
  <2>2. /\ l.store = Merged(OnDisk) /\ l.reread = TRUE
        /\ l.disk = IF saves THEN Merged(OnDisk) ELSE disk
        /\ l.actions = IF saves THEN NoJobs ELSE actions
    BY <2>1
  <2>3. Merged(OnDisk) \in Store /\ Merged(OnDisk) # None /\ Merged(OnDisk) # Unreadable
    <3>1. OnDisk \in Store
      BY <1>1, <1>4, OnDiskFacts
    <3> QED BY <1>1, <3>1, MergedFacts, MarksAssumption
  <2>4. NoJobs \in Actions
    BY DEF NoJobs, Actions
  <2> HIDE DEF l
  <2> QED BY <1>1, <1>4, <2>2, <2>3, <2>4 DEF l
<1> QED BY <1>2, <1>3, <1>4

\* _arm_timer leaves a tick that sleeps, or none.
LEMMA ArmFacts ==
  ASSUME now \in 0..Horizon, NEW jobs \in Store, NEW run \in BOOLEAN, Arm(jobs, run)
  PROVE  tick' \in TickRec /\ tick'.phase # "running"
<1>1. /\ Horizon \in Nat /\ MaxSleep \in Nat /\ Period \in Nat /\ AtTime \in Nat
      /\ now \in Nat /\ now <= Horizon
  BY CronAssumption
<1> DEFINE S == Wakes(jobs) \cup {now + MaxSleep}
<1>2. S \subseteq Times
  <2>1. \A j \in Jobs : jobs[j] # None => jobs[j].next \in Times \cup {None}
    BY DEF Store, Job
  <2>2. Wakes(jobs) \subseteq Times
    BY <2>1 DEF Wakes
  <2>3. now + MaxSleep \in Times
    BY <1>1 DEF Times
  <2> QED BY <2>2, <2>3
<1>3. Times \subseteq Nat /\ now \in Times
  BY <1>1 DEF Times
<1>4. Min(S) \in S
  <2>1. S \subseteq Nat /\ S # {}
    BY <1>2, <1>3
  <2> HIDE DEF S
  <2>2. \E least \in S : \A y \in S : least <= y
    BY <2>1, LeastOf
  <2> QED BY <2>2, Zenon DEF Min
<1> DEFINE wake == IF Min(S) > now THEN Min(S) ELSE now
<1>5. wake \in Times
  BY <1>2, <1>3, <1>4
<1>6. tick' = IF run THEN [phase |-> "sleeping", wake |-> wake, due |-> <<>>] ELSE NoTick
  BY DEF Arm
<1> HIDE DEF wake
<1>7. 0 \in Times /\ <<>> \in Seq(Jobs)
  BY <1>1 DEF Times
<1> QED BY <1>5, <1>6, <1>7 DEF TickRec, NoTick

\* Detaching a call from its job object keeps which job it runs and what it
\* read of the service.
LEMMA DetachFacts ==
  ASSUME calls \in [Callers -> CallRec], NEW reread \in BOOLEAN, NEW dropped
  PROVE  /\ Detach(reread, dropped) \in [Callers -> CallRec]
         /\ \A c \in Callers : /\ Detach(reread, dropped)[c].job = calls[c].job
                               /\ Detach(reread, dropped)[c].was = calls[c].was
<1>1. ASSUME NEW r \in CallRec, NEW b \in BOOLEAN
      PROVE  /\ [r EXCEPT !.attached = b] \in CallRec
             /\ [r EXCEPT !.attached = b].job = r.job /\ [r EXCEPT !.attached = b].was = r.was
  BY DEF CallRec
<1>2. \A c \in Callers : calls[c] \in CallRec /\ calls[c].attached \in BOOLEAN
  BY DEF CallRec
<1>3. \A c \in Callers :
        Detach(reread, dropped)[c] =
          [calls[c] EXCEPT !.attached = calls[c].attached /\ ~reread /\ calls[c].job \notin dropped]
  BY DEF Detach
<1> QED BY <1>1, <1>2, <1>3 DEF Detach

\* What is due is a finite set of jobs, and every order of it holds each once.
LEMMA DueOrder ==
  ASSUME NEW due, due \subseteq Jobs, due # {}, NEW order \in SetToSeqs(due)
  PROVE  /\ order \in Seq(Jobs) /\ order # <<>> /\ Once(order)
         /\ Range(order) = due /\ Head(order) \in due
<1>1. IsFiniteSet(due)
  BY CronAssumption, FS_Subset
<1>2. order \in Seq(due) /\ Once(order) /\ Range(order) = due /\ order # <<>>
  BY <1>1, OrderOfSet
<1>3. Head(order) \in due
  BY <1>2
<1>4. order \in Seq(Jobs)
  BY <1>2
<1> QED BY <1>2, <1>3, <1>4

\* A job that has run is rescheduled or disabled, or leaves the store.
LEMMA ExecutedFacts ==
  ASSUME now \in 0..Horizon, NEW jobs \in Store, NEW j \in Jobs
  PROVE  /\ Executed(jobs, j) \in Store
         /\ \A i \in Jobs : i # j => Executed(jobs, j)[i] = jobs[i]
         /\ \A i \in Jobs : Executed(jobs, j)[i] # None => jobs[i] # None
         /\ jobs[j] # None /\ Executed(jobs, j)[j] = None => j \in OneTime
         /\ Executed(jobs, j)[j] # None =>
              \/ /\ Executed(jobs, j)[j].next = NextRun(j, now)
                 /\ Executed(jobs, j)[j].enabled = jobs[j].enabled
              \/ Executed(jobs, j)[j] = [enabled |-> FALSE, next |-> None]
<1> DEFINE off == [enabled |-> FALSE, next |-> None]
           late == [jobs[j] EXCEPT !.next = NextRun(j, now)]
           r == IF jobs[j] = None \/ j \in DeletedAfterRun THEN None
                ELSE IF j \in OneTime THEN off ELSE late
<1>1. Executed(jobs, j) = [jobs EXCEPT ![j] = r]
  BY DEF Executed, Store
<1>2. jobs[j] # None => /\ late \in Job /\ late.next = NextRun(j, now)
                        /\ late.enabled = jobs[j].enabled
  <2> SUFFICES ASSUME jobs[j] # None
               PROVE  late \in Job /\ late.next = NextRun(j, now) /\ late.enabled = jobs[j].enabled
    OBVIOUS
  <2>1. jobs[j] \in Job /\ NextRun(j, now) \in Times \cup {None}
    BY NextRunFacts DEF Store
  <2> QED BY <2>1 DEF Job
<1>3. off \in Job
  BY NextRunFacts
<1> HIDE DEF off, late
<1>4. /\ r \in Job \cup {None}
      /\ r # None => jobs[j] # None /\ r \in {off, late}
      /\ r = None => jobs[j] = None \/ j \in OneTime
  BY <1>2, <1>3, CronAssumption, MarksAssumption
<1> HIDE DEF r
<1> QED BY <1>1, <1>2, <1>4 DEF Store, off

\* The number of turns that were submitted for a job is counted up to two.
LEMMA SubmittedFacts ==
  ASSUME turns \in [Jobs -> 0..2], NEW j \in Jobs, Submitted(j)
  PROVE  turns' \in [Jobs -> 0..2]
BY DEF Submitted

\* A store, the file and the requests after a load whose jobs were changed.
LEMMA SaveFacts ==
  ASSUME NEW loaded, loaded.actions \in Actions, NEW jobs \in Store, Save(loaded, jobs)
  PROVE  /\ store' \in Store /\ store' # None /\ disk' \in Store
         /\ disk' \in Store \cup {Unreadable, None} /\ store' \in Store \cup {None}
         /\ actions' \in Actions
BY MarksAssumption DEF Save

-----------------------------------------------------------------------------
(* The types, and what is behind the timer and the manual runs *)

\* What the service keeps when only its stores, its tick and its calls change.
LEMMA BaseKept ==
  ASSUME BaseInv,
         now' \in 0..Horizon, disk' \in Store \cup {Unreadable, None}, actions' \in Actions,
         store' \in Store \cup {None}, running' \in BOOLEAN, running' => store' # None,
         tick' \in TickRec, calls' \in [Callers -> CallRec], turns' \in [Jobs -> 0..2],
         finished' \in [Jobs -> 0..Horizon \cup {None}],
         sight' \in known' \cup {None}, removed' \subseteq known', crossed' \subseteq known',
         known' \subseteq Jobs, edits' \in 0..MaxEdits, damages' \in 0..MaxDamages,
         TickInv', CallInv', KnownInv'
  PROVE  BaseInv'
BY DEF BaseInv, TypeOK, Actions, TickRec, CallRec

\* Calls whose job objects are detached go on as they were.
LEMMA CallsKept ==
  ASSUME BaseInv, NEW reread \in BOOLEAN, NEW dropped, calls' = Detach(reread, dropped),
         store # None => store' # None
  PROVE  calls' \in [Callers -> CallRec] /\ CallInv'
<1>1. calls \in [Callers -> CallRec]
  BY DEF BaseInv, TypeOK, CallRec
<1>2. /\ calls' \in [Callers -> CallRec]
      /\ \A c \in Callers : calls'[c].job = calls[c].job /\ calls'[c].was = calls[c].was
  BY <1>1, DetachFacts
<1> QED BY <1>2 DEF BaseInv, CallInv

\* What is loaded has been stored or requested.
LEMMA LoadKnown ==
  ASSUME BaseInv, NEW run \in BOOLEAN
  PROVE  LET l == Load(run)
         IN  \A j \in Jobs : Has(l.store, j) \/ Has(l.disk, j) \/ l.actions[j] # None => j \in known
<1> DEFINE l == Load(run)
<1>1. TypeOK /\ KnownInv /\ actions \in Actions
  BY DEF BaseInv, TypeOK, Actions
<1>2. /\ ~Reads => l.store = store /\ l.disk = disk /\ l.actions = actions
      /\ Reads /\ disk = Unreadable => l.store = store /\ l.disk = None /\ l.actions = actions
      /\ Reads /\ disk # Unreadable =>
           /\ l.store = Merged(OnDisk)
           /\ l.disk \in {disk, Merged(OnDisk)} /\ l.actions \in {actions, NoJobs}
  BY <1>1, LoadFacts
<1>3. ASSUME disk # Unreadable, NEW j \in Jobs, Merged(OnDisk)[j] # None
      PROVE  Has(disk, j) \/ actions[j] # None
  <2>1. OnDisk \in Store /\ (OnDisk[j] # None <=> Has(disk, j))
    BY <1>1, <1>3, OnDiskFacts DEF TypeOK
  <2> QED BY <1>1, <1>3, <2>1, MergedFacts DEF Applies
<1>4. \A j \in Jobs : NoJobs[j] = None
  BY DEF NoJobs
<1> HIDE DEF l
<1>5. ASSUME NEW j \in Jobs, Has(l.store, j) \/ Has(l.disk, j) \/ l.actions[j] # None
      PROVE  j \in known
  <2>1. CASE ~Reads
    BY <1>1, <1>2, <1>5, <2>1 DEF KnownInv
  <2>2. CASE Reads /\ disk = Unreadable
    BY <1>1, <1>2, <1>5, <2>2 DEF KnownInv, Has
  <2>3. CASE Reads /\ disk # Unreadable
    <3>1. Has(disk, j) \/ actions[j] # None
      BY <1>2, <1>3, <1>4, <1>5, <2>3 DEF Has
    <3> QED BY <1>1, <3>1 DEF KnownInv
  <2> QED BY <2>1, <2>2, <2>3
<1> QED BY <1>5 DEF l

\* add, remove, enable and update
LEMMA ChangeBase ==
  ASSUME BaseInv, running, NEW jobs \in Store, NEW dropped, Change(Load(running), jobs, dropped),
         removed' \subseteq known', crossed' \subseteq known', known' \subseteq Jobs,
         edits' \in 0..MaxEdits, known \subseteq known', \A j \in Jobs : jobs[j] # None => j \in known'
  PROVE  BaseInv'
<1> DEFINE l == Load(running)
<1>1. TypeOK /\ running \in BOOLEAN /\ now \in 0..Horizon
  BY DEF BaseInv, TypeOK
<1>2. l.actions \in Actions /\ l.reread \in BOOLEAN
  BY <1>1, LoadFacts
<1>3. /\ Save(l, jobs) /\ Arm(jobs, running) /\ calls' = Detach(l.reread, dropped)
      /\ UNCHANGED <<now, sight, running, turns, finished, damages>>
  BY DEF Change
<1>8. \A j \in Jobs : l.actions[j] # None => j \in known
  BY <1>1, LoadKnown
<1> HIDE DEF l
<1>4. /\ store' \in Store /\ store' # None /\ disk' \in Store \cup {Unreadable, None}
      /\ store' \in Store \cup {None} /\ actions' \in Actions
  BY <1>2, <1>3, SaveFacts
<1>5. tick' \in TickRec /\ tick'.phase # "running"
  BY <1>1, <1>3, ArmFacts
<1>6. calls' \in [Callers -> CallRec] /\ CallInv'
  BY <1>2, <1>3, <1>4, CallsKept
<1>7. TickInv'
  BY <1>5 DEF TickInv
<1>9. KnownInv'
  BY <1>3, <1>8 DEF KnownInv, Save, Has
<1> QED BY <1>1, <1>3, <1>4, <1>5, <1>6, <1>7, <1>9, BaseKept DEF TypeOK

\* What a request of another instance changes: its lines of a job that is known.
LEMMA ExternalFacts ==
  ASSUME BaseInv, NEW j \in Jobs, External(j)
  PROVE  /\ UNCHANGED <<now, store, running, tick, calls, turns, finished, damages>>
         /\ edits' = edits \/ (edits < MaxEdits /\ edits' = edits + 1)
         /\ disk' = disk \/ (disk = Unreadable /\ disk' = None)
         /\ j \in known' \/ UNCHANGED <<actions, sight, removed>>
        /\ known \subseteq known' /\ known' \subseteq known \cup {j}
         /\ sight' \in {sight, None, j}
         /\ removed \subseteq removed' /\ removed' \subseteq removed \cup {j}
         /\ crossed \subseteq crossed' /\ crossed' \subseteq crossed \cup removed
         /\ \E a \in Job \cup {None, Deletion, Withdrawal} :
              /\ actions' = [actions EXCEPT ![j] = a]
              /\ a = actions[j] \/ Fresh(a)
              /\ a = actions[j] \/ a # None
              /\ a \in {Deletion, Withdrawal} => a = actions[j] \/ j \in removed'
              /\ j \in removed' \ removed => a \in {Deletion, Withdrawal}
              /\ j \in removed => a \in {actions[j], Deletion, Withdrawal} \/ j \in crossed'
<1>1. /\ TypeOK /\ KnownInv /\ now \in 0..Horizon /\ removed \subseteq known /\ known \subseteq Jobs
      /\ disk \in Store \cup {Unreadable, None} /\ sight \in known \cup {None}
      /\ actions \in Actions
  BY DEF BaseInv, TypeOK, Actions
<1>2. /\ [enabled |-> TRUE, next |-> NextRun(j, now)] \in Job
      /\ [enabled |-> FALSE, next |-> None] \in Job
      /\ NextRun(j, now) # None => NextRun(j, now) > now
  BY <1>1, NextRunFacts
<1>3. actions = [actions EXCEPT ![j] = actions[j]] /\ actions[j] \in Job \cup {None, Deletion, Withdrawal}
  BY <1>1 DEF Actions
<1>4. /\ j # None /\ Deletion # None /\ Withdrawal # None
      /\ \A job \in Job : job \notin {None, Deletion, Withdrawal}
  BY CronAssumption, MarksAssumption
<1> DEFINE Wants(b) ==
              /\ actions' = [actions EXCEPT ![j] = b]
              /\ b = actions[j] \/ Fresh(b)
              /\ b = actions[j] \/ b # None
              /\ b \in {Deletion, Withdrawal} => b = actions[j] \/ j \in removed'
              /\ j \in removed' \ removed => b \in {Deletion, Withdrawal}
              /\ j \in removed => b \in {actions[j], Deletion, Withdrawal} \/ j \in crossed'
<1>9. (\E b \in Job \cup {None, Deletion, Withdrawal} : Wants(b)) =>
        \E b \in Job \cup {None, Deletion, Withdrawal} :
              /\ actions' = [actions EXCEPT ![j] = b]
              /\ b = actions[j] \/ Fresh(b)
              /\ b = actions[j] \/ b # None
              /\ b \in {Deletion, Withdrawal} => b = actions[j] \/ j \in removed'
              /\ j \in removed' \ removed => b \in {Deletion, Withdrawal}
              /\ j \in removed => b \in {actions[j], Deletion, Withdrawal} \/ j \in crossed'
  OBVIOUS
<1>5. CASE ExternalAdd(j)
  <2> DEFINE a == [enabled |-> TRUE, next |-> NextRun(j, now)]
  <2>1. /\ UNCHANGED <<now, disk, sight, store, running, tick, calls, turns, finished, removed, crossed, damages>>
        /\ edits < MaxEdits /\ edits' = edits + 1
        /\ j \notin known /\ known' = known \cup {j} /\ actions' = [actions EXCEPT ![j] = a]
    BY <1>5 DEF ExternalAdd, Asks
  <2>2. a \in Job /\ Fresh(a) /\ j \notin removed
    BY <1>1, <1>2, <2>1 DEF Fresh, Off
  <2>3. a \notin {None, Deletion, Withdrawal}
    BY <1>4, <2>2
  <2> HIDE DEF a
  <2>4. Wants(a)
    BY <2>1, <2>2, <2>3
  <2>5. \E b \in Job \cup {None, Deletion, Withdrawal} : Wants(b)
    BY <2>2, <2>4
  <2> HIDE DEF Wants
  <2>6. /\ UNCHANGED <<now, store, running, tick, calls, turns, finished, damages>>
        /\ edits' = edits \/ (edits < MaxEdits /\ edits' = edits + 1)
        /\ disk' = disk \/ (disk = Unreadable /\ disk' = None)
        /\ j \in known' \/ UNCHANGED <<actions, sight, removed>>
        /\ known \subseteq known' /\ known' \subseteq known \cup {j}
        /\ sight' \in {sight, None, j}
        /\ removed \subseteq removed' /\ removed' \subseteq removed \cup {j}
        /\ crossed \subseteq crossed' /\ crossed' \subseteq crossed \cup removed
    BY <1>1, <2>1
  <2> QED BY <1>9, <2>5, <2>6
<1>6. CASE ExternalLoad(j)
  <2>1. /\ UNCHANGED <<now, actions, store, running, tick, calls, turns, finished, removed, crossed,
                       known, edits, damages>>
        /\ \/ disk = Unreadable /\ disk' = None /\ sight' = sight
           \/ disk # Unreadable /\ Merged(OnDisk)[j] # None /\ sight' = j /\ disk' = disk
    BY <1>6 DEF ExternalLoad, histVars
  <2>2. disk # Unreadable /\ Merged(OnDisk)[j] # None => j \in known
    <3> SUFFICES ASSUME disk # Unreadable, Merged(OnDisk)[j] # None PROVE j \in known
      OBVIOUS
    <3>1. OnDisk \in Store /\ (OnDisk[j] # None <=> Has(disk, j))
      BY <1>1, OnDiskFacts
    <3>2. Has(disk, j) \/ actions[j] # None
      BY <1>1, <3>1, MergedFacts DEF Applies
    <3> QED BY <1>1, <3>2 DEF KnownInv
  <2> QED BY <1>3, <2>1, <2>2
<1>7. CASE \E on \in BOOLEAN : ExternalUpdate(j, on)
  <2>1. PICK on \in BOOLEAN : ExternalUpdate(j, on)
    BY <1>7
  <2> DEFINE a == [enabled |-> on, next |-> IF on THEN NextRun(j, now) ELSE None]
  <2>2. /\ UNCHANGED <<now, disk, store, running, tick, calls, turns, finished, removed, known, damages>>
        /\ edits < MaxEdits /\ edits' = edits + 1
        /\ sight = j /\ sight' = None /\ crossed' = crossed \cup ({j} \cap removed)
        /\ actions' = [actions EXCEPT ![j] = a]
    BY <2>1 DEF ExternalUpdate, Asks
  <2>3. a \in Job /\ Fresh(a)
    <3>1. a.next = (IF on THEN NextRun(j, now) ELSE None) /\ a.enabled = on
      OBVIOUS
    <3>2. a \in Job
      BY <1>2
    <3> HIDE DEF a
    <3> QED BY <1>2, <3>1, <3>2 DEF Fresh, Off
  <2> HIDE DEF a
  <2>4. a \notin {None, Deletion, Withdrawal}
    BY <1>4, <2>3
  <2>5. Wants(a)
    BY <2>2, <2>3, <2>4
  <2>6. \E b \in Job \cup {None, Deletion, Withdrawal} : Wants(b)
    BY <2>3, <2>5
  <2> HIDE DEF Wants
  <2>7. /\ UNCHANGED <<now, store, running, tick, calls, turns, finished, damages>>
        /\ edits' = edits \/ (edits < MaxEdits /\ edits' = edits + 1)
        /\ disk' = disk \/ (disk = Unreadable /\ disk' = None)
        /\ j \in known' \/ UNCHANGED <<actions, sight, removed>>
        /\ known \subseteq known' /\ known' \subseteq known \cup {j}
        /\ sight' \in {sight, None, j}
        /\ removed \subseteq removed' /\ removed' \subseteq removed \cup {j}
        /\ crossed \subseteq crossed' /\ crossed' \subseteq crossed \cup removed
    BY <1>1, <1>4, <2>2
  <2> QED BY <1>9, <2>6, <2>7
<1>8. CASE ExternalRemove(j)
  <2> DEFINE a == IF actions[j] \in Job \cup {Withdrawal} THEN Withdrawal ELSE Deletion
  <2>1. /\ UNCHANGED <<now, disk, store, running, tick, calls, turns, finished, crossed, known, damages>>
        /\ edits < MaxEdits /\ edits' = edits + 1
        /\ sight = j /\ sight' = None /\ removed' = removed \cup {j}
        /\ actions' = [actions EXCEPT ![j] = a]
    BY <1>1, <1>8 DEF ExternalRemove, Asks, Actions
  <2>2. a \in {Deletion, Withdrawal} /\ Fresh(a)
    BY <1>4 DEF Fresh
  <2> HIDE DEF a
  <2>3. Wants(a)
    BY <1>4, <2>1, <2>2
  <2>4. \E b \in Job \cup {None, Deletion, Withdrawal} : Wants(b)
    BY <2>2, <2>3
  <2> HIDE DEF Wants
  <2>5. /\ UNCHANGED <<now, store, running, tick, calls, turns, finished, damages>>
        /\ edits' = edits \/ (edits < MaxEdits /\ edits' = edits + 1)
        /\ disk' = disk \/ (disk = Unreadable /\ disk' = None)
        /\ j \in known' \/ UNCHANGED <<actions, sight, removed>>
        /\ known \subseteq known' /\ known' \subseteq known \cup {j}
        /\ sight' \in {sight, None, j}
        /\ removed \subseteq removed' /\ removed' \subseteq removed \cup {j}
        /\ crossed \subseteq crossed' /\ crossed' \subseteq crossed \cup removed
    BY <1>1, <1>4, <2>1
  <2> QED BY <1>9, <2>4, <2>5
<1> QED BY <1>5, <1>6, <1>7, <1>8 DEF External

\* The edits by this instance and the requests of another one.
LEMMA EditsBase == ASSUME BaseInv, NEW j \in Jobs, Edits(j) PROVE BaseInv'
<1> DEFINE l == Load(running)
<1>1. /\ TypeOK /\ running \in BOOLEAN /\ now \in 0..Horizon /\ removed \subseteq known
      /\ crossed \subseteq known /\ known \subseteq Jobs /\ edits \in 0..MaxEdits /\ MaxEdits \in Nat
  BY CronAssumption DEF BaseInv, TypeOK
<1>2. running => l.store \in Store
  BY <1>1, LoadFacts DEF TypeOK
<1>3. edits < MaxEdits => edits + 1 \in 0..MaxEdits
  BY <1>1
<1>11. running => \A i \in Jobs : l.store[i] # None => i \in known
  <2>1. \A i \in Jobs : Has(l.store, i) => i \in known
    BY <1>1, LoadKnown
  <2>2. l.store \in Store => l.store \notin {None, Unreadable}
    BY MarksAssumption
  <2> QED BY <1>2, <2>1, <2>2 DEF Has
<1>12. KnownInv
  BY DEF BaseInv
<1>4. [enabled |-> TRUE, next |-> NextRun(j, now)] \in Job /\ [enabled |-> FALSE, next |-> None] \in Job
  BY <1>1, NextRunFacts
<1> HIDE DEF l
<1>5. ASSUME NEW st \in Store, NEW r \in Job \cup {None} PROVE [st EXCEPT ![j] = r] \in Store
  BY DEF Store
<1>6. CASE AddJob(j)
  <2> DEFINE jobs == [l.store EXCEPT ![j] = [enabled |-> TRUE, next |-> NextRun(j, now)]]
  <2>1. running /\ edits' \in 0..MaxEdits /\ Change(l, jobs, {})
    BY <1>3, <1>6 DEF AddJob, Edit, l
  <2>2. known' = known \cup {j} /\ removed' = removed /\ crossed' = crossed
    BY <1>6 DEF AddJob
  <2>3. jobs \in Store
    BY <1>2, <1>4, <1>5, <2>1
  <2>4. \A i \in Jobs : jobs[i] # None => i \in known'
    BY <1>2, <1>11, <2>1, <2>2 DEF Store
  <2> HIDE DEF jobs
  <2> QED BY <1>1, <2>1, <2>2, <2>3, <2>4, ChangeBase DEF l
<1>7. CASE RemoveJob(j)
  <2> DEFINE jobs == [l.store EXCEPT ![j] = None]
  <2>1. running /\ edits' \in 0..MaxEdits /\ Change(l, jobs, {j})
    BY <1>3, <1>7 DEF RemoveJob, Edit, l
  <2>2. known' = known /\ removed' = removed \cup {j} /\ crossed' \subseteq crossed \cup {j} /\ l.store[j] # None
    BY <1>7 DEF RemoveJob, l
  <2>3. jobs \in Store
    BY <1>2, <1>5, <2>1
  <2>4. j \in known /\ \A i \in Jobs : jobs[i] # None => i \in known
    BY <1>2, <1>11, <2>1, <2>2 DEF Store
  <2> HIDE DEF jobs
  <2> QED BY <1>1, <2>1, <2>2, <2>3, <2>4, ChangeBase DEF l
<1>8. CASE \E on \in BOOLEAN : EnableJob(j, on)
  <2>1. PICK on \in BOOLEAN : EnableJob(j, on)
    BY <1>8
  <2> DEFINE r == [enabled |-> on, next |-> IF on THEN NextRun(j, now) ELSE None]
             jobs == [l.store EXCEPT ![j] = r]
  <2>2. r \in Job
    BY <1>4
  <2>3. running /\ edits' \in 0..MaxEdits /\ Change(l, jobs, {}) /\ UNCHANGED <<removed, crossed, known>>
    BY <1>3, <2>1 DEF EnableJob, Edit, l
  <2>4. jobs \in Store
    BY <1>2, <1>5, <2>2, <2>3
  <2>5. \A i \in Jobs : jobs[i] # None => i \in known
    <3>1. l.store[j] # None
      BY <2>1 DEF EnableJob, l
    <3> QED BY <1>2, <1>11, <2>3, <3>1 DEF Store
  <2> HIDE DEF jobs
  <2> QED BY <1>1, <2>3, <2>4, <2>5, ChangeBase DEF l
<1>9. CASE External(j)
  <2>1. /\ UNCHANGED <<now, store, running, tick, calls, turns, finished, damages>>
        /\ edits' \in 0..MaxEdits /\ disk' \in {disk, None} /\ known \subseteq known'
        /\ known' \subseteq known \cup {j}
        /\ sight' \in {sight, None, j} /\ removed' \subseteq removed \cup {j}
        /\ crossed' \subseteq crossed \cup removed
        /\ \E a \in Job \cup {None, Deletion, Withdrawal} : actions' = [actions EXCEPT ![j] = a]
        /\ j \in known' \/ UNCHANGED <<actions, sight, removed>>
    BY <1>1, <1>3, <1>9, ExternalFacts DEF TypeOK
  <2>2. actions' \in Actions
    BY <1>1, <2>1 DEF TypeOK, Actions
  <2>3. TickInv' /\ CallInv'
    BY <2>1 DEF BaseInv, TickInv, CallInv
  <2>4. KnownInv'
    BY <1>1, <1>12, <2>1 DEF KnownInv, TypeOK, Has
  <2>5. disk' \in Store \cup {Unreadable, None}
    BY <1>1, <2>1 DEF TypeOK
  <2>6. sight' \in known' \cup {None} /\ removed' \subseteq known' /\ crossed' \subseteq known'
        /\ known' \subseteq Jobs
    BY <1>1, <2>1 DEF TypeOK
  <2> QED BY <1>1, <2>1, <2>2, <2>3, <2>4, <2>5, <2>6, BaseKept DEF TypeOK, TickRec, CallRec
<1> QED BY <1>6, <1>7, <1>8, <1>9 DEF Edits, External

\* A crash between two writes of a merge loses lines, and then the jobs they
\* are about have crossed, or it leaves what the merge gives.
LEMMA CrashFacts ==
  ASSUME BaseInv, Crash
  PROVE  /\ disk' \in Store \cup {Unreadable, None} /\ actions' \in Actions
         /\ crossed \subseteq crossed' /\ crossed' \subseteq known
         /\ \/ UNCHANGED <<disk, actions>>
            \/ disk' = disk /\ actions' = NoJobs /\ \A j \in Jobs : actions[j] # None => j \in crossed'
            \/ /\ disk # Unreadable /\ disk' = Merged(OnDisk) /\ disk' \in Store /\ actions' = NoJobs
         /\ \A j \in Jobs : Has(disk', j) \/ actions'[j] # None => Has(disk, j) \/ actions[j] # None
<1>1. /\ disk \in Store \cup {Unreadable, None} /\ actions \in Actions /\ KnownInv
      /\ crossed \subseteq known /\ NoJobs \in Actions /\ \A j \in Jobs : NoJobs[j] = None
  BY DEF BaseInv, TypeOK, Actions, NoJobs
<1>2. CASE UNCHANGED <<disk, actions>> /\ crossed' = crossed
  BY <1>1, <1>2 DEF Has
<1>3. CASE /\ disk' = disk /\ actions' = NoJobs
           /\ crossed' = crossed \cup {j \in Jobs : actions[j] # None}
  BY <1>1, <1>3 DEF Has, KnownInv
<1>4. CASE disk # Unreadable /\ disk' = Merged(OnDisk) /\ actions' = NoJobs /\ crossed' = crossed
  <2>1. /\ OnDisk \in Store
        /\ \A j \in Jobs : OnDisk[j] # None <=> Has(disk, j)
    BY <1>1, <1>4, OnDiskFacts
  <2>2. Merged(OnDisk) \in Store
    BY <1>1, <2>1, MergedFacts
  <2>3. ASSUME NEW j \in Jobs, Merged(OnDisk)[j] # None PROVE Has(disk, j) \/ actions[j] # None
    BY <1>1, <2>1, <2>3, MergedFacts DEF Applies
  <2> QED BY <1>1, <1>4, <2>2, <2>3 DEF Has
<1> QED BY <1>2, <1>3, <1>4 DEF Crash, MergeCut, fileVars

\* Start, the stop of the service, a crash and a damaged file.
LEMMA LifeBase == ASSUME BaseInv, Pass \/ Start \/ Stop \/ Crash \/ Corrupt PROVE BaseInv'
<1> DEFINE l == Load(TRUE)
<1>1. /\ TypeOK /\ TickInv /\ CallInv /\ KnownInv /\ now \in 0..Horizon
      /\ Horizon \in Nat /\ MaxDamages \in Nat
  BY CronAssumption DEF BaseInv, TypeOK
<1>2. CASE Pass
  <2>1. now' \in 0..Horizon
    BY <1>1, <1>2 DEF Pass
  <2>2. UNCHANGED <<disk, actions, store, running, tick, calls, turns, finished, removed, crossed, sight, known, edits, damages>>
    BY <1>2 DEF Pass, fileVars, histVars
  <2> QED BY <1>1, <2>1, <2>2 DEF BaseInv, TypeOK, TickInv, CallInv, KnownInv
<1>3. CASE Stop
  <2>1. /\ UNCHANGED <<now, disk, actions, store, calls, turns, finished, removed, crossed, sight, known, edits, damages>>
        /\ running' = FALSE /\ tick' = NoTick
    BY <1>3 DEF Stop, fileVars, histVars
  <2>2. tick' \in TickRec /\ tick'.phase # "running"
    BY <2>1, CronAssumption DEF TickRec, NoTick, Times
  <2> QED BY <1>1, <2>1, <2>2 DEF BaseInv, TypeOK, TickInv, CallInv, KnownInv, TickRec
<1>4. CASE Crash
  <2>1. /\ UNCHANGED <<now, turns, finished, removed, sight, known, edits, damages>>
        /\ running' = FALSE /\ tick' = NoTick /\ store' = None
        /\ calls' = [c \in Callers |-> NoCall]
    BY <1>4 DEF Crash
  <2>2. tick' \in TickRec /\ tick'.phase # "running"
    BY <2>1, CronAssumption DEF TickRec, NoTick, Times
  <2>3. NoCall \in CallRec /\ NoCall.job = None
    BY DEF NoCall, CallRec
  <2>4. /\ disk' \in Store \cup {Unreadable, None} /\ actions' \in Actions
        /\ crossed' \subseteq known
        /\ \A j \in Jobs : Has(disk', j) \/ actions'[j] # None => Has(disk, j) \/ actions[j] # None
    BY <1>1, <1>4, CrashFacts
  <2>5. TickInv' /\ CallInv' /\ KnownInv'
    BY <1>1, <2>1, <2>2, <2>3, <2>4 DEF TickInv, CallInv, KnownInv, Has
  <2>6. calls' \in [Callers -> CallRec] /\ store' \in Store \cup {None} /\ running' \in BOOLEAN
    BY <2>1, <2>3
  <2> QED BY <1>1, <2>1, <2>2, <2>4, <2>5, <2>6, BaseKept DEF TypeOK
<1>5. CASE Corrupt
  <2>1. /\ UNCHANGED <<now, actions, store, running, tick, calls, turns, finished, removed, crossed, sight, known, edits>>
        /\ disk' = Unreadable /\ damages' \in 0..MaxDamages
    BY <1>1, <1>5 DEF Corrupt, TypeOK
  <2> QED BY <1>1, <2>1 DEF BaseInv, TypeOK, TickInv, CallInv, KnownInv, Has
<1>6. CASE Start
  <2> DEFINE jobs == [j \in Jobs |-> IF l.store[j] # None /\ l.store[j].enabled
                                     THEN [l.store[j] EXCEPT !.next = NextRun(j, now)]
                                     ELSE l.store[j]]
  <2>1. /\ ~running /\ tick.phase = "none"
        /\ IF l.store = None
           THEN disk' = l.disk /\ UNCHANGED <<actions, store, running, tick, calls>>
           ELSE Save(l, jobs) /\ running' = TRUE /\ Arm(jobs, TRUE) /\ calls' = Detach(l.reread, {})
        /\ UNCHANGED <<now, turns, finished, removed, crossed, sight, known, edits, damages>>
    BY <1>6 DEF Start, histVars
  <2>2. /\ l.store \in Store \cup {None} /\ l.disk \in Store \cup {None, Unreadable}
        /\ l.actions \in Actions /\ l.reread \in BOOLEAN
    BY <1>1, LoadFacts
  <2>3. \A j \in Jobs : Has(l.store, j) \/ Has(l.disk, j) \/ l.actions[j] # None => j \in known
    BY LoadKnown
  <2>4. CASE l.store = None
    BY <1>1, <2>1, <2>2, <2>3, <2>4 DEF BaseInv, TypeOK, TickInv, CallInv, KnownInv
  <2>5. CASE l.store # None
    <3>1. l.store \in Store /\ l.store # Unreadable
      BY <2>2, <2>5, MarksAssumption
    <3>2. jobs \in Store
      <4>1. ASSUME NEW j \in Jobs, l.store[j] # None
            PROVE  [l.store[j] EXCEPT !.next = NextRun(j, now)] \in Job
        <5>1. l.store[j] \in Job
          BY <3>1, <4>1 DEF Store
        <5> HIDE DEF l
        <5>2. NextRun(j, now) \in Times \cup {None}
          BY <1>1, NextRunFacts
        <5> QED BY <5>1, <5>2 DEF Job
      <4> HIDE DEF l
      <4> QED BY <3>1, <4>1 DEF Store
    <3>3. \A j \in Jobs : jobs[j] # None => l.store[j] # None
      OBVIOUS
    <3> HIDE DEF l, jobs
    <3>4. Save(l, jobs) /\ running' = TRUE /\ Arm(jobs, TRUE) /\ calls' = Detach(l.reread, {})
      BY <2>1, <2>5
    <3>5. /\ store' \in Store /\ store' # None /\ disk' \in Store \cup {Unreadable, None}
          /\ store' \in Store \cup {None} /\ actions' \in Actions
      BY <2>2, <3>2, <3>4, SaveFacts
    <3>6. tick' \in TickRec /\ tick'.phase # "running"
      BY <1>1, <3>2, <3>4, ArmFacts
    <3>7. calls' \in [Callers -> CallRec] /\ CallInv'
      BY <2>2, <3>4, <3>5, CallsKept
    <3>8. KnownInv'
      BY <2>1, <2>3, <2>5, <3>1, <3>3, <3>4 DEF KnownInv, Save, Has
    <3>9. TickInv'
      BY <3>6 DEF TickInv
    <3> QED BY <1>1, <2>1, <3>4, <3>5, <3>6, <3>7, <3>8, <3>9, BaseKept DEF TypeOK
  <2> QED BY <2>4, <2>5
<1> QED BY <1>2, <1>3, <1>4, <1>5, <1>6

\* The timer wakes.
LEMMA FireBase == ASSUME BaseInv, Fire PROVE BaseInv'
<1> DEFINE l == Load(running)
           due == {j \in Jobs : /\ l.store[j] # None /\ l.store[j].enabled
                                /\ l.store[j].next # None /\ l.store[j].next <= now}
<1>1. /\ TypeOK /\ now \in 0..Horizon /\ running \in BOOLEAN /\ turns \in [Jobs -> 0..2]
      /\ running => store # None
  BY DEF BaseInv, TypeOK
<1>2. /\ UNCHANGED <<now, running, finished, removed, crossed, sight, known, edits, damages>>
      /\ IF ~running
         THEN tick' = NoTick /\ UNCHANGED <<disk, actions, store, calls, turns>>
         ELSE /\ calls' = Detach(l.reread, {})
              /\ IF due = {}
                 THEN Save(l, l.store) /\ Arm(l.store, TRUE) /\ UNCHANGED turns
                 ELSE \E order \in SetToSeqs(due) :
                        /\ store' = l.store /\ disk' = l.disk /\ actions' = l.actions
                        /\ tick' = [phase |-> "running", wake |-> now, due |-> order]
                        /\ Submitted(Head(order))
  BY DEF Fire, fileVars
<1>3. CASE ~running
  <2>1. /\ tick' = NoTick
        /\ UNCHANGED <<now, running, finished, removed, crossed, sight, known, edits, damages, disk, actions, store, calls, turns>>
    BY <1>2, <1>3
  <2>2. tick' \in TickRec /\ tick'.phase # "running"
    BY <2>1, CronAssumption DEF TickRec, NoTick, Times
  <2> QED BY <2>1, <2>2 DEF BaseInv, TypeOK, TickInv, CallInv, KnownInv, TickRec
<1>4. CASE running
  <2>1. /\ l.store \in Store /\ l.store # None
        /\ l.disk \in Store \cup {None, Unreadable}
        /\ l.actions \in Actions /\ l.reread \in BOOLEAN
    BY <1>1, <1>4, LoadFacts
  <2>2. \A j \in Jobs : Has(l.store, j) \/ Has(l.disk, j) \/ l.actions[j] # None => j \in known
    BY <1>1, LoadKnown
  <2>3. due \subseteq Jobs
    OBVIOUS
  <2> HIDE DEF l, due
  <2>4. store' = l.store /\ disk' \in {l.disk, l.store} /\ actions' = l.actions
    BY <1>2, <1>4 DEF Save
  <2>5. calls' \in [Callers -> CallRec] /\ CallInv'
    BY <1>2, <1>4, <2>1, <2>4, CallsKept
  <2>6. KnownInv'
    BY <1>2, <2>2, <2>4 DEF KnownInv
  <2>7. tick' \in TickRec /\ TickInv' /\ turns' \in [Jobs -> 0..2]
    <3>1. CASE due = {}
      <4>1. Arm(l.store, TRUE) /\ turns' = turns
        BY <1>2, <1>4, <3>1
      <4>2. tick' \in TickRec /\ tick'.phase # "running"
        BY <1>1, <2>1, <4>1, ArmFacts
      <4> QED BY <1>1, <4>1, <4>2 DEF TickInv
    <3>2. CASE due # {}
      <4>1. PICK order \in SetToSeqs(due) :
              /\ tick' = [phase |-> "running", wake |-> now, due |-> order]
              /\ Submitted(Head(order))
        BY <1>2, <1>4, <3>2
      <4>2. /\ order \in Seq(Jobs) /\ order # <<>> /\ Once(order)
            /\ Head(order) \in due
        BY <2>3, <3>2, DueOrder
      <4>3. now \in Times
        BY <1>1, CronAssumption DEF Times
      <4>4. tick' \in TickRec /\ tick'.due = order
        BY <4>1, <4>2, <4>3 DEF TickRec
      <4>5. turns' \in [Jobs -> 0..2]
        BY <1>1, <2>3, <4>1, <4>2, SubmittedFacts
      <4> QED BY <2>1, <2>4, <4>2, <4>4, <4>5 DEF TickInv
    <3> QED BY <3>1, <3>2
  <2>8. disk' \in Store \cup {Unreadable, None} /\ store' \in Store \cup {None} /\ store' # None
    BY <2>1, <2>4
  <2> QED BY <1>1, <1>2, <1>4, <2>1, <2>4, <2>5, <2>6, <2>7, <2>8, BaseKept DEF TypeOK
<1> QED BY <1>1, <1>3, <1>4

\* The turn of a job ends.
LEMMA JobEndsBase == ASSUME BaseInv, JobEnds PROVE BaseInv'
<1> DEFINE j == Head(tick.due)
           rest == Tail(tick.due)
           jobs == Executed(store, j)
<1>1. /\ TypeOK /\ now \in 0..Horizon /\ running \in BOOLEAN /\ turns \in [Jobs -> 0..2]
      /\ finished \in [Jobs -> 0..Horizon \cup {None}] /\ tick \in TickRec
      /\ tick.due \in Seq(Jobs) /\ tick.phase = "running" /\ tick.wake \in Times
      /\ tick.due # <<>> /\ Once(tick.due) /\ store # None /\ store \in Store
      /\ disk \in Store \cup {Unreadable, None} /\ KnownInv
  BY DEF BaseInv, TypeOK, TickInv, JobEnds, TickRec
<1>2. j \in Jobs /\ rest \in Seq(Jobs) /\ Once(rest)
  BY <1>1, TailRange
<1>3. /\ store' = jobs /\ finished' = [finished EXCEPT ![j] = now]
      /\ calls' = Detach(FALSE, {j} \cap DeletedAfterRun)
      /\ IF rest = <<>>
         THEN disk' = jobs /\ Arm(jobs, running) /\ UNCHANGED turns
         ELSE tick' = [tick EXCEPT !.due = rest] /\ Submitted(Head(rest)) /\ UNCHANGED disk
      /\ UNCHANGED <<now, actions, running, removed, sight, known, edits, damages>>
      /\ crossed' = crossed \cup {i \in {j} : Puts(i)}
  BY DEF JobEnds
<1>4. jobs \in Store /\ \A i \in Jobs : jobs[i] # None => store[i] # None
  BY <1>1, <1>2, ExecutedFacts
<1> HIDE DEF j, rest, jobs
<1>5. jobs \notin {None, Unreadable} /\ store \notin {None, Unreadable}
  BY <1>1, <1>4, MarksAssumption
<1>6. calls' \in [Callers -> CallRec] /\ CallInv'
  BY <1>3, <1>5, CallsKept
<1>7. tick' \in TickRec /\ TickInv' /\ turns' \in [Jobs -> 0..2]
  <2>1. CASE rest = <<>>
    BY <1>1, <1>3, <1>4, <2>1, ArmFacts DEF TickInv
  <2>2. CASE rest # <<>>
    <3>1. tick' = [tick EXCEPT !.due = rest] /\ Submitted(Head(rest))
      BY <1>3, <2>2
    <3>2. tick' \in TickRec /\ tick'.due = rest
      BY <1>1, <1>2, <3>1 DEF TickRec
    <3>3. Head(rest) \in Jobs
      BY <1>2, <2>2
    <3>4. turns' \in [Jobs -> 0..2]
      BY <1>1, <3>1, <3>3, SubmittedFacts
    <3> QED BY <1>2, <1>3, <1>5, <2>2, <3>2, <3>4 DEF TickInv
  <2> QED BY <2>1, <2>2
<1>8. KnownInv'
  <2>1. disk' \in {disk, jobs}
    BY <1>3
  <2> QED BY <1>1, <1>3, <1>4, <1>5, <2>1 DEF KnownInv, Has
<1>9. finished' \in [Jobs -> 0..Horizon \cup {None}]
  BY <1>1, <1>2, <1>3
<1>10. disk' \in Store \cup {Unreadable, None} /\ store' \in Store \cup {None} /\ store' # None
  BY <1>1, <1>3, <1>4, <1>5
<1>11. crossed' \subseteq known
  BY <1>1, <1>2, <1>3, MarksAssumption DEF KnownInv, TypeOK, Puts
<1> QED BY <1>1, <1>3, <1>6, <1>7, <1>8, <1>9, <1>10, <1>11, BaseKept DEF TypeOK, Actions

\* list_jobs reads the store again.
LEMMA ListBase == ASSUME BaseInv, List PROVE BaseInv'
<1> DEFINE l == Load(running)
<1>1. TypeOK /\ TickInv /\ running \in BOOLEAN /\ store # None
  BY DEF BaseInv, TypeOK, List
<1>2. /\ store' = l.store /\ disk' = l.disk /\ actions' = l.actions
      /\ calls' = Detach(l.reread, {})
      /\ UNCHANGED <<now, running, tick, turns, finished, removed, crossed, sight, known, edits, damages>>
  BY DEF List, histVars
<1>3. /\ l.store \in Store /\ l.store # None
      /\ l.disk \in Store \cup {None, Unreadable}
      /\ l.actions \in Actions /\ l.reread \in BOOLEAN
  BY <1>1, LoadFacts
<1>4. \A j \in Jobs : Has(l.store, j) \/ Has(l.disk, j) \/ l.actions[j] # None => j \in known
  BY <1>1, LoadKnown
<1> HIDE DEF l
<1>5. calls' \in [Callers -> CallRec] /\ CallInv'
  BY <1>2, <1>3, CallsKept
<1>6. KnownInv' /\ TickInv'
  BY <1>1, <1>2, <1>3, <1>4 DEF KnownInv, TickInv
<1> QED BY <1>1, <1>2, <1>3, <1>5, <1>6, BaseKept DEF TypeOK, TickRec

\* A manual run begins, or finds its job gone or disabled.
LEMMA RunJobBase == ASSUME BaseInv, NEW c \in Callers, NEW j \in Jobs, NEW force \in BOOLEAN,
                          RunJob(c, j, force)
                   PROVE  BaseInv'
<1> DEFINE l == Load(TRUE)
           runs == l.store[j] # None /\ (l.store[j].enabled \/ force)
           call == [job |-> j, attached |-> TRUE, was |-> running]
<1>1. /\ TypeOK /\ TickInv /\ running \in BOOLEAN /\ store # None /\ now \in 0..Horizon
      /\ turns \in [Jobs -> 0..2] /\ tick \in TickRec
      /\ edits \in 0..MaxEdits /\ edits < MaxEdits /\ edits' = edits + 1
      /\ running \/ LateCalls
  BY DEF BaseInv, TypeOK, RunJob, TickRec
<1>2. /\ store' = l.store /\ disk' = l.disk /\ actions' = l.actions
      /\ IF runs
         THEN /\ running' = TRUE
              /\ calls' = [Detach(l.reread, {}) EXCEPT ![c] = call]
              /\ Submitted(j) /\ UNCHANGED tick
         ELSE /\ calls' = Detach(l.reread, {})
              /\ IF running THEN Arm(l.store, TRUE) ELSE UNCHANGED tick
              /\ UNCHANGED <<running, turns>>
      /\ UNCHANGED <<now, finished, removed, crossed, sight, known, damages>>
  BY DEF RunJob
<1>3. /\ l.store \in Store /\ l.store # None
      /\ l.disk \in Store \cup {None, Unreadable}
      /\ l.actions \in Actions /\ l.reread \in BOOLEAN
  BY <1>1, LoadFacts
<1>4. \A i \in Jobs : Has(l.store, i) \/ Has(l.disk, i) \/ l.actions[i] # None => i \in known
  BY <1>1, LoadKnown
<1>5. edits' \in 0..MaxEdits
  BY <1>1, CronAssumption
<1> HIDE DEF l, runs
<1>6. KnownInv'
  BY <1>2, <1>4 DEF KnownInv
<1>7. tick' \in TickRec /\ TickInv' /\ turns' \in [Jobs -> 0..2] /\ running' \in BOOLEAN
  <2>1. CASE runs
    <3>1. tick' = tick /\ Submitted(j) /\ running' = TRUE
      BY <1>2, <2>1
    <3>2. turns' \in [Jobs -> 0..2]
      BY <1>1, <3>1, SubmittedFacts
    <3> QED BY <1>1, <1>2, <1>3, <3>1, <3>2 DEF TickInv
  <2>2. CASE ~runs /\ running
    <3>1. Arm(l.store, TRUE) /\ UNCHANGED <<running, turns>>
      BY <1>2, <2>2
    <3>2. tick' \in TickRec /\ tick'.phase # "running"
      BY <1>1, <1>3, <3>1, ArmFacts
    <3> QED BY <1>1, <3>1, <3>2 DEF TickInv
  <2>3. CASE ~runs /\ ~running
    <3>1. UNCHANGED <<tick, running, turns>>
      BY <1>2, <2>3
    <3> QED BY <1>1, <1>2, <1>3, <3>1 DEF TickInv
  <2> QED BY <1>1, <2>1, <2>2, <2>3
<1>8. calls' \in [Callers -> CallRec] /\ CallInv'
  <2> DEFINE d == Detach(l.reread, {})
  <2>1. calls \in [Callers -> CallRec] /\ CallInv
    BY DEF BaseInv, TypeOK, CallRec
  <2>2. /\ d \in [Callers -> CallRec]
        /\ \A e \in Callers : d[e].job = calls[e].job /\ d[e].was = calls[e].was
    BY <1>3, <2>1, DetachFacts
  <2>3. call \in CallRec /\ call.was = running
    BY <1>1 DEF CallRec
  <2>4. calls' = d \/ calls' = [d EXCEPT ![c] = call]
    BY <1>2
  <2> HIDE DEF d, call
  <2>5. calls' \in [Callers -> CallRec]
    BY <2>2, <2>3, <2>4
  <2>6. \A e \in Callers : \/ calls'[e].job = calls[e].job /\ calls'[e].was = calls[e].was
                           \/ calls'[e].was = running
    BY <2>2, <2>3, <2>4
  <2> QED BY <1>1, <1>2, <1>3, <2>1, <2>5, <2>6 DEF CallInv
<1>9. /\ disk' \in Store \cup {Unreadable, None} /\ store' \in Store \cup {None} /\ store' # None
      /\ actions' \in Actions
  BY <1>2, <1>3
<1> QED BY <1>1, <1>2, <1>5, <1>6, <1>7, <1>8, <1>9, BaseKept DEF TypeOK

\* A manual run ends.
LEMMA RunJobEndsBase == ASSUME BaseInv, NEW c \in Callers, RunJobEnds(c) PROVE BaseInv'
<1> DEFINE j == calls[c].job
           jobs == IF j \in DeletedAfterRun \/ calls[c].attached THEN Executed(store, j) ELSE store
<1>1. /\ TypeOK /\ TickInv /\ CallInv /\ KnownInv /\ running \in BOOLEAN /\ now \in 0..Horizon
      /\ tick \in TickRec /\ calls \in [Callers -> CallRec] /\ calls[c] \in CallRec
      /\ j # None /\ j \in Jobs /\ calls[c].was \in BOOLEAN
      /\ store # None /\ store \in Store
  <2>1. calls \in [Callers -> CallRec] /\ j # None
    BY DEF BaseInv, TypeOK, CallRec, RunJobEnds
  <2>2. calls[c] \in CallRec
    BY <2>1
  <2>3. j \in Jobs /\ calls[c].was \in BOOLEAN
    BY <2>1, <2>2 DEF CallRec
  <2> QED BY <2>1, <2>2, <2>3 DEF BaseInv, TypeOK, TickRec, CallInv
<1>2. /\ store' = jobs /\ disk' = jobs /\ running' = calls[c].was
      /\ IF calls[c].was THEN Arm(jobs, TRUE) ELSE UNCHANGED tick
      /\ calls' = [Detach(FALSE, {j} \cap DeletedAfterRun) EXCEPT ![c] = NoCall]
      /\ UNCHANGED <<now, actions, turns, finished, removed, crossed, sight, known, edits, damages>>
  BY DEF RunJobEnds
<1>3. jobs \in Store /\ \A i \in Jobs : jobs[i] # None => store[i] # None
  BY <1>1, ExecutedFacts
<1>4. calls' \in [Callers -> CallRec] /\ \A e \in Callers :
         calls'[e].job # None => calls'[e].job = calls[e].job /\ calls'[e].was = calls[e].was
  <2> DEFINE d == Detach(FALSE, {j} \cap DeletedAfterRun)
  <2>1. /\ d \in [Callers -> CallRec]
        /\ \A e \in Callers : d[e].job = calls[e].job /\ d[e].was = calls[e].was
    BY <1>1, DetachFacts
  <2>2. calls' = [d EXCEPT ![c] = NoCall]
    BY <1>2
  <2> HIDE DEF d
  <2>3. NoCall \in CallRec /\ NoCall.job = None
    BY DEF NoCall, CallRec
  <2> QED BY <2>1, <2>2, <2>3
<1> HIDE DEF jobs
<1>5. jobs \notin {None, Unreadable} /\ store \notin {None, Unreadable}
  BY <1>1, <1>3, MarksAssumption
<1>6. CallInv'
  BY <1>1, <1>2, <1>4, <1>5 DEF CallInv
<1>7. KnownInv'
  BY <1>1, <1>2, <1>3, <1>5 DEF KnownInv, Has
<1>8. tick' \in TickRec /\ TickInv'
  BY <1>1, <1>2, <1>3, <1>5, ArmFacts DEF TickInv
<1> QED BY <1>1, <1>2, <1>3, <1>4, <1>5, <1>6, <1>7, <1>8, BaseKept DEF TypeOK, Actions

\* Nothing is stored at first.
LEMMA InitBase == Init => BaseInv
<1> SUFFICES ASSUME Init PROVE BaseInv
  OBVIOUS
<1>1. TypeOK
  <2>1. 0 \in 0..Horizon /\ 0 \in 0..MaxEdits /\ 0 \in 0..MaxDamages /\ 0 \in Times
    BY CronAssumption DEF Times
  <2>2. tick \in TickRec
    BY <2>1 DEF Init, NoTick, TickRec
  <2>3. calls \in [Callers -> CallRec]
    <3>1. NoCall \in CallRec
      BY DEF NoCall, CallRec
    <3> QED BY <3>1 DEF Init
  <2>4. actions \in Actions /\ turns \in [Jobs -> 0..2]
        /\ finished \in [Jobs -> 0..Horizon \cup {None}]
    BY DEF Init, NoJobs, Actions
  <2>5. /\ now \in 0..Horizon /\ edits \in 0..MaxEdits /\ damages \in 0..MaxDamages
        /\ disk = None /\ store = None /\ running = FALSE
        /\ removed = {} /\ known = {} /\ crossed = {} /\ sight = None
    BY <2>1 DEF Init
  <2> QED BY <2>2, <2>3, <2>4, <2>5 DEF TypeOK, TickRec, CallRec, Actions
<1>2. TickInv /\ CallInv /\ KnownInv
  BY DEF Init, TickInv, NoTick, CallInv, NoCall, KnownInv, Has, NoJobs
<1> QED BY <1>1, <1>2 DEF BaseInv

\* Every step keeps the types and what is behind the timer and the runs.
LEMMA StepBase == ASSUME BaseInv, [Next]_vars PROVE BaseInv'
<1>1. CASE Pass \/ Start \/ Stop \/ Crash \/ Corrupt
  BY <1>1, LifeBase
<1>2. CASE Fire \/ JobEnds \/ List
  BY <1>2, FireBase, JobEndsBase, ListBase
<1>3. CASE \E j \in Jobs : Edits(j)
  BY <1>3, EditsBase
<1>4. CASE \/ \E c \in Callers, j \in Jobs, force \in BOOLEAN : RunJob(c, j, force)
           \/ \E c \in Callers : RunJobEnds(c)
  BY <1>4, RunJobBase, RunJobEndsBase
<1>5. CASE UNCHANGED vars
  BY <1>5 DEF vars, fileVars, histVars, BaseInv, TypeOK, TickInv, CallInv, KnownInv, Has
<1> QED BY <1>1, <1>2, <1>3, <1>4, <1>5 DEF Next

\* Every variable keeps its type, for any number of jobs, callers and damages: a
\* running service has a store, and a removed job has been known.
THEOREM ServiceTypes == Spec => []TypeOK
<1>1. BaseInv /\ [Next]_vars => BaseInv'
  BY StepBase
<1>2. BaseInv => TypeOK
  BY DEF BaseInv
<1> QED BY <1>1, <1>2, InitBase, PTL DEF Spec

-----------------------------------------------------------------------------
(* What is due when it is collected is due when it is started *)

\* While the timer runs its jobs, nothing is read again.
LEMMA NotReread ==
  ASSUME BaseInv, tick.phase = "running", NEW run \in BOOLEAN
  PROVE  /\ Load(run).store = store /\ Load(run).disk = disk /\ Load(run).actions = actions
         /\ store # None
<1>1. TypeOK /\ store # None /\ ~Reads
  BY DEF BaseInv, TickInv, Reads
<1> QED BY <1>1, LoadFacts

\* An edit cancels the tick.
LEMMA EditsCancel ==
  ASSUME BaseInv, NEW j \in Jobs, AddJob(j) \/ RemoveJob(j) \/ \E on \in BOOLEAN : EnableJob(j, on)
  PROVE  tick'.phase # "running"
<1> DEFINE l == Load(running)
<1>1. TypeOK /\ running \in BOOLEAN /\ now \in 0..Horizon
  BY DEF BaseInv, TypeOK
<1>2. PICK jobs : running /\ Arm(jobs, running) /\ store' = jobs
  BY Zenon DEF AddJob, RemoveJob, EnableJob, Edit, Change, Save
<1>3. BaseInv'
  BY EditsBase DEF Edits
<1>4. jobs \in Store
  <2>1. store' \in Store \cup {None} /\ running' \in BOOLEAN /\ (running' => store' # None)
    BY <1>3 DEF BaseInv, TypeOK
  <2>2. running' = running
    BY DEF AddJob, RemoveJob, EnableJob, Change
  <2> QED BY <1>2, <2>1, <2>2
<1> QED BY <1>1, <1>2, <1>4, ArmFacts

\* What the timer has still to run stays as it is but for the time that passes.
LEMMA DueKept ==
  ASSUME BaseInv, DueStillDue, tick' = tick,
         tick.phase = "running" => /\ store' = store
                                   /\ now' \in Nat /\ now <= now'
  PROVE  DueStillDue'
<1> SUFFICES ASSUME tick.phase = "running", NEW i \in DOMAIN tick.due PROVE Due(tick.due[i])'
  BY DEF DueStillDue
<1>1. Due(tick.due[i]) /\ tick.due[i] \in Jobs
  <2>1. tick.due \in Seq(Jobs)
    BY DEF BaseInv, TypeOK
  <2> QED BY <2>1, ElementOfSeq, LenProperties DEF DueStillDue
<1>2. store \in Store /\ now \in Nat
  BY MarksAssumption, CronAssumption DEF BaseInv, TypeOK, TickInv
<1>3. store[tick.due[i]].next \in Nat
  <2>1. store[tick.due[i]] \in Job
    BY <1>1, <1>2 DEF Due, Store
  <2>2. store[tick.due[i]].next \in Times \cup {None}
    BY <2>1 DEF Job
  <2> QED BY <1>1, <2>2, CronAssumption DEF Due, Times
<1> QED BY <1>1, <1>2, <1>3 DEF Due

\* The tick that collects the due jobs, and the end of the turn of the first.
LEMMA FireDue == ASSUME BaseInv, DueStillDue, Fire PROVE DueStillDue'
<1> DEFINE l == Load(running)
           due == {j \in Jobs : /\ l.store[j] # None /\ l.store[j].enabled
                                /\ l.store[j].next # None /\ l.store[j].next <= now}
<1>1. /\ TypeOK /\ now \in 0..Horizon /\ running \in BOOLEAN
      /\ now' = now /\ (running => store # None)
  BY DEF BaseInv, TypeOK, Fire
<1>2. \/ tick' = NoTick
      \/ running /\ Arm(l.store, TRUE)
      \/ /\ store' = l.store /\ due # {}
         /\ \E order \in SetToSeqs(due) : tick' = [phase |-> "running", wake |-> now, due |-> order]
  BY DEF Fire
<1>3. running => l.store \in Store
  BY <1>1, LoadFacts
<1>4. CASE tick' = NoTick
  BY <1>4 DEF NoTick, DueStillDue
<1>5. CASE running /\ Arm(l.store, TRUE)
  <2>1. tick'.phase # "running"
    BY <1>1, <1>3, <1>5, ArmFacts
  <2> QED BY <2>1 DEF DueStillDue
<1>6. CASE /\ store' = l.store /\ due # {}
           /\ \E order \in SetToSeqs(due) : tick' = [phase |-> "running", wake |-> now, due |-> order]
  <2>1. due \subseteq Jobs
    OBVIOUS
  <2>2. \A j \in due : Due(j)'
    BY <1>1, <1>6 DEF Due
  <2> HIDE DEF due
  <2>3. PICK order \in SetToSeqs(due) : tick' = [phase |-> "running", wake |-> now, due |-> order]
    BY <1>6
  <2>4. Range(order) = due
    BY <1>6, <2>1, DueOrder
  <2>5. \A i \in DOMAIN order : order[i] \in due
    BY <2>4, Zenon DEF Range
  <2> QED BY <2>2, <2>3, <2>5 DEF DueStillDue
<1> QED BY <1>2, <1>4, <1>5, <1>6

\* The turn of the first due job ends, and the rest is as it was.
LEMMA JobEndsDue == ASSUME BaseInv, DueStillDue, JobEnds PROVE DueStillDue'
<1> DEFINE j == Head(tick.due)
           rest == Tail(tick.due)
           jobs == Executed(store, j)
<1>1. /\ TypeOK /\ now \in 0..Horizon /\ running \in BOOLEAN /\ now' = now
      /\ tick.due \in Seq(Jobs) /\ tick.phase = "running" /\ tick \in TickRec
      /\ tick.due # <<>> /\ Once(tick.due) /\ store \in Store
  BY DEF BaseInv, TypeOK, TickInv, JobEnds, TickRec
<1>2. /\ j \in Jobs /\ rest \in Seq(Jobs) /\ j \notin Range(rest)
      /\ Range(tick.due) = {j} \cup Range(rest)
  BY <1>1, TailRange
<1>3. /\ store' = jobs
      /\ \/ Arm(jobs, running)
         \/ tick' = [tick EXCEPT !.due = rest]
  BY DEF JobEnds
<1>4. jobs \in Store /\ \A i \in Jobs : i # j => jobs[i] = store[i]
  BY <1>1, <1>2, ExecutedFacts
<1> HIDE DEF j, rest, jobs
<1>5. CASE Arm(jobs, running)
  <2>1. tick'.phase # "running"
    BY <1>1, <1>4, <1>5, ArmFacts
  <2> QED BY <2>1 DEF DueStillDue
<1>6. CASE tick' = [tick EXCEPT !.due = rest]
  <2>1. PICK left : left = rest
    OBVIOUS
  <2>2. tick'.due = left
    BY <1>1, <1>6, <2>1 DEF TickRec
  <2>3. ASSUME NEW i \in DOMAIN left
        PROVE  left[i] \in Range(left) /\ left[i] \in Jobs
    <3>1. left[i] \in Range(left)
      BY Zenon DEF Range
    <3> QED BY <1>2, <2>1, <3>1, RangeOfSeq
  <2>4. ASSUME NEW i \in DOMAIN left
        PROVE  Due(left[i]) /\ left[i] # j
    <3>1. left[i] \in Range(tick.due)
      BY <1>2, <2>1, <2>3
    <3>2. PICK k \in DOMAIN tick.due : tick.due[k] = left[i]
      BY <3>1, Zenon DEF Range
    <3>3. Due(tick.due[k])
      BY <1>1 DEF DueStillDue
    <3> QED BY <1>2, <2>1, <2>3, <3>2, <3>3
  <2>5. ASSUME NEW i \in DOMAIN left
        PROVE  Due(left[i])'
    <3>1. store'[left[i]] = store[left[i]]
      BY <1>3, <1>4, <2>3, <2>4
    <3> QED BY <1>1, <2>4, <3>1 DEF Due
  <2> QED BY <2>2, <2>5 DEF DueStillDue
<1> QED BY <1>3, <1>5, <1>6

\* Every step of a service that is not called while it is stopped.
LEMMA StepDue == ASSUME ~LateCalls \/ Callers = {}, BaseInv, DueStillDue, [Next]_vars PROVE DueStillDue'
<1>1. /\ TypeOK /\ running \in BOOLEAN /\ now \in 0..Horizon /\ Horizon \in Nat /\ now \in Nat
  BY CronAssumption DEF BaseInv, TypeOK
<1>2. CASE Pass
  <2>1. tick' = tick /\ store' = store /\ now' = now + 1
    BY <1>2 DEF Pass
  <2> QED BY <1>1, <2>1, DueKept
<1>3. CASE Start
  <2>1. tick.phase = "none" /\ (tick' = tick \/ \E jobs : store' = jobs /\ running' /\ Arm(jobs, TRUE))
    BY <1>3, Zenon DEF Start, Save
  <2>2. CASE tick' = tick
    BY <2>1, <2>2 DEF DueStillDue
  <2>3. CASE \E jobs : store' = jobs /\ running' /\ Arm(jobs, TRUE)
    <3>1. PICK jobs : store' = jobs /\ running' /\ Arm(jobs, TRUE)
      BY <2>3
    <3>2. BaseInv'
      BY <1>3, LifeBase
    <3>3. jobs \in Store
      BY <3>1, <3>2 DEF BaseInv, TypeOK
    <3>4. tick'.phase # "running"
      BY <1>1, <3>1, <3>3, ArmFacts
    <3> QED BY <3>4 DEF DueStillDue
  <2> QED BY <2>1, <2>2, <2>3
<1>4. CASE Stop \/ Crash
  BY <1>4 DEF Stop, Crash, NoTick, DueStillDue
<1>5. CASE Corrupt \/ \E j \in Jobs : External(j)
  <2>1. UNCHANGED <<tick, store, now>>
    BY <1>5, ExternalFacts DEF Corrupt
  <2> QED BY <1>1, <2>1, DueKept
<1>6. CASE Fire \/ JobEnds
  BY <1>6, FireDue, JobEndsDue
<1>7. CASE List
  <2>1. tick' = tick /\ now' = now /\ store' = Load(running).store
    BY <1>7 DEF List
  <2> QED BY <1>1, <2>1, NotReread, DueKept
<1>8. CASE \E j \in Jobs : AddJob(j) \/ RemoveJob(j) \/ \E on \in BOOLEAN : EnableJob(j, on)
  <2>1. PICK j \in Jobs : AddJob(j) \/ RemoveJob(j) \/ \E on \in BOOLEAN : EnableJob(j, on)
    BY <1>8
  <2>2. tick'.phase # "running"
    BY <2>1, EditsCancel
  <2> QED BY <2>2 DEF DueStillDue
<1>9. CASE \E c \in Callers, j \in Jobs, force \in BOOLEAN : RunJob(c, j, force)
  <2>1. /\ store # None /\ now' = now /\ store' = Load(TRUE).store
        /\ tick' = tick \/ Arm(Load(TRUE).store, TRUE)
    BY <1>9 DEF RunJob
  <2>2. CASE tick' = tick
    <3>1. tick.phase = "running" => store' = store
      BY <2>1, NotReread
    <3>2. now' \in Nat /\ now <= now'
      BY <1>1, <2>1
    <3> QED BY <2>2, <3>1, <3>2, DueKept
  <2>3. CASE Arm(Load(TRUE).store, TRUE)
    <3>1. Load(TRUE).store \in Store
      BY <1>1, <2>1, LoadFacts
    <3>2. tick'.phase # "running"
      BY <1>1, <2>3, <3>1, ArmFacts
    <3> QED BY <3>2 DEF DueStillDue
  <2> QED BY <2>1, <2>2, <2>3
<1>10. CASE \E c \in Callers : RunJobEnds(c)
  <2>1. PICK c \in Callers : RunJobEnds(c)
    BY <1>10
  <2>2. calls[c].job # None
    BY <2>1 DEF RunJobEnds
  <2>3. calls[c].was
    BY <2>2 DEF BaseInv, CallInv
  <2>4. PICK jobs : store' = jobs /\ Arm(jobs, TRUE) /\ running' = calls[c].was
    BY <2>1, <2>3, Zenon DEF RunJobEnds
  <2>5. BaseInv'
    BY <2>1, RunJobEndsBase
  <2>6. jobs \in Store
    BY <2>3, <2>4, <2>5 DEF BaseInv, TypeOK
  <2>7. tick'.phase # "running"
    BY <1>1, <2>4, <2>6, ArmFacts
  <2> QED BY <2>7 DEF DueStillDue
<1>11. CASE UNCHANGED vars
  <2>1. UNCHANGED <<tick, store, now>>
    BY <1>11 DEF vars
  <2> QED BY <1>1, <2>1, DueKept
<1> QED BY <1>2, <1>3, <1>4, <1>5, <1>6, <1>7, <1>8, <1>9, <1>10, <1>11 DEF Next, Edits, External

\* The due jobs are collected before the first turn and started one by one:
\* whatever was removed, disabled or rescheduled in between is not started.
\* For any number of manual runs and damaged files, but for a service that is
\* not called while it is stopped: such a run leaves the timer beside it.
THEOREM DueWhenStarted == ASSUME ~LateCalls \/ Callers = {} PROVE Spec => []DueStillDue
<1>1. Init => BaseInv /\ DueStillDue
  BY InitBase DEF Init, DueStillDue, NoTick
<1>2. BaseInv /\ DueStillDue /\ [Next]_vars => (BaseInv /\ DueStillDue)'
  BY StepBase, StepDue
<1> QED BY <1>1, <1>2, PTL DEF Spec

-----------------------------------------------------------------------------
(* A removal is never undone *)

\* A removed job is not among what a reader of the file makes of it.
LEMMA GoneMerged ==
  ASSUME BaseInv, RemovedInv, disk # Unreadable, NEW j \in removed \ crossed
  PROVE  Merged(OnDisk)[j] = None
<1>1. /\ j \in Jobs /\ Gone(j, store, disk, actions)
      /\ disk \in Store \cup {Unreadable, None} /\ actions \in Actions
  BY DEF RemovedInv, BaseInv, TypeOK, Actions
<1>2. OnDisk \in Store /\ (OnDisk[j] # None <=> Has(disk, j))
  BY <1>1, OnDiskFacts
<1>3. Merged(OnDisk)[j] = IF ~Applies(j, OnDisk) THEN OnDisk[j]
                          ELSE IF Puts(j) THEN actions[j] ELSE None
  BY <1>1, <1>2, MergedFacts
<1>4. CASE actions[j] \in {Deletion, Withdrawal}
  <2>1. actions[j] # None /\ actions[j] \notin Job
    BY <1>4, MarksAssumption
  <2> QED BY <1>3, <2>1 DEF Applies, Puts
<1>5. CASE actions[j] = None /\ OnDisk[j] = None
  BY <1>3, <1>5 DEF Applies
<1> QED BY <1>1, <1>2, <1>4, <1>5 DEF Gone

\* What is loaded holds no removed job, or a line that removes it is pending.
LEMMA LoadGone ==
  ASSUME BaseInv, RemovedInv, NEW run \in BOOLEAN
  PROVE  \A j \in removed \ crossed : Gone(j, Load(run).store, Load(run).disk, Load(run).actions)
<1> DEFINE l == Load(run)
<1>1. /\ TypeOK /\ RemovedInv /\ removed \subseteq Jobs
      /\ disk \in Store \cup {Unreadable, None} /\ actions \in Actions
  BY DEF BaseInv, TypeOK, Actions
<1>2. /\ ~Reads => l.store = store /\ l.disk = disk /\ l.actions = actions
      /\ Reads /\ disk = Unreadable => l.store = store /\ l.disk = None /\ l.actions = actions
      /\ Reads /\ disk # Unreadable =>
           /\ l.store = Merged(OnDisk)
           /\ \/ l.disk = disk /\ l.actions = actions
              \/ l.disk = Merged(OnDisk) /\ l.actions = NoJobs
  BY <1>1, LoadFacts
<1>3. disk # Unreadable => \A j \in removed \ crossed : NoJobs[j] = None /\ Merged(OnDisk)[j] = None
  BY <1>1, GoneMerged DEF NoJobs
<1> HIDE DEF l
<1>4. ASSUME NEW j \in removed \ crossed PROVE Gone(j, l.store, l.disk, l.actions)
  BY <1>1, <1>2, <1>3 DEF RemovedInv, Gone, Has
<1> QED BY <1>4 DEF l

\* Loaded jobs are changed and saved: a removed job that was not loaded is not
\* among what is saved.
LEMMA GoneSaved ==
  ASSUME BaseInv, RemovedInv, NEW run \in BOOLEAN, NEW jobs \in Store, Save(Load(run), jobs),
         Load(run).store \in Store,
         \A j \in Jobs : Load(run).store[j] = None /\ j \in removed => jobs[j] = None
  PROVE  \A j \in removed \ crossed : Gone(j, store', disk', actions')
<1> DEFINE l == Load(run)
<1>1. \A j \in removed \ crossed : Gone(j, l.store, l.disk, l.actions)
  BY LoadGone
<1>2. store' = jobs /\ disk' = jobs /\ actions' = l.actions /\ l.store \in Store /\ removed \subseteq Jobs
  BY DEF Save, BaseInv, TypeOK
<1>3. jobs \notin {None, Unreadable} /\ l.store \notin {None, Unreadable}
  BY <1>2, MarksAssumption
<1>4. \A j \in Jobs : l.store[j] = None /\ j \in removed => jobs[j] = None
  OBVIOUS
<1> HIDE DEF l
<1> QED BY <1>1, <1>2, <1>3, <1>4 DEF Gone, Has

\* add, remove, enable and update keep every removal.
LEMMA EditsRemoved ==
  ASSUME BaseInv, RemovedInv, NEW j \in Jobs,
         AddJob(j) \/ RemoveJob(j) \/ \E on \in BOOLEAN : EnableJob(j, on)
  PROVE  RemovedInv'
<1> DEFINE l == Load(running)
<1>1. TypeOK /\ KnownInv /\ running \in BOOLEAN /\ removed \subseteq known /\ running
      /\ l.store \in Store /\ running = TRUE /\ l.actions \in Actions
  <2>1. TypeOK /\ KnownInv /\ running \in BOOLEAN /\ removed \subseteq known /\ running
        /\ store # None
    BY DEF BaseInv, TypeOK, AddJob, RemoveJob, EnableJob, Edit
  <2> QED BY <2>1, LoadFacts
<1>3. CASE AddJob(j)
  <2> DEFINE jobs == [l.store EXCEPT ![j] = [enabled |-> TRUE, next |-> NextRun(j, now)]]
  <2>1. Save(l, jobs) /\ j \notin known /\ removed' = removed /\ crossed' = crossed
    BY <1>3 DEF AddJob, Change
  <2>2. BaseInv'
    BY <1>3, EditsBase DEF Edits
  <2>3. jobs \in Store
    <3>1. store' = jobs /\ store' # None /\ store' \in Store \cup {None}
      BY <1>1, <1>3, <2>1, <2>2 DEF Save, BaseInv, TypeOK, AddJob, Change
    <3> QED BY <3>1
  <2>4. \A i \in Jobs : l.store[i] = None /\ i \in removed => jobs[i] = None
    BY <1>1, <2>1 DEF Store
  <2> HIDE DEF jobs
  <2>5. \A i \in removed \ crossed : Gone(i, store', disk', actions')
    BY <1>1, <2>1, <2>3, <2>4, GoneSaved
  <2> QED BY <2>1, <2>5 DEF RemovedInv
<1>4. CASE RemoveJob(j)
  <2> DEFINE jobs == [l.store EXCEPT ![j] = None]
  <2>1. /\ Save(l, jobs) /\ removed' = removed \cup {j} /\ l.store[j] # None
        /\ crossed' = crossed \cup {i \in {j} : l.actions[i] \in Job}
    BY <1>4 DEF RemoveJob, Change
  <2>2. jobs \in Store /\ jobs[j] = None /\ \A i \in Jobs : l.store[i] = None => jobs[i] = None
    BY <1>1 DEF Store
  <2> HIDE DEF jobs
  <2>3. \A i \in removed \ crossed : Gone(i, store', disk', actions')
    BY <1>1, <2>1, <2>2, GoneSaved
  <2>4. l.actions[j] \in Job \cup {None, Deletion, Withdrawal}
    BY <1>1 DEF Actions
  <2> HIDE DEF l
  <2>5. j \notin crossed' => Gone(j, store', disk', actions')
    BY <2>1, <2>2, <2>4 DEF Save, Gone, Has
  <2> QED BY <2>1, <2>3, <2>5 DEF RemovedInv
<1>5. CASE \E on \in BOOLEAN : EnableJob(j, on)
  <2>1. PICK on \in BOOLEAN : EnableJob(j, on)
    BY <1>5
  <2> DEFINE jobs == [l.store EXCEPT ![j] =
                        [enabled |-> on, next |-> IF on THEN NextRun(j, now) ELSE None]]
  <2>2. Save(l, jobs) /\ l.store[j] # None /\ removed' = removed /\ crossed' = crossed
    BY <2>1 DEF EnableJob, Change
  <2>3. BaseInv'
    BY <1>5, EditsBase DEF Edits
  <2>4. jobs \in Store
    <3>1. store' = jobs /\ store' # None /\ store' \in Store \cup {None}
      BY <1>1, <2>1, <2>2, <2>3 DEF Save, BaseInv, TypeOK, EnableJob, Change
    <3> QED BY <3>1
  <2>5. \A i \in Jobs : l.store[i] = None => jobs[i] = None
    BY <1>1, <2>2 DEF Store
  <2> HIDE DEF jobs
  <2>6. \A i \in removed \ crossed : Gone(i, store', disk', actions')
    BY <1>1, <2>2, <2>4, <2>5, GoneSaved
  <2> QED BY <2>2, <2>6 DEF RemovedInv
<1> QED BY <1>3, <1>4, <1>5

\* The requests of another instance: an update of a removed job crosses it.
LEMMA ExternalRemoved ==
  ASSUME BaseInv, RemovedInv, NEW j \in Jobs, External(j)
  PROVE  RemovedInv'
<1>1. PICK a \in Job \cup {None, Deletion, Withdrawal} :
        /\ actions' = [actions EXCEPT ![j] = a]
        /\ j \in removed' \ removed => a \in {Deletion, Withdrawal}
        /\ j \in removed => a \in {actions[j], Deletion, Withdrawal} \/ j \in crossed'
  BY ExternalFacts
<1>2. /\ store' = store /\ (disk' = disk \/ (disk = Unreadable /\ disk' = None))
      /\ removed' \subseteq removed \cup {j} /\ crossed \subseteq crossed'
  BY ExternalFacts
<1>3. actions \in Actions /\ removed \subseteq Jobs
  BY DEF BaseInv, TypeOK, Actions
<1>4. actions'[j] = a /\ \A i \in Jobs : i # j => actions'[i] = actions[i]
  BY <1>1, <1>3 DEF Actions
<1>5. ASSUME NEW i \in removed' \ crossed' PROVE Gone(i, store', disk', actions')
  <2>1. CASE i # j
    <3>1. Gone(i, store, disk, actions) /\ actions'[i] = actions[i]
      BY <1>2, <1>3, <1>4, <1>5, <2>1 DEF RemovedInv
    <3> QED BY <1>2, <3>1 DEF Gone, Has
  <2>2. CASE i = j /\ j \notin removed
    BY <1>1, <1>4, <1>5, <2>2 DEF Gone
  <2>3. CASE i = j /\ j \in removed
    <3>1. Gone(j, store, disk, actions)
      BY <1>2, <1>5, <2>3 DEF RemovedInv
    <3>2. a \in {actions[j], Deletion, Withdrawal}
      BY <1>1, <1>5, <2>3
    <3> QED BY <1>2, <1>4, <2>3, <3>1, <3>2 DEF Gone, Has
  <2> QED BY <2>1, <2>2, <2>3
<1> QED BY <1>5 DEF RemovedInv

\* The service starts, stops or dies, or the file is damaged: the lines that a
\* crash loses have crossed.
LEMMA LifeRemoved ==
  ASSUME BaseInv, RemovedInv, Pass \/ Start \/ Stop \/ Crash \/ Corrupt
  PROVE  RemovedInv'
<1>1. TypeOK /\ removed \subseteq Jobs
  BY DEF BaseInv, TypeOK
<1>2. CASE Pass
  BY <1>2 DEF RemovedInv, Pass, fileVars, histVars
<1>3. CASE Stop
  BY <1>3 DEF RemovedInv, Stop, fileVars, histVars
<1>4. CASE Crash
  <2>1. store' = None /\ removed' = removed
    BY <1>4 DEF Crash
  <2>2. /\ crossed \subseteq crossed'
        /\ \/ UNCHANGED <<disk, actions>>
           \/ disk' = disk /\ actions' = NoJobs /\ \A j \in Jobs : actions[j] # None => j \in crossed'
           \/ disk # Unreadable /\ disk' = Merged(OnDisk) /\ actions' = NoJobs
    BY <1>4, CrashFacts
  <2>3. disk # Unreadable => \A j \in removed \ crossed : Merged(OnDisk)[j] = None
    BY GoneMerged
  <2>4. \A j \in Jobs : NoJobs[j] = None
    BY DEF NoJobs
  <2>5. ASSUME NEW j \in removed' \ crossed' PROVE Gone(j, store', disk', actions')
    <3>1. Gone(j, store, disk, actions) /\ j \in removed \ crossed /\ j \in Jobs /\ ~Has(None, j)
      BY <1>1, <2>1, <2>2, <2>5 DEF RemovedInv, Has
    <3>2. CASE UNCHANGED <<disk, actions>>
      BY <2>1, <3>1, <3>2 DEF Gone
    <3>3. CASE disk' = disk /\ actions' = NoJobs /\ actions[j] = None
      BY <2>1, <2>4, <3>1, <3>3, MarksAssumption DEF Gone
    <3>4. CASE disk # Unreadable /\ disk' = Merged(OnDisk) /\ actions' = NoJobs
      <4>1. ~Has(disk', j)
        BY <2>3, <3>1, <3>4 DEF Has
      <4> QED BY <2>1, <2>4, <3>1, <3>4, <4>1 DEF Gone
    <3> QED BY <2>2, <2>5, <3>1, <3>2, <3>3, <3>4
  <2> QED BY <2>5 DEF RemovedInv
<1>5. CASE Corrupt
  BY <1>5 DEF Corrupt, RemovedInv, Gone, Has
<1>6. CASE Start
  <2> DEFINE l == Load(TRUE)
             jobs == [j \in Jobs |-> IF l.store[j] # None /\ l.store[j].enabled
                                     THEN [l.store[j] EXCEPT !.next = NextRun(j, now)]
                                     ELSE l.store[j]]
  <2>1. BaseInv'
    BY <1>6, LifeBase
  <2>2. /\ removed' = removed /\ crossed' = crossed /\ Reads
        /\ IF l.store = None THEN disk' = l.disk /\ UNCHANGED <<actions, store>> ELSE Save(l, jobs)
    BY <1>6 DEF Start, histVars, Reads
  <2>3. l.store \in Store \cup {None}
    BY <1>1, LoadFacts
  <2>4. \A j \in Jobs : l.store[j] = None => jobs[j] = None
    OBVIOUS
  <2>7. l.store # None => jobs \in Store
    <3> SUFFICES ASSUME l.store # None PROVE jobs \in Store
      OBVIOUS
    <3>1. ASSUME NEW j \in Jobs, l.store[j] # None
          PROVE  [l.store[j] EXCEPT !.next = NextRun(j, now)] \in Job
      <4>1. l.store[j] \in Job
        BY <2>3, <3>1 DEF Store
      <4>2. NextRun(j, now) \in Times \cup {None}
        BY <1>1, NextRunFacts DEF TypeOK
      <4> HIDE DEF l
      <4> QED BY <4>1, <4>2 DEF Job
    <3> HIDE DEF l
    <3> QED BY <2>3, <3>1 DEF Store
  <2>5. CASE l.store = None
    <3>1. l.store = store /\ l.actions = actions
      BY <1>1, <2>2, <2>5, LoadFacts
    <3>2. \A j \in removed \ crossed : Gone(j, l.store, l.disk, l.actions)
      BY LoadGone
    <3> HIDE DEF l
    <3> QED BY <2>2, <2>5, <3>1, <3>2 DEF RemovedInv
  <2>6. CASE l.store # None
    <3> HIDE DEF l, jobs
    <3>1. jobs \in Store
      BY <2>6, <2>7
    <3>2. \A j \in removed \ crossed : Gone(j, store', disk', actions')
      BY <1>1, <2>2, <2>3, <2>4, <2>6, <3>1, GoneSaved DEF l
    <3> QED BY <2>2, <3>2 DEF RemovedInv
  <2> QED BY <2>5, <2>6
<1> QED BY <1>2, <1>3, <1>4, <1>5, <1>6

\* The timer wakes.
LEMMA FireRemoved == ASSUME BaseInv, RemovedInv, Fire PROVE RemovedInv'
<1> DEFINE l == Load(running)
<1>1. TypeOK /\ running \in BOOLEAN /\ removed \subseteq Jobs
      /\ (running => store # None) /\ removed' = removed /\ crossed' = crossed
  BY DEF BaseInv, TypeOK, Fire
<1>2. CASE ~running
  BY <1>1, <1>2 DEF Fire, fileVars, RemovedInv
<1>3. CASE running
  <2>1. l.store \in Store
    BY <1>1, <1>3, LoadFacts
  <2>2. \A j \in removed \ crossed : Gone(j, l.store, l.disk, l.actions)
    BY <1>1, LoadGone
  <2>3. \/ Save(l, l.store)
        \/ store' = l.store /\ disk' = l.disk /\ actions' = l.actions
    BY <1>3 DEF Fire
  <2>4. CASE Save(l, l.store)
    <3>1. \A j \in removed \ crossed : Gone(j, store', disk', actions')
      BY <1>1, <2>1, <2>4, GoneSaved
    <3> QED BY <1>1, <3>1 DEF RemovedInv
  <2>5. CASE store' = l.store /\ disk' = l.disk /\ actions' = l.actions
    <3> HIDE DEF l
    <3> QED BY <1>1, <2>2, <2>5 DEF RemovedInv
  <2> QED BY <2>3, <2>4, <2>5
<1> QED BY <1>2, <1>3

\* A job that has run, by the timer or by a call, is not put back.
LEMMA ExecutedGone ==
  ASSUME BaseInv, RemovedInv, NEW jobs \in Store, store \in Store,
         \A i \in Jobs : jobs[i] # None => store[i] # None,
         store' = jobs, disk' \in {disk, jobs}, actions' = actions, removed' = removed,
         crossed \subseteq crossed'
  PROVE  RemovedInv'
<1>1. /\ RemovedInv /\ removed \subseteq Jobs
      /\ jobs \notin {None, Unreadable} /\ store \notin {None, Unreadable}
  BY MarksAssumption DEF BaseInv, TypeOK
<1> QED BY <1>1 DEF RemovedInv, Gone, Has

\* The turn of a job of the timer, and of a manual run, ends.
LEMMA RunEndsRemoved ==
  ASSUME BaseInv, RemovedInv, JobEnds \/ \E c \in Callers : RunJobEnds(c)
  PROVE  RemovedInv'
<1>1. TypeOK /\ TickInv /\ now \in 0..Horizon /\ store \in Store \cup {None} /\ tick \in TickRec
      /\ running \in BOOLEAN
  BY DEF BaseInv, TypeOK, TickRec
<1>2. CASE JobEnds
  <2> DEFINE j == Head(tick.due)
             jobs == Executed(store, j)
  <2>1. /\ store \in Store /\ tick.phase = "running" /\ tick.due # <<>> /\ tick.due \in Seq(Jobs)
    BY <1>1, <1>2 DEF JobEnds, TickInv, TickRec
  <2>2. j \in Jobs
    BY <2>1
  <2>3. jobs \in Store /\ \A i \in Jobs : jobs[i] # None => store[i] # None
    BY <1>1, <2>1, <2>2, ExecutedFacts
  <2>4. /\ store' = jobs /\ disk' \in {disk, jobs} /\ actions' = actions /\ removed' = removed
        /\ crossed \subseteq crossed'
    BY <1>2 DEF JobEnds
  <2> HIDE DEF j, jobs
  <2> QED BY <2>1, <2>3, <2>4, ExecutedGone
<1>3. CASE \E c \in Callers : RunJobEnds(c)
  <2>1. PICK c \in Callers : RunJobEnds(c)
    BY <1>3
  <2> DEFINE j == calls[c].job
             jobs == IF j \in DeletedAfterRun \/ calls[c].attached THEN Executed(store, j) ELSE store
  <2>2. /\ j # None /\ store' = jobs /\ disk' = jobs /\ actions' = actions /\ removed' = removed
        /\ crossed' = crossed
    BY <2>1 DEF RunJobEnds
  <2>3. store \in Store /\ j \in Jobs
    <3>1. calls \in [Callers -> CallRec]
      BY DEF BaseInv, TypeOK, CallRec
    <3>2. calls[c] \in CallRec
      BY <3>1
    <3> QED BY <1>1, <2>2, <3>2 DEF BaseInv, CallInv, CallRec
  <2>4. jobs \in Store /\ \A i \in Jobs : jobs[i] # None => store[i] # None
    BY <1>1, <2>3, ExecutedFacts
  <2> HIDE DEF j, jobs
  <2> QED BY <2>2, <2>3, <2>4, ExecutedGone
<1> QED BY <1>2, <1>3

\* A call that reads the store, and a manual run that begins or finds its job gone.
LEMMA ReadRemoved ==
  ASSUME BaseInv, RemovedInv,
         List \/ \E c \in Callers, j \in Jobs, force \in BOOLEAN : RunJob(c, j, force)
  PROVE  RemovedInv'
<1>1. running \in BOOLEAN
  BY DEF BaseInv, TypeOK
<1>2. PICK run \in BOOLEAN :
        /\ removed' = removed /\ crossed' = crossed
        /\ store' = Load(run).store /\ disk' = Load(run).disk /\ actions' = Load(run).actions
  <2>1. CASE List
    BY <1>1, <2>1 DEF List, histVars
  <2>2. CASE \E c \in Callers, j \in Jobs, force \in BOOLEAN : RunJob(c, j, force)
    <3>1. /\ removed' = removed /\ crossed' = crossed
          /\ store' = Load(TRUE).store /\ disk' = Load(TRUE).disk /\ actions' = Load(TRUE).actions
      BY <2>2 DEF RunJob
    <3> QED BY <3>1
  <2> QED BY <2>1, <2>2
<1>3. \A j \in removed \ crossed : Gone(j, Load(run).store, Load(run).disk, Load(run).actions)
  BY LoadGone
<1> QED BY <1>2, <1>3 DEF RemovedInv

\* Every step.
LEMMA StepRemoved == ASSUME BaseInv, RemovedInv, [Next]_vars PROVE RemovedInv'
<1>1. CASE Pass \/ Start \/ Stop \/ Crash \/ Corrupt
  BY <1>1, LifeRemoved
<1>2. CASE Fire \/ JobEnds \/ List
  BY <1>2, FireRemoved, RunEndsRemoved, ReadRemoved
<1>3. CASE \E j \in Jobs : Edits(j)
  <2>1. PICK j \in Jobs : Edits(j)
    BY <1>3
  <2>2. CASE External(j)
    BY <2>2, ExternalRemoved
  <2>3. CASE AddJob(j) \/ RemoveJob(j) \/ \E on \in BOOLEAN : EnableJob(j, on)
    BY <2>3, EditsRemoved
  <2> QED BY <2>1, <2>2, <2>3 DEF Edits, External
<1>4. CASE \/ \E c \in Callers, j \in Jobs, force \in BOOLEAN : RunJob(c, j, force)
           \/ \E c \in Callers : RunJobEnds(c)
  BY <1>4, ReadRemoved, RunEndsRemoved
<1>5. CASE UNCHANGED vars
  BY <1>5 DEF vars, fileVars, histVars, RemovedInv
<1> QED BY <1>1, <1>2, <1>3, <1>4, <1>5 DEF Next

\* A removal that was acknowledged, by this instance or by another one, is never
\* undone by a later save or reload, unless its line was lost by a crash between
\* the two writes of a merge, or an update by another instance crossed it: for any
\* number of jobs, edits, manual runs, crashes, instances and damages of the file.
THEOREM RemovalsStand == Spec => []RemovedStaysRemoved
<1>1. Init => BaseInv /\ RemovedInv
  BY InitBase DEF Init, RemovedInv
<1>2. BaseInv /\ RemovedInv /\ [Next]_vars => (BaseInv /\ RemovedInv)'
  BY StepBase, StepRemoved
<1>3. BaseInv /\ RemovedInv => RemovedStaysRemoved
  BY GoneMerged DEF RemovedStaysRemoved
<1> QED BY <1>1, <1>2, <1>3, PTL DEF Spec

-----------------------------------------------------------------------------
(* A completed run is not rolled back *)

\* What is loaded: a disabled job has no next run, a job that has run is not
\* also to be added, and it is due after that run.
LEMMA LoadRun ==
  ASSUME BaseInv, RunInv, NEW run \in BOOLEAN
  PROVE  LET l == Load(run)
         IN  \A j \in Jobs :
               /\ Has(l.store, j) => Off(l.store[j])
               /\ Has(l.disk, j) => Off(l.disk[j])
               /\ Off(l.actions[j])
               /\ finished[j] # None /\ j \notin crossed => Newer(l.actions[j], finished[j])
               /\ running /\ j \notin crossed =>
                    /\ Later(l.store, finished, j)
                    /\ tick.phase # "running" => Later(l.disk, finished, j)
<1> DEFINE l == Load(run)
<1>1. /\ TypeOK /\ disk \in Store \cup {Unreadable, None} /\ actions \in Actions
      /\ OffInv /\ FinishedInv /\ LaterInv /\ (running => store # None)
  BY DEF BaseInv, TypeOK, RunInv, Actions
<1>2. /\ ~Reads => l.store = store /\ l.disk = disk /\ l.actions = actions
      /\ Reads /\ disk = Unreadable => l.store = store /\ l.disk = None /\ l.actions = actions
      /\ Reads /\ disk # Unreadable =>
           /\ l.store = Merged(OnDisk)
           /\ l.disk \in {disk, Merged(OnDisk)} /\ l.actions \in {actions, NoJobs}
  BY <1>1, LoadFacts
<1>3. None \notin Job /\ Off(None)
  BY MarksAssumption DEF Off
<1> HIDE DEF l
<1> SUFFICES ASSUME NEW j \in Jobs
             PROVE  /\ Has(l.store, j) => Off(l.store[j])
                    /\ Has(l.disk, j) => Off(l.disk[j])
                    /\ Off(l.actions[j])
                    /\ finished[j] # None /\ j \notin crossed => Newer(l.actions[j], finished[j])
                    /\ running /\ j \notin crossed =>
                         /\ Later(l.store, finished, j)
                         /\ tick.phase # "running" => Later(l.disk, finished, j)
  BY DEF l
<1>4. Off(actions[j]) /\ (finished[j] # None /\ j \notin crossed => Newer(actions[j], finished[j]))
  BY <1>1 DEF OffInv, FinishedInv
<1>5. CASE ~Reads
  BY <1>1, <1>2, <1>4, <1>5 DEF OffInv, LaterInv
<1>6. CASE Reads /\ disk = Unreadable
  BY <1>1, <1>2, <1>4, <1>6 DEF OffInv, LaterInv, Has, Later
<1>7. CASE Reads /\ disk # Unreadable
  <2>1. OnDisk \in Store /\ (OnDisk[j] # None <=> Has(disk, j)) /\ (Has(disk, j) => OnDisk[j] = disk[j])
    BY <1>1, <1>7, OnDiskFacts
  <2>2. /\ Merged(OnDisk) \in Store
        /\ Merged(OnDisk)[j] = IF ~Applies(j, OnDisk) THEN OnDisk[j]
                               ELSE IF Puts(j) THEN actions[j] ELSE None
    BY <1>1, <2>1, MergedFacts
  <2>3. Off(OnDisk[j])
    BY <1>1, <1>3, <2>1 DEF OffInv
  <2>4. Off(Merged(OnDisk)[j])
    BY <1>3, <1>4, <2>2, <2>3
  <2>5. NoJobs[j] = None /\ Newer(None, finished[j])
    BY <1>3 DEF NoJobs, Newer
  <2>6. Has(disk, j) => Off(disk[j])
    BY <1>1 DEF OffInv
  <2>7. Merged(OnDisk)[j] \in {OnDisk[j], None} \/ (Merged(OnDisk)[j] = actions[j] /\ actions[j] \in Job)
    BY <2>2 DEF Puts
  <2>8. running /\ j \notin crossed => Later(disk, finished, j) /\ tick.phase # "running"
    BY <1>1, <1>7 DEF LaterInv, Reads
  <2>9. running /\ j \notin crossed => Later(Merged(OnDisk), finished, j)
    BY <1>4, <2>1, <2>7, <2>8 DEF Later, Has, Newer
  <2> QED BY <1>2, <1>3, <1>4, <1>7, <2>4, <2>5, <2>6, <2>8, <2>9
<1> QED BY <1>5, <1>6, <1>7

\* Loaded jobs are changed and saved: what is changed is due after now.
LEMMA RunSaved ==
  ASSUME BaseInv, RunInv, NEW run \in BOOLEAN, NEW jobs \in Store,
         Save(Load(run), jobs), Load(run).store \in Store,
         now' = now, finished' = finished, crossed \subseteq crossed',
         \A j \in Jobs : Off(jobs[j]),
         \A j \in Jobs : jobs[j] # None /\ jobs[j].next # None =>
                           (running /\ jobs[j] = Load(run).store[j]) \/ jobs[j].next > now
  PROVE  RunInv'
<1> DEFINE l == Load(run)
<1>1. /\ FinishedInv /\ finished \in [Jobs -> 0..Horizon \cup {None}] /\ now \in 0..Horizon
      /\ Horizon \in Nat
  BY CronAssumption DEF RunInv, BaseInv, TypeOK
<1>2. \A j \in Jobs :
         /\ Off(l.actions[j])
         /\ finished[j] # None /\ j \notin crossed => Newer(l.actions[j], finished[j])
         /\ running /\ j \notin crossed => Later(l.store, finished, j)
  BY LoadRun
<1>3. store' = jobs /\ disk' = jobs /\ actions' = l.actions /\ l.store \in Store
  BY DEF Save
<1>4. l.store \notin {None, Unreadable}
  BY <1>3, MarksAssumption
<1>5. \A j \in Jobs : jobs[j] # None /\ jobs[j].next # None =>
                        (running /\ jobs[j] = l.store[j]) \/ jobs[j].next > now
  OBVIOUS
<1> HIDE DEF l
<1>6. OffInv'
  BY <1>2, <1>3 DEF OffInv
<1>7. FinishedInv'
  BY <1>1, <1>2, <1>3 DEF FinishedInv
<1>8. ASSUME NEW j \in Jobs \ crossed PROVE Later(jobs, finished, j)
  <2> SUFFICES ASSUME jobs[j] # None, jobs[j].next # None, finished[j] # None
               PROVE  jobs[j].next > finished[j]
    BY DEF Later, Has
  <2>1. CASE running /\ jobs[j] = l.store[j]
    BY <1>2, <1>4, <2>1 DEF Later, Has
  <2>2. CASE jobs[j].next > now
    <3>1. jobs[j] \in Job
      BY DEF Store
    <3>2. jobs[j].next \in Nat
      BY <3>1, CronAssumption DEF Job, Times
    <3>3. finished[j] \in Nat /\ finished[j] <= now
      BY <1>1 DEF FinishedInv
    <3> QED BY <1>1, <2>2, <3>2, <3>3
  <2> QED BY <1>5, <2>1, <2>2
<1>9. LaterInv'
  BY <1>3, <1>8 DEF LaterInv
<1> QED BY <1>6, <1>7, <1>9 DEF RunInv

\* The next run of a job, and a job that is given one.
LEMMA NextRunOff ==
  ASSUME BaseInv, NEW j \in Jobs, NEW on \in BOOLEAN,
         NEW r, r = [enabled |-> on, next |-> IF on THEN NextRun(j, now) ELSE None]
  PROVE  r \in Job /\ Off(r) /\ (r.next # None => r.next > now)
<1>1. now \in 0..Horizon
  BY DEF BaseInv, TypeOK
<1> QED BY <1>1, NextRunFacts DEF Off

\* add, remove, enable and update
LEMMA EditsRun ==
  ASSUME BaseInv, RunInv, NEW j \in Jobs,
         AddJob(j) \/ RemoveJob(j) \/ \E on \in BOOLEAN : EnableJob(j, on)
  PROVE  RunInv'
<1> DEFINE l == Load(running)
<1>1. /\ TypeOK /\ running = TRUE /\ store # None /\ now \in 0..Horizon
      /\ now' = now /\ finished' = finished /\ crossed \subseteq crossed'
  BY DEF BaseInv, TypeOK, AddJob, RemoveJob, EnableJob, Edit, Change
<1>2. l.store \in Store /\ l.store # None
  BY <1>1, LoadFacts
<1>3. PICK r \in Job \cup {None} :
        /\ Save(l, [l.store EXCEPT ![j] = r])
        /\ r # None => Off(r) /\ (r.next # None => r.next > now)
  <2>1. CASE AddJob(j)
    <3> DEFINE r == [enabled |-> TRUE, next |-> NextRun(j, now)]
    <3>1. Save(l, [l.store EXCEPT ![j] = r])
      BY <2>1 DEF AddJob, Change
    <3>2. r \in Job /\ Off(r) /\ (r.next # None => r.next > now)
      BY <1>1, NextRunFacts DEF Off
    <3> HIDE DEF r, l
    <3> QED BY <3>1, <3>2
  <2>2. CASE RemoveJob(j)
    <3>1. Save(l, [l.store EXCEPT ![j] = None])
      BY <2>2 DEF RemoveJob, Change
    <3> HIDE DEF l
    <3> QED BY <3>1
  <2>3. CASE \E on \in BOOLEAN : EnableJob(j, on)
    <3>1. PICK on \in BOOLEAN : EnableJob(j, on)
      BY <2>3
    <3> DEFINE r == [enabled |-> on, next |-> IF on THEN NextRun(j, now) ELSE None]
    <3>2. Save(l, [l.store EXCEPT ![j] = r])
      BY <3>1 DEF EnableJob, Change
    <3>3. r \in Job /\ Off(r) /\ (r.next # None => r.next > now)
      BY NextRunOff
    <3> HIDE DEF r, l
    <3> QED BY <3>2, <3>3
  <2> QED BY <2>1, <2>2, <2>3
<1>4. PICK jobs : jobs = [l.store EXCEPT ![j] = r]
  OBVIOUS
<1>5. jobs \in Store /\ jobs[j] = r /\ \A i \in Jobs : i # j => jobs[i] = l.store[i]
  BY <1>2, <1>4 DEF Store
<1>7. Off(None)
  BY MarksAssumption DEF Off
<1>6. \A i \in Jobs : Off(l.store[i])
  <2>1. \A i \in Jobs : Has(l.store, i) => Off(l.store[i])
    BY <1>1, LoadRun
  <2>2. l.store \notin {None, Unreadable}
    BY <1>2, MarksAssumption
  <2> HIDE DEF l
  <2> QED BY <1>7, <2>1, <2>2 DEF Has
<1>8. Save(l, jobs)
  BY <1>3, <1>4
<1> HIDE DEF l
<1>9. \A i \in Jobs : Off(jobs[i])
  BY <1>3, <1>5, <1>6, <1>7
<1>10. \A i \in Jobs : jobs[i] # None /\ jobs[i].next # None =>
                         (running /\ jobs[i] = l.store[i]) \/ jobs[i].next > now
  BY <1>1, <1>3, <1>5
<1> QED BY <1>1, <1>2, <1>5, <1>8, <1>9, <1>10, RunSaved DEF l

\* The requests of another instance.
LEMMA ExternalRun ==
  ASSUME BaseInv, RunInv, NEW j \in Jobs, External(j)
  PROVE  RunInv'
<1>1. /\ UNCHANGED <<now, store, running, tick, finished>> /\ actions \in Actions
      /\ disk' = disk \/ (disk = Unreadable /\ disk' = None)
      /\ OffInv /\ FinishedInv /\ LaterInv /\ crossed \subseteq crossed'
  BY ExternalFacts DEF RunInv, BaseInv, TypeOK, Actions
<1>2. PICK a : /\ actions' = [actions EXCEPT ![j] = a]
               /\ a = actions[j] \/ Fresh(a)
  BY ExternalFacts
<1>3. actions'[j] = a /\ \A i \in Jobs : i # j => actions'[i] = actions[i]
  BY <1>1, <1>2 DEF Actions
<1>4. Off(a) /\ (finished[j] # None /\ j \notin crossed => Newer(a, finished[j]))
  <2>1. CASE a = actions[j]
    BY <1>1, <2>1 DEF OffInv, FinishedInv
  <2>2. CASE Fresh(a)
    <3>1. now \in Nat /\ (finished[j] # None => finished[j] \in Nat /\ finished[j] <= now)
      <4>1. now \in 0..Horizon /\ finished[j] \in 0..Horizon \cup {None} /\ Horizon \in Nat
        BY CronAssumption DEF BaseInv, TypeOK
      <4> QED BY <1>1, <4>1 DEF FinishedInv
    <3>2. a \in Job => a.next = None \/ a.next \in Nat
      <4>1. Times \subseteq Nat
        BY CronAssumption DEF Times
      <4> QED BY <4>1 DEF Job
    <3>3. Off(a)
      BY <2>2 DEF Fresh, Off
    <3>4. ASSUME finished[j] # None, a \in Job, a.next # None PROVE a.next > finished[j]
      <4>1. a.next \in Nat /\ now \in Nat /\ finished[j] \in Nat /\ finished[j] <= now
        BY <3>1, <3>2, <3>4
      <4>2. a.next > now
        BY <2>2, <3>4 DEF Fresh
      <4> QED BY <4>1, <4>2
    <3> QED BY <3>3, <3>4 DEF Newer
  <2> QED BY <1>2, <2>1, <2>2
<1>5. OffInv'
  BY <1>1, <1>3, <1>4 DEF OffInv, Has
<1>6. FinishedInv'
  BY <1>1, <1>3, <1>4 DEF FinishedInv
<1>7. LaterInv'
  BY <1>1 DEF LaterInv, Later, Has
<1> QED BY <1>5, <1>6, <1>7 DEF RunInv

\* The service starts, with every schedule computed anew, stops or dies.
LEMMA LifeRun ==
  ASSUME BaseInv, RunInv, Pass \/ Start \/ Stop \/ Crash \/ Corrupt
  PROVE  RunInv'
<1>1. /\ TypeOK /\ OffInv /\ FinishedInv /\ LaterInv
      /\ now \in 0..Horizon /\ finished \in [Jobs -> 0..Horizon \cup {None}] /\ Horizon \in Nat
  BY CronAssumption DEF BaseInv, TypeOK, RunInv
<1>2. CASE Pass
  <2>1. /\ UNCHANGED <<disk, actions, store, running, tick, finished, crossed>> /\ now' = now + 1
    BY <1>2 DEF Pass, fileVars, histVars
  <2>2. \A j \in Jobs : finished[j] # None => finished[j] <= now + 1
    BY <1>1 DEF FinishedInv
  <2> QED BY <1>1, <2>1, <2>2 DEF RunInv, OffInv, FinishedInv, LaterInv
<1>3. CASE Stop
  BY <1>1, <1>3 DEF RunInv, OffInv, FinishedInv, LaterInv, Stop, fileVars, histVars
<1>4. CASE Crash
  <2>1. store' = None /\ running' = FALSE /\ now' = now /\ finished' = finished
    BY <1>4 DEF Crash
  <2>2. /\ crossed \subseteq crossed'
        /\ \/ UNCHANGED <<disk, actions>>
           \/ disk' = disk /\ actions' = NoJobs
           \/ disk # Unreadable /\ disk' = Merged(OnDisk) /\ disk' \in Store /\ actions' = NoJobs
    BY <1>4, CrashFacts
  <2>3. /\ \A j \in Jobs : NoJobs[j] = None /\ Newer(None, finished[j])
        /\ Off(None)
    BY MarksAssumption DEF NoJobs, Newer, Off
  <2>4. disk # Unreadable => \A j \in Jobs : Off(Merged(OnDisk)[j])
    <3> SUFFICES ASSUME disk # Unreadable, NEW j \in Jobs PROVE Off(Merged(OnDisk)[j])
      OBVIOUS
    <3>1. /\ OnDisk \in Store /\ actions \in Actions
          /\ OnDisk[j] = None \/ (Has(disk, j) /\ OnDisk[j] = disk[j])
      BY <1>1, OnDiskFacts DEF TypeOK, Actions
    <3>2. Merged(OnDisk)[j] \in {OnDisk[j], None, actions[j]}
      BY <3>1, MergedFacts
    <3> QED BY <1>1, <2>3, <3>1, <3>2 DEF OffInv
  <2>5. OffInv'
    BY <1>1, <2>1, <2>2, <2>3, <2>4 DEF OffInv, Has
  <2>6. FinishedInv'
    BY <1>1, <2>1, <2>2, <2>3 DEF FinishedInv
  <2> QED BY <2>1, <2>5, <2>6 DEF RunInv, LaterInv
<1>5. CASE Corrupt
  BY <1>1, <1>5 DEF Corrupt, RunInv, OffInv, FinishedInv, LaterInv, Later, Has
<1>6. CASE Start
  <2> DEFINE l == Load(TRUE)
             jobs == [j \in Jobs |-> IF l.store[j] # None /\ l.store[j].enabled
                                     THEN [l.store[j] EXCEPT !.next = NextRun(j, now)]
                                     ELSE l.store[j]]
  <2>1. BaseInv'
    BY <1>6, LifeBase
  <2>2. /\ now' = now /\ finished' = finished /\ crossed' = crossed /\ Reads /\ ~running
        /\ IF l.store = None THEN disk' = l.disk /\ UNCHANGED <<actions, store, running, tick>>
           ELSE Save(l, jobs)
    BY <1>6 DEF Start, histVars, Reads
  <2>8. l.store \in Store \cup {None} /\ running \in BOOLEAN
    BY <1>1, LoadFacts DEF TypeOK
  <2>9. \A j \in Jobs : (Has(l.store, j) => Off(l.store[j])) /\ (Has(l.disk, j) => Off(l.disk[j]))
    BY LoadRun
  <2>10. CASE l.store = None
    <3> HIDE DEF l, jobs
    <3> QED BY <1>1, <2>2, <2>9, <2>10 DEF RunInv, OffInv, FinishedInv, LaterInv
  <2>11. CASE l.store # None
    <3>1. \A j \in Jobs : jobs[j] = IF l.store[j] # None /\ l.store[j].enabled
                                    THEN [l.store[j] EXCEPT !.next = NextRun(j, now)]
                                    ELSE l.store[j]
      OBVIOUS
    <3> HIDE DEF l, jobs
    <3>2. l.store \in Store /\ l.store \notin {None, Unreadable}
      BY <2>8, <2>11, MarksAssumption
    <3>3. \A j \in Jobs : Off(l.store[j])
      BY <2>9, <3>2, MarksAssumption DEF Off, Has
    <3>4. Save(l, jobs) /\ store' = jobs /\ running'
      BY <1>6, <2>2, <2>11 DEF Start, Save, l
    <3>5. jobs \in Store
      BY <2>1, <3>4 DEF BaseInv, TypeOK
    <3>6. ASSUME NEW j \in Jobs
          PROVE  Off(jobs[j]) /\ (jobs[j] # None /\ jobs[j].next # None => jobs[j].next > now)
      <4>1. CASE l.store[j] # None /\ l.store[j].enabled
        <5>1. l.store[j] \in Job
          BY <3>2, <4>1 DEF Store
        <5>2. jobs[j].next = NextRun(j, now) /\ jobs[j].enabled
          BY <3>1, <4>1, <5>1 DEF Job
        <5>3. NextRun(j, now) # None => NextRun(j, now) > now
          BY <1>1, NextRunFacts
        <5> QED BY <5>2, <5>3 DEF Off
      <4>2. CASE ~(l.store[j] # None /\ l.store[j].enabled)
        <5>1. jobs[j] = l.store[j] /\ l.store[j] \in Job \cup {None}
          BY <3>1, <3>2, <4>2 DEF Store
        <5>2. l.store[j] # None => l.store[j].next = None
          BY <3>3, <4>2, <5>1 DEF Off
        <5> QED BY <3>3, <5>1, <5>2
      <4> QED BY <4>1, <4>2
    <3> QED BY <2>2, <3>2, <3>4, <3>5, <3>6, RunSaved DEF l
  <2> QED BY <2>10, <2>11
<1> QED BY <1>2, <1>3, <1>4, <1>5, <1>6

\* The timer wakes.
LEMMA FireRun == ASSUME BaseInv, RunInv, Fire PROVE RunInv'
<1> DEFINE l == Load(running)
<1>1. /\ TypeOK /\ running \in BOOLEAN /\ OffInv /\ FinishedInv /\ (running => store # None)
      /\ UNCHANGED <<now, finished, crossed, running>> /\ tick.phase # "running"
  BY DEF BaseInv, TypeOK, RunInv, Fire
<1>2. CASE ~running
  BY <1>1, <1>2 DEF Fire, fileVars, RunInv, OffInv, FinishedInv, LaterInv
<1>3. CASE running
  <2>1. l.store \in Store /\ l.store # None
    BY <1>1, <1>3, LoadFacts
  <2>2. \A j \in Jobs :
          /\ Has(l.store, j) => Off(l.store[j])
          /\ Has(l.disk, j) => Off(l.disk[j])
          /\ Off(l.actions[j])
          /\ finished[j] # None /\ j \notin crossed => Newer(l.actions[j], finished[j])
          /\ j \notin crossed => Later(l.store, finished, j) /\ Later(l.disk, finished, j)
    BY <1>1, <1>3, <2>1, LoadRun
  <2>3. \/ Save(l, l.store)
        \/ store' = l.store /\ disk' = l.disk /\ actions' = l.actions
    BY <1>3 DEF Fire
  <2> HIDE DEF l
  <2>4. store' = l.store /\ disk' \in {l.disk, l.store} /\ actions' = l.actions
    BY <2>3 DEF Save
  <2>5. OffInv'
    BY <2>2, <2>4 DEF OffInv, Has
  <2>6. FinishedInv'
    BY <1>1, <2>2, <2>4 DEF FinishedInv
  <2>7. LaterInv'
    BY <1>1, <2>2, <2>4 DEF LaterInv
  <2> QED BY <2>5, <2>6, <2>7 DEF RunInv
<1> QED BY <1>2, <1>3

\* A call that reads the store.
LEMMA ListRun == ASSUME BaseInv, RunInv, List PROVE RunInv'
<1> DEFINE l == Load(running)
<1>1. /\ TypeOK /\ running \in BOOLEAN /\ OffInv /\ FinishedInv
      /\ UNCHANGED <<now, finished, crossed, running, tick>> /\ store # None
      /\ store' = l.store /\ disk' = l.disk /\ actions' = l.actions
  BY DEF BaseInv, TypeOK, RunInv, List, histVars
<1>2. \A j \in Jobs :
        /\ Has(l.store, j) => Off(l.store[j])
        /\ Has(l.disk, j) => Off(l.disk[j])
        /\ Off(l.actions[j])
        /\ finished[j] # None /\ j \notin crossed => Newer(l.actions[j], finished[j])
        /\ running /\ j \notin crossed =>
             /\ Later(l.store, finished, j)
             /\ tick.phase # "running" => Later(l.disk, finished, j)
  BY <1>1, LoadRun
<1> HIDE DEF l
<1>3. OffInv'
  BY <1>1, <1>2 DEF OffInv
<1>4. FinishedInv'
  BY <1>1, <1>2 DEF FinishedInv
<1>5. LaterInv'
  BY <1>1, <1>2 DEF LaterInv
<1> QED BY <1>3, <1>4, <1>5 DEF RunInv

\* A job of the timer has run: its next run is computed from now.
LEMMA JobEndsRun == ASSUME BaseInv, DueStillDue, RunInv, JobEnds PROVE RunInv'
<1>1. /\ TypeOK /\ OffInv /\ FinishedInv /\ LaterInv
      /\ now \in 0..Horizon /\ Horizon \in Nat
      /\ finished \in [Jobs -> 0..Horizon \cup {None}] /\ tick \in TickRec
      /\ tick.due \in Seq(Jobs) /\ tick.phase = "running" /\ tick.due # <<>>
      /\ store \in Store /\ store \notin {None, Unreadable}
  BY CronAssumption, MarksAssumption
     DEF BaseInv, TypeOK, TickInv, JobEnds, TickRec, RunInv
<1>2. PICK j \in Jobs : j = Head(tick.due) /\ Due(j)
  <2>1. Head(tick.due) \in Jobs /\ 1 \in DOMAIN tick.due /\ Head(tick.due) = tick.due[1]
    BY <1>1
  <2>2. Due(Head(tick.due))
    BY <1>1, <2>1 DEF DueStillDue
  <2> QED BY <2>1, <2>2
<1>3. PICK jobs : jobs = Executed(store, j)
  OBVIOUS
<1>4. /\ store' = jobs /\ finished' = [finished EXCEPT ![j] = now]
      /\ \/ disk' = jobs
         \/ disk' = disk /\ tick' = [tick EXCEPT !.due = Tail(tick.due)]
      /\ crossed' = crossed \cup {i \in {j} : Puts(i)}
      /\ UNCHANGED <<now, actions, running>>
  BY <1>2, <1>3 DEF JobEnds
<1>5. /\ jobs \in Store /\ jobs \notin {None, Unreadable}
      /\ \A i \in Jobs : i # j => jobs[i] = store[i]
      /\ jobs[j] # None => \/ jobs[j].next = NextRun(j, now) /\ jobs[j].enabled = store[j].enabled
                          \/ jobs[j] = [enabled |-> FALSE, next |-> None]
  <2>1. /\ jobs \in Store
        /\ \A i \in Jobs : i # j => jobs[i] = store[i]
        /\ jobs[j] # None => \/ jobs[j].next = NextRun(j, now) /\ jobs[j].enabled = store[j].enabled
                          \/ jobs[j] = [enabled |-> FALSE, next |-> None]
    BY <1>1, <1>3, ExecutedFacts
  <2> QED BY <2>1, MarksAssumption
<1>6. /\ finished'[j] = now /\ \A i \in Jobs : i # j => finished'[i] = finished[i]
  BY <1>1, <1>4
<1>7. store[j].enabled /\ \A ran : actions[j] \notin Job => Newer(actions[j], ran)
  BY <1>2 DEF Due, Newer
<1>8. OffInv'
  <2>1. ASSUME NEW i \in Jobs PROVE Off(jobs[i])
    <3>1. Has(store, i) => Off(store[i])
      BY <1>1 DEF OffInv
    <3>2. store[i] # None => Off(store[i])
      BY <1>1, <3>1 DEF Has
    <3>3. CASE jobs[i] = None
      BY <3>3, MarksAssumption DEF Off
    <3>4. CASE jobs[i] # None /\ i # j
      BY <1>5, <3>2, <3>4
    <3>5. CASE jobs[i] # None /\ i = j
      <4>1. CASE jobs[j].enabled = store[j].enabled
        BY <1>7, <3>5, <4>1 DEF Off
      <4>2. CASE jobs[j] = [enabled |-> FALSE, next |-> None]
        BY <3>5, <4>2 DEF Off
      <4> QED BY <1>5, <3>5, <4>1, <4>2
    <3> QED BY <3>3, <3>4, <3>5
  <2> QED BY <1>1, <1>4, <2>1 DEF OffInv, Has
<1>9. FinishedInv'
  BY <1>1, <1>4, <1>6, <1>7 DEF FinishedInv, Puts
<1>10. LaterInv'
  <2>1. NextRun(j, now) # None => NextRun(j, now) > now
    BY <1>1, NextRunFacts
  <2>2. running => \A i \in Jobs \ crossed : Later(jobs, finished', i)
    BY <1>1, <1>5, <1>6, <2>1 DEF LaterInv, Later, Has
  <2>3. disk' = disk => tick'.phase = "running" \/ disk' = jobs
    BY <1>1, <1>4 DEF TickRec
  <2> QED BY <1>4, <2>2, <2>3 DEF LaterInv
<1> QED BY <1>8, <1>9, <1>10 DEF RunInv

\* Every step of a service without manual runs.
LEMMA StepRun ==
  ASSUME Callers = {}, BaseInv, DueStillDue, RunInv, [Next]_vars
  PROVE  RunInv'
<1>1. CASE Pass \/ Start \/ Stop \/ Crash \/ Corrupt
  BY <1>1, LifeRun
<1>2. CASE Fire \/ JobEnds \/ List
  BY <1>2, FireRun, JobEndsRun, ListRun
<1>3. CASE \E j \in Jobs : Edits(j)
  <2>1. PICK j \in Jobs : Edits(j)
    BY <1>3
  <2>2. CASE External(j)
    BY <2>2, ExternalRun
  <2>3. CASE AddJob(j) \/ RemoveJob(j) \/ \E on \in BOOLEAN : EnableJob(j, on)
    BY <2>3, EditsRun
  <2> QED BY <2>1, <2>2, <2>3 DEF Edits, External
<1>4. CASE UNCHANGED vars
  BY <1>4 DEF vars, fileVars, histVars, RunInv, OffInv, FinishedInv, LaterInv
<1> QED BY <1>1, <1>2, <1>3, <1>4, Callers = {} DEF Next

\* "the in-memory next_run_at_ms update must not be lost": a job the timer has
\* run is not due again for the time it has been run for, unless an update by
\* another instance waited to be merged while it ran.  For any number of jobs,
\* edits, crashes, instances and damages of the file, of a service without manual
\* runs.
THEOREM RunsAreNotRolledBack ==
  ASSUME Callers = {} PROVE Spec => []NotRolledBack
<1> DEFINE Inv == BaseInv /\ DueStillDue /\ RunInv
<1>1. Init => Inv
  <2> SUFFICES ASSUME Init PROVE Inv
    OBVIOUS
  <2>1. /\ disk = None /\ store = None /\ tick.phase # "running" /\ running = FALSE
        /\ \A j \in Jobs : actions[j] = None /\ finished[j] = None
    BY DEF Init, NoTick, NoJobs
  <2>2. None \notin Job
    BY MarksAssumption
  <2>3. RunInv
    BY <2>1, <2>2 DEF RunInv, OffInv, Off, FinishedInv, LaterInv, Has
  <2> QED BY <2>1, <2>3, InitBase DEF DueStillDue
<1>2. Inv /\ [Next]_vars => Inv'
  BY StepBase, StepDue, StepRun
<1>3. Inv => NotRolledBack
  <2> SUFFICES ASSUME Inv, running, NEW j \in Jobs \ crossed,
                      store[j] # None, finished[j] # None, store[j].next # None
               PROVE  store[j].next > finished[j]
    BY DEF NotRolledBack
  <2>1. store \notin {None, Unreadable}
    BY MarksAssumption DEF BaseInv, TypeOK
  <2> QED BY <2>1 DEF RunInv, LaterInv, Later, Has
<1> QED BY <1>1, <1>2, <1>3, PTL DEF Spec

-----------------------------------------------------------------------------
(* No job is dropped *)

\* What runs has a turn.
RanInv ==
  /\ tick.phase = "running" => turns[Head(tick.due)] > 0
  /\ \A c \in Callers : calls[c].job # None => turns[calls[c].job] > 0

\* A job may leave the store.
Left(j, gone, count) == j \in gone \/ (j \in OneTime /\ count[j] > 0)

\* A damaged file is not read, or no longer there.
Lost(dk, count) == count > 0 /\ dk \in {None, Unreadable}

\* What is in memory is on disk or requested, unless it may leave or the file
\* was damaged.
StoredInv ==
  /\ disk = Unreadable => damages > 0
  /\ \A j \in Jobs : actions[j] \in {Deletion, Withdrawal} => j \in removed
  /\ \A j \in Jobs : Has(store, j) => \/ Has(disk, j) \/ actions[j] # None
                                      \/ Left(j, removed, turns) \/ Lost(disk, damages)

\* The number of a job's turns never falls.
LEMMA TurnsGrow ==
  ASSUME BaseInv, NEW j \in Jobs, UNCHANGED turns \/ Submitted(j)
  PROVE  /\ Submitted(j) => turns'[j] > 0
         /\ \A i \in Jobs : turns[i] > 0 => turns'[i] > 0
<1>1. turns \in [Jobs -> 0..2]
  BY DEF BaseInv, TypeOK
<1>2. CASE Submitted(j)
  BY <1>1, <1>2 DEF Submitted
<1>3. CASE UNCHANGED turns /\ ~Submitted(j)
  BY <1>3
<1> QED BY <1>2, <1>3

\* Every step counts what it starts.
LEMMA StepRan ==
  ASSUME BaseInv, RanInv, [Next]_vars
  PROVE  RanInv' /\ \A i \in Jobs : turns[i] > 0 => turns'[i] > 0
<1>1. /\ TypeOK /\ turns \in [Jobs -> 0..2] /\ tick \in TickRec /\ calls \in [Callers -> CallRec]
      /\ now \in 0..Horizon /\ running \in BOOLEAN
  BY DEF BaseInv, TypeOK, TickRec, CallRec
<1>2. BaseInv'
  BY StepBase
<1> DEFINE Grown == \A i \in Jobs : turns[i] > 0 => turns'[i] > 0
           SameCalls == \A c \in Callers : calls'[c].job # None => calls'[c].job = calls[c].job
<1>3. ASSUME SameCalls, Grown, tick' = tick \/ tick'.phase # "running"
      PROVE  RanInv' /\ Grown
  <2>1. ASSUME NEW c \in Callers, calls[c].job # None PROVE calls[c].job \in Jobs
    <3>1. calls[c] \in CallRec
      BY <1>1
    <3> QED BY <2>1, <3>1 DEF CallRec
  <2>2. \A c \in Callers : calls'[c].job # None => turns'[calls'[c].job] > 0
    BY <1>3, <2>1 DEF RanInv
  <2>3. tick'.phase = "running" => turns'[Head(tick'.due)] > 0
    <3> SUFFICES ASSUME tick'.phase = "running" PROVE turns'[Head(tick'.due)] > 0
      OBVIOUS
    <3>1. tick' = tick /\ tick.phase = "running"
      BY <1>3
    <3>2. tick.due \in Seq(Jobs) /\ tick.due # <<>>
      BY <1>1, <3>1 DEF TickRec, BaseInv, TickInv
    <3>3. Head(tick.due) \in Jobs
      BY <3>2
    <3> QED BY <1>3, <3>1, <3>3 DEF RanInv
  <2> QED BY <1>3, <2>2, <2>3 DEF RanInv
<1>4. ASSUME NEW reread \in BOOLEAN, NEW dropped, calls' = Detach(reread, dropped) PROVE SameCalls
  BY <1>1, <1>4, DetachFacts
<1>5. CASE Pass \/ Stop \/ Corrupt \/ UNCHANGED vars \/ \E j \in Jobs : External(j)
  <2>1. UNCHANGED <<calls, turns>> /\ (tick' = tick \/ tick'.phase # "running")
    BY <1>5, ExternalFacts DEF Pass, Stop, Corrupt, vars, histVars, NoTick
  <2> QED BY <1>3, <2>1
<1>6. CASE Crash
  <2>1. calls' = [c \in Callers |-> NoCall] /\ turns' = turns /\ tick' = NoTick
    BY <1>6 DEF Crash, histVars
  <2>2. SameCalls /\ Grown
    BY <2>1 DEF NoCall
  <2>3. tick'.phase # "running"
    BY <2>1 DEF NoTick
  <2> QED BY <1>3, <2>2, <2>3
<1>7. CASE Start \/ List \/ \E j \in Jobs : AddJob(j) \/ RemoveJob(j) \/ \E on \in BOOLEAN : EnableJob(j, on)
  <2>1. turns' = turns
    BY <1>7, Zenon DEF Start, List, AddJob, RemoveJob, EnableJob, Change, histVars
  <2>2. SameCalls
    <3>1. \A run \in BOOLEAN : Load(run).reread \in BOOLEAN
      BY <1>1, LoadFacts
    <3>2. calls' = calls \/ \E run \in BOOLEAN : \E dropped : calls' = Detach(Load(run).reread, dropped)
      BY <1>1, <1>7, Zenon DEF Start, List, AddJob, RemoveJob, EnableJob, Change
    <3>3. CASE calls' = calls
      BY <3>3
    <3>4. CASE \E run \in BOOLEAN : \E dropped : calls' = Detach(Load(run).reread, dropped)
      BY <1>4, <3>1, <3>4
    <3> QED BY <3>2, <3>3, <3>4
  <2>3. tick' = tick \/ tick'.phase # "running"
    <3>1. CASE List
      BY <3>1 DEF List
    <3>2. CASE Start
      <4>1. tick' = tick \/ \E jobs : store' = jobs /\ running' /\ Arm(jobs, TRUE)
        BY <3>2, Zenon DEF Start, Save
      <4>2. CASE \E jobs : store' = jobs /\ running' /\ Arm(jobs, TRUE)
        <5>1. PICK jobs : store' = jobs /\ running' /\ Arm(jobs, TRUE)
          BY <4>2
        <5>2. jobs \in Store
          BY <1>2, <5>1 DEF BaseInv, TypeOK
        <5> QED BY <1>1, <5>1, <5>2, ArmFacts
      <4> QED BY <4>1, <4>2
    <3>3. CASE \E j \in Jobs : AddJob(j) \/ RemoveJob(j) \/ \E on \in BOOLEAN : EnableJob(j, on)
      <4>1. PICK j \in Jobs : AddJob(j) \/ RemoveJob(j) \/ \E on \in BOOLEAN : EnableJob(j, on)
        BY <3>3
      <4> QED BY <4>1, EditsCancel
    <3> QED BY <1>7, <3>1, <3>2, <3>3
  <2> QED BY <1>3, <2>1, <2>2, <2>3
<1>8. CASE Fire
  <2> DEFINE l == Load(running)
             due == {j \in Jobs : /\ l.store[j] # None /\ l.store[j].enabled
                                  /\ l.store[j].next # None /\ l.store[j].next <= now}
  <2>1. \/ tick' = NoTick /\ UNCHANGED <<calls, turns>>
        \/ running /\ calls' = Detach(l.reread, {}) /\ Arm(l.store, TRUE) /\ UNCHANGED turns
        \/ /\ calls' = Detach(l.reread, {}) /\ due # {}
           /\ \E order \in SetToSeqs(due) :
                tick' = [phase |-> "running", wake |-> now, due |-> order] /\ Submitted(Head(order))
    BY <1>8 DEF Fire
  <2>2. l.reread \in BOOLEAN /\ (running => l.store \in Store)
    BY <1>1, LoadFacts DEF TypeOK
  <2>3. due \subseteq Jobs
    OBVIOUS
  <2> HIDE DEF due
  <2>4. CASE tick' = NoTick /\ UNCHANGED <<calls, turns>>
    <3>1. tick'.phase # "running"
      BY <2>4 DEF NoTick
    <3> QED BY <1>3, <2>4, <3>1
  <2>5. CASE running /\ calls' = Detach(l.reread, {}) /\ Arm(l.store, TRUE) /\ UNCHANGED turns
    <3>1. tick'.phase # "running"
      BY <1>1, <2>2, <2>5, ArmFacts
    <3>2. SameCalls
      BY <1>4, <2>2, <2>5
    <3> QED BY <1>3, <2>5, <3>1, <3>2
  <2>6. CASE /\ calls' = Detach(l.reread, {}) /\ due # {}
             /\ \E order \in SetToSeqs(due) :
                  tick' = [phase |-> "running", wake |-> now, due |-> order] /\ Submitted(Head(order))
    <3>1. PICK order \in SetToSeqs(due) :
            tick' = [phase |-> "running", wake |-> now, due |-> order] /\ Submitted(Head(order))
      BY <2>6
    <3>2. Head(order) \in Jobs
      BY <2>3, <2>6, DueOrder
    <3>3. turns'[Head(order)] > 0 /\ Grown
      BY <3>1, <3>2, TurnsGrow
    <3>4. SameCalls
      BY <1>4, <2>2, <2>6
    <3>5. \A c \in Callers : calls'[c].job # None => turns'[calls'[c].job] > 0
      <4> SUFFICES ASSUME NEW c \in Callers, calls'[c].job # None PROVE turns'[calls'[c].job] > 0
        OBVIOUS
      <4>1. calls[c] \in CallRec /\ calls'[c].job = calls[c].job
        BY <1>1, <3>4
      <4>2. calls[c].job \in Jobs
        BY <4>1 DEF CallRec
      <4> QED BY <3>3, <4>1, <4>2 DEF RanInv
    <3>6. tick'.due = order
      BY <3>1
    <3> QED BY <3>3, <3>5, <3>6 DEF RanInv
  <2> QED BY <2>1, <2>4, <2>5, <2>6
<1>9. CASE JobEnds
  <2>1. /\ tick.phase = "running" /\ tick.due \in Seq(Jobs) /\ tick.due # <<>> /\ store \in Store
    BY <1>1, <1>9 DEF JobEnds, TickRec, BaseInv, TypeOK, TickInv
  <2>2. PICK rest, jobs, gone :
          /\ rest = Tail(tick.due) /\ jobs = Executed(store, Head(tick.due))
          /\ calls' = Detach(FALSE, gone)
          /\ \/ Arm(jobs, running) /\ UNCHANGED turns
             \/ rest # <<>> /\ tick' = [tick EXCEPT !.due = rest] /\ Submitted(Head(rest))
    BY <1>9 DEF JobEnds
  <2>3. SameCalls
    BY <1>4, <2>2
  <2>4. CASE Arm(jobs, running) /\ UNCHANGED turns
    <3>1. Head(tick.due) \in Jobs
      BY <2>1
    <3>2. jobs \in Store
      BY <1>1, <2>1, <2>2, <3>1, ExecutedFacts
    <3>3. tick'.phase # "running"
      BY <1>1, <2>4, <3>2, ArmFacts
    <3> QED BY <1>3, <2>3, <2>4, <3>3
  <2>5. CASE rest # <<>> /\ tick' = [tick EXCEPT !.due = rest] /\ Submitted(Head(rest))
    <3>1. Head(rest) \in Jobs
      BY <2>1, <2>2, <2>5
    <3>2. turns'[Head(rest)] > 0 /\ Grown
      BY <2>5, <3>1, TurnsGrow
    <3>3. tick'.due = rest
      BY <1>1, <2>5 DEF TickRec
    <3>4. \A c \in Callers : calls'[c].job # None => turns'[calls'[c].job] > 0
      <4> SUFFICES ASSUME NEW c \in Callers, calls'[c].job # None PROVE turns'[calls'[c].job] > 0
        OBVIOUS
      <4>1. calls[c] \in CallRec /\ calls'[c].job = calls[c].job
        BY <1>1, <2>3
      <4>2. calls[c].job \in Jobs
        BY <4>1 DEF CallRec
      <4> QED BY <3>2, <4>1, <4>2 DEF RanInv
    <3> QED BY <3>2, <3>3, <3>4 DEF RanInv
  <2> QED BY <2>2, <2>4, <2>5
<1>10. CASE \E c \in Callers, j \in Jobs, force \in BOOLEAN : RunJob(c, j, force)
  <2>1. PICK c \in Callers, j \in Jobs, force \in BOOLEAN : RunJob(c, j, force)
    BY <1>10
  <2> DEFINE l == Load(TRUE)
             d == Detach(l.reread, {})
             call == [job |-> j, attached |-> TRUE, was |-> running]
  <2>2. \/ calls' = [d EXCEPT ![c] = call] /\ Submitted(j) /\ tick' = tick
        \/ calls' = d /\ UNCHANGED turns /\ (tick' = tick \/ Arm(l.store, TRUE))
    BY <2>1 DEF RunJob
  <2>3. store # None /\ l.reread \in BOOLEAN /\ l.store \in Store
    <3>1. store # None
      BY <2>1 DEF RunJob
    <3> QED BY <1>1, <3>1, LoadFacts
  <2>4. d \in [Callers -> CallRec] /\ \A e \in Callers : d[e].job = calls[e].job
    BY <1>1, <2>3, DetachFacts
  <2>5. CASE calls' = d /\ UNCHANGED turns /\ (tick' = tick \/ Arm(l.store, TRUE))
    <3>1. tick' = tick \/ tick'.phase # "running"
      BY <1>1, <2>3, <2>5, ArmFacts
    <3>2. SameCalls
      BY <2>4, <2>5
    <3> QED BY <1>3, <2>5, <3>1, <3>2
  <2>6. CASE calls' = [d EXCEPT ![c] = call] /\ Submitted(j) /\ tick' = tick
    <3>1. turns'[j] > 0 /\ Grown
      BY <2>6, TurnsGrow
    <3>2. calls'[c] = call /\ call.job = j
      BY <2>4, <2>6
    <3>3. \A e \in Callers : e # c => calls'[e] = d[e]
      BY <2>4, <2>6
    <3> HIDE DEF d, call
    <3>4. ASSUME NEW e \in Callers, calls'[e].job # None PROVE turns'[calls'[e].job] > 0
      <4>1. CASE e = c
        BY <3>1, <3>2, <4>1
      <4>2. CASE e # c
        <5>1. calls[e] \in CallRec /\ calls'[e].job = calls[e].job
          BY <1>1, <2>4, <3>3, <4>2
        <5>2. calls[e].job \in Jobs
          BY <3>4, <5>1 DEF CallRec
        <5> QED BY <3>1, <3>4, <5>1, <5>2 DEF RanInv
      <4> QED BY <4>1, <4>2
    <3>5. tick.phase = "running" => Head(tick.due) \in Jobs
      BY <1>1 DEF TickRec, BaseInv, TickInv
    <3>6. tick'.phase = "running" => turns'[Head(tick'.due)] > 0
      BY <2>6, <3>1, <3>5 DEF RanInv
    <3> QED BY <3>1, <3>4, <3>6 DEF RanInv
  <2> QED BY <2>2, <2>5, <2>6
<1>11. CASE \E c \in Callers : RunJobEnds(c)
  <2>1. PICK c \in Callers : RunJobEnds(c)
    BY <1>11
  <2>2. PICK gone, jobs :
          /\ calls' = [Detach(FALSE, gone) EXCEPT ![c] = NoCall] /\ UNCHANGED turns
          /\ store' = jobs
          /\ tick' = tick \/ (Arm(jobs, TRUE) /\ running')
    BY <2>1, Zenon DEF RunJobEnds
  <2> DEFINE d == Detach(FALSE, gone)
  <2>3. d \in [Callers -> CallRec] /\ \A e \in Callers : d[e].job = calls[e].job
    BY <1>1, DetachFacts
  <2>4. SameCalls
    <3> HIDE DEF d
    <3>1. calls' = [d EXCEPT ![c] = NoCall]
      BY <2>2 DEF d
    <3> QED BY <2>3, <3>1 DEF NoCall
  <2>5. tick' = tick \/ tick'.phase # "running"
    <3>1. CASE Arm(jobs, TRUE) /\ running'
      <4>1. jobs \in Store
        BY <1>2, <2>2, <3>1 DEF BaseInv, TypeOK
      <4> QED BY <1>1, <3>1, <4>1, ArmFacts
    <3> QED BY <2>2, <3>1
  <2> QED BY <1>3, <2>2, <2>4, <2>5
<1> QED BY <1>5, <1>6, <1>7, <1>8, <1>9, <1>10, <1>11 DEF Next, Edits, External

\* The jobs that leave the store in a step may leave it.
NoneDropped ==
  store # None /\ store' # None =>
    \A j \in Jobs : store[j] # None /\ store'[j] = None
                     => \/ j \in removed' \/ (j \in OneTime /\ turns[j] > 0)
                        \/ damages > 0 /\ disk = None

Grown ==
  /\ removed \subseteq removed' /\ (damages > 0 => damages' > 0)
  /\ \A i \in Jobs : turns[i] > 0 => turns'[i] > 0

\* What is loaded was in memory, or what was in memory may leave it.
LEMMA LoadStored ==
  ASSUME BaseInv, StoredInv, NEW run \in BOOLEAN
  PROVE  LET l == Load(run)
         IN  /\ l.disk = Unreadable => damages > 0
             /\ \A j \in Jobs :
                  /\ l.actions[j] \in {Deletion, Withdrawal} => j \in removed
                  /\ Has(l.store, j) => \/ Has(l.disk, j) \/ l.actions[j] # None
                                        \/ Left(j, removed, turns) \/ Lost(l.disk, damages)
                  /\ Has(store, j) /\ l.store[j] = None =>
                       Left(j, removed, turns) \/ (damages > 0 /\ disk = None)
<1> DEFINE l == Load(run)
<1>1. /\ TypeOK /\ disk \in Store \cup {Unreadable, None}
      /\ actions \in Actions /\ None \notin {Deletion, Withdrawal, Unreadable}
      /\ disk = Unreadable => damages > 0
  BY MarksAssumption DEF BaseInv, TypeOK, Actions, StoredInv
<1>2. /\ ~Reads => l.store = store /\ l.disk = disk /\ l.actions = actions
      /\ Reads /\ disk = Unreadable => l.store = store /\ l.disk = None /\ l.actions = actions
      /\ Reads /\ disk # Unreadable =>
           /\ l.store = Merged(OnDisk)
           /\ \/ l.disk = disk /\ l.actions = actions
              \/ l.disk = Merged(OnDisk) /\ l.actions = NoJobs
  BY <1>1, LoadFacts
<1>3. l.disk = Unreadable => damages > 0
  BY <1>1, LoadFacts DEF Lost
<1> HIDE DEF l
<1> SUFFICES ASSUME NEW j \in Jobs
             PROVE  /\ l.actions[j] \in {Deletion, Withdrawal} => j \in removed
                    /\ Has(l.store, j) => \/ Has(l.disk, j) \/ l.actions[j] # None
                                          \/ Left(j, removed, turns) \/ Lost(l.disk, damages)
                    /\ Has(store, j) /\ l.store[j] = None =>
                         Left(j, removed, turns) \/ (damages > 0 /\ disk = None)
  BY <1>3 DEF l
<1>4. /\ actions[j] \in {Deletion, Withdrawal} => j \in removed
      /\ Has(store, j) => \/ Has(disk, j) \/ actions[j] # None
                          \/ Left(j, removed, turns) \/ Lost(disk, damages)
  BY DEF StoredInv
<1>5. CASE ~Reads
  BY <1>2, <1>4, <1>5 DEF Has
<1>6. CASE Reads /\ disk = Unreadable
  BY <1>1, <1>2, <1>4, <1>6 DEF Has, Lost
<1>7. CASE Reads /\ disk # Unreadable
  <2>1. OnDisk \in Store /\ (OnDisk[j] # None <=> Has(disk, j))
    BY <1>1, <1>7, OnDiskFacts
  <2>2. Merged(OnDisk)[j] = IF ~Applies(j, OnDisk) THEN OnDisk[j]
                            ELSE IF Puts(j) THEN actions[j] ELSE None
    BY <1>1, <2>1, MergedFacts
  <2>3. Merged(OnDisk)[j] = None =>
          actions[j] \in {Deletion, Withdrawal} \/ (~Has(disk, j) /\ actions[j] = None)
    BY <1>1, <2>1, <2>2, MarksAssumption DEF Applies, Puts, Actions
  <2>4. Merged(OnDisk)[j] # None => Has(disk, j) \/ actions[j] # None
    BY <2>1, <2>2 DEF Applies
  <2>5. NoJobs[j] = None
    BY DEF NoJobs
  <2>6. Has(store, j) /\ l.store[j] = None => Left(j, removed, turns) \/ (damages > 0 /\ disk = None)
    BY <1>2, <1>4, <1>7, <2>3 DEF Left, Lost
  <2>7. CASE l.disk = disk /\ l.actions = actions
    BY <1>2, <1>4, <1>7, <2>4, <2>6, <2>7 DEF Has
  <2>8. CASE l.disk = Merged(OnDisk) /\ l.actions = NoJobs
    BY <1>1, <1>2, <1>7, <2>5, <2>6, <2>8
  <2> QED BY <1>2, <1>7, <2>7, <2>8
<1> QED BY <1>5, <1>6, <1>7

\* A step that leaves the store alone and may add requests.
LEMMA StoredKept ==
  ASSUME StoredInv, Grown, store' = store, disk' = disk \/ (disk = Unreadable /\ disk' = None),
         \A j \in Jobs : actions'[j] \in {Deletion, Withdrawal} =>
                           actions[j] \in {Deletion, Withdrawal} \/ j \in removed',
         \A j \in Jobs : actions[j] # None => actions'[j] # None
  PROVE  StoredInv' /\ NoneDropped
<1>1. NoneDropped
  BY DEF NoneDropped
<1>2. disk' = Unreadable => damages' > 0
  BY MarksAssumption DEF StoredInv, Grown
<1>3. \A j \in Jobs : actions'[j] \in {Deletion, Withdrawal} => j \in removed'
  BY DEF StoredInv, Grown
<1>4. \A j \in Jobs : Has(store', j) => \/ Has(disk', j) \/ actions'[j] # None
                                        \/ Left(j, removed', turns') \/ Lost(disk', damages')
  BY DEF StoredInv, Grown, Has, Left, Lost
<1> QED BY <1>1, <1>2, <1>3, <1>4 DEF StoredInv

\* A step that loads the store.
LEMMA StoredLoaded ==
  ASSUME BaseInv, StoredInv, Grown, NEW run \in BOOLEAN,
         store' = Load(run).store, disk' = Load(run).disk, actions' = Load(run).actions
  PROVE  StoredInv' /\ NoneDropped
<1> DEFINE l == Load(run)
<1>1. /\ l.disk = Unreadable => damages > 0
      /\ \A j \in Jobs :
           /\ l.actions[j] \in {Deletion, Withdrawal} => j \in removed
           /\ Has(l.store, j) => \/ Has(l.disk, j) \/ l.actions[j] # None
                                 \/ Left(j, removed, turns) \/ Lost(l.disk, damages)
           /\ Has(store, j) /\ l.store[j] = None =>
                Left(j, removed, turns) \/ (damages > 0 /\ disk = None)
  BY LoadStored
<1>2. store' = l.store /\ disk' = l.disk /\ actions' = l.actions
  OBVIOUS
<1>3. store # Unreadable
  BY MarksAssumption DEF BaseInv, TypeOK
<1> HIDE DEF l
<1>4. StoredInv'
  BY <1>1, <1>2 DEF StoredInv, Grown, Left, Lost
<1>5. NoneDropped
  BY <1>1, <1>2, <1>3 DEF NoneDropped, Grown, Left, Has
<1> QED BY <1>4, <1>5

\* A step that loads the store, changes it and saves it.
LEMMA StoredSaved ==
  ASSUME BaseInv, StoredInv, Grown, NEW run \in BOOLEAN, NEW jobs \in Store,
         Save(Load(run), jobs),
         \A j \in Jobs : Load(run).store[j] # None /\ jobs[j] = None => j \in removed'
  PROVE  StoredInv' /\ NoneDropped
<1> DEFINE l == Load(run)
<1>1. \A j \in Jobs :
        /\ l.actions[j] \in {Deletion, Withdrawal} => j \in removed
        /\ Has(store, j) /\ l.store[j] = None =>
             Left(j, removed, turns) \/ (damages > 0 /\ disk = None)
  BY LoadStored
<1>2. store' = jobs /\ disk' = jobs /\ actions' = l.actions
  BY DEF Save
<1>3. store # Unreadable /\ jobs # Unreadable
  BY MarksAssumption DEF BaseInv, TypeOK
<1>4. \A j \in Jobs : l.store[j] # None /\ jobs[j] = None => j \in removed'
  OBVIOUS
<1> HIDE DEF l
<1>5. StoredInv'
  BY <1>1, <1>2, <1>3 DEF StoredInv, Grown, Has
<1>6. NoneDropped
  BY <1>1, <1>2, <1>3, <1>4 DEF NoneDropped, Grown, Left, Has
<1> QED BY <1>5, <1>6

\* A step in which a job has run.
LEMMA StoredRan ==
  ASSUME BaseInv, StoredInv, Grown, store \in Store, NEW jobs \in Store, NEW j \in Jobs,
         turns[j] > 0, jobs \in {store, Executed(store, j)}, now \in 0..Horizon,
         store' = jobs, disk' \in {disk, jobs}, actions' = actions
  PROVE  StoredInv' /\ NoneDropped
<1>1. \A i \in Jobs : jobs[i] # None => store[i] # None
  BY ExecutedFacts
<1>2. \A i \in Jobs : store[i] # None /\ jobs[i] = None => i = j /\ j \in OneTime
  BY ExecutedFacts
<1>3. store \notin {None, Unreadable} /\ jobs \notin {None, Unreadable}
  BY MarksAssumption
<1>4. StoredInv'
  BY <1>1, <1>3 DEF StoredInv, Grown, Has, Left, Lost
<1>5. NoneDropped
  BY <1>2, <1>3 DEF NoneDropped, Grown
<1> QED BY <1>4, <1>5

\* Every step.
LEMMA StepStored ==
  ASSUME BaseInv, RanInv, StoredInv, [Next]_vars
  PROVE  StoredInv' /\ NoneDropped
<1>1. /\ TypeOK /\ TickInv /\ CallInv /\ damages \in 0..MaxDamages /\ running \in BOOLEAN
      /\ now \in 0..Horizon /\ store \in Store \cup {None} /\ tick \in TickRec
      /\ calls \in [Callers -> CallRec] /\ MaxDamages \in Nat
  BY CronAssumption DEF BaseInv, TypeOK, TickRec, CallRec
<1>2. \A i \in Jobs : turns[i] > 0 => turns'[i] > 0
  BY StepRan
<1>3. Grown
  <2>1. CASE \E j \in Jobs : External(j)
    <3>1. removed \subseteq removed' /\ damages' = damages
      BY <2>1, ExternalFacts
    <3> QED BY <1>2, <3>1 DEF Grown
  <2>2. CASE ~\E j \in Jobs : External(j)
    <3>1. removed \subseteq removed'
      BY <2>2, Zenon DEF Next, Edits, External, Pass, Start, Stop, Crash, Corrupt, Fire, JobEnds, List,
         AddJob, RemoveJob, EnableJob, Change, RunJob, RunJobEnds, vars, histVars
    <3>2. damages' \in {damages, damages + 1}
      BY <2>2 DEF Next, Edits, External, Pass, Start, Stop, Crash, Corrupt, Fire, JobEnds, List,
         AddJob, RemoveJob, EnableJob, Change, RunJob, RunJobEnds, vars, histVars
    <3> QED BY <1>1, <1>2, <3>1, <3>2 DEF Grown
  <2> QED BY <2>1, <2>2
<1>4. CASE Pass \/ Stop \/ UNCHANGED vars
  <2>1. store' = store /\ disk' = disk /\ actions' = actions
    BY <1>4 DEF Pass, Stop, vars, fileVars
  <2> QED BY <1>3, <2>1, StoredKept
<1>13. CASE \E j \in Jobs : External(j)
  <2>1. PICK j \in Jobs : External(j)
    BY <1>13
  <2>2. PICK a : /\ actions' = [actions EXCEPT ![j] = a]
                 /\ a = actions[j] \/ Fresh(a)
                 /\ a \in Job \cup {None, Deletion, Withdrawal}
                 /\ a \in {Deletion, Withdrawal} => actions[j] = a \/ j \in removed'
                 /\ actions[j] # None => a # None
    BY <2>1, ExternalFacts
  <2>3. store' = store /\ (disk' = disk \/ (disk = Unreadable /\ disk' = None))
    BY <2>1, ExternalFacts
  <2>4. actions'[j] = a /\ \A i \in Jobs : i # j => actions'[i] = actions[i]
    BY <2>2 DEF BaseInv, TypeOK
  <2> QED BY <1>3, <2>2, <2>3, <2>4, StoredKept
<1>5. CASE Corrupt
  <2>1. /\ store' = store /\ actions' = actions /\ disk' = Unreadable /\ damages' > 0
    BY <1>1, <1>5 DEF Corrupt
  <2> QED BY <1>3, <2>1 DEF StoredInv, NoneDropped, Grown, Has, Left, Lost
<1>6. CASE Crash
  <2>1. store' = None /\ removed' = removed /\ damages' = damages
    BY <1>6 DEF Crash
  <2>2. /\ disk' = Unreadable => disk = Unreadable
        /\ \A j \in Jobs : actions'[j] \in {actions[j], None}
    <3>1. \A j \in Jobs : NoJobs[j] = None
      BY DEF NoJobs
    <3>2. Unreadable \notin Store
      BY MarksAssumption
    <3> QED BY <1>6, <3>1, <3>2, CrashFacts
  <2> QED BY <2>1, <2>2, MarksAssumption DEF StoredInv, NoneDropped, Has
<1>7. CASE Start
  <2> DEFINE l == Load(TRUE)
             jobs == [j \in Jobs |-> IF l.store[j] # None /\ l.store[j].enabled
                                     THEN [l.store[j] EXCEPT !.next = NextRun(j, now)]
                                     ELSE l.store[j]]
  <2>1. BaseInv'
    BY <1>7, LifeBase
  <2>2. /\ Reads
        /\ IF l.store = None THEN disk' = l.disk /\ UNCHANGED <<actions, store>>
           ELSE Save(l, jobs) /\ running'
    BY <1>7 DEF Start, Reads
  <2>7. CASE l.store = None
    <3>1. l.store = store /\ l.actions = actions /\ disk = Unreadable /\ l.disk = None
      BY <1>1, <2>2, <2>7, LoadFacts
    <3> QED BY <1>3, <2>2, <2>7, <3>1, StoredKept
  <2>8. CASE l.store # None
    <3>1. l.store \in Store
      BY <1>1, <2>8, LoadFacts
    <3>2. \A j \in Jobs : l.store[j] # None => jobs[j] # None
      <4> SUFFICES ASSUME NEW j \in Jobs, l.store[j] # None PROVE jobs[j] # None
        OBVIOUS
      <4>1. l.store[j] \in Job /\ NextRun(j, now) \in Times \cup {None}
        BY <1>1, <3>1, NextRunFacts DEF Store
      <4> HIDE DEF l
      <4>2. [l.store[j] EXCEPT !.next = NextRun(j, now)] \in Job
        BY <4>1 DEF Job
      <4> QED BY <4>1, <4>2, MarksAssumption
    <3> HIDE DEF jobs, l
    <3>3. jobs \in Store
      BY <2>1, <2>2, <2>8 DEF Save, BaseInv, TypeOK
    <3> QED BY <1>3, <2>2, <2>8, <3>1, <3>2, <3>3, StoredSaved DEF l
  <2> QED BY <2>7, <2>8
<1>8. CASE Fire
  <2> DEFINE l == Load(running)
  <2>1. CASE ~running
    <3>1. store' = store /\ disk' = disk /\ actions' = actions
      BY <1>8, <2>1 DEF Fire, fileVars
    <3> QED BY <1>3, <3>1, StoredKept
  <2>2. CASE running
    <3>1. \/ Save(l, l.store)
          \/ store' = l.store /\ disk' = l.disk /\ actions' = l.actions
      BY <1>8, <2>2 DEF Fire
    <3>2. l.store \in Store
      BY <1>1, <2>2, LoadFacts DEF TypeOK
    <3>3. CASE Save(l, l.store)
      BY <1>1, <1>3, <3>2, <3>3, StoredSaved
    <3>4. CASE store' = l.store /\ disk' = l.disk /\ actions' = l.actions
      BY <1>1, <1>3, <3>4, StoredLoaded
    <3> QED BY <3>1, <3>3, <3>4
  <2> QED BY <1>1, <2>1, <2>2
<1>9. CASE List \/ \E c \in Callers, j \in Jobs, force \in BOOLEAN : RunJob(c, j, force)
  <2>1. PICK run \in BOOLEAN :
          store' = Load(run).store /\ disk' = Load(run).disk /\ actions' = Load(run).actions
    <3>1. CASE List
      BY <1>1, <3>1 DEF List
    <3>2. CASE \E c \in Callers, j \in Jobs, force \in BOOLEAN : RunJob(c, j, force)
      <4>1. store' = Load(TRUE).store /\ disk' = Load(TRUE).disk /\ actions' = Load(TRUE).actions
        BY <3>2 DEF RunJob
      <4> QED BY <4>1
    <3> QED BY <1>9, <3>1, <3>2
  <2> QED BY <1>3, <2>1, StoredLoaded
<1>10. CASE JobEnds
  <2>1. PICK j, jobs : /\ j = Head(tick.due) /\ jobs = Executed(store, j) /\ turns[j] > 0
                       /\ store' = jobs /\ disk' \in {disk, jobs} /\ actions' = actions
    <3>1. turns[Head(tick.due)] > 0
      BY <1>10 DEF JobEnds, RanInv
    <3> QED BY <1>10, <3>1 DEF JobEnds
  <2>2. store \in Store /\ tick.due \in Seq(Jobs) /\ tick.due # <<>>
    BY <1>1, <1>10 DEF JobEnds, TickInv, TickRec
  <2>3. j \in Jobs
    BY <2>1, <2>2
  <2>4. jobs \in Store
    BY <1>1, <2>1, <2>2, <2>3, ExecutedFacts
  <2> QED BY <1>1, <1>3, <2>1, <2>2, <2>3, <2>4, StoredRan
<1>11. CASE \E c \in Callers : RunJobEnds(c)
  <2>1. PICK c \in Callers : RunJobEnds(c)
    BY <1>11
  <2>2. PICK j, jobs : /\ j = calls[c].job /\ j # None /\ jobs \in {store, Executed(store, j)}
                       /\ store' = jobs /\ disk' = jobs /\ actions' = actions
    BY <2>1 DEF RunJobEnds
  <2>3. j \in Jobs /\ store \in Store /\ turns[j] > 0
    <3>1. calls[c] \in CallRec
      BY <1>1
    <3> QED BY <1>1, <2>2, <3>1 DEF CallInv, CallRec, RanInv
  <2>4. jobs \in Store
    BY <1>1, <2>2, <2>3, ExecutedFacts
  <2> QED BY <1>1, <1>3, <2>2, <2>3, <2>4, StoredRan
<1>12. CASE \E j \in Jobs : AddJob(j) \/ RemoveJob(j) \/ \E on \in BOOLEAN : EnableJob(j, on)
  <2>1. PICK j \in Jobs : AddJob(j) \/ RemoveJob(j) \/ \E on \in BOOLEAN : EnableJob(j, on)
    BY <1>12
  <2> DEFINE l == Load(running)
  <2>2. running /\ store # None /\ running = TRUE
    BY <1>1, <2>1 DEF AddJob, RemoveJob, EnableJob, Edit, TypeOK
  <2>3. l.store \in Store
    BY <1>1, <2>2, LoadFacts
  <2>4. PICK r : /\ Save(l, [l.store EXCEPT ![j] = r])
                 /\ r \in Job \/ (r = None /\ j \in removed')
    <3>1. CASE AddJob(j)
      <4>1. [enabled |-> TRUE, next |-> NextRun(j, now)] \in Job
        BY <1>1, NextRunFacts
      <4> QED BY <3>1, <4>1 DEF AddJob, Change
    <3>2. CASE RemoveJob(j)
      BY <3>2 DEF RemoveJob, Change
    <3>3. CASE \E on \in BOOLEAN : EnableJob(j, on)
      <4>1. PICK on \in BOOLEAN : EnableJob(j, on)
        BY <3>3
      <4> DEFINE s == [enabled |-> on, next |-> IF on THEN NextRun(j, now) ELSE None]
      <4>2. s \in Job
        BY NextRunOff
      <4>3. Save(l, [l.store EXCEPT ![j] = s])
        BY <4>1 DEF EnableJob, Change
      <4> HIDE DEF s, l
      <4> QED BY <4>2, <4>3
    <3> QED BY <2>1, <3>1, <3>2, <3>3
  <2>5. PICK jobs : jobs = [l.store EXCEPT ![j] = r]
    OBVIOUS
  <2>6. jobs \in Store /\ \A i \in Jobs : l.store[i] # None /\ jobs[i] = None => i \in removed'
    BY <2>3, <2>4, <2>5, MarksAssumption DEF Store
  <2>7. Save(l, jobs)
    BY <2>4, <2>5
  <2> HIDE DEF l
  <2> QED BY <1>1, <1>3, <2>6, <2>7, StoredSaved DEF l
<1> QED BY <1>4, <1>5, <1>6, <1>7, <1>8, <1>9, <1>10, <1>11, <1>12, <1>13 DEF Next, Edits, External

\* A job leaves the store only because it was removed or, being a one-time job,
\* has run, or because a file that was damaged is gone: whatever is read again,
\* merged, stopped or started in between, for any number of callers, instances,
\* crashes and damages.
THEOREM NoJobIsDropped == Spec => JobsNotDropped
<1> DEFINE Inv == BaseInv /\ RanInv /\ StoredInv
<1>1. Init => Inv
  <2> SUFFICES ASSUME Init PROVE Inv
    OBVIOUS
  <2>1. /\ tick.phase # "running" /\ store = None /\ disk = None
        /\ \A j \in Jobs : actions[j] = None
        /\ \A c \in Callers : calls[c].job = None
    BY DEF Init, NoTick, NoJobs, NoCall
  <2> QED BY <2>1, InitBase, MarksAssumption DEF RanInv, StoredInv, Has
<1>2. Inv /\ [Next]_vars => Inv'
  BY StepBase, StepRan, StepStored
<1>3. ASSUME Inv, [Next]_vars
      PROVE  [store # None /\ store' # None =>
               \A j \in Jobs : store[j] # None /\ store'[j] = None
                                => \/ j \in removed'
                                   \/ j \in OneTime /\ turns[j] > 0
                                   \/ damages > 0 /\ disk = None]_vars
  BY <1>3, StepStored DEF NoneDropped
<1> QED BY <1>1, <1>2, <1>3, PTL DEF Spec, JobsNotDropped
================================================================================
