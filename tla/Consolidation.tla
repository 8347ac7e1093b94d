---------------------------- MODULE Consolidation ----------------------------
(***************************************************************************)
(* Who shortens the log of one session: the consolidation before and after *)
(* a turn and the compaction of an idle session (agent/memory.py,          *)
(* agent/autocompact.py), the file cap at the end of a turn                *)
(* (session/manager.py) and /new (command/builtin.py).  They share the     *)
(* cached session object, its file and one lock, and wait for the model    *)
(* while they hold the lock.                                               *)
(*                                                                         *)
(* A session object outlives its place in the cache: objects are places of *)
(* a heap.  What a message weighs is left open: a consolidation may stop   *)
(* at any user message.  The model's summary and the raw dump that stands  *)
(* in for it both are an entry of history.jsonl.                           *)
(***************************************************************************)
EXTENDS Naturals, Sequences, FiniteSets

CONSTANTS
  Objects,      \* enough places for the session objects in use at a time
  Cap,          \* FILE_MAX_MESSAGES
  Suffix,       \* _RECENT_SUFFIX_MESSAGES
  Overlaps,     \* what may happen while a task waits for the model: see Overlap
  MaxMessages,  \* bound on the messages of the chat
  MaxNews,      \* bound on the uses of /new
  MaxCrashes,   \* bound on the times the process dies
  None

\* "new": /new during a background consolidation or a compaction;
\* "unlocked": a command, or the closing of an interrupted turn, during a
\* compaction; "stale": a turn begins, with the cached object, while a compaction
\* waits for the lock and will replace that object;
\* "kill": the process dies before the archive of /new is written.
Overlap == {"new", "unlocked", "stale", "kill"}

ASSUME ConsolidationAssumption ==
  /\ Cap \in Nat /\ Cap >= 2 /\ Suffix \in Nat /\ Suffix >= 1
  /\ Overlaps \subseteq Overlap
  /\ MaxMessages \in Nat /\ MaxNews \in Nat /\ MaxCrashes \in Nat
  /\ None \notin Objects

\* At most two objects are in use when a third is created.
ASSUME PlacesAssumption ==
  \A a, b \in Objects \cup {None} : \E o \in Objects : o # a /\ o # b

VARIABLES
  heap,     \* the session objects
  cache,    \* the object in SessionManager._cache
  disk,     \* the session file
  log,      \* per message, its entries in history.jsonl
  queue,    \* the consolidation lock: its holder, then its waiters
  work,     \* the tasks that want the lock, and what they do with it
  turn,     \* the step of the turn and its session object
  leaving,  \* chunks in the hands of archive tasks of /new
  said,     \* number of messages so far
  news,     \* uses of /new
  old,      \* messages said before the last /new
  unsaved,  \* per message, its entries before whose save the process died
  crashes

vars == <<heap, cache, disk, log, queue, work, turn, leaving, said, news, old, crashes, unsaved>>

Workers  == {"turn", "background", "idle"}
Message  == [n : 1..MaxMessages, who : {"user", "bot"}]
Session  == [messages : Seq(Message), done : Nat, open : BOOLEAN]
Empty    == [messages |-> <<>>, done |-> 0, open |-> FALSE]
Job      == [step : {"none", "locking", "archiving"}, object : Objects \cup {None},
             chunk : Seq(Message), keep : Seq(Message), end : Nat]
NoJob    == [step |-> "none", object |-> None, chunk |-> <<>>, keep |-> <<>>, end |-> 0]
Waiting  == [NoJob EXCEPT !.step = "locking"]
NoTurn   == [step |-> "none", object |-> None]

TypeOK ==
  /\ heap \in [Objects -> Session]
  /\ cache \in Objects \cup {None}
  /\ disk \in Session
  /\ log \in [1..MaxMessages -> Nat] /\ unsaved \in [1..MaxMessages -> Nat]
  /\ queue \in Seq(Workers) /\ \A i, j \in DOMAIN queue : queue[i] = queue[j] => i = j
  /\ work \in [Workers -> Job]
  /\ turn \in [step : {"none", "building", "running"}, object : Objects \cup {None}]
  /\ leaving \in SUBSET Seq(Message)
  /\ said \in 0..MaxMessages /\ old \in 0..said
  /\ news \in 0..MaxNews /\ crashes \in 0..MaxCrashes

Init ==
  /\ heap = [o \in Objects |-> Empty]
  /\ cache = None
  /\ disk = Empty
  /\ log = [n \in 1..MaxMessages |-> 0]
  /\ queue = <<>>
  /\ work = [w \in Workers |-> NoJob]
  /\ turn = NoTurn
  /\ leaving = {}
  /\ said = 0 /\ news = 0 /\ old = 0 /\ crashes = 0
  /\ unsaved = [n \in 1..MaxMessages |-> 0]

-----------------------------------------------------------------------------
(* The log and its cuts *)

Numbers(s)      == {s[i].n : i \in DOMAIN s}
Before(s, i)    == SubSeq(s, 1, i)
After(s, i)     == SubSeq(s, i + 1, Len(s))
Visible(x)      == After(x.messages, x.done)
Least(S)        == CHOOSE i \in S : \A j \in S : i <= j
Greatest(S)     == CHOOSE i \in S : \A j \in S : i >= j
Users(s)        == {i \in DOMAIN s : s[i].who = "user"}
Plus(f, chunk)  == [n \in DOMAIN f |-> IF n \in Numbers(chunk) THEN f[n] + 1 ELSE f[n]]
Logged(chunk)   == Plus(log, chunk)
Said(x, n, who) == [x EXCEPT !.messages = Append(@, [n |-> n, who |-> who])]

\* Ends of a chunk: before a later user message of the visible log.
Ends(x) == {i - 1 : i \in {j \in Users(x.messages) : j > x.done + 1}}

\* How many messages a suffix of at least max messages drops, when it goes
\* back to a user message (extend_to_user), and when it goes forward to one.
\* In this log a user message is next to every other.
DropsExtended(s, max) ==
  LET start == Len(s) - max + 1
      at == {i \in Users(s) : i <= start}
  IN IF Len(s) <= max THEN 0
     ELSE IF at # {} THEN Greatest(at) - 1 ELSE Least(Users(s)) - 1

DropsCapped(s) ==
  IF Len(s) <= Cap THEN 0
  ELSE Least({i \in Users(s) : i > Len(s) - Cap}) - 1

Monus(i, j) == IF i > j THEN i - j ELSE 0

Trimmed(x) ==
  LET drops == DropsCapped(x.messages) IN
  [x EXCEPT !.messages = After(@, drops), !.done = Monus(@, drops)]

\* Mutant of Overflow: the whole dropped part.
OverflowAll(x) == Before(x.messages, DropsCapped(x.messages))

\* The part the cap drops that no consolidation has archived.
Overflow(x) == SubSeq(x.messages, x.done + 1, DropsCapped(x.messages))

\* The closing note of a turn that only persisted its user message.
Unanswered(x) == x.open /\ x.messages # <<>> /\ x.messages[Len(x.messages)].who = "user"
Restored(x)   == [(IF Unanswered(x) THEN Said(x, said + 1, "bot") ELSE x) EXCEPT !.open = FALSE]
Told(x)       == IF Unanswered(x) THEN said + 1 ELSE said

-----------------------------------------------------------------------------
(* Objects, the cache and the lock *)

InUse == {cache, turn.object} \cup {work[w].object : w \in Workers}
Free  == CHOOSE o \in Objects : o \notin InUse

\* get_or_create: the cached object, or a new one with what the file holds.
\* An offset out of range is reset on the way.
Loaded   == [disk EXCEPT !.done = IF @ > Len(disk.messages) THEN 0 ELSE @]
Current  == IF cache = None THEN Free ELSE cache
Content  == IF cache = None THEN Loaded ELSE heap[cache]

Save(h, o) == heap' = h /\ cache' = o /\ disk' = h[o]

Awaiting(w) == work[w].step = "archiving"

\* The lock without one who waits for it or has it.
Without(w) ==
  IF work[w].step = "none" THEN queue
  ELSE LET i == CHOOSE i \in DOMAIN queue : queue[i] = w
       IN Before(queue, i - 1) \o After(queue, i)

-----------------------------------------------------------------------------
(* Consolidation, in a turn or in the background *)

\* The user message is saved in the object the turn began with.
Build(h) ==
  /\ Save([h EXCEPT ![turn.object] =
             [Said(@, said + 1, "user") EXCEPT !.open = TRUE]], turn.object)
  /\ turn' = [turn EXCEPT !.step = "running"]
  /\ said' = said + 1

\* With the lock, on object o: take the next chunk, or be done.
GoOn(w, h, o, d) ==
  \/ \E end \in Ends(h[o]) :
       /\ work' = [work EXCEPT ![w] =
            [step |-> "archiving", object |-> o, end |-> end, keep |-> <<>>,
             chunk |-> SubSeq(h[o].messages, h[o].done + 1, end)]]
       /\ heap' = h /\ cache' = o /\ disk' = d
       /\ UNCHANGED <<queue, turn, said>>
  \/ /\ work' = [work EXCEPT ![w] = NoJob]
     /\ queue' = Tail(queue)
     /\ IF w = "turn" THEN Build(h)
        ELSE heap' = h /\ cache' = o /\ disk' = d /\ UNCHANGED <<turn, said>>

\* maybe_consolidate_by_tokens takes the session from the cache only now.
Lock(w) ==
  /\ w \in {"turn", "background"}
  /\ work[w].step = "locking" /\ Head(queue) = w
  /\ GoOn(w, [heap EXCEPT ![Current] = Content], Current, disk)
  /\ UNCHANGED <<log, leaving, news, old, crashes, unsaved>>

Advanced(x, end) == [x EXCEPT !.done = end]

\* archive returns: a summary or a raw dump is in history.jsonl.
Consolidate(w) ==
  /\ w \in {"turn", "background"} /\ Awaiting(w)
  /\ log' = Logged(work[w].chunk)
  /\ LET o == work[w].object
         h == [heap EXCEPT ![o] = Advanced(@, work[w].end)]
     IN GoOn(w, h, o, h[o])
  /\ UNCHANGED <<leaving, news, old, crashes, unsaved>>

-----------------------------------------------------------------------------
(* Compaction of the idle session *)

\* Mutant of Compactable: any log longer than the suffix.
CompactableLonger(x) == Len(Visible(x)) > Suffix

Compactable(x) == DropsExtended(Visible(x), Suffix) > 0

\* compact_idle_session, with the lock: read the file anew, and wait.
Compact ==
  LET tail  == Visible(Loaded)
      drops == DropsExtended(tail, Suffix)
  IN /\ heap' = [heap EXCEPT ![Free] = Loaded] /\ cache' = Free
     /\ work' = [work EXCEPT !["idle"] =
          [step |-> "archiving", object |-> Free, end |-> 0,
           chunk |-> Before(tail, drops), keep |-> After(tail, drops)]]

\* check_expired skips sessions with a turn, and those it is compacting.  Its
\* task takes a free lock before any message that comes later, and waits for a
\* background consolidation that has it.
Expire ==
  /\ turn.step = "none" /\ work["idle"].step = "none"
  /\ Compactable(Content)
  /\ queue' = Append(queue, "idle")
  /\ IF queue = <<>> THEN Compact
     ELSE /\ heap' = [heap EXCEPT ![Current] = Content] /\ cache' = Current
          /\ work' = [work EXCEPT !["idle"] = Waiting]
  /\ UNCHANGED <<disk, log, turn, leaving, said, news, old, crashes, unsaved>>

BeginCompaction ==
  /\ work["idle"].step = "locking" /\ Head(queue) = "idle"
  /\ Compact
  /\ UNCHANGED <<disk, log, queue, turn, leaving, said, news, old, crashes, unsaved>>

\* Mutant of Kept: the offset is left as it was.
KeptOnly(x, keep) == [x EXCEPT !.messages = keep]

Kept(x, keep) == [x EXCEPT !.messages = keep, !.done = 0]

EndCompaction ==
  /\ Awaiting("idle")
  /\ log' = Logged(work["idle"].chunk)
  /\ LET o == work["idle"].object IN
     Save([heap EXCEPT ![o] = Kept(@, work["idle"].keep)], o)
  /\ work' = [work EXCEPT !["idle"] = NoJob]
  /\ queue' = Tail(queue)
  /\ UNCHANGED <<turn, leaving, said, news, old, crashes, unsaved>>

-----------------------------------------------------------------------------
(* Turns *)

Undisturbed(x) == Unanswered(x) /\ Awaiting("idle") => "unlocked" \in Overlaps

\* A turn that interrupts nothing: it closes the one before, then waits for
\* the lock.
BeginTurn ==
  /\ turn.step = "none" /\ said + 3 <= MaxMessages
  /\ Undisturbed(Content)
  /\ work["idle"].step = "locking" => "stale" \in Overlaps
  /\ Save([heap EXCEPT ![Current] = Restored(Content)], Current)
  /\ said' = Told(Content)
  /\ turn' = [step |-> "building", object |-> Current]
  /\ work' = [work EXCEPT !["turn"] = Waiting]
  /\ queue' = Append(queue, "turn")
  /\ UNCHANGED <<log, leaving, news, old, crashes, unsaved>>

\* A shortcut command saves its two messages without the lock.
Command ==
  /\ turn.step = "none" /\ said + 3 <= MaxMessages
  /\ Awaiting("idle") => "unlocked" \in Overlaps
  /\ LET n == Told(Content) IN
     /\ Save([heap EXCEPT ![Current] =
                Said(Said(Restored(Content), n + 1, "user"), n + 2, "bot")], Current)
     /\ said' = n + 2
  /\ UNCHANGED <<log, queue, work, turn, leaving, news, old, crashes, unsaved>>

\* The reply, the file cap, and a consolidation in the background.
EndTurn ==
  /\ turn.step = "running"
  /\ LET x == Said(heap[turn.object], said + 1, "bot") IN
     /\ log' = Logged(Overflow(x))
     /\ Save([heap EXCEPT ![turn.object] = [Trimmed(x) EXCEPT !.open = FALSE]], turn.object)
  /\ said' = said + 1
  /\ turn' = NoTurn
  /\ work' = [work EXCEPT !["background"] = Waiting]
  /\ queue' = Append(queue, "background")
  /\ UNCHANGED <<leaving, news, old, crashes, unsaved>>

\* A cancelled turn gives up its chunk and its place in the lock.
Cancelled ==
  /\ turn' = NoTurn
  /\ work' = [work EXCEPT !["turn"] = NoJob]
  /\ queue' = Without("turn")

Stop ==
  /\ turn.step # "none"
  /\ Cancelled
  /\ UNCHANGED <<heap, cache, disk, log, leaving, said, news, old, crashes, unsaved>>

\* cmd_new, in a turn of its own, or in the run loop after the turn's end.
New ==
  /\ news < MaxNews /\ said + 1 <= MaxMessages
  /\ Awaiting("background") \/ Awaiting("idle") => "new" \in Overlaps
  /\ LET x == IF turn.step = "none" THEN Restored(Content) ELSE Content
         cleared == [x EXCEPT !.messages = <<>>, !.done = 0]
     IN /\ leaving' = leaving \cup ({Visible(x)} \ {<<>>})
        /\ heap' = [heap EXCEPT ![Current] = cleared]
        /\ disk' = cleared
        /\ said' = IF turn.step = "none" THEN Told(Content) ELSE said
  /\ cache' = None
  /\ Cancelled
  /\ news' = news + 1 /\ old' = said'
  /\ UNCHANGED <<log, crashes, unsaved>>

ArchiveLeft ==
  \E chunk \in leaving :
    /\ leaving' = leaving \ {chunk}
    /\ log' = Logged(chunk)
    /\ UNCHANGED <<heap, cache, disk, queue, work, turn, said, news, old, crashes, unsaved>>

\* What dies with the process.
Dies ==
  /\ crashes < MaxCrashes
  /\ leaving # {} => "kill" \in Overlaps
  /\ crashes' = crashes + 1
  /\ heap' = [o \in Objects |-> Empty] /\ cache' = None
  /\ queue' = <<>> /\ work' = [w \in Workers |-> NoJob]
  /\ turn' = NoTurn /\ leaving' = {}
  /\ UNCHANGED <<disk, said, news, old>>

Crash == Dies /\ UNCHANGED <<log, unsaved>>

\* The process dies in Consolidate, EndCompaction or EndTurn, when the entry of
\* history.jsonl is written and the session that no longer shows the chunk is
\* not saved.
BeforeSave ==
  {work[w].chunk : w \in {v \in Workers : Awaiting(v)}}
    \cup (IF turn.step = "running" THEN {Overflow(Said(heap[turn.object], said + 1, "bot"))} ELSE {})

CrashInSave ==
  \E chunk \in BeforeSave \ {<<>>} :
    Dies /\ log' = Logged(chunk) /\ unsaved' = Plus(unsaved, chunk)

Next ==
  \/ \E w \in Workers : Lock(w) \/ Consolidate(w)
  \/ Expire \/ BeginCompaction \/ EndCompaction
  \/ BeginTurn \/ Command \/ EndTurn \/ Stop
  \/ New \/ ArchiveLeft \/ Crash \/ CrashInSave

Spec == Init /\ [][Next]_vars

\* A task that has the lock goes on, the model answers or its calls time out.
FairSpec ==
  /\ Spec
  /\ \A w \in Workers : WF_vars(Lock(w)) /\ WF_vars(Consolidate(w))
  /\ WF_vars(Expire) /\ WF_vars(BeginCompaction) /\ WF_vars(EndCompaction)
  /\ WF_vars(EndTurn) /\ WF_vars(ArchiveLeft)

-----------------------------------------------------------------------------
(* Properties *)

\* Whatever shortens the log, the model still sees a message, or it is in
\* history.jsonl or on its way there.
NothingLost ==
  \A n \in 1..said :
    \/ log[n] > 0
    \/ n \in Numbers(Visible(disk))
    \/ \E chunk \in leaving : n \in Numbers(chunk)

\* No message is archived twice, but for an archive whose session the process did
\* not live to save (memory.py:976 before :880, :1075 and :1153): what one task
\* archives, the others no longer see.
ArchivedOnce == \A n \in 1..said : log[n] <= 1 + unsaved[n]

\* What a reader expects of an archive: no message is in history.jsonl twice.
NeverTwice == \A n \in 1..said : log[n] <= 1

\* A session that is left alone comes to rest: it is compacted, and then not
\* again and again.
CompactionSettles ==
  <>[](turn.step = "none") => <>[](work["idle"].step = "none" /\ ~Compactable(disk))

\* "An out-of-range offset (corrupt metadata) would hide all history; reset
\* it" (session/manager.py:131): the offset of the session in use is in range.
OffsetInRange == cache # None => heap[cache].done <= Len(heap[cache].messages)

\* "Stop current task and start a new conversation" (docs/chat-commands.md:7):
\* what was said before /new is not seen again.
NewStartsFresh == \A n \in Numbers(Visible(disk)) : n > old

=============================================================================
