------------------------- MODULE ConsolidationProofs -------------------------
(***************************************************************************)
(* What holds of a session while turns, background consolidation, idle     *)
(* compaction, /new and kills overlap.                                     *)
(*                                                                         *)
(* Every step moves what the sessions see: it adds a message at the end,   *)
(* or it takes from the front what it archives (Flow, Archived and the     *)
(* lemma Steps, below).  From that one description follow, under the       *)
(* overlaps each allows, that no message is lost (KeptInv), that none is   *)
(* archived twice (OnceInv) and that /new starts afresh (FreshInv).  The   *)
(* types (TypeInv) need no hypothesis; that offsets are in range and that  *)
(* a task works on the session it has read (CalmInv) needs that /new does  *)
(* not come while a task works.                                            *)
(***************************************************************************)
EXTENDS Consolidation, SequenceTheorems, NaturalsInduction, WellFoundedInduction, TLAPS

-----------------------------------------------------------------------------
(* Histories and their cuts *)

\* The messages of a chat: their numbers ascend up to k, and of two in a row
\* one is a user's.
Neat(s, k) ==
  /\ s \in Seq(Message)
  /\ \A i, j \in 1..Len(s) : i < j => s[i].n < s[j].n
  /\ \A i \in 1..Len(s) : s[i].n <= k
  /\ \A i \in 1..(Len(s) - 1) : s[i].who = "user" \/ s[i + 1].who = "user"

\* A session with such messages.
Good(x, k) == x \in Session /\ Neat(x.messages, k)

\* The offset is not behind the end.
InRange(x) == x.done <= Len(x.messages)

\* The numbers the model sees.
Seen(x) == Numbers(Visible(x))

\* The last message is the user's.
Asked(s) == s # <<>> /\ s[Len(s)].who = "user"

-----------------------------------------------------------------------------
(* Types, objects and the lock *)

\* Task w is in the lock's queue q.
In(q, w) == \E i \in DOMAIN q : q[i] = w

\* A lock has each task once.
Lineup(q) == q \in Seq(Workers) /\ \A i, j \in DOMAIN q : q[i] = q[j] => i = j

\* Objects with the messages of a chat.
Sound(h, k) == h \in [Objects -> Session] /\ \A o \in Objects : Good(h[o], k)

\* The objects in memory, the file, and what compaction keeps, of one chat.
SessionInv == Sound(heap, said) /\ Good(disk, said) /\ Neat(work["idle"].keep, said)

\* A task that works or waits is in the lock, one that works is its holder and
\* has an object; a turn that is being built waits behind all others.
LockInv ==
  /\ \A w \in Workers :
       /\ work[w].step = "none" <=> ~In(queue, w)
       /\ Awaiting(w) => queue[1] = w
       /\ Awaiting(w) <=> work[w].object # None
  /\ turn.step = "building" <=> work["turn"].step # "none"
  /\ turn.step = "none" <=> turn.object = None
  /\ In(queue, "turn") => queue[Len(queue)] = "turn"

\* A turn has room for its messages.  One that runs is alone, and its reply
\* follows its message.
TurnInv ==
  /\ turn.step = "building" => said + 2 <= MaxMessages
  /\ turn.step = "running" =>
       said + 1 <= MaxMessages /\ queue = <<>> /\ Asked(heap[turn.object].messages)

\* The lock, the tasks in it and the turn.
LockType ==
  /\ Lineup(queue)
  /\ work \in [Workers -> Job]
  /\ turn \in [step : {"none", "building", "running"}, object : Objects \cup {None}]
  /\ LockInv

\* The log of archived messages, the tasks of /new and the counters.
RestType ==
  /\ cache \in Objects \cup {None}
  /\ log \in [1..MaxMessages -> Nat]
  /\ leaving \in SUBSET Seq(Message)
  /\ said \in 0..MaxMessages /\ old \in 0..said
  /\ news \in 0..MaxNews /\ crashes \in 0..MaxCrashes

\* The inductive form of TypeOK.
TypeInv == LockType /\ RestType /\ SessionInv /\ TurnInv

-----------------------------------------------------------------------------
(* Without /new beside a task *)

\* The sessions that go on from here: the file and the objects still in use.
Live     == {cache, turn.object} \ {None}
Sessions == {disk} \cup {heap[o] : o \in Live}

\* /new does not come while a task waits for its archive call.
Calm == "new" \notin Overlaps

\* A task works on the cached object; what it archives is still seen there, and
\* so is what compaction keeps.
JobsInv ==
  /\ \A w \in Workers : Awaiting(w) => work[w].object = cache
  /\ \A w \in {"turn", "background"} : Awaiting(w) =>
       LET x == heap[work[w].object] IN
       /\ x.done <= work[w].end /\ work[w].end <= Len(x.messages)
       /\ work[w].chunk = SubSeq(x.messages, x.done + 1, work[w].end)
  /\ Awaiting("idle") =>
       LET job == work["idle"]
           x   == heap[job.object] IN
       /\ Numbers(job.chunk) \cap Numbers(job.keep) = {}
       /\ Numbers(job.chunk) \cup Numbers(job.keep) \subseteq Seen(x)
       /\ "unlocked" \notin Overlaps => Seen(x) \subseteq Numbers(job.chunk) \cup Numbers(job.keep)

\* Offsets are in range, and a turn goes on beside a cached object: its own,
\* unless a compaction comes between.
RangeInv ==
  /\ \A x \in Sessions : InRange(x)
  /\ turn.step # "none" => cache # None
  /\ "stale" \notin Overlaps =>
       /\ turn.step # "none" => turn.object = cache
       /\ work["idle"].step = "locking" => turn.step = "none"

\* Both, without /new beside a task.
CalmInv == Calm => RangeInv /\ JobsInv

\* Nothing said before /new is seen.
FreshInv == Calm => \A x \in Sessions : \A n \in Seen(x) : n > old

\* The numbers in the hands of archive tasks of /new.
Left == UNION {Numbers(c) : c \in leaving}

\* Whichever session goes on, it sees what is archived nowhere.
KeptInv ==
  Overlaps \subseteq {"stale"} =>
  \A x \in Sessions : \A n \in 1..said : log[n] > 0 \/ n \in Seen(x) \/ n \in Left

\* Whichever session goes on, it sees nothing that is archived, and of what is
\* in the hands of the tasks of /new no one else has it.
OnceInv ==
  Overlaps \subseteq {"unlocked", "kill"} =>
  /\ \A n \in 1..MaxMessages : log[n] <= 1 + unsaved[n] /\ (n > said => log[n] = unsaved[n])
  /\ \A x \in Sessions : \A n \in Seen(x) : log[n] = unsaved[n] /\ n \notin Left
  /\ \A n \in Left : log[n] = unsaved[n] /\ n <= said
  /\ \A c, d \in leaving : c # d => Numbers(c) \cap Numbers(d) = {}

-----------------------------------------------------------------------------
(* Facts about histories *)

\* The least and the greatest of some numbers.
LEMMA LeastIs ==
  ASSUME NEW S, S \subseteq Nat, S # {}
  PROVE  Least(S) \in S /\ \A j \in S : Least(S) <= j
<1> DEFINE R == OpToRel(<, Nat)
<1>1. IsWellFoundedOn(R, Nat)
  BY NatLessThanWellFounded, Zenon
<1>2. \A i, j \in Nat : i < j => <<i, j>> \in R
  BY SMT DEF OpToRel
<1> HIDE DEF R
<1>3. PICK x \in S : \A y \in S : ~ (<<y, x>> \in R)
  BY <1>1, WFMin, Zenon
<1>4. ASSUME NEW y \in S PROVE x <= y
  <2>1. x \in Nat /\ y \in Nat /\ ~(y < x)
    BY <1>2, <1>3
  <2> QED BY <2>1
<1> QED BY <1>4, Zenon DEF Least

\* The greatest number of a set.
LEMMA GreatestIs ==
  ASSUME NEW k \in Nat, NEW S, S \subseteq 0..k, S # {}
  PROVE  Greatest(S) \in S /\ \A j \in S : j <= Greatest(S)
<1> DEFINE T == {k - j : j \in S}
<1>0. \A j \in S : j \in Nat /\ k - j \in Nat
  OBVIOUS
<1>1. T \subseteq Nat /\ T # {}
  BY <1>0
<1>2. Least(T) \in T /\ \A j \in T : Least(T) <= j
  BY <1>1, LeastIs
<1>3. PICK x \in S : Least(T) = k - x
  BY <1>2
<1>4. ASSUME NEW j \in S PROVE j <= x
  <2>1. k - x <= k - j
    BY <1>2, <1>3
  <2>2. j \in Nat /\ x \in Nat
    BY <1>0
  <2> QED BY <2>1, <2>2
<1> QED BY <1>4 DEF Greatest

\* A message and its number.
LEMMA MessageIs ==
  /\ \A m \in Message : m.n \in 1..MaxMessages /\ m.who \in {"user", "bot"}
  /\ \A n \in 1..MaxMessages, who \in {"user", "bot"} : [n |-> n, who |-> who] \in Message
BY DEF Message

\* A message behind a, and up to b.
Within(s, a, b, n) == \E i \in 1..Len(s) : a < i /\ i <= b /\ s[i].n = n

\* A part of a history.
LEMMA PartIs ==
  ASSUME NEW s \in Seq(Message), NEW a \in Nat, NEW b \in 0..Len(s)
  PROVE  LET q == SubSeq(s, a + 1, b) IN
         /\ q \in Seq(Message) /\ Len(q) \in Nat
         /\ Len(q) = IF a < b THEN b - a ELSE 0
         /\ \A i \in 1..Len(q) : q[i] = s[a + i]
         /\ Numbers(q) \subseteq 1..MaxMessages
         /\ \A n : n \in Numbers(q) <=> Within(s, a, b, n)
<1> DEFINE q == SubSeq(s, a + 1, b)
<1>1. Len(s) \in Nat /\ \A i \in 1..Len(s) : s[i] \in Message
  BY LenProperties, ElementOfSeq
<1>2. \A i \in (a + 1)..b : s[i] \in Message
  BY <1>1
<1>3. /\ q \in Seq(Message) /\ Len(q) = IF a + 1 <= b THEN b - (a + 1) + 1 ELSE 0
      /\ \A i \in 1..(b - (a + 1) + 1) : q[i] = s[(a + 1) + i - 1]
  BY <1>1, <1>2, SubSeqProperties
<1>4. DOMAIN q = 1..Len(q)
  BY <1>3, LenProperties
<1> HIDE DEF q
<1>5. Len(q) \in Nat /\ Len(q) = IF a < b THEN b - a ELSE 0
  BY <1>1, <1>3
<1>6. \A i \in 1..Len(q) : q[i] = s[a + i] /\ a + i \in 1..Len(s) /\ a + i <= b
  <2> SUFFICES ASSUME NEW i \in 1..Len(q) PROVE q[i] = s[a + i] /\ a + i \in 1..Len(s) /\ a + i <= b
    OBVIOUS
  <2>1. i \in 1..(b - (a + 1) + 1) /\ (a + 1) + i - 1 = a + i /\ a + i \in 1..Len(s) /\ a + i <= b
    BY <1>1, <1>5
  <2> QED BY <1>3, <2>1
<1>7. ASSUME NEW n PROVE n \in Numbers(q) <=> \E i \in 1..Len(s) : a < i /\ i <= b /\ s[i].n = n
  <2>1. ASSUME n \in Numbers(q) PROVE \E i \in 1..Len(s) : a < i /\ i <= b /\ s[i].n = n
    <3>1. PICK j \in 1..Len(q) : q[j].n = n
      BY <1>4, <2>1 DEF Numbers
    <3>2. a < a + j
      BY <1>5
    <3> QED BY <1>6, <3>1, <3>2
  <2>2. ASSUME NEW i \in 1..Len(s), a < i, i <= b, s[i].n = n PROVE n \in Numbers(q)
    <3>1. i - a \in 1..Len(q) /\ a + (i - a) = i
      BY <1>5, <2>2
    <3>2. q[i - a] = s[i]
      BY <1>6, <3>1
    <3> QED BY <1>4, <2>2, <3>1, <3>2 DEF Numbers
  <2> QED BY <2>1, <2>2
<1>8. Numbers(q) \subseteq 1..MaxMessages
  BY <1>1, <1>7, MessageIs
<1> QED BY <1>3, <1>5, <1>6, <1>7, <1>8 DEF q, Within

\* The whole and nothing.
LEMMA NumbersIs ==
  /\ Numbers(<<>>) = {}
  /\ \A s \in Seq(Message) :
       /\ Numbers(s) \subseteq 1..MaxMessages
       /\ \A n : n \in Numbers(s) <=> \E i \in 1..Len(s) : s[i].n = n
<1>1. Numbers(<<>>) = {}
  BY DEF Numbers
<1>2. ASSUME NEW s \in Seq(Message)
      PROVE  /\ Numbers(s) \subseteq 1..MaxMessages
             /\ \A n : n \in Numbers(s) <=> \E i \in 1..Len(s) : s[i].n = n
  <2>1. DOMAIN s = 1..Len(s) /\ \A i \in 1..Len(s) : s[i] \in Message
    BY LenProperties, ElementOfSeq
  <2> QED BY <2>1, MessageIs DEF Numbers
<1> QED BY <1>1, <1>2

\* A part of the messages of a chat is neat, too.
LEMMA NeatPart ==
  ASSUME NEW k \in Nat, NEW s, Neat(s, k), NEW a \in Nat, NEW b \in 0..Len(s)
  PROVE  Neat(SubSeq(s, a + 1, b), k)
<1> DEFINE q == SubSeq(s, a + 1, b)
<1>1. /\ s \in Seq(Message) /\ Len(s) \in Nat
      /\ \A i, j \in 1..Len(s) : i < j => s[i].n < s[j].n
      /\ \A i \in 1..Len(s) : s[i].n <= k
      /\ \A i \in 1..(Len(s) - 1) : s[i].who = "user" \/ s[i + 1].who = "user"
  BY LenProperties DEF Neat
<1>2. /\ q \in Seq(Message) /\ Len(q) \in Nat
      /\ Len(q) = IF a < b THEN b - a ELSE 0
      /\ \A i \in 1..Len(q) : q[i] = s[a + i]
  BY <1>1, PartIs
<1> HIDE DEF q
<1>3. ASSUME NEW i \in 1..Len(q), NEW j \in 1..Len(q), i < j PROVE q[i].n < q[j].n
  <2>1. a + i \in 1..Len(s) /\ a + j \in 1..Len(s) /\ a + i < a + j
    BY <1>1, <1>2, <1>3
  <2> QED BY <1>1, <1>2, <2>1
<1>4. ASSUME NEW i \in 1..Len(q) PROVE q[i].n <= k
  <2>1. a + i \in 1..Len(s)
    BY <1>1, <1>2
  <2> QED BY <1>1, <1>2, <2>1
<1>5. ASSUME NEW i \in 1..(Len(q) - 1) PROVE q[i].who = "user" \/ q[i + 1].who = "user"
  <2>0. a < b /\ Len(q) = b - a
    BY <1>1, <1>2
  <2>1. a + i \in 1..(Len(s) - 1) /\ i \in 1..Len(q) /\ i + 1 \in 1..Len(q) /\ a + (i + 1) = (a + i) + 1
    BY <1>1, <2>0
  <2>2. q[i] = s[a + i]
    BY <1>2, <2>1
  <2>3. q[i + 1] = s[a + (i + 1)]
    BY <1>2, <2>1
  <2>4. q[i + 1] = s[(a + i) + 1]
    BY <2>1, <2>3
  <2>5. s[a + i].who = "user" \/ s[(a + i) + 1].who = "user"
    BY <1>1, <2>1
  <2> QED BY <2>2, <2>4, <2>5
<1> QED BY <1>2, <1>3, <1>4, <1>5 DEF Neat, q

\* Two parts next to each other.
LEMMA PartsOf ==
  ASSUME NEW k \in Nat, NEW s, Neat(s, k), NEW a \in Nat, NEW b \in Nat, NEW c \in 0..Len(s), a <= b, b <= c
  PROVE  /\ Numbers(SubSeq(s, a + 1, c)) = Numbers(SubSeq(s, a + 1, b)) \cup Numbers(SubSeq(s, b + 1, c))
         /\ Numbers(SubSeq(s, a + 1, b)) \cap Numbers(SubSeq(s, b + 1, c)) = {}
<1>1. /\ s \in Seq(Message) /\ Len(s) \in Nat
      /\ \A i, j \in 1..Len(s) : i < j => s[i].n < s[j].n
      /\ \A i \in 1..Len(s) : s[i].n \in Nat
  BY LenProperties, ElementOfSeq, MessageIs DEF Neat
<1>2. \A i, j \in 1..Len(s) : s[i].n = s[j].n => i = j
  BY <1>1
<1>3. b \in 0..Len(s)
  BY <1>1
<1>4. /\ \A n : n \in Numbers(SubSeq(s, a + 1, c)) <=> \E i \in 1..Len(s) : a < i /\ i <= c /\ s[i].n = n
      /\ \A n : n \in Numbers(SubSeq(s, a + 1, b)) <=> \E i \in 1..Len(s) : a < i /\ i <= b /\ s[i].n = n
      /\ \A n : n \in Numbers(SubSeq(s, b + 1, c)) <=> \E i \in 1..Len(s) : b < i /\ i <= c /\ s[i].n = n
  <2>1. \A x \in Nat, y \in 0..Len(s) : \A n : n \in Numbers(SubSeq(s, x + 1, y)) <=> Within(s, x, y, n)
    BY <1>1, PartIs
  <2> QED BY <1>1, <1>3, <2>1 DEF Within
<1>5. \A i \in 1..Len(s) : (a < i /\ i <= c) <=> ((a < i /\ i <= b) \/ (b < i /\ i <= c))
  BY <1>1
<1>6. \A i \in 1..Len(s) : ~((a < i /\ i <= b) /\ (b < i /\ i <= c))
  BY <1>1
<1>7. ASSUME NEW n, n \in Numbers(SubSeq(s, a + 1, b)), n \in Numbers(SubSeq(s, b + 1, c)) PROVE FALSE
  <2>1. PICK i \in 1..Len(s) : a < i /\ i <= b /\ s[i].n = n
    BY <1>4, <1>7
  <2>2. PICK j \in 1..Len(s) : b < j /\ j <= c /\ s[j].n = n
    BY <1>4, <1>7
  <2>3. i = j
    BY <1>2, <2>1, <2>2
  <2> QED BY <1>6, <2>1, <2>2, <2>3
<1>8. \A n : n \in Numbers(SubSeq(s, a + 1, c)) <=>
             n \in Numbers(SubSeq(s, a + 1, b)) \/ n \in Numbers(SubSeq(s, b + 1, c))
  BY <1>4, <1>5, Zenon
<1> QED BY <1>7, <1>8, Zenon

\* A history with one message more.
Added(s, q, n, who) ==
  /\ Neat(q, n) /\ Len(q) = Len(s) + 1 /\ (Asked(q) <=> who = "user")
  /\ \A d \in 0..Len(s) : Numbers(After(q, d)) = Numbers(After(s, d)) \cup {n}

\* A message with a later number goes to the end.
LEMMA NeatAppend ==
  ASSUME NEW k \in Nat, NEW s, Neat(s, k), NEW n \in 1..MaxMessages, k < n, NEW who \in {"user", "bot"},
         who = "user" \/ s = <<>> \/ Asked(s)
  PROVE  Added(s, Append(s, [n |-> n, who |-> who]), n, who)
<1> DEFINE m == [n |-> n, who |-> who]
           q == Append(s, m)
           l == Len(s)
<1>1. /\ s \in Seq(Message) /\ l \in Nat
      /\ \A i, j \in 1..l : i < j => s[i].n < s[j].n
      /\ \A i \in 1..l : s[i].n <= k /\ s[i].n \in Nat
      /\ \A i \in 1..(l - 1) : s[i].who = "user" \/ s[i + 1].who = "user"
  BY LenProperties, ElementOfSeq, MessageIs DEF Neat
<1>2. m \in Message /\ m.n = n /\ m.who = who
  BY MessageIs
<1>3. /\ q \in Seq(Message) /\ q # <<>> /\ Len(q) = l + 1 /\ q[l + 1] = m
      /\ \A i \in 1..l : q[i] = s[i]
  BY <1>1, <1>2, AppendProperties
<1>4. l # 0 \/ s = <<>>
  BY <1>1, EmptySeq
<1>5. who = "user" \/ l = 0 \/ s[l].who = "user"
  <2>1. Len(<<>>) = 0
    BY EmptySeq
  <2> QED BY <2>1 DEF Asked
<1> HIDE DEF q, m, l
<1>6. ASSUME NEW i \in 1..(l + 1), NEW j \in 1..(l + 1), i < j PROVE q[i].n < q[j].n
  <2>1. CASE j = l + 1
    <3>1. i \in 1..l /\ q[j].n = n /\ q[i].n <= k /\ q[i].n \in Nat
      BY <1>1, <1>2, <1>3, <1>6, <2>1
    <3> QED BY <3>1
  <2>2. CASE j # l + 1
    <3>1. i \in 1..l /\ j \in 1..l
      BY <1>1, <1>6, <2>2
    <3> QED BY <1>1, <1>3, <1>6, <3>1
  <2> QED BY <2>1, <2>2
<1>7. ASSUME NEW i \in 1..(l + 1) PROVE q[i].n <= n
  <2>1. CASE i = l + 1
    BY <1>2, <1>3, <2>1
  <2>2. CASE i # l + 1
    <3>1. i \in 1..l
      BY <1>1, <2>2
    <3>2. q[i].n <= k /\ q[i].n \in Nat
      BY <1>1, <1>3, <3>1
    <3> QED BY <3>2
  <2> QED BY <2>1, <2>2
<1>8. ASSUME NEW i \in 1..l PROVE q[i].who = "user" \/ q[i + 1].who = "user"
  <2>1. CASE i = l
    BY <1>1, <1>2, <1>3, <1>5, <2>1
  <2>2. CASE i # l
    <3>1. i \in 1..(l - 1) /\ i + 1 \in 1..l
      BY <1>1, <2>2
    <3> QED BY <1>1, <1>3, <3>1
  <2> QED BY <2>1, <2>2
<1>9. Neat(q, n)
  BY <1>1, <1>3, <1>6, <1>7, <1>8 DEF Neat
<1>10. Asked(q) <=> who = "user"
  BY <1>2, <1>3 DEF Asked
<1>11. ASSUME NEW d \in 0..l PROVE Numbers(After(q, d)) = Numbers(After(s, d)) \cup {n}
  <2>1. d \in Nat /\ l \in 0..Len(s) /\ l + 1 \in 0..Len(q)
    BY <1>1, <1>3 DEF l
  <2>2. \A x : x \in Numbers(After(s, d)) <=> \E i \in 1..l : d < i /\ i <= l /\ s[i].n = x
    <3>1. \A x : x \in Numbers(SubSeq(s, d + 1, Len(s))) <=> Within(s, d, Len(s), x)
      BY <1>1, <2>1, PartIs
    <3> QED BY <3>1 DEF After, Within, l
  <2>3. \A x : x \in Numbers(After(q, d)) <=> \E i \in 1..(l + 1) : d < i /\ i <= l + 1 /\ q[i].n = x
    <3>1. Len(q) \in 0..Len(q)
      BY <1>1, <1>3
    <3>2. \A x : x \in Numbers(SubSeq(q, d + 1, Len(q))) <=> Within(q, d, Len(q), x)
      BY <1>3, <2>1, <3>1, PartIs
    <3> QED BY <1>3, <3>2 DEF After, Within
  <2>4. ASSUME NEW x \in Numbers(After(s, d)) PROVE x \in Numbers(After(q, d))
    <3>1. PICK i \in 1..l : d < i /\ i <= l /\ s[i].n = x
      BY <2>2, <2>4
    <3>2. i \in 1..(l + 1) /\ i <= l + 1 /\ q[i].n = x
      BY <1>1, <1>3, <3>1
    <3> QED BY <2>3, <3>1, <3>2
  <2>5. n \in Numbers(After(q, d))
    <3>1. l + 1 \in 1..(l + 1) /\ d < l + 1 /\ q[l + 1].n = n
      BY <1>1, <1>2, <1>3
    <3> QED BY <1>1, <2>3, <3>1
  <2>6. ASSUME NEW x \in Numbers(After(q, d)) PROVE x \in Numbers(After(s, d)) \cup {n}
    <3>1. PICK i \in 1..(l + 1) : d < i /\ i <= l + 1 /\ q[i].n = x
      BY <2>3, <2>6
    <3>2. CASE i = l + 1
      BY <1>2, <1>3, <3>1, <3>2
    <3>3. CASE i # l + 1
      <4>1. i \in 1..l /\ i <= l /\ s[i].n = x
        BY <1>1, <1>3, <3>1, <3>3
      <4> QED BY <2>2, <3>1, <4>1
    <3> QED BY <3>2, <3>3
  <2> QED BY <2>4, <2>5, <2>6
<1> QED BY <1>3, <1>9, <1>10, <1>11 DEF Added, q, m, l

\* Nothing is neat, and what is stays so as the chat goes on.
LEMMA NeatMore ==
  /\ \A k : Neat(<<>>, k)
  /\ \A k, m \in Nat : \A s : Neat(s, k) /\ k <= m => Neat(s, m)
<1>1. \A k : Neat(<<>>, k)
  <2>1. <<>> \in Seq(Message) /\ Len(<<>>) = 0
    BY EmptySeq
  <2> QED BY <2>1 DEF Neat
<1>2. ASSUME NEW k \in Nat, NEW m \in Nat, NEW s, Neat(s, k), k <= m PROVE Neat(s, m)
  <2>1. \A i \in 1..Len(s) : s[i].n <= k /\ s[i].n \in Nat
    BY <1>2, ElementOfSeq, MessageIs DEF Neat
  <2>2. \A i \in 1..Len(s) : s[i].n <= m
    BY <1>2, <2>1
  <2> QED BY <1>2, <2>2 DEF Neat
<1> QED BY <1>1, <1>2

\* Of two messages at the end one is a user's.
LEMMA UsersIs ==
  ASSUME NEW k \in Nat, NEW s, Neat(s, k)
  PROVE  /\ Users(s) \subseteq 1..Len(s) /\ Len(s) \in Nat
         /\ \A l \in 1..(Len(s) - 1) : l \in Users(s) \/ l + 1 \in Users(s)
<1>1. Len(s) \in Nat /\ DOMAIN s = 1..Len(s)
  BY LenProperties DEF Neat
<1> QED BY <1>1 DEF Users, Neat

\* The cuts drop a part of the history.
LEMMA DropsIs ==
  ASSUME NEW k \in Nat, NEW s, Neat(s, k)
  PROVE  /\ \A max \in Nat \ {0} : DropsExtended(s, max) \in 0..Len(s)
         /\ DropsCapped(s) \in 0..Len(s)
<1>1. /\ Users(s) \subseteq 1..Len(s) /\ Len(s) \in Nat
      /\ \A l \in 1..(Len(s) - 1) : l \in Users(s) \/ l + 1 \in Users(s)
  BY UsersIs
<1>2. ASSUME NEW max \in Nat \ {0} PROVE DropsExtended(s, max) \in 0..Len(s)
  <2> DEFINE start == Len(s) - max + 1
             at == {i \in Users(s) : i <= start}
  <2>1. CASE Len(s) <= max
    BY <1>1, <2>1 DEF DropsExtended
  <2>2. CASE ~(Len(s) <= max) /\ at # {}
    <3>1. at \subseteq 0..Len(s)
      BY <1>1
    <3>2. Greatest(at) \in at
      BY <1>1, <2>2, <3>1, GreatestIs
    <3>3. Greatest(at) \in 1..Len(s)
      BY <1>1, <3>2
    <3> QED BY <1>1, <2>2, <3>3 DEF DropsExtended
  <2>3. CASE ~(Len(s) <= max) /\ at = {}
    <3>1. 1 \in 1..(Len(s) - 1)
      BY <1>1, <2>3
    <3>2. Users(s) # {} /\ Users(s) \subseteq Nat
      BY <1>1, <3>1
    <3>3. Least(Users(s)) \in 1..Len(s)
      BY <1>1, <3>2, LeastIs
    <3> QED BY <1>1, <2>3, <3>3 DEF DropsExtended
  <2> QED BY <2>1, <2>2, <2>3
<1>3. DropsCapped(s) \in 0..Len(s)
  <2> DEFINE at == {i \in Users(s) : i > Len(s) - Cap}
  <2>1. CASE Len(s) <= Cap
    BY <1>1, <2>1 DEF DropsCapped
  <2>2. CASE ~(Len(s) <= Cap)
    <3>1. Cap \in Nat /\ Cap >= 2
      BY ConsolidationAssumption
    <3>2. Len(s) - 1 \in 1..(Len(s) - 1) /\ (Len(s) - 1) + 1 = Len(s)
          /\ Len(s) - 1 > Len(s) - Cap /\ Len(s) > Len(s) - Cap
      BY <1>1, <2>2, <3>1
    <3>3. at # {} /\ at \subseteq Nat
      BY <1>1, <3>2
    <3>4. Least(at) \in 1..Len(s)
      BY <1>1, <3>3, LeastIs
    <3> QED BY <1>1, <2>2, <3>4 DEF DropsCapped
  <2> QED BY <2>1, <2>2
<1> QED BY <1>2, <1>3

-----------------------------------------------------------------------------
(* Facts about sessions *)

\* The fields of a session.
LEMMA SessionIs ==
  /\ \A x \in Session : x.messages \in Seq(Message) /\ x.done \in Nat /\ x.open \in BOOLEAN
  /\ \A m \in Seq(Message), d \in Nat, b \in BOOLEAN : [messages |-> m, done |-> d, open |-> b] \in Session
BY DEF Session

\* What the model sees.
LEMMA SeenIs ==
  ASSUME NEW k \in Nat, NEW x, Good(x, k)
  PROVE  /\ Neat(Visible(x), k) /\ Visible(x) \in Seq(Message)
         /\ Seen(x) = Numbers(SubSeq(x.messages, x.done + 1, Len(x.messages)))
         /\ Seen(x) \subseteq 1..MaxMessages /\ \A n \in Seen(x) : n <= k
<1>1. x.messages \in Seq(Message) /\ x.done \in Nat /\ Len(x.messages) \in 0..Len(x.messages)
  BY SessionIs, LenProperties DEF Good
<1>2. Neat(Visible(x), k)
  BY <1>1, NeatPart DEF Good, Visible, After
<1>3. Visible(x) \in Seq(Message)
  BY <1>2 DEF Neat
<1>4. \A n \in Seen(x) : n <= k
  BY <1>2, <1>3, NumbersIs DEF Seen, Neat
<1>5. Seen(x) \subseteq 1..MaxMessages
  BY <1>3, NumbersIs DEF Seen
<1> QED BY <1>2, <1>3, <1>4, <1>5 DEF Seen, Visible, After

\* Messages said later do not matter.
LEMMA GoodMore == \A k, m \in Nat : \A x : Good(x, k) /\ k <= m => Good(x, m)
BY NeatMore DEF Good

\* A session with the messages and the offset of another.
Same(x, y) == y \in Session /\ y.messages = x.messages /\ y.done = x.done

\* Copies with the same messages and offset.
LEMMA SameIs ==
  ASSUME NEW k, NEW x, NEW y, Same(x, y)
  PROVE  /\ Good(x, k) => Good(y, k)
         /\ Seen(y) = Seen(x) /\ (InRange(x) <=> InRange(y))
BY DEF Same, Good, Seen, Visible, InRange

\* Whether a turn is open is not seen.
LEMMA OpenIs ==
  ASSUME NEW x \in Session, NEW b \in BOOLEAN
  PROVE  Same(x, [x EXCEPT !.open = b])
BY DEF Session, Same

\* A session with the messages of another and maybe more behind them.
Longer(x, y) ==
  /\ y.done = x.done /\ Len(x.messages) <= Len(y.messages)
  /\ \A i \in 1..Len(x.messages) : y.messages[i] = x.messages[i]

\* To grow is transitive.
LEMMA LongerIs ==
  ASSUME NEW x \in Session, NEW y \in Session
  PROVE  /\ Same(x, y) => Longer(x, y)
         /\ \A z \in Session : Longer(x, y) /\ Longer(y, z) => Longer(x, z)
<1>1. Len(x.messages) \in Nat /\ Len(y.messages) \in Nat
  BY SessionIs, LenProperties
<1>2. Same(x, y) => Longer(x, y)
  BY <1>1 DEF Same, Longer
<1>3. ASSUME NEW z \in Session, Longer(x, y), Longer(y, z) PROVE Longer(x, z)
  <2>1. Len(z.messages) \in Nat
    BY SessionIs, LenProperties
  <2>2. \A i \in 1..Len(x.messages) : i \in 1..Len(y.messages)
    BY <1>1, <1>3 DEF Longer
  <2> QED BY <1>1, <1>3, <2>1, <2>2 DEF Longer
<1> QED BY <1>2, <1>3

\* A chunk is still the same one.
LEMMA ChunkIs ==
  ASSUME NEW x \in Session, NEW y \in Session, Longer(x, y), NEW end \in Nat, end <= Len(x.messages)
  PROVE  SubSeq(y.messages, y.done + 1, end) = SubSeq(x.messages, x.done + 1, end)
<1> DEFINE d == x.done
           s == x.messages
           t == y.messages
           q == SubSeq(s, d + 1, end)
           r == SubSeq(t, d + 1, end)
<1>1. s \in Seq(Message) /\ t \in Seq(Message) /\ d \in Nat /\ Len(s) \in Nat /\ Len(t) \in Nat
  BY SessionIs, LenProperties
<1>2. y.done = d /\ Len(s) <= Len(t) /\ \A i \in 1..Len(s) : t[i] = s[i]
  BY DEF Longer
<1>3. end \in 0..Len(s) /\ end \in 0..Len(t)
  BY <1>1, <1>2
<1> HIDE DEF d, s, t
<1>4. /\ q \in Seq(Message) /\ Len(q) = IF d < end THEN end - d ELSE 0
      /\ \A i \in 1..Len(q) : q[i] = s[d + i]
  BY <1>1, <1>3, PartIs
<1>5. /\ r \in Seq(Message) /\ Len(r) = IF d < end THEN end - d ELSE 0
      /\ \A i \in 1..Len(r) : r[i] = t[d + i]
  BY <1>1, <1>3, PartIs
<1> HIDE DEF q, r
<1>6. ASSUME NEW i \in 1..Len(q) PROVE q[i] = r[i]
  <2>1. d + i \in 1..Len(s) /\ i \in 1..Len(r)
    BY <1>1, <1>3, <1>4, <1>5
  <2> QED BY <1>2, <1>4, <1>5, <2>1
<1>7. q = r
  BY <1>4, <1>5, <1>6, SeqEqual
<1> QED BY <1>2, <1>7 DEF q, r, d, s, t

\* A session with a further message.
More(x, y, n) ==
  /\ Good(y, n) /\ Longer(x, y)
  /\ InRange(x) => InRange(y) /\ Seen(y) = Seen(x) \cup {n}

\* What saying something adds.
LEMMA SaidIs ==
  ASSUME NEW k \in Nat, NEW x, Good(x, k), NEW n \in 1..MaxMessages, k < n, NEW who \in {"user", "bot"},
         who = "user" \/ x.messages = <<>> \/ Asked(x.messages)
  PROVE  /\ More(x, Said(x, n, who), n)
         /\ Said(x, n, who).messages # <<>> /\ (Asked(Said(x, n, who).messages) <=> who = "user")
<1> DEFINE q == Append(x.messages, [n |-> n, who |-> who])
           y == Said(x, n, who)
<1>1. x \in Session /\ x.messages \in Seq(Message) /\ x.done \in Nat /\ Neat(x.messages, k)
      /\ Len(x.messages) \in Nat
  BY SessionIs, LenProperties DEF Good
<1>2. /\ Neat(q, n) /\ Len(q) = Len(x.messages) + 1 /\ (Asked(q) <=> who = "user")
      /\ \A d \in 0..Len(x.messages) : Numbers(After(q, d)) = Numbers(After(x.messages, d)) \cup {n}
  <2>1. Added(x.messages, q, n, who)
    BY <1>1, NeatAppend
  <2> HIDE DEF q
  <2> QED BY <2>1 DEF Added
<1>3. y \in Session /\ y.messages = q /\ y.done = x.done
  <2>1. q \in Seq(Message)
    BY <1>2 DEF Neat
  <2> HIDE DEF q
  <2>2. y = [x EXCEPT !.messages = q]
    BY DEF Said, q
  <2> QED BY <1>1, <2>1, <2>2 DEF Session
<1> HIDE DEF q, y
<1>4. Good(y, n)
  BY <1>2, <1>3 DEF Good
<1>5. ASSUME InRange(x) PROVE InRange(y) /\ Seen(y) = Seen(x) \cup {n}
  <2>1. x.done \in 0..Len(x.messages) /\ x.done <= Len(q)
    BY <1>1, <1>2, <1>5 DEF InRange
  <2> QED BY <1>2, <1>3, <2>1 DEF InRange, Seen, Visible
<1>6. q # <<>>
  <2>1. Len(<<>>) = 0
    BY EmptySeq
  <2> QED BY <1>1, <1>2, <2>1
<1>7. Longer(x, y)
  <2>1. [n |-> n, who |-> who] \in Message
    BY MessageIs
  <2>2. \A i \in 1..Len(x.messages) : q[i] = x.messages[i]
    BY <1>1, <2>1, AppendProperties DEF q
  <2> QED BY <1>1, <1>2, <1>3, <2>2 DEF Longer
<1> QED BY <1>2, <1>3, <1>4, <1>5, <1>6, <1>7 DEF More, y

\* The offset advances to the end of a chunk.
LEMMA AdvancedIs ==
  ASSUME NEW k \in Nat, NEW x, Good(x, k), NEW end \in Nat
  PROVE  /\ Good(Advanced(x, end), k)
         /\ x.done <= end /\ end <= Len(x.messages) =>
              LET chunk == SubSeq(x.messages, x.done + 1, end) IN
              /\ InRange(Advanced(x, end))
              /\ Seen(x) = Numbers(chunk) \cup Seen(Advanced(x, end))
              /\ Numbers(chunk) \cap Seen(Advanced(x, end)) = {}
<1> DEFINE y == Advanced(x, end)
<1>1. x \in Session /\ x.messages \in Seq(Message) /\ x.done \in Nat /\ Neat(x.messages, k)
      /\ Len(x.messages) \in Nat
  BY SessionIs, LenProperties DEF Good
<1>2. y \in Session /\ y.messages = x.messages /\ y.done = end
  BY <1>1 DEF Advanced, Session
<1>3. Good(y, k)
  BY <1>1, <1>2 DEF Good
<1>4. ASSUME x.done <= end, end <= Len(x.messages)
      PROVE  LET chunk == SubSeq(x.messages, x.done + 1, end) IN
             /\ InRange(y) /\ Seen(x) = Numbers(chunk) \cup Seen(y) /\ Numbers(chunk) \cap Seen(y) = {}
  <2>1. Seen(x) = Numbers(SubSeq(x.messages, x.done + 1, Len(x.messages)))
    BY SeenIs
  <2>2. Seen(y) = Numbers(SubSeq(x.messages, end + 1, Len(x.messages)))
    BY <1>2, <1>3, SeenIs
  <2>3. Len(x.messages) \in 0..Len(x.messages)
    BY <1>1
  <2>4. /\ Numbers(SubSeq(x.messages, x.done + 1, Len(x.messages))) =
             Numbers(SubSeq(x.messages, x.done + 1, end)) \cup Numbers(SubSeq(x.messages, end + 1, Len(x.messages)))
        /\ Numbers(SubSeq(x.messages, x.done + 1, end)) \cap Numbers(SubSeq(x.messages, end + 1, Len(x.messages))) = {}
    BY <1>1, <1>4, <2>3, PartsOf
  <2> QED BY <1>2, <1>4, <2>1, <2>2, <2>4 DEF InRange
<1> QED BY <1>3, <1>4 DEF y

\* The file cap drops what is archived before.
LEMMA TrimmedIs ==
  ASSUME NEW k \in Nat, NEW x, Good(x, k)
  PROVE  /\ Good(Trimmed(x), k) /\ (InRange(x) => InRange(Trimmed(x)))
         /\ Seen(x) = Numbers(Overflow(x)) \cup Seen(Trimmed(x))
         /\ Numbers(Overflow(x)) \cap Seen(Trimmed(x)) = {}
         /\ Overflow(x) \in Seq(Message)
<1> DEFINE y == Trimmed(x)
           drops == DropsCapped(x.messages)
           l == Len(x.messages)
<1>1. x \in Session /\ x.messages \in Seq(Message) /\ x.done \in Nat /\ Neat(x.messages, k) /\ l \in Nat
  BY SessionIs, LenProperties DEF Good
<1>2. drops \in 0..l
  BY <1>1, DropsIs
<1>3. Neat(After(x.messages, drops), k) /\ After(x.messages, drops) \in Seq(Message)
      /\ Len(After(x.messages, drops)) = l - drops
  <2>1. Neat(After(x.messages, drops), k)
    <3>1. drops \in Nat /\ l \in 0..Len(x.messages)
      BY <1>1, <1>2
    <3> QED BY <1>1, <3>1, NeatPart DEF After
  <2>2. Len(After(x.messages, drops)) = IF drops < l THEN l - drops ELSE 0
    <3>1. drops \in Nat /\ l \in 0..Len(x.messages)
      BY <1>1, <1>2
    <3> QED BY <1>1, <3>1, PartIs DEF After
  <2> QED BY <1>1, <1>2, <2>1, <2>2 DEF Neat
<1> HIDE DEF drops, l
<1>4. y \in Session /\ y.messages = After(x.messages, drops)
      /\ y.done = IF x.done > drops THEN x.done - drops ELSE 0
  <2>1. y = [x EXCEPT !.messages = After(x.messages, drops), !.done = Monus(x.done, drops)]
    BY <1>1 DEF Trimmed, drops, Session
  <2>2. Monus(x.done, drops) \in Nat /\ Monus(x.done, drops) = IF x.done > drops THEN x.done - drops ELSE 0
    BY <1>1, <1>2 DEF Monus
  <2> QED BY <1>1, <1>3, <2>1, <2>2 DEF Session
<1>5. Good(y, k) /\ (InRange(x) => InRange(y))
  BY <1>1, <1>2, <1>3, <1>4 DEF Good, InRange, l
<1>6. Overflow(x) \in Seq(Message) /\ Overflow(x) = SubSeq(x.messages, x.done + 1, drops)
  <2>1. drops \in 0..Len(x.messages)
    BY <1>2 DEF l
  <2> QED BY <1>1, <2>1, PartIs DEF Overflow, drops
<1>7. Seen(y) = Numbers(SubSeq(x.messages, (IF x.done > drops THEN x.done ELSE drops) + 1, l))
  <2> DEFINE q == After(x.messages, drops)
  <2>1. /\ \A i \in 1..Len(q) : q[i] = x.messages[drops + i]
        /\ q \in Seq(Message) /\ Len(q) = l - drops
    <3>1. drops \in Nat /\ l \in 0..Len(x.messages)
      BY <1>1, <1>2 DEF l
    <3> QED BY <1>1, <1>3, <3>1, PartIs DEF After, l
  <2> HIDE DEF q
  <2>2. Len(q) \in 0..Len(q) /\ y.done \in Nat
    BY <1>1, <1>2, <1>4, <2>1
  <2>3. \A n : n \in Seen(y) <=> Within(q, y.done, Len(q), n)
    <3>1. Seen(y) = Numbers(SubSeq(q, y.done + 1, Len(q)))
      BY <1>4, <1>5, SeenIs DEF q
    <3> QED BY <2>1, <2>2, <3>1, PartIs
  <2> DEFINE a == IF x.done > drops THEN x.done ELSE drops
  <2>4. a \in Nat /\ y.done + drops = a
    BY <1>1, <1>2, <1>4
  <2> HIDE DEF a
  <2>5. \A n : n \in Numbers(SubSeq(x.messages, a + 1, l)) <=> Within(x.messages, a, l, n)
    <3>1. l \in 0..Len(x.messages)
      BY <1>1 DEF l
    <3> QED BY <1>1, <2>4, <3>1, PartIs
  <2>6. ASSUME NEW n, Within(q, y.done, Len(q), n) PROVE Within(x.messages, a, l, n)
    <3>1. PICK i \in 1..Len(q) : y.done < i /\ i <= Len(q) /\ q[i].n = n
      BY <2>6 DEF Within
    <3>2. drops + i \in 1..l /\ a < drops + i /\ drops + i <= l
      BY <1>1, <1>2, <2>1, <2>2, <2>4, <3>1
    <3>3. x.messages[drops + i].n = n
      BY <2>1, <3>1
    <3> QED BY <3>2, <3>3 DEF Within, l
  <2>7. ASSUME NEW n, Within(x.messages, a, l, n) PROVE Within(q, y.done, Len(q), n)
    <3>1. PICK i \in 1..l : a < i /\ i <= l /\ x.messages[i].n = n
      BY <2>7 DEF Within, l
    <3>2. i - drops \in 1..Len(q) /\ y.done < i - drops /\ drops + (i - drops) = i
      BY <1>1, <1>2, <2>1, <2>2, <2>4, <3>1
    <3>3. q[i - drops].n = n
      BY <2>1, <3>1, <3>2
    <3> QED BY <3>2, <3>3 DEF Within
  <2> QED BY <2>3, <2>5, <2>6, <2>7 DEF a
<1>8. Seen(x) = Numbers(SubSeq(x.messages, x.done + 1, l))
  BY SeenIs DEF l
<1>9. CASE x.done > drops
  <2>1. Numbers(Overflow(x)) = {}
    <3>1. Overflow(x) = <<>>
      <4>1. Len(Overflow(x)) = 0
        <5>1. drops \in 0..Len(x.messages)
          BY <1>2 DEF l
        <5>2. Len(Overflow(x)) = IF x.done < drops THEN drops - x.done ELSE 0
          BY <1>1, <1>6, <5>1, PartIs
        <5> QED BY <1>1, <1>2, <1>9, <5>2
      <4> QED BY <1>6, <4>1, EmptySeq
    <3> QED BY <3>1, NumbersIs
  <2> QED BY <1>5, <1>6, <1>7, <1>8, <1>9, <2>1
<1>10. CASE ~(x.done > drops)
  <2>1. x.done <= drops /\ drops \in Nat /\ drops <= l /\ l \in 0..Len(x.messages)
    BY <1>1, <1>2, <1>10 DEF l
  <2>2. /\ Numbers(SubSeq(x.messages, x.done + 1, l)) =
             Numbers(SubSeq(x.messages, x.done + 1, drops)) \cup Numbers(SubSeq(x.messages, drops + 1, l))
        /\ Numbers(SubSeq(x.messages, x.done + 1, drops)) \cap Numbers(SubSeq(x.messages, drops + 1, l)) = {}
    BY <1>1, <2>1, PartsOf
  <2> QED BY <1>5, <1>6, <1>7, <1>8, <1>10, <2>2
<1> QED BY <1>9, <1>10

\* A session whose messages are replaced.
LEMMA KeptIs ==
  ASSUME NEW k \in Nat, NEW x \in Session, NEW s, Neat(s, k)
  PROVE  Good(Kept(x, s), k) /\ InRange(Kept(x, s)) /\ Seen(Kept(x, s)) = Numbers(s)
<1>1. s \in Seq(Message) /\ Len(s) \in Nat
  BY LenProperties DEF Neat
<1>2. Kept(x, s) \in Session /\ Kept(x, s).messages = s /\ Kept(x, s).done = 0
  BY <1>1 DEF Kept, Session
<1>3. Good(Kept(x, s), k) /\ InRange(Kept(x, s))
  BY <1>1, <1>2 DEF Good, InRange
<1>4. Seen(Kept(x, s)) = Numbers(SubSeq(s, 1, Len(s)))
  BY <1>2, <1>3, SeenIs
<1> QED BY <1>1, <1>3, <1>4, SubSeqFull

\* Without messages there is nothing to see.
LEMMA ClearedIs ==
  ASSUME NEW k \in Nat, NEW x \in Session
  PROVE  LET y == [x EXCEPT !.messages = <<>>, !.done = 0] IN
         Good(y, k) /\ InRange(y) /\ Seen(y) = {}
<1>1. Neat(<<>>, k)
  BY NeatMore
<1>2. Good(Kept(x, <<>>), k) /\ InRange(Kept(x, <<>>)) /\ Seen(Kept(x, <<>>)) = {}
  BY <1>1, KeptIs, NumbersIs
<1> QED BY <1>2, Zenon DEF Kept

\* A session without messages.
LEMMA EmptyIs == \A k \in Nat : Good(Empty, k) /\ InRange(Empty) /\ Seen(Empty) = {}
<1>1. <<>> \in Seq(Message) /\ Len(<<>>) = 0
  BY EmptySeq
<1>2. Empty \in Session /\ Empty.messages = <<>> /\ Empty.done = 0
  BY <1>1, SessionIs DEF Empty
<1>3. SubSeq(<<>>, 0 + 1, Len(<<>>)) = <<>>
  BY <1>1, SubSeqFull
<1> HIDE DEF Empty
<1>4. ASSUME NEW k \in Nat PROVE Good(Empty, k) /\ InRange(Empty) /\ Seen(Empty) = {}
  <2>1. Good(Empty, k) /\ InRange(Empty)
    BY <1>1, <1>2, NeatMore DEF Good, InRange
  <2>2. Visible(Empty) = <<>>
    BY <1>2, <1>3 DEF Visible, After
  <2> QED BY <2>1, <2>2, NumbersIs DEF Seen
<1> QED BY <1>4

\* What compaction archives and keeps.
LEMMA CompactIs ==
  ASSUME NEW k \in Nat, NEW x, Good(x, k)
  PROVE  LET tail  == Visible(x)
             drops == DropsExtended(tail, Suffix)
         IN  /\ Before(tail, drops) \in Seq(Message) /\ \A n \in Numbers(Before(tail, drops)) : n <= k
             /\ Neat(After(tail, drops), k)
             /\ Seen(x) = Numbers(Before(tail, drops)) \cup Numbers(After(tail, drops))
             /\ Numbers(Before(tail, drops)) \cap Numbers(After(tail, drops)) = {}
<1> DEFINE tail  == Visible(x)
           drops == DropsExtended(tail, Suffix)
<1>1. /\ Neat(tail, k) /\ tail \in Seq(Message) /\ Len(tail) \in Nat
      /\ \A n \in Numbers(tail) : n <= k
  BY SeenIs, LenProperties DEF Seen
<1>2. drops \in 0..Len(tail)
  BY <1>1, DropsIs, ConsolidationAssumption
<1> HIDE DEF tail, drops
<1>3. drops \in Nat /\ 0 <= drops /\ drops <= Len(tail) /\ Len(tail) \in 0..Len(tail)
  BY <1>1, <1>2
<1>4. Neat(After(tail, drops), k)
  BY <1>1, <1>3, NeatPart DEF After
<1>5. Before(tail, drops) = SubSeq(tail, 0 + 1, drops) /\ After(tail, drops) = SubSeq(tail, drops + 1, Len(tail))
  BY DEF Before, After
<1>6. SubSeq(tail, 0 + 1, Len(tail)) = tail
  BY <1>1, SubSeqFull
<1>7. Before(tail, drops) \in Seq(Message)
  BY <1>1, <1>2, <1>5, PartIs
<1>8. /\ Numbers(tail) = Numbers(Before(tail, drops)) \cup Numbers(After(tail, drops))
      /\ Numbers(Before(tail, drops)) \cap Numbers(After(tail, drops)) = {}
  <2>1. /\ Numbers(SubSeq(tail, 0 + 1, Len(tail))) =
             Numbers(SubSeq(tail, 0 + 1, drops)) \cup Numbers(SubSeq(tail, drops + 1, Len(tail)))
        /\ Numbers(SubSeq(tail, 0 + 1, drops)) \cap Numbers(SubSeq(tail, drops + 1, Len(tail))) = {}
    BY <1>1, <1>3, PartsOf
  <2> QED BY <1>5, <1>6, <2>1
<1> QED BY <1>1, <1>4, <1>7, <1>8 DEF Seen, tail, drops

\* The closing note, if there is one.
LEMMA RestoredIs ==
  ASSUME said \in Nat, NEW x, Good(x, said), said + 1 <= MaxMessages
  PROVE  LET y == Restored(x) IN
         /\ Told(x) \in said..(said + 1) /\ Good(y, Told(x)) /\ Longer(x, y)
         /\ InRange(x) => InRange(y) /\ Seen(y) = Seen(x) \cup ((said + 1)..Told(x))
         /\ ~Unanswered(x) => Told(x) = said
<1>1. MaxMessages \in Nat
  BY ConsolidationAssumption
<1>2. CASE Unanswered(x)
  <2> DEFINE z == Said(x, said + 1, "bot")
  <2>1. Asked(x.messages) /\ said + 1 \in 1..MaxMessages
    BY <1>1, <1>2 DEF Unanswered, Asked
  <2>2. More(x, z, said + 1)
    BY <2>1, SaidIs
  <2> HIDE DEF z
  <2>3. Good(z, said + 1) /\ Longer(x, z) /\ (InRange(x) => InRange(z) /\ Seen(z) = Seen(x) \cup {said + 1})
    BY <2>2 DEF More
  <2>4. Restored(x) = [z EXCEPT !.open = FALSE] /\ Told(x) = said + 1
    BY <1>2 DEF Restored, Told, z
  <2>5. Same(z, Restored(x))
    BY <2>3, <2>4, OpenIs DEF Good
  <2>6. (said + 1)..Told(x) = {said + 1}
    BY <2>4
  <2>7. Good(Restored(x), said + 1) /\ Seen(Restored(x)) = Seen(z) /\ (InRange(z) <=> InRange(Restored(x)))
    BY <2>3, <2>5, SameIs
  <2>8. InRange(x) => InRange(Restored(x)) /\ Seen(Restored(x)) = Seen(x) \cup ((said + 1)..Told(x))
    BY <2>3, <2>6, <2>7
  <2>9. Told(x) \in said..(said + 1) /\ Good(Restored(x), Told(x))
    BY <2>4, <2>7
  <2>10. Longer(x, Restored(x))
    BY <2>3, <2>5, <2>7, LongerIs DEF Good
  <2> QED BY <1>2, <2>8, <2>9, <2>10
<1>3. CASE ~Unanswered(x)
  <2>1. Restored(x) = [x EXCEPT !.open = FALSE] /\ Told(x) = said
    BY <1>3 DEF Restored, Told
  <2>2. Same(x, Restored(x))
    BY <2>1, OpenIs DEF Good
  <2>3. (said + 1)..Told(x) = {}
    BY <2>1
  <2>4. Good(Restored(x), said) /\ Seen(Restored(x)) = Seen(x) /\ (InRange(x) <=> InRange(Restored(x)))
    BY <2>2, SameIs
  <2>5. InRange(x) => InRange(Restored(x)) /\ Seen(Restored(x)) = Seen(x) \cup ((said + 1)..Told(x))
    BY <2>3, <2>4
  <2>6. Told(x) \in said..(said + 1) /\ Good(Restored(x), Told(x))
    BY <2>1, <2>4
  <2>7. Longer(x, Restored(x))
    BY <2>2, <2>4, LongerIs DEF Good
  <2> QED BY <2>1, <2>5, <2>6, <2>7
<1> QED BY <1>2, <1>3

\* What the cache finds on disk.
LEMMA LoadedIs ==
  ASSUME NEW k \in Nat, Good(disk, k)
  PROVE  /\ Good(Loaded, k) /\ InRange(Loaded)
         /\ InRange(disk) => Seen(Loaded) = Seen(disk)
<1>1. disk \in Session /\ disk.messages \in Seq(Message) /\ disk.done \in Nat /\ Len(disk.messages) \in Nat
  BY SessionIs, LenProperties DEF Good
<1> DEFINE d == IF disk.done > Len(disk.messages) THEN 0 ELSE disk.done
<1>2. d \in Nat /\ Loaded = [disk EXCEPT !.done = d]
  BY <1>1 DEF Loaded
<1> HIDE DEF d
<1>3. Loaded \in Session /\ Loaded.messages = disk.messages /\ Loaded.done = d
  BY <1>1, <1>2 DEF Session
<1>4. Good(Loaded, k) /\ InRange(Loaded)
  BY <1>1, <1>3 DEF Good, InRange, d
<1>5. InRange(disk) => Same(disk, Loaded)
  BY <1>1, <1>3 DEF InRange, Same, d
<1> QED BY <1>4, <1>5, SameIs

-----------------------------------------------------------------------------
(* Facts about the lock *)

\* A task that joins the lock.
LEMMA LineupAppend ==
  ASSUME NEW q, Lineup(q), NEW w \in Workers, ~In(q, w)
  PROVE  LET r == Append(q, w) IN
         /\ Lineup(r) /\ r # <<>> /\ r[Len(r)] = w
         /\ \A v : In(r, v) <=> In(q, v) \/ v = w
         /\ q = <<>> => r[1] = w
         /\ q # <<>> => r[1] = q[1]
<1> DEFINE r == Append(q, w)
<1>1. q \in Seq(Workers) /\ Len(q) \in Nat /\ DOMAIN q = 1..Len(q)
  BY LenProperties DEF Lineup
<1>2. /\ r \in Seq(Workers) /\ r # <<>> /\ Len(r) = Len(q) + 1 /\ DOMAIN r = 1..Len(r)
      /\ \A i \in 1..Len(q) : r[i] = q[i]
      /\ r[Len(q) + 1] = w
  BY <1>1, AppendProperties, LenProperties
<1> HIDE DEF r
<1>3. \A i, j \in DOMAIN r : r[i] = r[j] => i = j
  <2> SUFFICES ASSUME NEW i \in DOMAIN r, NEW j \in DOMAIN r, r[i] = r[j] PROVE i = j
    OBVIOUS
  <2>1. CASE i \in 1..Len(q) /\ j \in 1..Len(q)
    BY <1>1, <1>2, <2>1 DEF Lineup
  <2>2. CASE i \notin 1..Len(q) \/ j \notin 1..Len(q)
    BY <1>1, <1>2, <2>2 DEF In
  <2> QED BY <2>1, <2>2
<1>4. ASSUME NEW v PROVE In(r, v) <=> In(q, v) \/ v = w
  <2>1. \A i \in 1..(Len(q) + 1) : i \in 1..Len(q) \/ i = Len(q) + 1
    BY <1>1
  <2>2. \A i \in 1..Len(q) : i \in 1..(Len(q) + 1)
    BY <1>1
  <2>3. Len(q) + 1 \in 1..(Len(q) + 1)
    BY <1>1
  <2> QED BY <1>1, <1>2, <2>1, <2>2, <2>3 DEF In
<1>5. q = <<>> => r[1] = w
  BY <1>2, EmptySeq
<1>6. q # <<>> => r[1] = q[1]
  <2>1. q # <<>> => 1 \in 1..Len(q)
    BY <1>1, EmptySeq
  <2> QED BY <1>2, <2>1
<1> QED BY <1>2, <1>3, <1>4, <1>5, <1>6 DEF Lineup, r

\* The holder leaves the lock.
LEMMA LineupTail ==
  ASSUME NEW q, Lineup(q), q # <<>>
  PROVE  LET r == Tail(q) IN
         /\ Lineup(r) /\ Head(q) = q[1] /\ q[1] \in Workers
         /\ \A v : In(r, v) <=> In(q, v) /\ v # q[1]
         /\ r # <<>> => r[Len(r)] = q[Len(q)]
         /\ q[Len(q)] = q[1] => r = <<>>
<1> DEFINE r == Tail(q)
<1>1. q \in Seq(Workers) /\ Len(q) \in Nat \ {0} /\ DOMAIN q = 1..Len(q)
      /\ \A i, j \in 1..Len(q) : q[i] = q[j] => i = j
  BY LenProperties, EmptySeq DEF Lineup
<1>2. Head(q) = q[1] /\ q[1] \in Workers
  BY <1>1, ElementOfSeq
<1>3. /\ r \in Seq(Workers) /\ Len(r) = Len(q) - 1 /\ DOMAIN r = 1..Len(r)
      /\ \A i \in 1..Len(r) : r[i] = q[i + 1]
  BY <1>1, HeadTailProperties, LenProperties
<1>4. Len(r) = 0 => r = <<>>
  BY <1>3, EmptySeq
<1> HIDE DEF r
<1>5. Lineup(r)
  <2> SUFFICES ASSUME NEW i \in 1..Len(r), NEW j \in 1..Len(r), r[i] = r[j] PROVE i = j
    BY <1>3 DEF Lineup
  <2>1. i + 1 \in 1..Len(q) /\ j + 1 \in 1..Len(q) /\ q[i + 1] = q[j + 1]
    BY <1>1, <1>3
  <2> QED BY <1>1, <2>1
<1>6. ASSUME NEW v, In(r, v) PROVE In(q, v) /\ v # q[1]
  <2>1. PICK i \in 1..Len(r) : r[i] = v
    BY <1>3, <1>6 DEF In
  <2>2. i + 1 \in 1..Len(q) /\ q[i + 1] = v /\ i + 1 # 1 /\ 1 \in 1..Len(q)
    BY <1>1, <1>3, <2>1
  <2> QED BY <1>1, <2>2 DEF In
<1>7. ASSUME NEW v, In(q, v), v # q[1] PROVE In(r, v)
  <2>1. PICK i \in 1..Len(q) : q[i] = v
    BY <1>1, <1>7 DEF In
  <2>2. i - 1 \in 1..Len(r) /\ (i - 1) + 1 = i
    BY <1>1, <1>3, <1>7, <2>1
  <2> QED BY <1>3, <2>1, <2>2 DEF In
<1>8. r # <<>> => r[Len(r)] = q[Len(q)]
  <2>1. r # <<>> => Len(r) \in 1..Len(r) /\ Len(r) + 1 = Len(q)
    BY <1>1, <1>3, <1>4
  <2> QED BY <1>3, <2>1
<1>9. q[Len(q)] = q[1] => r = <<>>
  <2>1. Len(q) \in 1..Len(q) /\ 1 \in 1..Len(q)
    BY <1>1
  <2> QED BY <1>1, <1>3, <1>4, <2>1
<1> QED BY <1>2, <1>5, <1>6, <1>7, <1>8, <1>9 DEF r

\* The turn leaves the lock.
LEMMA LineupWithout ==
  ASSUME Lineup(queue), work["turn"].step = "none" <=> ~In(queue, "turn")
  PROVE  LET r == Without("turn") IN
         /\ Lineup(r)
         /\ \A v : In(r, v) <=> In(queue, v) /\ v # "turn"
         /\ \A v : queue[1] = v /\ v # "turn" /\ queue # <<>> => r[1] = v
<1>1. CASE work["turn"].step = "none"
  BY <1>1 DEF Without, In
<1>2. CASE work["turn"].step # "none"
  <2> DEFINE i == CHOOSE i \in DOMAIN queue : queue[i] = "turn"
             p == Before(queue, i - 1)
             s == After(queue, i)
             r == p \o s
             l == Len(queue)
  <2>1. /\ queue \in Seq(Workers) /\ l \in Nat /\ DOMAIN queue = 1..l
        /\ \A j, k \in 1..l : queue[j] = queue[k] => j = k
        /\ \A j \in 1..l : queue[j] \in Workers
    BY LenProperties, ElementOfSeq DEF Lineup
  <2>2. i \in 1..l /\ queue[i] = "turn"
    BY <1>2, <2>1 DEF In
  <2> HIDE DEF i, l
  <2>3. /\ p \in Seq(Workers) /\ Len(p) = i - 1 /\ \A j \in 1..(i - 1) : p[j] = queue[j]
    <3>1. \A j \in 1..(i - 1) : queue[j] \in Workers
      BY <2>1, <2>2
    <3>2. /\ p \in Seq(Workers) /\ Len(p) = (IF 1 <= i - 1 THEN (i - 1) - 1 + 1 ELSE 0)
          /\ \A j \in 1..((i - 1) - 1 + 1) : p[j] = queue[1 + j - 1]
      BY <2>1, <2>2, <3>1, SubSeqProperties DEF Before
    <3>3. \A j \in 1..(i - 1) : j \in 1..((i - 1) - 1 + 1) /\ 1 + j - 1 = j
      BY <2>1, <2>2
    <3> HIDE DEF p
    <3> QED BY <2>1, <2>2, <3>2, <3>3
  <2>4. /\ s \in Seq(Workers) /\ Len(s) = l - i /\ \A j \in 1..(l - i) : s[j] = queue[i + j]
    <3>1. \A j \in (i + 1)..l : queue[j] \in Workers
      BY <2>1, <2>2
    <3>2. /\ s \in Seq(Workers) /\ Len(s) = (IF i + 1 <= l THEN l - (i + 1) + 1 ELSE 0)
          /\ \A j \in 1..(l - (i + 1) + 1) : s[j] = queue[(i + 1) + j - 1]
      BY <2>1, <2>2, <3>1, SubSeqProperties DEF After, l
    <3>3. \A j \in 1..(l - i) : j \in 1..(l - (i + 1) + 1) /\ (i + 1) + j - 1 = i + j
      BY <2>1, <2>2
    <3> HIDE DEF s
    <3> QED BY <2>1, <2>2, <3>2, <3>3
  <2> HIDE DEF p, s
  <2>5. /\ r \in Seq(Workers) /\ Len(r) = l - 1 /\ DOMAIN r = 1..(l - 1)
        /\ \A j \in 1..(l - 1) : r[j] = IF j < i THEN queue[j] ELSE queue[j + 1]
    <3>0. /\ r \in Seq(Workers) /\ Len(r) = Len(p) + Len(s)
          /\ \A j \in 1..(Len(p) + Len(s)) : r[j] = IF j <= Len(p) THEN p[j] ELSE s[j - Len(p)]
      BY <2>3, <2>4, ConcatProperties
    <3> HIDE DEF r
    <3>1. /\ r \in Seq(Workers) /\ Len(r) = (i - 1) + (l - i)
          /\ \A j \in 1..((i - 1) + (l - i)) : r[j] = IF j <= i - 1 THEN p[j] ELSE s[j - (i - 1)]
      BY <2>3, <2>4, <3>0
    <3>2. Len(r) = l - 1 /\ DOMAIN r = 1..(l - 1)
      BY <2>1, <2>2, <3>1, LenProperties
    <3>3. ASSUME NEW j \in 1..(l - 1) PROVE r[j] = IF j < i THEN queue[j] ELSE queue[j + 1]
      <4>1. j \in 1..((i - 1) + (l - i))
        BY <2>1, <2>2
      <4>2. CASE j < i
        <5>1. j <= i - 1 /\ j \in 1..(i - 1)
          BY <2>2, <4>2
        <5> QED BY <2>3, <3>1, <4>1, <4>2, <5>1
      <4>3. CASE ~(j < i)
        <5>1. ~(j <= i - 1) /\ j - (i - 1) \in 1..(l - i) /\ i + (j - (i - 1)) = j + 1
          BY <2>1, <2>2, <4>3
        <5> QED BY <2>4, <3>1, <4>1, <4>3, <5>1
      <4> QED BY <4>2, <4>3
    <3> QED BY <3>1, <3>2, <3>3
  <2>6. r = Without("turn")
    BY <1>2 DEF Without, r, p, s, i
  <2> HIDE DEF r
  <2>7. Lineup(r)
    <3> SUFFICES ASSUME NEW j \in 1..(l - 1), NEW k \in 1..(l - 1), r[j] = r[k] PROVE j = k
      BY <2>5 DEF Lineup
    <3>1. j \in 1..l /\ j + 1 \in 1..l /\ k \in 1..l /\ k + 1 \in 1..l
      BY <2>1
    <3> QED BY <2>1, <2>2, <2>5, <3>1
  <2>8. ASSUME NEW v, In(r, v) PROVE In(queue, v) /\ v # "turn"
    <3>1. PICK j \in 1..(l - 1) : r[j] = v
      BY <2>5, <2>8 DEF In
    <3>2. j \in 1..l /\ j + 1 \in 1..l
      BY <2>1
    <3>3. PICK k \in 1..l : queue[k] = v /\ k # i
      BY <2>2, <2>5, <3>1, <3>2
    <3> QED BY <2>1, <2>2, <3>3 DEF In
  <2>9. ASSUME NEW v, In(queue, v), v # "turn" PROVE In(r, v)
    <3>1. PICK k \in 1..l : queue[k] = v
      BY <2>1, <2>9 DEF In
    <3>2. k # i
      BY <2>2, <2>9, <3>1
    <3>3. CASE k < i
      <4>1. k \in 1..(l - 1)
        BY <2>1, <2>2, <3>3
      <4> QED BY <2>5, <3>1, <3>3, <4>1 DEF In
    <3>4. CASE ~(k < i)
      <4>1. k - 1 \in 1..(l - 1) /\ ~(k - 1 < i) /\ (k - 1) + 1 = k
        BY <2>1, <2>2, <3>2, <3>4
      <4> QED BY <2>5, <3>1, <4>1 DEF In
    <3> QED BY <3>3, <3>4
  <2>10. ASSUME NEW v, queue[1] = v, v # "turn", queue # <<>> PROVE r[1] = v
    <3>1. 1 < i /\ 1 \in 1..(l - 1)
      BY <2>1, <2>2, <2>10
    <3> QED BY <2>5, <2>10, <3>1
  <2> QED BY <2>6, <2>7, <2>8, <2>9, <2>10
<1> QED BY <1>1, <1>2

\* The job of a task that waits for its archive call.
Archiving(o, chunk, keep, end) ==
  [step |-> "archiving", object |-> o, end |-> end, keep |-> keep, chunk |-> chunk]

\* The fields of such a job.
LEMMA ArchivingIs ==
  ASSUME NEW o \in Objects, NEW chunk \in Seq(Message), NEW keep \in Seq(Message), NEW end \in Nat
  PROVE  LET job == Archiving(o, chunk, keep, end) IN
         /\ job \in Job /\ job.step = "archiving" /\ job.object = o /\ job.object # None
         /\ job.chunk = chunk /\ job.keep = keep /\ job.end = end
BY ConsolidationAssumption DEF Archiving, Job

\* The fields of a job.
LEMMA JobIs ==
  /\ NoJob \in Job /\ NoJob.step = "none" /\ NoJob.object = None /\ NoJob.keep = <<>>
  /\ Waiting \in Job /\ Waiting.step = "locking" /\ Waiting.object = None /\ Waiting.keep = <<>>
  /\ \A job \in Job : job.step \in {"none", "locking", "archiving"} /\ job.object \in Objects \cup {None}
                      /\ job.chunk \in Seq(Message) /\ job.keep \in Seq(Message) /\ job.end \in Nat
<1>1. <<>> \in Seq(Message)
  BY EmptySeq
<1>2. /\ NoJob \in Job /\ NoJob.step = "none" /\ NoJob.object = None /\ NoJob.keep = <<>>
      /\ Waiting \in Job /\ Waiting.step = "locking" /\ Waiting.object = None /\ Waiting.keep = <<>>
  BY <1>1 DEF NoJob, Waiting, Job
<1>3. \A job \in Job : job.step \in {"none", "locking", "archiving"} /\ job.object \in Objects \cup {None}
                      /\ job.chunk \in Seq(Message) /\ job.keep \in Seq(Message) /\ job.end \in Nat
  BY DEF Job
<1> QED BY <1>2, <1>3

\* One task alone works.
LEMMA HolderIs ==
  ASSUME LockType
  PROVE  /\ \A w \in Workers : work[w].step # "none" => queue # <<>>
         /\ queue # <<>> => Head(queue) = queue[1] /\ queue[1] \in Workers /\ work[queue[1]].step # "none"
         /\ \A w \in Workers : Awaiting(w) => queue # <<>> /\ queue[1] = w
         /\ \A v, w \in Workers : Awaiting(v) /\ Awaiting(w) => v = w
         /\ \A w \in Workers : work[w].object # None => Awaiting(w)
         /\ \A w \in Workers : work[w].object \in Objects \cup {None}
<1>1. /\ \A w \in Workers : (work[w].step = "none" <=> ~In(queue, w)) /\ (Awaiting(w) => queue[1] = w)
                            /\ (Awaiting(w) <=> work[w].object # None)
      /\ work \in [Workers -> Job]
  BY DEF LockType, LockInv
<1>2. \A w \in Workers : In(queue, w) => queue # <<>>
  BY EmptySeq DEF In
<1>3. queue # <<>> => Head(queue) = queue[1] /\ queue[1] \in Workers
  BY LineupTail DEF LockType
<1>4. queue # <<>> => 1 \in DOMAIN queue
  <2>1. queue \in Seq(Workers)
    BY DEF LockType, Lineup
  <2> QED BY <2>1, EmptySeq, LenProperties
<1>5. queue # <<>> => work[queue[1]].step # "none"
  BY <1>1, <1>3, <1>4 DEF In
<1>6. \A w \in Workers : Awaiting(w) => work[w].step # "none"
  BY DEF Awaiting
<1>7. \A w \in Workers : work[w].object \in Objects \cup {None}
  BY <1>1, JobIs
<1> QED BY <1>1, <1>2, <1>3, <1>5, <1>6, <1>7

\* The holder takes a chunk.
LEMMA TakeIs ==
  ASSUME LockType, NEW w \in Workers, queue # <<>>, queue[1] = w,
         NEW job \in Job, job.step = "archiving", job.object # None,
         work' = [work EXCEPT ![w] = job], UNCHANGED <<queue, turn>>
  PROVE  LockType'
<1>1. work' \in [Workers -> Job] /\ work'[w] = job /\ \A v \in Workers \ {w} : work'[v] = work[v]
  BY DEF LockType
<1>2. work[w].step # "none"
  BY HolderIs
<1>3. \A v \in Workers : work'[v].step = "none" <=> ~In(queue, v)
  BY <1>1, <1>2 DEF LockType, LockInv
<1>4. \A v \in Workers : Awaiting(v)' => queue[1] = v
  BY <1>1 DEF LockType, LockInv, Awaiting
<1>5. \A v \in Workers : Awaiting(v)' <=> work'[v].object # None
  BY <1>1 DEF LockType, LockInv, Awaiting
<1>6. turn.step = "building" <=> work'["turn"].step # "none"
  BY <1>1, <1>2 DEF LockType, LockInv, Workers
<1> QED BY <1>1, <1>3, <1>4, <1>5, <1>6 DEF LockType, LockInv, In

\* A task joins the lock; it may start when nobody has it.
LEMMA JoinIs ==
  ASSUME LockType, NEW w \in Workers, ~In(queue, w), turn.step # "building",
         NEW job \in Job, job.step # "none", job.step = "archiving" <=> job.object # None,
         job.step = "archiving" => queue = <<>>,
         work' = [work EXCEPT ![w] = job], queue' = Append(queue, w),
         turn' \in [step : {"none", "building", "running"}, object : Objects \cup {None}],
         turn'.step = "none" <=> turn'.object = None,
         turn'.step = "building" <=> w = "turn"
  PROVE  LockType'
<1>1. work' \in [Workers -> Job] /\ work'[w] = job /\ \A v \in Workers \ {w} : work'[v] = work[v]
  BY DEF LockType
<1>2. /\ Lineup(queue') /\ queue' # <<>> /\ queue'[Len(queue')] = w
      /\ \A v : In(queue', v) <=> In(queue, v) \/ v = w
      /\ queue = <<>> => queue'[1] = w
      /\ queue # <<>> => queue'[1] = queue[1]
  BY LineupAppend DEF LockType
<1>3. \A v \in Workers : work'[v].step = "none" <=> ~In(queue', v)
  BY <1>1, <1>2 DEF LockType, LockInv
<1>4. \A v \in Workers : Awaiting(v)' => queue'[1] = v
  <2> SUFFICES ASSUME NEW v \in Workers, Awaiting(v)' PROVE queue'[1] = v
    OBVIOUS
  <2>1. CASE v = w
    BY <1>1, <1>2, <2>1 DEF Awaiting
  <2>2. CASE v # w
    <3>1. Awaiting(v)
      BY <1>1, <2>2 DEF Awaiting
    <3> QED BY <1>2, <3>1, HolderIs
  <2> QED BY <2>1, <2>2
<1>5. \A v \in Workers : Awaiting(v)' <=> work'[v].object # None
  BY <1>1 DEF LockType, LockInv, Awaiting
<1>6. turn'.step = "building" <=> work'["turn"].step # "none"
  BY <1>1 DEF LockType, LockInv, Workers
<1>7. In(queue', "turn") => w = "turn"
  BY <1>2 DEF LockType, LockInv, Workers
<1> QED BY <1>1, <1>2, <1>3, <1>4, <1>5, <1>6, <1>7 DEF LockType, LockInv

\* The holder leaves the lock; a turn then runs.
LEMMA LeaveIs ==
  ASSUME LockType, NEW w \in Workers, queue # <<>>, queue[1] = w,
         work' = [work EXCEPT ![w] = NoJob], queue' = Tail(queue),
         turn' = IF w = "turn" THEN [turn EXCEPT !.step = "running"] ELSE turn
  PROVE  LockType' /\ (w = "turn" => queue' = <<>>) /\ (\A v \in Workers : ~Awaiting(v)')
         /\ turn'.object = turn.object
<1>1. work' \in [Workers -> Job] /\ work'[w] = NoJob /\ \A v \in Workers \ {w} : work'[v] = work[v]
  BY JobIs DEF LockType
<1>2. /\ Lineup(queue')
      /\ \A v : In(queue', v) <=> In(queue, v) /\ v # w
      /\ queue' # <<>> => queue'[Len(queue')] = queue[Len(queue)]
      /\ queue[Len(queue)] = w => queue' = <<>>
  BY LineupTail DEF LockType
<1>3. work[w].step # "none"
  BY HolderIs
<1>4. In(queue, w)
  BY <1>3 DEF LockType, LockInv
<1>5. \A v \in Workers : work'[v].step = "none" <=> ~In(queue', v)
  BY <1>1, <1>2, JobIs DEF LockType, LockInv
<1>6. \A v \in Workers : ~Awaiting(v)'
  <2> SUFFICES ASSUME NEW v \in Workers, Awaiting(v)' PROVE FALSE
    OBVIOUS
  <2>1. v # w
    BY <1>1, JobIs DEF Awaiting
  <2>2. Awaiting(v)
    BY <1>1, <2>1 DEF Awaiting
  <2> QED BY <2>1, <2>2, HolderIs
<1>7. \A v \in Workers : ~(work'[v].object # None)
  <2> SUFFICES ASSUME NEW v \in Workers PROVE work'[v].object = None
    OBVIOUS
  <2>1. CASE v = w
    BY <1>1, <2>1, JobIs
  <2>2. CASE v # w
    BY <1>1, <2>2, HolderIs
  <2> QED BY <2>1, <2>2
<1>8. /\ turn' \in [step : {"none", "building", "running"}, object : Objects \cup {None}]
      /\ turn'.object = turn.object
      /\ turn'.step = "none" <=> turn'.object = None
      /\ turn'.step = "building" <=> w # "turn" /\ turn.step = "building"
  <2>1. CASE w = "turn"
    <3>1. turn.step = "building"
      BY <1>3, <2>1 DEF LockType, LockInv
    <3> QED BY <2>1, <3>1 DEF LockType, LockInv
  <2>2. CASE w # "turn"
    BY <2>2 DEF LockType, LockInv
  <2> QED BY <2>1, <2>2
<1>9. turn'.step = "building" <=> work'["turn"].step # "none"
  <2>1. "turn" \in Workers
    BY DEF Workers
  <2> QED BY <1>1, <1>8, <2>1, JobIs DEF LockType, LockInv
<1>10. In(queue', "turn") => queue'[Len(queue')] = "turn"
  <2>1. In(queue', "turn") => queue' # <<>>
    BY EmptySeq DEF In
  <2> QED BY <1>2, <2>1 DEF LockType, LockInv
<1>11. w = "turn" => queue' = <<>>
  BY <1>2, <1>4 DEF LockType, LockInv
<1> QED BY <1>1, <1>2, <1>5, <1>6, <1>7, <1>8, <1>9, <1>10, <1>11 DEF LockType, LockInv

\* The turn is cancelled.
LEMMA CancelledIs ==
  ASSUME LockType, Cancelled
  PROVE  /\ LockType' /\ turn'.step = "none" /\ turn'.object = None
         /\ \A v \in Workers \ {"turn"} : work'[v] = work[v]
         /\ work'["turn"] = NoJob
<1>1. /\ work' \in [Workers -> Job] /\ work'["turn"] = NoJob
      /\ \A v \in Workers \ {"turn"} : work'[v] = work[v]
  BY JobIs DEF LockType, Cancelled, Workers
<1>2. /\ Lineup(queue')
      /\ \A v : In(queue', v) <=> In(queue, v) /\ v # "turn"
      /\ \A v : queue[1] = v /\ v # "turn" /\ queue # <<>> => queue'[1] = v
  BY LineupWithout DEF LockType, LockInv, Cancelled, Workers
<1>3. \A v \in Workers : work'[v].step = "none" <=> ~In(queue', v)
  BY <1>1, <1>2, JobIs DEF LockType, LockInv
<1>4. \A v \in Workers : Awaiting(v)' => v # "turn" /\ Awaiting(v)
  BY <1>1, JobIs DEF Awaiting
<1>5. \A v \in Workers : Awaiting(v)' => queue'[1] = v
  BY <1>2, <1>4, HolderIs
<1>6. \A v \in Workers : Awaiting(v)' <=> work'[v].object # None
  BY <1>1, JobIs DEF LockType, LockInv, Awaiting
<1>7. /\ turn' \in [step : {"none", "building", "running"}, object : Objects \cup {None}]
      /\ turn'.step = "none" /\ turn'.object = None
  BY DEF Cancelled, NoTurn
<1>8. work'["turn"].step = "none"
  BY <1>1, JobIs
<1>9. ~In(queue', "turn")
  BY <1>2
<1> QED BY <1>1, <1>2, <1>3, <1>5, <1>6, <1>7, <1>8, <1>9 DEF LockType, LockInv

-----------------------------------------------------------------------------
(* Facts about objects *)

\* There is a place for a new object.
LEMMA FreeIs ==
  ASSUME LockType, cache \in Objects \cup {None}, cache = None \/ \A w \in Workers : ~Awaiting(w)
  PROVE  Free \in Objects /\ Free # cache /\ Free # turn.object /\ \A w \in Workers : Free # work[w].object
<1>1. None \notin Objects
  BY ConsolidationAssumption
<1>2. turn.object \in Objects \cup {None}
  BY DEF LockType
<1>3. \E o \in Objects : o \notin InUse
  <2>1. CASE \A w \in Workers : ~Awaiting(w)
    <3>1. \A w \in Workers : work[w].object = None
      BY <2>1, HolderIs
    <3>2. PICK o \in Objects : o # cache /\ o # turn.object
      BY <1>2, PlacesAssumption
    <3> QED BY <1>1, <3>1, <3>2 DEF InUse
  <2>2. CASE cache = None /\ \E w \in Workers : Awaiting(w)
    <3>1. PICK w \in Workers : Awaiting(w)
      BY <2>2
    <3>2. \A v \in Workers \ {w} : work[v].object = None
      BY <3>1, HolderIs
    <3>3. work[w].object \in Objects \cup {None}
      BY HolderIs
    <3>4. PICK o \in Objects : o # work[w].object /\ o # turn.object
      BY <1>2, <3>3, PlacesAssumption
    <3> QED BY <1>1, <2>2, <3>2, <3>4 DEF InUse
  <2> QED BY <2>1, <2>2
<1>4. Free \in Objects /\ Free \notin InUse
  BY <1>3 DEF Free
<1> QED BY <1>4 DEF InUse

\* What get_or_create does to the heap.
Fetched == [heap EXCEPT ![Current] = Content]

\* The object that get_or_create returns.
LEMMA FetchedIs ==
  ASSUME TypeInv
  PROVE  /\ Current \in Objects /\ Good(Content, said) /\ Content \in Session
         /\ Sound(Fetched, said) /\ Fetched[Current] = Content
         /\ \A o \in Objects \ {Current} : Fetched[o] = heap[o]
         /\ cache # None => Current = cache /\ Content = heap[cache] /\ Fetched = heap
         /\ cache = None => Content = Loaded /\ Current # turn.object
                            /\ \A w \in Workers : Current # work[w].object
<1>1. LockType /\ cache \in Objects \cup {None} /\ Sound(heap, said) /\ Good(disk, said) /\ said \in Nat
  BY ConsolidationAssumption DEF TypeInv, RestType, SessionInv
<1>2. CASE cache = None
  <2>1. Current = Free /\ Content = Loaded
    BY <1>2 DEF Current, Content
  <2>2. Free \in Objects /\ Free # turn.object /\ \A w \in Workers : Free # work[w].object
    BY <1>1, <1>2, FreeIs
  <2>3. Good(Loaded, said)
    BY <1>1, LoadedIs
  <2>4. Loaded \in Session
    BY <2>3 DEF Good
  <2>5. heap \in [Objects -> Session] /\ \A o \in Objects : Good(heap[o], said)
    BY <1>1 DEF Sound
  <2>6. Fetched \in [Objects -> Session] /\ Fetched[Current] = Content /\ \A o \in Objects \ {Current} : Fetched[o] = heap[o]
    BY <2>1, <2>2, <2>4, <2>5 DEF Fetched
  <2>7. \A o \in Objects : Good(Fetched[o], said)
    BY <2>1, <2>3, <2>5, <2>6
  <2> QED BY <1>2, <2>1, <2>2, <2>3, <2>4, <2>6, <2>7 DEF Sound
<1>3. CASE cache # None
  <2>1. Current = cache /\ Content = heap[cache] /\ cache \in Objects
    BY <1>1, <1>3 DEF Current, Content
  <2>2. heap \in [Objects -> Session] /\ \A o \in Objects : Good(heap[o], said)
    BY <1>1 DEF Sound
  <2>3. Fetched = heap
    BY <2>1, <2>2 DEF Fetched
  <2> QED BY <1>1, <1>3, <2>1, <2>2, <2>3
<1> QED BY <1>2, <1>3

\* Another session in a place of the heap.
LEMMA PlacedIs ==
  ASSUME NEW k \in Nat, NEW h, Sound(h, k), NEW m \in Nat, k <= m, NEW o \in Objects, NEW x, Good(x, m)
  PROVE  /\ Sound([h EXCEPT ![o] = x], m) /\ [h EXCEPT ![o] = x][o] = x
         /\ \A p \in Objects \ {o} : [h EXCEPT ![o] = x][p] = h[p]
<1>1. h \in [Objects -> Session] /\ x \in Session /\ \A p \in Objects : Good(h[p], m)
  BY GoodMore DEF Sound, Good
<1>2. /\ [h EXCEPT ![o] = x] \in [Objects -> Session] /\ [h EXCEPT ![o] = x][o] = x
      /\ \A p \in Objects \ {o} : [h EXCEPT ![o] = x][p] = h[p]
  BY <1>1
<1>3. \A p \in Objects : Good([h EXCEPT ![o] = x][p], m)
  BY <1>1, <1>2
<1> QED BY <1>2, <1>3 DEF Sound

\* A chunk is a part of what is seen.
LEMMA EndsIs ==
  ASSUME NEW k \in Nat, NEW x, Good(x, k), NEW end \in Ends(x)
  PROVE  /\ end \in Nat /\ x.done <= end /\ end <= Len(x.messages)
         /\ SubSeq(x.messages, x.done + 1, end) \in Seq(Message)
<1>1. x.messages \in Seq(Message) /\ x.done \in Nat /\ Len(x.messages) \in Nat /\ Neat(x.messages, k)
  BY SessionIs, LenProperties DEF Good
<1>2. Users(x.messages) \subseteq 1..Len(x.messages)
  BY <1>1, UsersIs
<1>3. PICK i \in 1..Len(x.messages) : i > x.done + 1 /\ end = i - 1
  BY <1>2 DEF Ends
<1>4. end \in 0..Len(x.messages) /\ x.done <= end
  BY <1>1, <1>3
<1> QED BY <1>1, <1>4, PartIs

\* One more entry for the messages of a chunk.
LEMMA PlusIs ==
  ASSUME NEW f \in [1..MaxMessages -> Nat], NEW chunk
  PROVE  /\ Plus(f, chunk) \in [1..MaxMessages -> Nat]
         /\ \A n \in 1..MaxMessages :
              Plus(f, chunk)[n] = IF n \in Numbers(chunk) THEN f[n] + 1 ELSE f[n]
<1>1. Plus(f, chunk) = [n \in 1..MaxMessages |-> IF n \in Numbers(chunk) THEN f[n] + 1 ELSE f[n]]
  BY DEF Plus
<1> QED BY <1>1

\* The log with the entries of a chunk.
LEMMA LoggedIs ==
  ASSUME log \in [1..MaxMessages -> Nat], NEW chunk
  PROVE  /\ Logged(chunk) \in [1..MaxMessages -> Nat]
         /\ \A n \in 1..MaxMessages :
              Logged(chunk)[n] = IF n \in Numbers(chunk) THEN log[n] + 1 ELSE log[n]
BY PlusIs DEF Logged

\* The user's message of a turn.
Asking(x, n) == [Said(x, n, "user") EXCEPT !.open = TRUE]

\* What a turn saves before it runs.
LEMMA AskingIs ==
  ASSUME NEW k \in Nat, NEW x, Good(x, k), NEW n \in 1..MaxMessages, k < n
  PROVE  More(x, Asking(x, n), n) /\ Asked(Asking(x, n).messages)
<1> DEFINE y == Said(x, n, "user")
<1>1. More(x, y, n) /\ Asked(y.messages)
  BY SaidIs
<1> HIDE DEF y
<1>2. Good(y, n) /\ Longer(x, y) /\ (InRange(x) => InRange(y) /\ Seen(y) = Seen(x) \cup {n})
      /\ y \in Session /\ x \in Session
  BY <1>1 DEF More, Good
<1>3. Same(y, Asking(x, n))
  BY <1>2, OpenIs DEF Asking, y
<1>4. /\ Good(Asking(x, n), n) /\ Seen(Asking(x, n)) = Seen(y)
      /\ InRange(y) <=> InRange(Asking(x, n))
  BY <1>2, <1>3, SameIs
<1>5. Longer(x, Asking(x, n))
  BY <1>2, <1>3, <1>4, LongerIs DEF Good
<1>6. Asked(Asking(x, n).messages)
  BY <1>1, <1>3 DEF Same
<1> QED BY <1>2, <1>4, <1>5, <1>6 DEF More

-----------------------------------------------------------------------------
(* The types *)

\* The invariant is as strong as TypeOK.
UnsavedInv == unsaved \in [1..MaxMessages -> Nat]

LEMMA TypesHold == TypeInv /\ UnsavedInv => TypeOK
BY DEF UnsavedInv, TypeInv, RestType, LockType, Lineup, SessionInv, Sound, Good, TypeOK

\* The first state has it.
LEMMA TypeInvInit == Init => TypeInv
<1> SUFFICES ASSUME Init PROVE TypeInv
  OBVIOUS
<1> USE DEF Init
<1>1. said = 0 /\ queue = <<>> /\ turn.step = "none" /\ turn.object = None
  BY DEF NoTurn
<1>2. Good(Empty, 0)
  BY EmptyIs
<1>3. Empty \in Session
  BY <1>2 DEF Good
<1>4. heap \in [Objects -> Session] /\ \A o \in Objects : heap[o] = Empty
  BY <1>3
<1>5. Sound(heap, said)
  BY <1>1, <1>2, <1>4 DEF Sound
<1>6. \A w \in Workers : work[w] = NoJob
  OBVIOUS
<1>7. work \in [Workers -> Job]
  BY JobIs
<1>8. work["idle"].keep = <<>>
  BY <1>6, JobIs DEF Workers
<1>9. SessionInv
  BY <1>1, <1>2, <1>5, <1>8, NeatMore DEF SessionInv
<1>10. Lineup(queue) /\ \A w : ~In(queue, w)
  BY <1>1, EmptySeq DEF Lineup, In
<1>11. LockInv
  <2>1. work["turn"].step = "none"
    BY <1>6, JobIs DEF Workers
  <2> QED BY <1>1, <1>6, <1>10, <2>1, JobIs DEF LockInv, Awaiting
<1>12. TurnInv
  BY <1>1 DEF TurnInv
<1>13. turn \in [step : {"none", "building", "running"}, object : Objects \cup {None}]
  BY DEF NoTurn
<1>14. LockType
  BY <1>7, <1>10, <1>11, <1>13 DEF LockType
<1>15. RestType
  BY ConsolidationAssumption DEF RestType
<1> QED BY <1>9, <1>12, <1>14, <1>15 DEF TypeInv

\* With the lock, a task takes a chunk, or leaves; the turn's task then builds.
LEMMA GoOnIs ==
  ASSUME NEW w, NEW h, NEW o, NEW d, GoOn(w, h, o, d)
  PROVE  \/ /\ \E end \in Ends(h[o]) :
                 work' = [work EXCEPT ![w] =
                            Archiving(o, SubSeq(h[o].messages, h[o].done + 1, end), <<>>, end)]
            /\ heap' = h /\ cache' = o /\ disk' = d
            /\ UNCHANGED <<queue, turn, said>>
         \/ /\ w # "turn"
            /\ work' = [work EXCEPT ![w] = NoJob] /\ queue' = Tail(queue)
            /\ heap' = h /\ cache' = o /\ disk' = d
            /\ UNCHANGED <<turn, said>>
         \/ /\ w = "turn"
            /\ work' = [work EXCEPT ![w] = NoJob] /\ queue' = Tail(queue)
            /\ heap' = [h EXCEPT ![turn.object] = Asking(h[turn.object], said + 1)]
            /\ cache' = turn.object /\ disk' = heap'[turn.object]
            /\ turn' = [turn EXCEPT !.step = "running"] /\ said' = said + 1
BY Zenon DEF GoOn, Build, Save, Asking, Archiving

\* What a holder of the lock does next keeps it.
LEMMA GoOnTypes ==
  ASSUME TypeInv, NEW w \in {"turn", "background"}, queue # <<>>, queue[1] = w,
         NEW h, Sound(h, said), NEW o \in Objects, NEW d, Good(d, said), GoOn(w, h, o, d),
         log' \in [1..MaxMessages -> Nat], UNCHANGED <<leaving, news, old, crashes>>
  PROVE  TypeInv'
<1>1. /\ LockType /\ said \in 0..MaxMessages /\ said \in Nat /\ MaxMessages \in Nat /\ w \in Workers /\ w # "idle"
      /\ "idle" \in Workers /\ work \in [Workers -> Job]
      /\ Neat(work["idle"].keep, said)
  BY ConsolidationAssumption DEF TypeInv, RestType, SessionInv, Workers, LockType
<1>2. Good(h[o], said)
  BY DEF Sound
<1>3. turn.step # "running"
  BY DEF TypeInv, TurnInv
<1>4. CASE /\ \E end \in Ends(h[o]) :
                 work' = [work EXCEPT ![w] =
                            Archiving(o, SubSeq(h[o].messages, h[o].done + 1, end), <<>>, end)]
           /\ heap' = h /\ cache' = o /\ disk' = d
           /\ UNCHANGED <<queue, turn, said>>
  <2>1. PICK end \in Ends(h[o]) :
               work' = [work EXCEPT ![w] =
                          Archiving(o, SubSeq(h[o].messages, h[o].done + 1, end), <<>>, end)]
    BY <1>4
  <2> DEFINE job == Archiving(o, SubSeq(h[o].messages, h[o].done + 1, end), <<>>, end)
  <2>2. job \in Job /\ job.step = "archiving" /\ job.object # None
    <3> DEFINE chunk == SubSeq(h[o].messages, h[o].done + 1, end)
               none  == <<>>
    <3>1. end \in Nat /\ chunk \in Seq(Message)
      BY <1>1, <1>2, EndsIs
    <3>2. none \in Seq(Message)
      BY EmptySeq
    <3> HIDE DEF chunk, none
    <3>3. LET j == Archiving(o, chunk, none, end) IN j \in Job /\ j.step = "archiving" /\ j.object # None
      BY <3>1, <3>2, ArchivingIs
    <3> QED BY <3>3 DEF chunk, none
  <2>3. work' = [work EXCEPT ![w] = job]
    BY <2>1
  <2> HIDE DEF job
  <2>4. LockType'
    BY <1>1, <1>4, <2>2, <2>3, TakeIs
  <2>5. work'["idle"] = work["idle"]
    BY <1>1, <2>3
  <2>6. SessionInv'
    BY <1>1, <1>4, <2>5 DEF SessionInv
  <2>7. TurnInv'
    BY <1>3, <1>4 DEF TypeInv, TurnInv
  <2>8. RestType'
    BY <1>4 DEF TypeInv, RestType
  <2> QED BY <2>4, <2>6, <2>7, <2>8 DEF TypeInv
<1>5. CASE /\ w # "turn"
           /\ work' = [work EXCEPT ![w] = NoJob] /\ queue' = Tail(queue)
           /\ heap' = h /\ cache' = o /\ disk' = d
           /\ UNCHANGED <<turn, said>>
  <2>1. LockType'
    <3>1. turn' = IF w = "turn" THEN [turn EXCEPT !.step = "running"] ELSE turn
      BY <1>5
    <3> QED BY <1>1, <1>5, <3>1, LeaveIs
  <2>2. work'["idle"] = work["idle"]
    BY <1>1, <1>5
  <2>3. SessionInv'
    BY <1>1, <1>5, <2>2 DEF SessionInv
  <2>4. TurnInv'
    BY <1>3, <1>5 DEF TypeInv, TurnInv
  <2>5. RestType'
    BY <1>5 DEF TypeInv, RestType
  <2> QED BY <2>1, <2>3, <2>4, <2>5 DEF TypeInv
<1>6. CASE /\ w = "turn"
           /\ work' = [work EXCEPT ![w] = NoJob] /\ queue' = Tail(queue)
           /\ heap' = [h EXCEPT ![turn.object] = Asking(h[turn.object], said + 1)]
           /\ cache' = turn.object /\ disk' = heap'[turn.object]
           /\ turn' = [turn EXCEPT !.step = "running"] /\ said' = said + 1
  <2>1. LockType' /\ queue' = <<>> /\ turn'.object = turn.object
    <3>1. turn' = IF w = "turn" THEN [turn EXCEPT !.step = "running"] ELSE turn
      BY <1>6
    <3> QED BY <1>1, <1>6, <3>1, LeaveIs
  <2>2. turn.step = "building" /\ turn.object \in Objects
    <3>1. work["turn"].step # "none"
      BY <1>1, <1>6, HolderIs
    <3>2. turn.step = "building"
      BY <1>1, <3>1 DEF LockType, LockInv
    <3> QED BY <1>1, <3>2 DEF LockType, LockInv
  <2>3. said + 2 <= MaxMessages
    BY <2>2 DEF TypeInv, TurnInv
  <2>4. said + 1 \in 1..MaxMessages /\ said < said + 1 /\ said + 1 \in Nat /\ said <= said + 1
    BY <1>1, <2>3
  <2> DEFINE x == h[turn.object]
             y == Asking(x, said + 1)
  <2>5. Good(x, said)
    BY <2>2 DEF Sound
  <2>6. Good(y, said + 1) /\ Asked(y.messages)
    BY <1>1, <2>4, <2>5, AskingIs DEF More
  <2>7. heap' = [h EXCEPT ![turn.object] = y]
    BY <1>6
  <2> HIDE DEF x, y
  <2>8. Sound(heap', said + 1) /\ heap'[turn.object] = y
    <3>1. Sound([h EXCEPT ![turn.object] = y], said + 1) /\ [h EXCEPT ![turn.object] = y][turn.object] = y
      BY <1>1, <2>2, <2>4, <2>6, PlacedIs
    <3> QED BY <2>7, <3>1
  <2>9. SessionInv'
    <3>1. work'["idle"] = work["idle"]
      BY <1>1, <1>6
    <3>2. Neat(work["idle"].keep, said + 1)
      BY <1>1, <2>4, NeatMore
    <3>3. Good(disk', said + 1)
      BY <1>6, <2>6, <2>8
    <3> QED BY <1>6, <2>8, <3>1, <3>2, <3>3 DEF SessionInv
  <2>10. TurnInv'
    <3>1. turn'.step = "running"
      BY <1>1, <1>6 DEF LockType
    <3>2. said' + 1 <= MaxMessages
      BY <1>1, <1>6, <2>3
    <3> QED BY <1>6, <2>1, <2>6, <2>8, <3>1, <3>2 DEF TurnInv
  <2>11. RestType'
    <3>1. said' \in 0..MaxMessages /\ old \in 0..said'
      BY <1>1, <1>6, <2>4 DEF TypeInv, RestType
    <3>2. cache' \in Objects \cup {None}
      BY <1>6, <2>2
    <3> QED BY <3>1, <3>2 DEF TypeInv, RestType
  <2> QED BY <2>1, <2>9, <2>10, <2>11 DEF TypeInv
<1> QED BY <1>4, <1>5, <1>6, GoOnIs

\* What compaction begins with.
CompactJob ==
  LET tail  == Visible(Loaded)
      drops == DropsExtended(tail, Suffix)
  IN Archiving(Free, Before(tail, drops), After(tail, drops), 0)

\* What compaction takes out and what it keeps.
LEMMA CompactJobIs ==
  ASSUME TypeInv, \A w \in Workers : ~Awaiting(w), Compact
  PROVE  /\ Free \in Objects /\ Free # turn.object
         /\ CompactJob \in Job /\ CompactJob.step = "archiving" /\ CompactJob.object = Free /\ CompactJob.object # None
         /\ Numbers(CompactJob.chunk) \cap Numbers(CompactJob.keep) = {}
         /\ Numbers(CompactJob.chunk) \cup Numbers(CompactJob.keep) = Seen(Loaded)
         /\ Neat(CompactJob.keep, said)
         /\ Sound(heap', said) /\ heap'[Free] = Loaded
         /\ \A o \in Objects \ {Free} : heap'[o] = heap[o]
         /\ cache' = Free /\ work' = [work EXCEPT !["idle"] = CompactJob]
<1>1. LockType /\ cache \in Objects \cup {None} /\ Sound(heap, said) /\ Good(disk, said) /\ said \in Nat
  BY ConsolidationAssumption DEF TypeInv, RestType, SessionInv
<1>2. Free \in Objects /\ Free # turn.object
  BY <1>1, FreeIs
<1>3. Good(Loaded, said)
  BY <1>1, LoadedIs
<1> DEFINE tail  == Visible(Loaded)
           drops == DropsExtended(tail, Suffix)
           chunk == Before(tail, drops)
           keep  == After(tail, drops)
<1>4. /\ chunk \in Seq(Message) /\ Neat(keep, said)
      /\ Seen(Loaded) = Numbers(chunk) \cup Numbers(keep)
      /\ Numbers(chunk) \cap Numbers(keep) = {}
  BY <1>1, <1>3, CompactIs
<1>5. heap' = [heap EXCEPT ![Free] = Loaded] /\ cache' = Free
  BY DEF Compact
<1>6. work' = [work EXCEPT !["idle"] = CompactJob]
  BY Zenon DEF Compact, CompactJob, Archiving
<1>7. CompactJob = Archiving(Free, chunk, keep, 0)
  BY Zenon DEF CompactJob
<1> HIDE DEF chunk, keep
<1>8. keep \in Seq(Message) /\ 0 \in Nat
  BY <1>4 DEF Neat
<1>9. LET job == Archiving(Free, chunk, keep, 0) IN
      /\ job \in Job /\ job.step = "archiving" /\ job.object = Free /\ job.object # None
      /\ job.chunk = chunk /\ job.keep = keep
  BY <1>2, <1>4, <1>8, ArchivingIs
<1>10. /\ Sound([heap EXCEPT ![Free] = Loaded], said) /\ [heap EXCEPT ![Free] = Loaded][Free] = Loaded
       /\ \A o \in Objects \ {Free} : [heap EXCEPT ![Free] = Loaded][o] = heap[o]
  BY <1>1, <1>2, <1>3, PlacedIs
<1>11. Sound(heap', said) /\ heap'[Free] = Loaded /\ \A o \in Objects \ {Free} : heap'[o] = heap[o]
  BY <1>5, <1>10
<1> QED BY <1>2, <1>4, <1>5, <1>6, <1>7, <1>9, <1>11

\* A task takes the lock.
LEMMA LockTypes ==
  ASSUME TypeInv, NEW w \in Workers, Lock(w)
  PROVE  TypeInv'
<1>1. w \in {"turn", "background"} /\ work[w].step = "locking" /\ Head(queue) = w
      /\ GoOn(w, Fetched, Current, disk) /\ UNCHANGED <<log, leaving, news, old, crashes>>
  BY DEF Lock, Fetched
<1>2. LockType
  BY DEF TypeInv
<1>3. queue # <<>> /\ queue[1] = w
  BY <1>1, <1>2, HolderIs
<1>4. Sound(Fetched, said) /\ Current \in Objects
  BY FetchedIs
<1>5. Good(disk, said) /\ log' \in [1..MaxMessages -> Nat]
  BY <1>1 DEF TypeInv, SessionInv, RestType
<1> QED BY <1>1, <1>3, <1>4, <1>5, GoOnTypes

\* The heap when a chunk has been archived.
Consolidated(w) == [heap EXCEPT ![work[w].object] = Advanced(heap[work[w].object], work[w].end)]

\* What an answer of the model makes of the session.
LEMMA ConsolidatedIs ==
  ASSUME TypeInv, NEW w \in Workers, Awaiting(w)
  PROVE  /\ queue # <<>> /\ queue[1] = w /\ work[w] \in Job
         /\ work[w].object \in Objects /\ work[w].end \in Nat /\ work[w].chunk \in Seq(Message)
         /\ work[w].keep \in Seq(Message)
         /\ Sound(Consolidated(w), said)
         /\ Consolidated(w)[work[w].object] = Advanced(heap[work[w].object], work[w].end)
         /\ \A o \in Objects \ {work[w].object} : Consolidated(w)[o] = heap[o]
<1>1. LockType /\ Sound(heap, said) /\ said \in Nat
  BY ConsolidationAssumption DEF TypeInv, RestType, SessionInv
<1>2. queue # <<>> /\ queue[1] = w
  BY <1>1, HolderIs
<1>3. work[w] \in Job
  BY <1>1 DEF LockType
<1>4. work[w].object \in Objects
  BY <1>1, <1>3, JobIs DEF LockType, LockInv
<1>5. work[w].end \in Nat /\ work[w].chunk \in Seq(Message) /\ work[w].keep \in Seq(Message)
  BY <1>3, JobIs
<1>6. Good(heap[work[w].object], said)
  BY <1>1, <1>4 DEF Sound
<1>7. Good(Advanced(heap[work[w].object], work[w].end), said)
  BY <1>1, <1>5, <1>6, AdvancedIs
<1> DEFINE o == work[w].object
           y == Advanced(heap[work[w].object], work[w].end)
<1>8. Consolidated(w) = [heap EXCEPT ![o] = y]
  BY Zenon DEF Consolidated
<1>9. o \in Objects /\ Good(y, said) /\ Sound(heap, said) /\ said \in Nat /\ said <= said
  BY <1>1, <1>4, <1>7
<1> HIDE DEF o, y
<1>10. /\ Sound([heap EXCEPT ![o] = y], said) /\ [heap EXCEPT ![o] = y][o] = y
       /\ \A p \in Objects \ {o} : [heap EXCEPT ![o] = y][p] = heap[p]
  BY <1>9, PlacedIs
<1> QED BY <1>2, <1>3, <1>4, <1>5, <1>8, <1>10 DEF o, y

\* The parts of a step.
LEMMA ConsolidateIs ==
  ASSUME NEW w, Consolidate(w)
  PROVE  /\ w \in {"turn", "background"} /\ Awaiting(w) /\ log' = Logged(work[w].chunk)
         /\ GoOn(w, Consolidated(w), work[w].object, Consolidated(w)[work[w].object])
         /\ UNCHANGED <<leaving, news, old, crashes>>
BY DEF Consolidate, Consolidated

\* An answer of the model.
LEMMA ConsolidateTypes ==
  ASSUME TypeInv, NEW w \in Workers, Consolidate(w)
  PROVE  TypeInv'
<1>1. w \in {"turn", "background"} /\ Awaiting(w) /\ log' = Logged(work[w].chunk)
      /\ GoOn(w, Consolidated(w), work[w].object, Consolidated(w)[work[w].object])
      /\ UNCHANGED <<leaving, news, old, crashes>>
  BY ConsolidateIs
<1>2. /\ queue # <<>> /\ queue[1] = w /\ work[w].object \in Objects
      /\ Sound(Consolidated(w), said)
  BY <1>1, ConsolidatedIs
<1>3. Good(Consolidated(w)[work[w].object], said)
  BY <1>2 DEF Sound
<1>4. log' \in [1..MaxMessages -> Nat]
  BY <1>1, LoggedIs DEF TypeInv, RestType
<1> QED BY <1>1, <1>2, <1>3, <1>4, GoOnTypes

\* The idle session is dropped from the cache.
LEMMA ExpireTypes == TypeInv /\ Expire => TypeInv'
<1> SUFFICES ASSUME TypeInv, Expire PROVE TypeInv'
  OBVIOUS
<1>1. /\ LockType /\ Sound(heap, said) /\ Good(disk, said) /\ said \in Nat
      /\ turn.step = "none" /\ work["idle"].step = "none" /\ queue' = Append(queue, "idle")
      /\ UNCHANGED <<disk, log, turn, leaving, said, news, old, crashes>>
      /\ "idle" \in Workers
  BY ConsolidationAssumption DEF TypeInv, RestType, SessionInv, Expire, Workers
<1>2. ~In(queue, "idle") /\ turn.step # "building"
  BY <1>1 DEF LockType, LockInv
<1>3. /\ turn' \in [step : {"none", "building", "running"}, object : Objects \cup {None}]
      /\ turn'.step = "none" <=> turn'.object = None
      /\ turn'.step # "building"
  BY <1>1 DEF LockType, LockInv
<1>4. \E job \in Job : /\ work' = [work EXCEPT !["idle"] = job] /\ Neat(job.keep, said) /\ job.step # "none"
                       /\ job.step = "archiving" <=> job.object # None
                       /\ job.step = "archiving" => queue = <<>>
                       /\ Sound(heap', said) /\ cache' \in Objects
  <2>1. CASE queue = <<>>
    <3>1. Compact
      BY <2>1 DEF Expire
    <3>2. \A v \in Workers : ~Awaiting(v)
      BY <1>1, <2>1, HolderIs
    <3> QED BY <2>1, <3>1, <3>2, CompactJobIs
  <2>2. CASE queue # <<>>
    <3>1. heap' = Fetched /\ cache' = Current /\ work' = [work EXCEPT !["idle"] = Waiting]
      BY <2>2 DEF Expire, Fetched
    <3>2. Neat(Waiting.keep, said)
      BY JobIs, NeatMore
    <3> QED BY <3>1, <3>2, FetchedIs, JobIs
  <2> QED BY <2>1, <2>2
<1>5. PICK job \in Job : /\ work' = [work EXCEPT !["idle"] = job] /\ Neat(job.keep, said) /\ job.step # "none"
                         /\ job.step = "archiving" <=> job.object # None
                         /\ job.step = "archiving" => queue = <<>>
                         /\ Sound(heap', said) /\ cache' \in Objects
  BY <1>4
<1>6. LockType'
  BY <1>1, <1>2, <1>3, <1>5, JoinIs
<1>7. SessionInv'
  <2>1. work'["idle"] = job
    BY <1>1, <1>5 DEF LockType
  <2> QED BY <1>1, <1>5, <2>1 DEF SessionInv
<1>8. TurnInv'
  BY <1>1 DEF TurnInv
<1>9. RestType'
  BY <1>1, <1>5 DEF TypeInv, RestType
<1> QED BY <1>6, <1>7, <1>8, <1>9 DEF TypeInv

\* When compaction begins, no one else works.
LEMMA BeginCompactionIs ==
  ASSUME TypeInv, BeginCompaction
  PROVE  /\ queue # <<>> /\ queue[1] = "idle" /\ \A w \in Workers : ~Awaiting(w)
         /\ Compact /\ UNCHANGED <<disk, log, queue, turn, leaving, said, news, old, crashes>>
<1>1. LockType /\ work["idle"].step = "locking" /\ Head(queue) = "idle" /\ "idle" \in Workers
  BY DEF TypeInv, BeginCompaction, Workers
<1>2. queue # <<>> /\ queue[1] = "idle"
  BY <1>1, HolderIs
<1>3. \A w \in Workers : ~Awaiting(w)
  <2> SUFFICES ASSUME NEW w \in Workers, Awaiting(w) PROVE FALSE
    OBVIOUS
  <2>1. w = "idle"
    BY <1>1, <1>2, HolderIs
  <2> QED BY <1>1, <2>1 DEF Awaiting
<1> QED BY <1>2, <1>3 DEF BeginCompaction

\* Compaction takes the lock.
LEMMA BeginCompactionTypes == TypeInv /\ BeginCompaction => TypeInv'
<1> SUFFICES ASSUME TypeInv, BeginCompaction PROVE TypeInv'
  OBVIOUS
<1>1. /\ queue # <<>> /\ queue[1] = "idle" /\ \A w \in Workers : ~Awaiting(w)
      /\ Compact /\ UNCHANGED <<disk, log, queue, turn, leaving, said, news, old, crashes>>
  BY BeginCompactionIs
<1>2. /\ CompactJob \in Job /\ CompactJob.step = "archiving" /\ CompactJob.object # None
      /\ Neat(CompactJob.keep, said) /\ Sound(heap', said) /\ cache' \in Objects
      /\ work' = [work EXCEPT !["idle"] = CompactJob]
  BY <1>1, CompactJobIs
<1>3. LockType /\ "idle" \in Workers /\ Good(disk, said)
  BY DEF TypeInv, SessionInv, Workers
<1>4. LockType'
  BY <1>1, <1>2, <1>3, TakeIs
<1>5. SessionInv'
  <2>1. work'["idle"] = CompactJob
    BY <1>2, <1>3 DEF LockType
  <2> QED BY <1>1, <1>2, <1>3, <2>1 DEF SessionInv
<1>6. TurnInv'
  BY <1>1 DEF TypeInv, TurnInv
<1>7. RestType'
  BY <1>1, <1>2 DEF TypeInv, RestType
<1> QED BY <1>4, <1>5, <1>6, <1>7 DEF TypeInv

\* What compaction ends with.
LEMMA EndCompactionIs ==
  ASSUME TypeInv, EndCompaction
  PROVE  LET job == work["idle"]
             y   == Kept(heap[job.object], job.keep) IN
         /\ Awaiting("idle") /\ queue # <<>> /\ queue[1] = "idle" /\ "idle" \in Workers
         /\ job.object \in Objects /\ job.chunk \in Seq(Message)
         /\ log' = Logged(job.chunk)
         /\ Good(y, said) /\ InRange(y) /\ Seen(y) = Numbers(job.keep)
         /\ Sound(heap', said) /\ heap'[job.object] = y
         /\ \A o \in Objects \ {job.object} : heap'[o] = heap[o]
         /\ disk' = y /\ cache' = job.object
         /\ work' = [work EXCEPT !["idle"] = NoJob] /\ queue' = Tail(queue)
         /\ UNCHANGED <<turn, leaving, said, news, old, crashes>>
<1> DEFINE job == work["idle"]
           o == job.object
           y == Kept(heap[o], job.keep)
<1>1. /\ Awaiting("idle") /\ log' = Logged(job.chunk)
      /\ heap' = [heap EXCEPT ![o] = y] /\ cache' = o /\ disk' = heap'[o]
      /\ work' = [work EXCEPT !["idle"] = NoJob] /\ queue' = Tail(queue)
      /\ UNCHANGED <<turn, leaving, said, news, old, crashes>>
  BY DEF EndCompaction, Save
<1>2. "idle" \in Workers /\ Sound(heap, said) /\ said \in Nat /\ Neat(job.keep, said)
  BY ConsolidationAssumption DEF TypeInv, RestType, SessionInv, Workers
<1>3. queue # <<>> /\ queue[1] = "idle" /\ o \in Objects /\ job.chunk \in Seq(Message)
  BY <1>1, <1>2, ConsolidatedIs
<1>4. heap[o] \in Session
  BY <1>2, <1>3 DEF Sound
<1>5. Good(y, said) /\ InRange(y) /\ Seen(y) = Numbers(job.keep)
  BY <1>2, <1>4, KeptIs
<1> HIDE DEF o, y
<1>6. /\ Sound([heap EXCEPT ![o] = y], said) /\ [heap EXCEPT ![o] = y][o] = y
      /\ \A p \in Objects \ {o} : [heap EXCEPT ![o] = y][p] = heap[p]
  BY <1>2, <1>3, <1>5, PlacedIs
<1>7. Sound(heap', said) /\ heap'[o] = y /\ (\A p \in Objects \ {o} : heap'[p] = heap[p]) /\ disk' = y
  BY <1>1, <1>6
<1> QED BY <1>1, <1>2, <1>3, <1>5, <1>7 DEF o, y

\* Compaction saves what it keeps.
LEMMA EndCompactionTypes == TypeInv /\ EndCompaction => TypeInv'
<1> SUFFICES ASSUME TypeInv, EndCompaction PROVE TypeInv'
  OBVIOUS
<1>1. /\ queue # <<>> /\ queue[1] = "idle" /\ "idle" \in Workers
      /\ work["idle"].object \in Objects
      /\ log' = Logged(work["idle"].chunk)
      /\ Sound(heap', said) /\ Good(disk', said) /\ cache' = work["idle"].object
      /\ work' = [work EXCEPT !["idle"] = NoJob] /\ queue' = Tail(queue)
      /\ UNCHANGED <<turn, leaving, said, news, old, crashes>>
  BY EndCompactionIs
<1>2. LockType
  BY DEF TypeInv
<1>3. LockType'
  <2>1. turn' = IF "idle" = "turn" THEN [turn EXCEPT !.step = "running"] ELSE turn
    BY <1>1
  <2> QED BY <1>1, <1>2, <2>1, LeaveIs
<1>4. SessionInv'
  <2>1. Neat(work'["idle"].keep, said)
    BY <1>1, <1>2, JobIs, NeatMore DEF LockType
  <2> QED BY <1>1, <2>1 DEF SessionInv
<1>5. TurnInv'
  BY <1>1 DEF TypeInv, TurnInv
<1>6. RestType'
  BY <1>1, LoggedIs DEF TypeInv, RestType
<1> QED BY <1>3, <1>4, <1>5, <1>6 DEF TypeInv

\* A session with the messages from k + 1 to m.
Grown(x, y, k, m) ==
  /\ Good(y, m) /\ Longer(x, y)
  /\ InRange(x) => InRange(y) /\ Seen(y) = Seen(x) \cup ((k + 1)..m)

\* Closing an interrupted turn adds one message at most.
LEMMA GrownByRestored ==
  ASSUME said \in Nat, NEW x, Good(x, said), said + 1 <= MaxMessages
  PROVE  Told(x) \in said..(said + 1) /\ Grown(x, Restored(x), said, Told(x)) /\ (~Unanswered(x) => Told(x) = said)
BY RestoredIs, Zenon DEF Grown

\* A command's two messages.
Commanded(x, n) == Said(Said(Restored(x), n + 1, "user"), n + 2, "bot")

\* A command adds its message and its answer to that.
LEMMA GrownByCommand ==
  ASSUME said \in Nat, NEW x, Good(x, said), said + 3 <= MaxMessages
  PROVE  Told(x) \in said..(said + 1) /\ Grown(x, Commanded(x, Told(x)), said, Told(x) + 2)
<1> DEFINE n == Told(x)
           r == Restored(x)
           u == Said(r, n + 1, "user")
           y == Said(u, n + 2, "bot")
<1>1. MaxMessages \in Nat /\ said + 1 <= MaxMessages
  BY ConsolidationAssumption
<1>2. n \in said..(said + 1) /\ Grown(x, r, said, n)
  BY <1>1, GrownByRestored
<1> HIDE DEF n, r
<1>3. n \in Nat /\ n + 1 \in 1..MaxMessages /\ n + 2 \in 1..MaxMessages /\ n < n + 1 /\ n + 1 < n + 2 /\ n + 1 \in Nat
  BY <1>1, <1>2
<1>4. Good(r, n)
  BY <1>2 DEF Grown
<1>5. More(r, u, n + 1) /\ Asked(u.messages)
  BY <1>3, <1>4, SaidIs
<1>6. Good(u, n + 1)
  BY <1>5 DEF More
<1> HIDE DEF u
<1>7. More(u, y, n + 2)
  BY <1>3, <1>5, <1>6, SaidIs
<1> HIDE DEF y
<1>8. Good(y, n + 2) /\ x \in Session /\ r \in Session /\ u \in Session /\ y \in Session
  BY <1>4, <1>6, <1>7 DEF More, Good
<1>9. Longer(x, y)
  BY <1>2, <1>5, <1>7, <1>8, LongerIs DEF Grown, More
<1>10. ASSUME InRange(x) PROVE InRange(y) /\ Seen(y) = Seen(x) \cup ((said + 1)..(n + 2))
  <2>1. InRange(r) /\ Seen(r) = Seen(x) \cup ((said + 1)..n)
    BY <1>2, <1>10 DEF Grown
  <2>2. InRange(y) /\ Seen(y) = (Seen(r) \cup {n + 1}) \cup {n + 2}
    BY <1>5, <1>7, <2>1 DEF More
  <2>3. (said + 1)..(n + 2) = ((said + 1)..n) \cup {n + 1} \cup {n + 2}
    BY <1>2
  <2> QED BY <2>1, <2>2, <2>3
<1>11. y = Commanded(x, n)
  BY Zenon DEF Commanded, y, u, r
<1> QED BY <1>2, <1>8, <1>9, <1>10, <1>11 DEF Grown, n

\* The reply of a turn.
LEMMA GrownByReply ==
  ASSUME NEW k \in Nat, NEW x, Good(x, k), k + 1 <= MaxMessages, Asked(x.messages)
  PROVE  Grown(x, Said(x, k + 1, "bot"), k, k + 1)
<1>1. MaxMessages \in Nat
  BY ConsolidationAssumption
<1>2. k + 1 \in 1..MaxMessages /\ k < k + 1
  BY <1>1
<1>3. (k + 1)..(k + 1) = {k + 1}
  OBVIOUS
<1>4. More(x, Said(x, k + 1, "bot"), k + 1)
  BY <1>2, SaidIs
<1> QED BY <1>3, <1>4 DEF More, Grown

\* A turn begins.
LEMMA BeginTurnIs ==
  ASSUME TypeInv, BeginTurn
  PROVE  /\ turn.step = "none" /\ said' \in said..(said + 1) /\ said + 3 <= MaxMessages
         /\ Grown(Content, disk', said, said')
         /\ Sound(heap', said') /\ heap'[Current] = disk' /\ cache' = Current
         /\ \A o \in Objects \ {Current} : heap'[o] = heap[o]
         /\ ~Unanswered(Content) => said' = said
<1>1. /\ turn.step = "none" /\ said + 3 <= MaxMessages
      /\ heap' = [heap EXCEPT ![Current] = Restored(Content)] /\ cache' = Current /\ disk' = heap'[Current]
      /\ said' = Told(Content)
  BY DEF BeginTurn, Save
<1>2. said \in Nat /\ MaxMessages \in Nat /\ Sound(heap, said) /\ said + 1 <= MaxMessages
  BY <1>1, ConsolidationAssumption DEF TypeInv, RestType, SessionInv
<1>3. Current \in Objects /\ Good(Content, said)
  BY FetchedIs
<1>4. /\ Told(Content) \in said..(said + 1) /\ Grown(Content, Restored(Content), said, Told(Content))
      /\ ~Unanswered(Content) => Told(Content) = said
  BY <1>2, <1>3, GrownByRestored
<1>5. Good(Restored(Content), Told(Content)) /\ said <= Told(Content) /\ Told(Content) \in Nat
  BY <1>2, <1>4 DEF Grown
<1>6. /\ Sound([heap EXCEPT ![Current] = Restored(Content)], Told(Content))
      /\ [heap EXCEPT ![Current] = Restored(Content)][Current] = Restored(Content)
      /\ \A o \in Objects \ {Current} : [heap EXCEPT ![Current] = Restored(Content)][o] = heap[o]
  BY <1>2, <1>3, <1>5, PlacedIs
<1> QED BY <1>1, <1>4, <1>6

\* A turn begins.
LEMMA BeginTurnTypes == TypeInv /\ BeginTurn => TypeInv'
<1> SUFFICES ASSUME TypeInv, BeginTurn PROVE TypeInv'
  OBVIOUS
<1>1. /\ turn.step = "none" /\ said' \in said..(said + 1) /\ said + 3 <= MaxMessages
      /\ Grown(Content, disk', said, said') /\ Sound(heap', said') /\ cache' = Current
  BY BeginTurnIs
<1>2. /\ turn' = [step |-> "building", object |-> Current]
      /\ work' = [work EXCEPT !["turn"] = Waiting] /\ queue' = Append(queue, "turn")
      /\ UNCHANGED <<log, leaving, news, old, crashes>>
  BY DEF BeginTurn
<1>3. LockType /\ "turn" \in Workers /\ "idle" \in Workers /\ said \in 0..MaxMessages /\ MaxMessages \in Nat
      /\ Neat(work["idle"].keep, said)
  BY ConsolidationAssumption DEF TypeInv, RestType, SessionInv, Workers
<1>4. Current \in Objects /\ None \notin Objects
  BY FetchedIs, ConsolidationAssumption
<1>5. work["turn"].step = "none" /\ ~In(queue, "turn")
  BY <1>1, <1>3 DEF LockType, LockInv
<1>6. LockType'
  <2>1. /\ turn' \in [step : {"none", "building", "running"}, object : Objects \cup {None}]
        /\ turn'.step = "none" <=> turn'.object = None
        /\ turn'.step = "building"
    BY <1>2, <1>4
  <2>2. turn.step # "building"
    BY <1>1
  <2> QED BY <1>2, <1>3, <1>5, <2>1, <2>2, JobIs, JoinIs
<1>7. said' \in Nat /\ said <= said' /\ said' + 2 <= MaxMessages /\ said \in Nat /\ said' <= MaxMessages
  <2>1. said \in Nat /\ MaxMessages \in Nat
    BY <1>3
  <2>2. said' \in said..(said + 1) /\ said + 3 <= MaxMessages
    BY <1>1
  <2>3. said' \in Nat /\ said <= said' /\ said' <= said + 1
    BY <2>1, <2>2
  <2>4. \A a, b, m \in Nat : b <= a + 1 /\ a + 3 <= m => b + 2 <= m /\ b <= m
    OBVIOUS
  <2>5. said' + 2 <= MaxMessages /\ said' <= MaxMessages
    BY <2>1, <2>2, <2>3, <2>4
  <2> QED BY <2>1, <2>3, <2>5
<1>8. SessionInv'
  <2>1. work'["idle"] = work["idle"]
    BY <1>2, <1>3 DEF LockType
  <2>2. Neat(work["idle"].keep, said')
    BY <1>3, <1>7, NeatMore
  <2> QED BY <1>1, <2>1, <2>2 DEF SessionInv, Grown
<1>9. TurnInv'
  <2>1. turn'.step = "building"
    BY <1>2
  <2> QED BY <1>7, <2>1 DEF TurnInv
<1>10. RestType'
  <2>1. said' \in 0..MaxMessages /\ old \in 0..said'
    <3>1. old \in 0..said /\ MaxMessages \in Nat
      BY <1>3 DEF TypeInv, RestType
    <3> QED BY <1>7, <3>1
  <2> QED BY <1>1, <1>2, <1>4, <2>1 DEF TypeInv, RestType
<1> QED BY <1>6, <1>8, <1>9, <1>10 DEF TypeInv

\* What a command leaves.
LEMMA CommandIs ==
  ASSUME TypeInv, Command
  PROVE  /\ turn.step = "none" /\ said' \in said..(said + 3) /\ said' <= MaxMessages
         /\ Grown(Content, disk', said, said')
         /\ Sound(heap', said') /\ heap'[Current] = disk' /\ cache' = Current
         /\ \A o \in Objects \ {Current} : heap'[o] = heap[o]
         /\ UNCHANGED <<log, queue, work, turn, leaving, news, old, crashes>>
<1> DEFINE n == Told(Content)
           y == Commanded(Content, n)
<1>1. /\ turn.step = "none" /\ said + 3 <= MaxMessages
      /\ heap' = [heap EXCEPT ![Current] = y] /\ cache' = Current /\ disk' = heap'[Current]
      /\ said' = n + 2
      /\ UNCHANGED <<log, queue, work, turn, leaving, news, old, crashes>>
  BY DEF Command, Save, Commanded
<1>2. said \in Nat /\ MaxMessages \in Nat /\ Sound(heap, said)
  BY <1>1, ConsolidationAssumption DEF TypeInv, RestType, SessionInv
<1>3. Current \in Objects /\ Good(Content, said)
  BY FetchedIs
<1>4. n \in said..(said + 1) /\ Grown(Content, y, said, n + 2)
  BY <1>1, <1>2, <1>3, GrownByCommand
<1> HIDE DEF n, y
<1>5. Good(y, n + 2) /\ said <= n + 2 /\ n + 2 \in Nat
  BY <1>2, <1>4 DEF Grown
<1>6. /\ Sound([heap EXCEPT ![Current] = y], n + 2) /\ [heap EXCEPT ![Current] = y][Current] = y
      /\ \A o \in Objects \ {Current} : [heap EXCEPT ![Current] = y][o] = heap[o]
  BY <1>2, <1>3, <1>5, PlacedIs
<1>7. said' \in said..(said + 3) /\ said' <= MaxMessages
  BY <1>1, <1>2, <1>4
<1> QED BY <1>1, <1>4, <1>6, <1>7

\* A command.
LEMMA CommandTypes == TypeInv /\ Command => TypeInv'
<1> SUFFICES ASSUME TypeInv, Command PROVE TypeInv'
  OBVIOUS
<1>1. /\ turn.step = "none" /\ said' \in said..(said + 3) /\ said' <= MaxMessages
      /\ Grown(Content, disk', said, said') /\ Sound(heap', said') /\ cache' = Current
      /\ UNCHANGED <<log, queue, work, turn, leaving, news, old, crashes>>
  BY CommandIs
<1>2. LockType /\ said \in 0..MaxMessages /\ MaxMessages \in Nat /\ Neat(work["idle"].keep, said) /\ Current \in Objects
  BY ConsolidationAssumption, FetchedIs DEF TypeInv, RestType, SessionInv
<1>3. said \in Nat /\ said' \in Nat /\ said <= said'
  BY <1>1, <1>2
<1>4. LockType'
  BY <1>1, <1>2 DEF LockType, LockInv, Lineup, In, Awaiting
<1>5. SessionInv'
  <2>1. Neat(work["idle"].keep, said')
    BY <1>2, <1>3, NeatMore
  <2> QED BY <1>1, <2>1 DEF SessionInv, Grown
<1>6. TurnInv'
  BY <1>1 DEF TurnInv
<1>7. RestType'
  <2>1. said' \in 0..MaxMessages /\ old \in 0..said'
    BY <1>1, <1>2, <1>3 DEF TypeInv, RestType
  <2> QED BY <1>1, <1>2, <2>1 DEF TypeInv, RestType
<1> QED BY <1>4, <1>5, <1>6, <1>7 DEF TypeInv

\* The session at the end of a turn: with the reply, then capped.
Replied == Said(heap[turn.object], said + 1, "bot")

\* What the end of a turn leaves.
LEMMA EndTurnIs ==
  ASSUME TypeInv, EndTurn
  PROVE  /\ turn.step = "running" /\ turn.object \in Objects /\ queue = <<>>
         /\ Good(heap[turn.object], said) /\ Grown(heap[turn.object], Replied, said, said + 1)
         /\ Overflow(Replied) \in Seq(Message) /\ log' = Logged(Overflow(Replied))
         /\ Same(Trimmed(Replied), disk') /\ Good(disk', said + 1) /\ Sound(heap', said + 1)
         /\ heap'[turn.object] = disk' /\ cache' = turn.object
         /\ said' = said + 1 /\ said + 1 <= MaxMessages /\ turn' = NoTurn
         /\ work' = [work EXCEPT !["background"] = Waiting] /\ queue' = Append(queue, "background")
         /\ UNCHANGED <<leaving, news, old, crashes>>
<1> DEFINE x == heap[turn.object]
           y == [Trimmed(Replied) EXCEPT !.open = FALSE]
<1>1. /\ turn.step = "running"
      /\ log' = Logged(Overflow(Replied))
      /\ heap' = [heap EXCEPT ![turn.object] = y] /\ cache' = turn.object /\ disk' = heap'[turn.object]
      /\ said' = said + 1 /\ turn' = NoTurn
      /\ work' = [work EXCEPT !["background"] = Waiting] /\ queue' = Append(queue, "background")
      /\ UNCHANGED <<leaving, news, old, crashes>>
  BY DEF EndTurn, Save, Replied
<1>2. said \in Nat /\ said + 1 \in Nat /\ said <= said + 1 /\ Sound(heap, said)
  BY ConsolidationAssumption DEF TypeInv, RestType, SessionInv
<1>3. turn.object \in Objects
  BY <1>1 DEF TypeInv, LockType, LockInv
<1>4. said + 1 <= MaxMessages /\ queue = <<>> /\ Asked(x.messages)
  BY <1>1 DEF TypeInv, TurnInv
<1>5. Good(x, said)
  BY <1>2, <1>3 DEF Sound
<1>6. Grown(x, Replied, said, said + 1)
  BY <1>2, <1>4, <1>5, GrownByReply DEF Replied
<1>7. Good(Replied, said + 1)
  BY <1>6 DEF Grown
<1>8. Good(Trimmed(Replied), said + 1) /\ Overflow(Replied) \in Seq(Message)
  BY <1>2, <1>7, TrimmedIs
<1>9. Same(Trimmed(Replied), y)
  BY <1>8, OpenIs DEF Good
<1>10. Good(y, said + 1)
  BY <1>8, <1>9, SameIs
<1> HIDE DEF y
<1>11. Sound([heap EXCEPT ![turn.object] = y], said + 1) /\ [heap EXCEPT ![turn.object] = y][turn.object] = y
  BY <1>2, <1>3, <1>10, PlacedIs
<1>12. Sound(heap', said + 1) /\ disk' = y /\ heap'[turn.object] = y
  BY <1>1, <1>11
<1> QED BY <1>1, <1>3, <1>4, <1>5, <1>6, <1>8, <1>9, <1>10, <1>12

\* A turn ends.
LEMMA EndTurnTypes == TypeInv /\ EndTurn => TypeInv'
<1> SUFFICES ASSUME TypeInv, EndTurn PROVE TypeInv'
  OBVIOUS
<1>1. /\ turn.step = "running" /\ turn.object \in Objects /\ queue = <<>>
      /\ log' = Logged(Overflow(Replied))
      /\ Good(disk', said + 1) /\ Sound(heap', said + 1) /\ cache' = turn.object
      /\ said' = said + 1 /\ said + 1 <= MaxMessages /\ turn' = NoTurn
      /\ work' = [work EXCEPT !["background"] = Waiting] /\ queue' = Append(queue, "background")
      /\ UNCHANGED <<leaving, news, old, crashes>>
  BY EndTurnIs
<1>2. LockType /\ said \in 0..MaxMessages /\ MaxMessages \in Nat /\ "background" \in Workers /\ "idle" \in Workers
      /\ Neat(work["idle"].keep, said)
  BY ConsolidationAssumption DEF TypeInv, RestType, SessionInv, Workers
<1>3. LockType'
  <2>1. ~In(queue, "background")
    BY <1>1 DEF In
  <2>2. /\ turn' \in [step : {"none", "building", "running"}, object : Objects \cup {None}]
        /\ turn'.step = "none" /\ turn'.object = None
    BY <1>1 DEF NoTurn
  <2> QED BY <1>1, <1>2, <2>1, <2>2, JobIs, JoinIs
<1>4. SessionInv'
  <2>1. work'["idle"] = work["idle"]
    BY <1>1, <1>2 DEF LockType
  <2>2. Neat(work["idle"].keep, said + 1)
    <3>1. said \in Nat /\ said + 1 \in Nat /\ said <= said + 1
      BY <1>2
    <3> QED BY <1>2, <3>1, NeatMore
  <2> QED BY <1>1, <2>1, <2>2 DEF SessionInv
<1>5. TurnInv'
  BY <1>1 DEF TurnInv, NoTurn
<1>6. RestType'
  <2>1. said' \in 0..MaxMessages /\ old \in 0..said'
    BY <1>1, <1>2 DEF TypeInv, RestType
  <2> QED BY <1>1, <2>1, LoggedIs DEF TypeInv, RestType
<1> QED BY <1>3, <1>4, <1>5, <1>6 DEF TypeInv

\* /stop.
LEMMA StopTypes == TypeInv /\ Stop => TypeInv'
<1> SUFFICES ASSUME TypeInv, Stop PROVE TypeInv'
  OBVIOUS
<1>1. Cancelled /\ UNCHANGED <<heap, cache, disk, log, leaving, said, news, old, crashes>>
  BY DEF Stop
<1>2. LockType' /\ turn'.step = "none" /\ work'["idle"] = work["idle"]
  BY <1>1, CancelledIs DEF TypeInv, Workers
<1>3. SessionInv'
  BY <1>1, <1>2 DEF TypeInv, SessionInv
<1>4. TurnInv'
  BY <1>2 DEF TurnInv
<1>5. RestType'
  BY <1>1 DEF TypeInv, RestType
<1> QED BY <1>2, <1>3, <1>4, <1>5 DEF TypeInv

\* What /new finds, and leaves.
Found == IF turn.step = "none" THEN Restored(Content) ELSE Content

\* What /new leaves.
LEMMA NewIs ==
  ASSUME TypeInv, New
  PROVE  /\ said' \in said..(said + 1) /\ said' <= MaxMessages
         /\ Grown(Content, Found, said, said')
         /\ Good(disk', said') /\ InRange(disk') /\ Seen(disk') = {}
         /\ Sound(heap', said') /\ cache' = None /\ Cancelled
         /\ Visible(Found) \in Seq(Message) /\ leaving' = leaving \cup ({Visible(Found)} \ {<<>>})
         /\ news < MaxNews /\ news' = news + 1 /\ old' = said' /\ UNCHANGED <<log, crashes>>
         /\ "new" \notin Overlaps => ~Awaiting("background") /\ ~Awaiting("idle")
<1> DEFINE y == [Found EXCEPT !.messages = <<>>, !.done = 0]
<1>1. /\ said + 1 <= MaxMessages
      /\ leaving' = leaving \cup ({Visible(Found)} \ {<<>>})
      /\ heap' = [heap EXCEPT ![Current] = y] /\ disk' = y /\ cache' = None /\ Cancelled
      /\ said' = IF turn.step = "none" THEN Told(Content) ELSE said
      /\ news < MaxNews /\ news' = news + 1 /\ old' = said' /\ UNCHANGED <<log, crashes>>
      /\ "new" \notin Overlaps => ~Awaiting("background") /\ ~Awaiting("idle")
  BY DEF New, Found
<1>2. said \in Nat /\ MaxMessages \in Nat /\ Sound(heap, said)
  BY <1>1, ConsolidationAssumption DEF TypeInv, RestType, SessionInv
<1>3. Current \in Objects /\ Good(Content, said) /\ Content \in Session
  BY FetchedIs
<1>4. said' \in said..(said + 1) /\ Grown(Content, Found, said, said')
  <2>1. CASE turn.step = "none"
    BY <1>1, <1>2, <1>3, <2>1, GrownByRestored DEF Found
  <2>2. CASE turn.step # "none"
    <3>1. said' = said /\ (said + 1)..said = {} /\ Found = Content
      BY <1>1, <1>2, <2>2 DEF Found
    <3>2. Same(Content, Content)
      BY <1>3 DEF Same
    <3>3. Longer(Content, Content)
      BY <1>3, <3>2, LongerIs
    <3>4. said' \in said..(said + 1)
      BY <1>2, <3>1
    <3> QED BY <1>3, <3>1, <3>3, <3>4 DEF Grown
  <2> QED BY <2>1, <2>2
<1>5. Good(Found, said') /\ said' \in Nat /\ said <= said' /\ said' <= MaxMessages /\ Found \in Session
  BY <1>1, <1>2, <1>4 DEF Grown, Good
<1>6. Good(y, said') /\ InRange(y) /\ Seen(y) = {}
  BY <1>5, ClearedIs
<1>7. Visible(Found) \in Seq(Message)
  BY <1>5, SeenIs
<1> HIDE DEF y
<1>8. Sound([heap EXCEPT ![Current] = y], said')
  BY <1>2, <1>3, <1>5, <1>6, PlacedIs
<1> QED BY <1>1, <1>4, <1>5, <1>6, <1>7, <1>8

\* /new.
LEMMA NewTypes == TypeInv /\ New => TypeInv'
<1> SUFFICES ASSUME TypeInv, New PROVE TypeInv'
  OBVIOUS
<1>1. /\ said' \in said..(said + 1) /\ said' <= MaxMessages /\ Good(disk', said') /\ Sound(heap', said')
      /\ cache' = None /\ Cancelled
      /\ Visible(Found) \in Seq(Message) /\ leaving' = leaving \cup ({Visible(Found)} \ {<<>>})
      /\ news < MaxNews /\ news' = news + 1 /\ old' = said' /\ UNCHANGED <<log, crashes>>
  BY NewIs
<1>2. said \in 0..MaxMessages /\ MaxMessages \in Nat /\ MaxNews \in Nat /\ Neat(work["idle"].keep, said)
  BY ConsolidationAssumption DEF TypeInv, RestType, SessionInv
<1>3. said \in Nat /\ said' \in Nat /\ said <= said'
  BY <1>1, <1>2
<1>4. LockType' /\ turn'.step = "none" /\ work'["idle"] = work["idle"]
  BY <1>1, CancelledIs DEF TypeInv, Workers
<1>5. SessionInv'
  <2>1. Neat(work["idle"].keep, said')
    BY <1>2, <1>3, NeatMore
  <2> QED BY <1>1, <1>4, <2>1 DEF SessionInv
<1>6. TurnInv'
  BY <1>4 DEF TurnInv
<1>7. RestType'
  <2>1. said' \in 0..MaxMessages /\ old' \in 0..said' /\ news' \in 0..MaxNews
    BY <1>1, <1>2, <1>3 DEF TypeInv, RestType
  <2> QED BY <1>1, <2>1 DEF TypeInv, RestType
<1> QED BY <1>4, <1>5, <1>6, <1>7 DEF TypeInv

\* The archive task of /new.
LEMMA ArchiveLeftTypes == TypeInv /\ ArchiveLeft => TypeInv'
<1> SUFFICES ASSUME TypeInv, ArchiveLeft PROVE TypeInv'
  OBVIOUS
<1>1. PICK chunk \in leaving :
        /\ leaving' = leaving \ {chunk} /\ log' = Logged(chunk)
        /\ UNCHANGED <<heap, cache, disk, queue, work, turn, said, news, old, crashes>>
  BY DEF ArchiveLeft
<1>2. LockType'
  BY <1>1 DEF TypeInv, LockType, LockInv, Lineup, In, Awaiting
<1>3. SessionInv' /\ TurnInv'
  BY <1>1 DEF TypeInv, SessionInv, TurnInv
<1>4. RestType'
  BY <1>1, LoggedIs DEF TypeInv, RestType
<1> QED BY <1>2, <1>3, <1>4 DEF TypeInv

\* The process dies, before the entry of an archive or after it.
LEMMA CrashIs ==
  ASSUME TypeInv, Crash \/ CrashInSave
  PROVE  /\ Dies
         /\ \/ UNCHANGED <<log, unsaved>>
            \/ \E chunk : log' = Logged(chunk) /\ unsaved' = Plus(unsaved, chunk)
BY DEF Crash, CrashInSave

LEMMA CrashTypes == TypeInv /\ (Crash \/ CrashInSave) => TypeInv'
<1> SUFFICES ASSUME TypeInv, Crash \/ CrashInSave PROVE TypeInv'
  OBVIOUS
<1>0. log' \in [1..MaxMessages -> Nat]
  BY CrashIs, LoggedIs DEF TypeInv, RestType
<1>1. /\ crashes < MaxCrashes /\ crashes' = crashes + 1
      /\ heap' = [o \in Objects |-> Empty] /\ cache' = None
      /\ queue' = <<>> /\ work' = [w \in Workers |-> NoJob] /\ turn' = NoTurn /\ leaving' = {}
      /\ UNCHANGED <<disk, said, news, old>>
  BY CrashIs DEF Dies
<1>2. said \in Nat /\ Good(disk, said)
  BY ConsolidationAssumption DEF TypeInv, RestType, SessionInv
<1>3. Empty \in Session /\ Good(Empty, said)
  BY <1>2, EmptyIs DEF Good
<1>4. Sound(heap', said)
  BY <1>1, <1>3 DEF Sound
<1>5. turn' \in [step : {"none", "building", "running"}, object : Objects \cup {None}]
      /\ turn'.step = "none" /\ turn'.object = None
  BY <1>1 DEF NoTurn
<1>6. work' \in [Workers -> Job] /\ \A w \in Workers : work'[w] = NoJob
  BY <1>1, JobIs
<1>7. work'["idle"].keep = <<>> /\ work'["turn"].step = "none"
  BY <1>6, JobIs DEF Workers
<1>8. SessionInv'
  BY <1>1, <1>2, <1>4, <1>7, NeatMore DEF SessionInv
<1>9. Lineup(queue') /\ \A w : ~In(queue', w)
  BY <1>1, EmptySeq DEF Lineup, In
<1>10. LockType'
  BY <1>5, <1>6, <1>7, <1>9, JobIs DEF LockType, LockInv, Awaiting
<1>11. TurnInv'
  BY <1>5 DEF TurnInv
<1>12. RestType'
  BY <1>0, <1>1, ConsolidationAssumption DEF TypeInv, RestType
<1> QED BY <1>8, <1>10, <1>11, <1>12 DEF TypeInv

\* No other step counts an entry as unsaved.
LEMMA UnsavedIs ==
  ASSUME TypeInv, [Next]_vars, unsaved' # unsaved
  PROVE  CrashInSave
BY DEF vars, Next, Lock, Consolidate, Expire, BeginCompaction, EndCompaction, BeginTurn, Command,
       EndTurn, Stop, New, ArchiveLeft, Crash

\* Every step keeps the types.
LEMMA TypeInvStep == TypeInv /\ [Next]_vars => TypeInv'
<1> SUFFICES ASSUME TypeInv, [Next]_vars PROVE TypeInv'
  OBVIOUS
<1>1. ASSUME NEW w \in Workers, Lock(w) PROVE TypeInv'
  BY <1>1, LockTypes
<1>2. ASSUME NEW w \in Workers, Consolidate(w) PROVE TypeInv'
  BY <1>2, ConsolidateTypes
<1>3. CASE UNCHANGED vars
  BY <1>3 DEF vars, TypeInv, LockType, LockInv, Lineup, In, Awaiting, SessionInv, TurnInv, RestType
<1> QED BY <1>1, <1>2, <1>3, ExpireTypes, BeginCompactionTypes, EndCompactionTypes, BeginTurnTypes,
        CommandTypes, EndTurnTypes, StopTypes, NewTypes, ArchiveLeftTypes, CrashTypes DEF Next

\* TypeInv is an invariant.
LEMMA TypeInvHolds == Spec => []TypeInv
BY TypeInvInit, TypeInvStep, PTL DEF Spec

\* And so is the type of unsaved.
LEMMA UnsavedInvHolds == Spec => []UnsavedInv
<1>1. Init => UnsavedInv
  BY DEF Init, UnsavedInv
<1>2. ASSUME TypeInv, UnsavedInv, [Next]_vars PROVE UnsavedInv'
  <2>1. CASE unsaved' = unsaved
    BY <1>2, <2>1 DEF UnsavedInv
  <2>2. CASE unsaved' # unsaved
    <3>1. \E chunk : unsaved' = Plus(unsaved, chunk)
      BY <1>2, <2>2, UnsavedIs DEF CrashInSave
    <3> QED BY <1>2, <3>1, PlusIs DEF UnsavedInv
  <2> QED BY <2>1, <2>2
<1> QED BY <1>1, <1>2, TypeInvHolds, PTL DEF Spec

\* The state is well-typed: sessions hold messages in their order, and who
\* works has the lock.
THEOREM ConsolidationTypes == Spec => []TypeOK
BY TypeInvHolds, UnsavedInvHolds, TypesHold, PTL

-----------------------------------------------------------------------------
(* How messages go from session to session *)

\* The sessions that go on are the file, the cached object and the turn's.
LEMMA SessionsAre ==
  /\ disk \in Sessions /\ (cache # None => heap[cache] \in Sessions)
  /\ turn.object # None => heap[turn.object] \in Sessions
  /\ \A x \in Sessions : \/ x = disk
                         \/ cache # None /\ x = heap[cache]
                         \/ turn.object # None /\ x = heap[turn.object]
BY DEF Sessions, Live

\* The same after a step.
LEMMA NextSessionsAre ==
  \A x \in Sessions' : \/ x = disk'
                       \/ cache' # None /\ x = heap'[cache']
                       \/ turn'.object # None /\ x = heap'[turn'.object]
BY DEF Sessions, Live

\* The numbers of the messages that a step says.
Recent == (said + 1)..said'

\* A session that goes on continues one before: it sees the new messages, and no
\* more what is archived.
Flow(C) ==
  \A y \in Sessions' : \E x \in Sessions :
    /\ Seen(y) \subseteq Seen(x) \cup Recent
    /\ "unlocked" \notin Overlaps => Seen(x) \cup Recent \subseteq Seen(y) \cup C
    /\ "stale" \notin Overlaps => Seen(y) \cap C = {}

\* What is archived was seen.
Archived(C) ==
  /\ \E x \in Sessions : C \subseteq Seen(x) \cup Recent
  /\ \A n \in 1..MaxMessages : log'[n] = IF n \in C THEN log[n] + 1 ELSE log[n]

\* A step that archives C.
Step(C) ==
  /\ Flow(C) /\ Archived(C)
  /\ said' \in Nat /\ said <= said' /\ UNCHANGED <<leaving, old>>

\* The sessions a task with the lock goes on with.
Bases(h, o, d) == {d, h[o]} \cup {h[p] : p \in {turn.object} \ {None}}

\* Whatever a holder of the lock does next, a session then sees what a base saw and
\* what is said anew.
LEMMA GoOnFlows ==
  ASSUME TypeInv, TypeInv', NEW w \in {"turn", "background"}, queue # <<>>, queue[1] = w,
         NEW h, Sound(h, said), NEW o \in Objects, NEW d, GoOn(w, h, o, d),
         \A x \in Bases(h, o, d) : InRange(x),
         "stale" \notin Overlaps =>
           (turn.step # "none" => turn.object = o) /\ (work["idle"].step = "locking" => turn.step = "none")
  PROVE  /\ RangeInv' /\ JobsInv'
         /\ \A y \in Sessions' : \E x \in Bases(h, o, d) : Seen(y) = Seen(x) \cup Recent
         /\ said' \in Nat /\ said <= said'
<1>1. /\ LockType /\ said \in Nat /\ w \in Workers /\ w # "idle" /\ "idle" \in Workers
      /\ work \in [Workers -> Job] /\ o # None
  BY ConsolidationAssumption DEF TypeInv, RestType, Workers, LockType
<1>2. /\ d \in Bases(h, o, d) /\ h[o] \in Bases(h, o, d)
      /\ turn.object # None => h[turn.object] \in Bases(h, o, d)
  BY DEF Bases
<1>3. Good(h[o], said)
  BY DEF Sound
<1>4. CASE /\ \E end \in Ends(h[o]) :
                 work' = [work EXCEPT ![w] =
                            Archiving(o, SubSeq(h[o].messages, h[o].done + 1, end), <<>>, end)]
           /\ heap' = h /\ cache' = o /\ disk' = d
           /\ UNCHANGED <<queue, turn, said>>
  <2>1. PICK end \in Ends(h[o]) :
               work' = [work EXCEPT ![w] =
                          Archiving(o, SubSeq(h[o].messages, h[o].done + 1, end), <<>>, end)]
    BY <1>4
  <2>2. Recent = {} /\ said' \in Nat /\ said <= said'
    BY <1>1, <1>4 DEF Recent
  <2>3. \A y \in Sessions' : y \in Bases(h, o, d)
    BY <1>2, <1>4, NextSessionsAre
  <2>4. RangeInv'
    <3>1. work'["idle"] = work["idle"]
      BY <1>1, <2>1
    <3> QED BY <1>1, <1>4, <2>3, <3>1 DEF RangeInv
  <2>5. JobsInv'
    <3> DEFINE chunk == SubSeq(h[o].messages, h[o].done + 1, end)
               job   == Archiving(o, chunk, <<>>, end)
    <3>1. end \in Nat /\ h[o].done <= end /\ end <= Len(h[o].messages) /\ chunk \in Seq(Message)
      BY <1>1, <1>3, EndsIs
    <3>2. job.step = "archiving" /\ job.object = o /\ job.chunk = chunk /\ job.end = end
      BY DEF Archiving
    <3>3. work'[w] = job /\ \A v \in Workers \ {w} : work'[v] = work[v]
      BY <1>1, <2>1
    <3> HIDE DEF chunk, job
    <3>4. \A v \in Workers : Awaiting(v)' => v = w
      <4> SUFFICES ASSUME NEW v \in Workers, Awaiting(v)', v # w PROVE FALSE
        OBVIOUS
      <4>1. Awaiting(v)
        BY <3>3 DEF Awaiting
      <4> QED BY <1>1, <4>1, HolderIs
    <3>5. {"turn", "background"} \subseteq Workers
      BY DEF Workers
    <3>6. \A v \in Workers : Awaiting(v)' => work'[v].object = cache'
      BY <1>4, <3>2, <3>3, <3>4
    <3>7. \A v \in {"turn", "background"} : Awaiting(v)' =>
            LET x == heap'[work'[v].object] IN
            /\ x.done <= work'[v].end /\ work'[v].end <= Len(x.messages)
            /\ work'[v].chunk = SubSeq(x.messages, x.done + 1, work'[v].end)
      BY <1>4, <3>1, <3>2, <3>3, <3>4, <3>5 DEF chunk
    <3>8. ~Awaiting("idle")'
      BY <1>1, <3>4
    <3> QED BY <3>6, <3>7, <3>8, Zenon DEF JobsInv
  <2>6. \A y \in Sessions' : \E x \in Bases(h, o, d) : Seen(y) = Seen(x) \cup Recent
    BY <2>2, <2>3
  <2> QED BY <2>2, <2>4, <2>5, <2>6
<1>5. CASE /\ w # "turn"
           /\ work' = [work EXCEPT ![w] = NoJob] /\ queue' = Tail(queue)
           /\ heap' = h /\ cache' = o /\ disk' = d
           /\ UNCHANGED <<turn, said>>
  <2>1. Recent = {} /\ said' \in Nat /\ said <= said'
    BY <1>1, <1>5 DEF Recent
  <2>2. \A y \in Sessions' : y \in Bases(h, o, d)
    BY <1>2, <1>5, NextSessionsAre
  <2>3. RangeInv'
    <3>1. work'["idle"] = work["idle"]
      BY <1>1, <1>5
    <3> QED BY <1>1, <1>5, <2>2, <3>1 DEF RangeInv
  <2>4. JobsInv'
    <3>1. turn' = IF w = "turn" THEN [turn EXCEPT !.step = "running"] ELSE turn
      BY <1>5
    <3>2. \A v \in Workers : ~Awaiting(v)'
      BY <1>1, <1>5, <3>1, LeaveIs
    <3> QED BY <3>2 DEF JobsInv, Workers
  <2>5. \A y \in Sessions' : \E x \in Bases(h, o, d) : Seen(y) = Seen(x) \cup Recent
    BY <2>1, <2>2
  <2> QED BY <2>1, <2>3, <2>4, <2>5
<1>6. CASE /\ w = "turn"
           /\ work' = [work EXCEPT ![w] = NoJob] /\ queue' = Tail(queue)
           /\ heap' = [h EXCEPT ![turn.object] = Asking(h[turn.object], said + 1)]
           /\ cache' = turn.object /\ disk' = heap'[turn.object]
           /\ turn' = [turn EXCEPT !.step = "running"] /\ said' = said + 1
  <2> DEFINE x == h[turn.object]
             y == Asking(x, said + 1)
  <2>1. turn' = IF w = "turn" THEN [turn EXCEPT !.step = "running"] ELSE turn
    BY <1>6
  <2>2. (\A v \in Workers : ~Awaiting(v)') /\ turn'.object = turn.object /\ queue' = <<>>
    BY <1>1, <1>6, <2>1, LeaveIs
  <2>3. turn.object \in Objects /\ turn.object # None
    <3>1. work["turn"].step # "none"
      BY <1>1, <1>6, HolderIs
    <3> QED BY <1>1, <3>1 DEF LockType, LockInv
  <2>4. said' = said + 1 /\ said' \in Nat /\ said < said' /\ said <= said' /\ said' \in 1..MaxMessages
    <3>1. said' = said + 1 /\ said \in Nat
      BY <1>1, <1>6
    <3>2. said' \in 0..MaxMessages /\ MaxMessages \in Nat
      BY ConsolidationAssumption DEF TypeInv, RestType
    <3> QED BY <3>1, <3>2
  <2>5. Good(x, said) /\ x \in Bases(h, o, d)
    BY <1>2, <2>3 DEF Sound
  <2>6. More(x, y, said + 1)
    BY <1>1, <2>4, <2>5, AskingIs
  <2>7. InRange(y) /\ Seen(y) = Seen(x) \cup {said + 1}
    BY <2>5, <2>6 DEF More
  <2>8. {said + 1} = Recent
    BY <1>1, <1>6 DEF Recent
  <2>9. heap'[turn.object] = y
    <3>1. h \in [Objects -> Session] /\ heap' = [h EXCEPT ![turn.object] = y]
      BY <1>6 DEF Sound
    <3> HIDE DEF y
    <3> QED BY <2>3, <3>1
  <2> HIDE DEF x, y
  <2>10. \A z \in Sessions' : z = y
    BY <1>6, <2>2, <2>9, NextSessionsAre
  <2>11. JobsInv'
    BY <2>2 DEF JobsInv, Workers
  <2>12. RangeInv'
    <3>1. ~(work'["idle"].step = "locking")
      <4>1. LockType' /\ ~In(queue', "idle")
        BY <2>2, EmptySeq DEF TypeInv, In
      <4> QED BY <1>1, <4>1 DEF LockType, LockInv
    <3> QED BY <1>6, <2>2, <2>3, <2>7, <2>10, <3>1 DEF RangeInv
  <2>13. \A z \in Sessions' : \E b \in Bases(h, o, d) : Seen(z) = Seen(b) \cup Recent
    BY <2>5, <2>7, <2>8, <2>10
  <2> QED BY <2>4, <2>11, <2>12, <2>13
<1> QED BY <1>4, <1>5, <1>6, GoOnIs

\* A step that archives nothing.
LEMMA QuietStep ==
  ASSUME \A y \in Sessions' : \E x \in Sessions : Seen(y) = Seen(x) \cup Recent,
         said' \in Nat, said <= said', UNCHANGED <<log, leaving, old>>
  PROVE  Step({})
<1>1. Flow({})
  BY DEF Flow
<1>2. Archived({})
  BY SessionsAre DEF Archived
<1> QED BY <1>1, <1>2 DEF Step

\* What get_or_create returns continues the cached session or the file.
LEMMA ContentIs ==
  ASSUME TypeInv, RangeInv
  PROVE  InRange(Content) /\ \E x \in Sessions : Seen(Content) = Seen(x)
<1>1. Good(disk, said) /\ said \in Nat /\ InRange(disk)
  BY SessionsAre, ConsolidationAssumption DEF TypeInv, RestType, SessionInv, RangeInv
<1>2. CASE cache = None
  BY <1>1, <1>2, LoadedIs, FetchedIs, SessionsAre
<1>3. CASE cache # None
  BY <1>3, FetchedIs, SessionsAre DEF RangeInv
<1> QED BY <1>2, <1>3

\* A task takes the lock.
LEMMA LockFlows ==
  ASSUME TypeInv, TypeInv', RangeInv, NEW w \in Workers, Lock(w)
  PROVE  RangeInv' /\ JobsInv' /\ Step({})
<1>1. /\ w \in {"turn", "background"} /\ work[w].step = "locking" /\ Head(queue) = w
      /\ GoOn(w, Fetched, Current, disk) /\ UNCHANGED <<log, leaving, news, old, crashes>>
  BY DEF Lock, Fetched
<1>2. LockType /\ turn.object \in Objects \cup {None}
  BY DEF TypeInv, LockType
<1>3. queue # <<>> /\ queue[1] = w
  BY <1>1, <1>2, HolderIs
<1>4. Sound(Fetched, said) /\ Current \in Objects /\ Fetched[Current] = Content
      /\ (\A o \in Objects \ {Current} : Fetched[o] = heap[o]) /\ (cache # None => Current = cache)
  BY FetchedIs
<1>5. ASSUME NEW x \in Bases(Fetched, Current, disk)
      PROVE  InRange(x) /\ \E b \in Sessions : Seen(x) = Seen(b)
  <2>1. x = disk \/ x = Content \/ (turn.object # None /\ x = heap[turn.object])
    BY <1>2, <1>4 DEF Bases
  <2> QED BY <2>1, ContentIs, SessionsAre DEF RangeInv
<1>6. "stale" \notin Overlaps =>
        (turn.step # "none" => turn.object = Current) /\ (work["idle"].step = "locking" => turn.step = "none")
  BY <1>4 DEF RangeInv
<1>7. /\ RangeInv' /\ JobsInv'
      /\ \A y \in Sessions' : \E x \in Bases(Fetched, Current, disk) : Seen(y) = Seen(x) \cup Recent
      /\ said' \in Nat /\ said <= said'
  BY <1>1, <1>3, <1>4, <1>5, <1>6, GoOnFlows
<1>8. \A y \in Sessions' : \E x \in Sessions : Seen(y) = Seen(x) \cup Recent
  BY <1>5, <1>7
<1> QED BY <1>1, <1>7, <1>8, QuietStep

\* An answer of the model takes out the chunk it has archived.
LEMMA ConsolidateFlows ==
  ASSUME TypeInv, TypeInv', RangeInv, JobsInv, NEW w \in Workers, Consolidate(w)
  PROVE  RangeInv' /\ JobsInv' /\ Step(Numbers(work[w].chunk))
<1> DEFINE o == work[w].object
           x == heap[o]
           y == Advanced(x, work[w].end)
           h == Consolidated(w)
           C == Numbers(work[w].chunk)
<1>1. w \in {"turn", "background"} /\ Awaiting(w) /\ log' = Logged(work[w].chunk)
      /\ GoOn(w, h, o, h[o]) /\ UNCHANGED <<leaving, news, old, crashes>>
  BY ConsolidateIs
<1>2. /\ queue # <<>> /\ queue[1] = w /\ o \in Objects /\ work[w].end \in Nat
      /\ Sound(h, said) /\ h[o] = y /\ \A p \in Objects \ {o} : h[p] = heap[p]
  BY <1>1, ConsolidatedIs
<1>3. Sound(heap, said) /\ said \in Nat /\ turn.object \in Objects \cup {None} /\ None \notin Objects
  BY ConsolidationAssumption DEF TypeInv, RestType, SessionInv, LockType
<1>4. o = cache /\ x \in Sessions /\ Good(x, said)
  <2>1. o = cache
    BY <1>1 DEF JobsInv
  <2>2. cache # None /\ heap[cache] \in Sessions
    BY <1>2, <1>3, <2>1, SessionsAre
  <2> QED BY <1>2, <1>3, <2>1, <2>2 DEF Sound
<1>5. x.done <= work[w].end /\ work[w].end <= Len(x.messages)
      /\ work[w].chunk = SubSeq(x.messages, x.done + 1, work[w].end)
  BY <1>1 DEF JobsInv
<1>6. InRange(y) /\ Seen(x) = C \cup Seen(y) /\ C \cap Seen(y) = {}
  <2> DEFINE e == work[w].end
  <2>1. Good(x, said) /\ e \in Nat /\ x.done <= e /\ e <= Len(x.messages) /\ said \in Nat
    BY <1>2, <1>3, <1>4, <1>5
  <2>2. C = Numbers(SubSeq(x.messages, x.done + 1, e))
    BY <1>5
  <2>3. y = Advanced(x, e)
    OBVIOUS
  <2> HIDE DEF e, x, y, C
  <2>4. LET chunk == SubSeq(x.messages, x.done + 1, e) IN
        /\ InRange(Advanced(x, e)) /\ Seen(x) = Numbers(chunk) \cup Seen(Advanced(x, e))
        /\ Numbers(chunk) \cap Seen(Advanced(x, e)) = {}
    BY <2>1, AdvancedIs
  <2> QED BY <2>2, <2>3, <2>4
<1>7. \A n \in C : n <= said
  BY <1>3, <1>4, <1>6, SeenIs
<1> HIDE DEF o, y, h, x, C
<1>8. ASSUME NEW b \in Bases(h, o, h[o])
      PROVE  InRange(b) /\ \E a \in Sessions : /\ Seen(b) \subseteq Seen(a) /\ Seen(a) \subseteq Seen(b) \cup C
                                               /\ "stale" \notin Overlaps => Seen(b) \cap C = {}
  <2>1. b = y \/ (turn.object # None /\ turn.object # o /\ b = heap[turn.object])
    BY <1>2, <1>3 DEF Bases
  <2>2. CASE b = y
    BY <1>4, <1>6, <2>2
  <2>3. CASE turn.object # None /\ turn.object # o /\ b = heap[turn.object]
    <3>1. b \in Sessions /\ InRange(b)
      BY <2>3, SessionsAre DEF RangeInv
    <3>2. "stale" \in Overlaps
      <4>1. turn.step # "none"
        BY <2>3 DEF TypeInv, LockType, LockInv
      <4> QED BY <1>4, <2>3, <4>1 DEF RangeInv
    <3> QED BY <3>1, <3>2
  <2> QED BY <2>1, <2>2, <2>3
<1>9. "stale" \notin Overlaps =>
        (turn.step # "none" => turn.object = o) /\ (work["idle"].step = "locking" => turn.step = "none")
  BY <1>4 DEF RangeInv
<1>10. /\ RangeInv' /\ JobsInv'
       /\ \A z \in Sessions' : \E b \in Bases(h, o, h[o]) : Seen(z) = Seen(b) \cup Recent
       /\ said' \in Nat /\ said <= said'
  BY <1>1, <1>2, <1>8, <1>9, GoOnFlows
<1>11. C \cap Recent = {}
  BY <1>3, <1>7, <1>10 DEF Recent
<1>12. Flow(C)
  <2> SUFFICES ASSUME NEW z \in Sessions'
               PROVE  \E a \in Sessions : /\ Seen(z) \subseteq Seen(a) \cup Recent
                                          /\ "unlocked" \notin Overlaps => Seen(a) \cup Recent \subseteq Seen(z) \cup C
                                          /\ "stale" \notin Overlaps => Seen(z) \cap C = {}
    BY Zenon DEF Flow
  <2>1. PICK b \in Bases(h, o, h[o]) : Seen(z) = Seen(b) \cup Recent
    BY <1>10
  <2>2. PICK a \in Sessions : /\ Seen(b) \subseteq Seen(a) /\ Seen(a) \subseteq Seen(b) \cup C
                              /\ "stale" \notin Overlaps => Seen(b) \cap C = {}
    BY <1>8
  <2>3. Seen(z) \subseteq Seen(a) \cup Recent /\ Seen(a) \cup Recent \subseteq Seen(z) \cup C
        /\ ("stale" \notin Overlaps => Seen(z) \cap C = {})
    BY <1>11, <2>1, <2>2
  <2> QED BY <2>3
<1>13. Archived(C)
  <2>1. log \in [1..MaxMessages -> Nat]
    BY DEF TypeInv, RestType
  <2>2. \A n \in 1..MaxMessages : log'[n] = IF n \in C THEN log[n] + 1 ELSE log[n]
    BY <1>1, <2>1, LoggedIs DEF C
  <2>3. C \subseteq Seen(x) \cup Recent
    BY <1>6
  <2> QED BY <1>4, <2>2, <2>3 DEF Archived
<1> QED BY <1>1, <1>10, <1>12, <1>13 DEF Step, C

\* When compaction begins, what it will archive and keep is what is seen.
LEMMA CompactJobs ==
  ASSUME TypeInv, \A v \in Workers : ~Awaiting(v), Compact
  PROVE  JobsInv'
<1>1. /\ CompactJob.object = Free
      /\ Numbers(CompactJob.chunk) \cap Numbers(CompactJob.keep) = {}
      /\ Numbers(CompactJob.chunk) \cup Numbers(CompactJob.keep) = Seen(Loaded)
      /\ heap'[Free] = Loaded /\ cache' = Free
      /\ work' = [work EXCEPT !["idle"] = CompactJob]
  BY CompactJobIs
<1>2. work \in [Workers -> Job] /\ "idle" \in Workers /\ {"turn", "background"} \subseteq Workers \ {"idle"}
  BY DEF TypeInv, LockType, Workers
<1>3. work'["idle"] = CompactJob /\ \A v \in Workers \ {"idle"} : work'[v] = work[v]
  BY <1>1, <1>2
<1>4. \A v \in Workers : Awaiting(v)' => v = "idle"
  BY <1>3 DEF Awaiting
<1>5. \A v \in Workers : Awaiting(v)' => work'[v].object = cache'
  BY <1>1, <1>3, <1>4
<1>6. \A v \in {"turn", "background"} : ~Awaiting(v)'
  BY <1>2, <1>4
<1>7. LET x == heap'[work'["idle"].object] IN
      /\ Numbers(work'["idle"].chunk) \cap Numbers(work'["idle"].keep) = {}
      /\ Numbers(work'["idle"].chunk) \cup Numbers(work'["idle"].keep) = Seen(x)
  BY <1>1, <1>3
<1> QED BY <1>5, <1>6, <1>7 DEF JobsInv

\* The idle session is dropped from the cache.
LEMMA ExpireFlows ==
  ASSUME TypeInv, RangeInv, JobsInv, Expire
  PROVE  RangeInv' /\ JobsInv' /\ Step({})
<1>1. /\ turn.step = "none" /\ work["idle"].step = "none"
      /\ UNCHANGED <<disk, log, turn, leaving, said, news, old, crashes>>
  BY DEF Expire
<1>2. said \in Nat /\ LockType /\ work \in [Workers -> Job] /\ turn.object = None /\ Good(disk, said)
      /\ "idle" \in Workers /\ InRange(disk)
  BY <1>1, SessionsAre, ConsolidationAssumption
     DEF TypeInv, RestType, LockType, LockInv, SessionInv, Workers, RangeInv
<1>3. InRange(Content) /\ \E x \in Sessions : Seen(Content) = Seen(x)
  BY ContentIs
<1>4. InRange(Loaded) /\ Seen(Loaded) = Seen(disk)
  BY <1>2, LoadedIs
<1>5. JobsInv' /\ heap'[cache'] \in {Content, Loaded}
  <2>1. CASE queue = <<>>
    <3>1. Compact
      BY <2>1 DEF Expire
    <3>2. \A v \in Workers : ~Awaiting(v)
      BY <1>2, <2>1, HolderIs
    <3>3. JobsInv'
      BY <3>1, <3>2, CompactJobs
    <3>4. heap'[cache'] = Loaded
      BY <3>1, <3>2, CompactJobIs
    <3> QED BY <3>3, <3>4
  <2>2. CASE queue # <<>>
    <3>1. heap' = Fetched /\ cache' = Current /\ work' = [work EXCEPT !["idle"] = Waiting]
      BY <2>2 DEF Expire, Fetched
    <3>2. heap'[cache'] = Content
      BY <3>1, FetchedIs
    <3>3. work'["idle"] = Waiting /\ \A v \in Workers \ {"idle"} : work'[v] = work[v]
      BY <1>2, <3>1
    <3>4. \A v \in Workers : Awaiting(v)' => v # "idle" /\ Awaiting(v) /\ work'[v] = work[v]
      BY <3>3, JobIs DEF Awaiting
    <3>5. ASSUME NEW v \in Workers, Awaiting(v)' PROVE heap' = heap /\ cache' = cache
      <4>1. work[v].object = cache /\ work[v].object # None
        BY <1>2, <3>4, <3>5 DEF JobsInv, LockType, LockInv
      <4> QED BY <3>1, <4>1, FetchedIs
    <3>6. \A v \in Workers : Awaiting(v)' => work'[v].object = cache'
      BY <3>4, <3>5 DEF JobsInv
    <3>7. \A v \in {"turn", "background"} : Awaiting(v)' =>
            LET x == heap'[work'[v].object] IN
            /\ x.done <= work'[v].end /\ work'[v].end <= Len(x.messages)
            /\ work'[v].chunk = SubSeq(x.messages, x.done + 1, work'[v].end)
      <4>1. \A v \in {"turn", "background"} : v \in Workers
        BY DEF Workers
      <4> QED BY <3>4, <3>5, <4>1 DEF JobsInv
    <3>8. ~Awaiting("idle")'
      BY <1>2, <3>4
    <3>9. JobsInv'
      BY <3>6, <3>7, <3>8, Zenon DEF JobsInv
    <3> QED BY <3>2, <3>9
  <2> QED BY <2>1, <2>2
<1>6. \A y \in Sessions' : y \in {disk, Content, Loaded}
  BY <1>1, <1>2, <1>5, NextSessionsAre
<1>7. RangeInv'
  BY <1>1, <1>2, <1>3, <1>4, <1>6 DEF RangeInv
<1>8. Step({})
  <2>1. Recent = {} /\ said' \in Nat /\ said <= said'
    BY <1>1, <1>2 DEF Recent
  <2>2. \A y \in Sessions' : \E x \in Sessions : Seen(y) = Seen(x)
    BY <1>3, <1>4, <1>6, SessionsAre
  <2>3. \A y \in Sessions' : \E x \in Sessions : Seen(y) = Seen(x) \cup Recent
    BY <2>1, <2>2
  <2> QED BY <1>1, <2>1, <2>3, QuietStep
<1> QED BY <1>5, <1>7, <1>8

\* Compaction takes the lock.
LEMMA BeginCompactionFlows ==
  ASSUME TypeInv, RangeInv, BeginCompaction
  PROVE  RangeInv' /\ JobsInv' /\ Step({})
<1>1. /\ \A v \in Workers : ~Awaiting(v)
      /\ Compact /\ UNCHANGED <<disk, log, queue, turn, leaving, said, news, old, crashes>>
  BY BeginCompactionIs
<1>2. JobsInv'
  BY <1>1, CompactJobs
<1>3. /\ Free \in Objects /\ Free # turn.object /\ CompactJob.step = "archiving"
      /\ heap'[Free] = Loaded /\ (\A o \in Objects \ {Free} : heap'[o] = heap[o])
      /\ cache' = Free /\ work' = [work EXCEPT !["idle"] = CompactJob]
  BY <1>1, CompactJobIs
<1>4. said \in Nat /\ work \in [Workers -> Job] /\ turn.object \in Objects \cup {None} /\ Good(disk, said)
      /\ "idle" \in Workers /\ InRange(disk) /\ None \notin Objects
  BY SessionsAre, ConsolidationAssumption DEF TypeInv, RestType, LockType, SessionInv, Workers, RangeInv
<1>5. InRange(Loaded) /\ Seen(Loaded) = Seen(disk)
  BY <1>4, LoadedIs
<1>6. \A y \in Sessions' : y = disk \/ y = Loaded \/ (turn.object # None /\ y = heap[turn.object])
  BY <1>1, <1>3, <1>4, NextSessionsAre
<1>7. RangeInv'
  <2>1. \A y \in Sessions' : InRange(y)
    BY <1>4, <1>5, <1>6, SessionsAre DEF RangeInv
  <2>2. cache' # None
    BY <1>3, <1>4
  <2>3. work["idle"].step = "locking" /\ work'["idle"].step = "archiving"
    BY <1>3, <1>4 DEF BeginCompaction
  <2>4. "stale" \notin Overlaps => turn.step = "none"
    BY <2>3 DEF RangeInv
  <2> QED BY <1>1, <2>1, <2>2, <2>3, <2>4 DEF RangeInv
<1>8. Step({})
  <2>1. Recent = {} /\ said' \in Nat /\ said <= said'
    BY <1>1, <1>4 DEF Recent
  <2>2. \A y \in Sessions' : \E x \in Sessions : Seen(y) = Seen(x)
    BY <1>5, <1>6, SessionsAre
  <2>3. \A y \in Sessions' : \E x \in Sessions : Seen(y) = Seen(x) \cup Recent
    BY <2>1, <2>2
  <2> QED BY <1>1, <2>1, <2>3, QuietStep
<1> QED BY <1>2, <1>7, <1>8

\* Compaction takes out the chunk it has archived.
LEMMA EndCompactionFlows ==
  ASSUME TypeInv, RangeInv, JobsInv, EndCompaction
  PROVE  RangeInv' /\ JobsInv' /\ Step(Numbers(work["idle"].chunk))
<1> DEFINE job == work["idle"]
           o == job.object
           x == heap[o]
           C == Numbers(job.chunk)
           K == Numbers(job.keep)
<1>1. /\ Awaiting("idle") /\ queue # <<>> /\ queue[1] = "idle" /\ "idle" \in Workers
      /\ o \in Objects /\ log' = Logged(job.chunk)
      /\ InRange(disk') /\ Seen(disk') = K
      /\ heap'[o] = disk' /\ (\A p \in Objects \ {o} : heap'[p] = heap[p]) /\ cache' = o
      /\ work' = [work EXCEPT !["idle"] = NoJob] /\ queue' = Tail(queue)
      /\ UNCHANGED <<turn, leaving, said, news, old, crashes>>
  BY EndCompactionIs
<1>2. LockType /\ said \in Nat /\ turn.object \in Objects \cup {None} /\ None \notin Objects /\ work \in [Workers -> Job]
      /\ log \in [1..MaxMessages -> Nat]
  BY ConsolidationAssumption DEF TypeInv, RestType, LockType
<1>3. o = cache /\ C \cap K = {} /\ C \cup K \subseteq Seen(x) /\ ("unlocked" \notin Overlaps => Seen(x) \subseteq C \cup K)
  BY <1>1 DEF JobsInv
<1>4. x \in Sessions
  BY <1>1, <1>2, <1>3, SessionsAre
<1>5. JobsInv'
  <2>1. turn' = IF "idle" = "turn" THEN [turn EXCEPT !.step = "running"] ELSE turn
    BY <1>1
  <2>2. \A v \in Workers : ~Awaiting(v)'
    BY <1>1, <1>2, <2>1, LeaveIs
  <2> QED BY <2>2 DEF JobsInv, Workers
<1> HIDE DEF o, x, C, K
<1>6. \A y \in Sessions' : y = disk' \/ (turn.object # None /\ turn.object # o /\ y = heap[turn.object])
  BY <1>1, <1>2, NextSessionsAre
<1>7. RangeInv'
  <2>1. \A y \in Sessions' : InRange(y)
    BY <1>1, <1>6, SessionsAre DEF RangeInv
  <2>2. cache' # None
    BY <1>1, <1>2
  <2>3. work'["idle"].step # "locking"
    BY <1>1, <1>2, JobIs
  <2> QED BY <1>1, <1>3, <2>1, <2>2, <2>3 DEF RangeInv
<1>8. Recent = {} /\ said' \in Nat /\ said <= said'
  BY <1>1, <1>2 DEF Recent
<1>9. Flow(C)
  <2> SUFFICES ASSUME NEW z \in Sessions'
               PROVE  \E a \in Sessions : /\ Seen(z) \subseteq Seen(a)
                                          /\ "unlocked" \notin Overlaps => Seen(a) \subseteq Seen(z) \cup C
                                          /\ "stale" \notin Overlaps => Seen(z) \cap C = {}
    BY <1>8 DEF Flow
  <2>1. CASE z = disk'
    BY <1>1, <1>3, <1>4, <2>1
  <2>2. CASE turn.object # None /\ turn.object # o /\ z = heap[turn.object]
    <3>1. "stale" \in Overlaps
      <4>1. turn.step # "none"
        BY <2>2 DEF TypeInv, LockType, LockInv
      <4> QED BY <1>3, <2>2, <4>1 DEF RangeInv
    <3> QED BY <2>2, <3>1, SessionsAre
  <2> QED BY <1>6, <2>1, <2>2
<1>10. Archived(C)
  <2>1. \A n \in 1..MaxMessages : log'[n] = IF n \in C THEN log[n] + 1 ELSE log[n]
    BY <1>1, <1>2, LoggedIs DEF C
  <2>2. C \subseteq Seen(x) \cup Recent
    BY <1>3
  <2> QED BY <1>4, <2>1, <2>2 DEF Archived
<1> QED BY <1>1, <1>5, <1>7, <1>8, <1>9, <1>10 DEF Step, C

\* Messages are added, to a session that alone goes on.
LEMMA GrowsIs ==
  ASSUME TypeInv, RangeInv, JobsInv,
         Grown(Content, disk', said, said'), heap'[Current] = disk', cache' = Current,
         turn'.object \in {None, Current},
         \A v \in Workers : Awaiting(v)' => Awaiting(v) /\ work'[v] = work[v],
         Awaiting("idle") /\ "unlocked" \notin Overlaps => said' = said,
         said' \in Nat, said <= said', UNCHANGED <<log, leaving, old>>
  PROVE  JobsInv' /\ (\A y \in Sessions' : InRange(y)) /\ Step({})
<1>1. /\ Good(disk', said') /\ Longer(Content, disk') /\ InRange(disk') /\ Seen(disk') = Seen(Content) \cup Recent
      /\ Content \in Session /\ disk' \in Session
  BY ContentIs, FetchedIs DEF Grown, Recent, Good
<1>2. \A y \in Sessions' : y = disk'
  BY NextSessionsAre
<1>3. Step({})
  <2>1. PICK x \in Sessions : Seen(Content) = Seen(x)
    BY ContentIs
  <2>2. \A y \in Sessions' : Seen(y) = Seen(x) \cup Recent
    BY <1>1, <1>2, <2>1
  <2> QED BY <2>2, QuietStep
<1>4. ASSUME NEW v \in Workers, Awaiting(v)'
      PROVE  /\ Awaiting(v) /\ work'[v] = work[v] /\ work[v].object = cache /\ cache' = cache
             /\ heap[work[v].object] = Content /\ heap'[work[v].object] = disk'
             /\ work[v].end \in Nat
  <2>1. Awaiting(v) /\ work'[v] = work[v]
    BY <1>4
  <2>2. work[v].object = cache /\ work[v].object # None /\ work[v].end \in Nat
    BY <2>1, JobIs DEF JobsInv, TypeInv, LockType, LockInv
  <2>3. Current = cache /\ Content = heap[cache]
    BY <2>2, FetchedIs
  <2> QED BY <2>1, <2>2, <2>3
<1>5. \A v \in Workers : Awaiting(v)' => work'[v].object = cache'
  BY <1>4
<1>6. ASSUME NEW v \in {"turn", "background"}, Awaiting(v)'
      PROVE  LET x == heap'[work'[v].object] IN
             /\ x.done <= work'[v].end /\ work'[v].end <= Len(x.messages)
             /\ work'[v].chunk = SubSeq(x.messages, x.done + 1, work'[v].end)
  <2>1. v \in Workers
    BY DEF Workers
  <2>2. /\ Awaiting(v) /\ work'[v] = work[v] /\ heap[work[v].object] = Content /\ heap'[work[v].object] = disk'
        /\ work[v].end \in Nat
    BY <1>4, <1>6, <2>1
  <2>3. /\ Content.done <= work[v].end /\ work[v].end <= Len(Content.messages)
        /\ work[v].chunk = SubSeq(Content.messages, Content.done + 1, work[v].end)
    BY <2>2 DEF JobsInv
  <2>4. disk'.done = Content.done /\ Len(Content.messages) <= Len(disk'.messages)
    BY <1>1 DEF Longer
  <2>5. Len(Content.messages) \in Nat /\ Len(disk'.messages) \in Nat
    BY <1>1, SessionIs, LenProperties
  <2>6. work[v].end <= Len(disk'.messages)
    BY <2>2, <2>3, <2>4, <2>5
  <2>7. SubSeq(disk'.messages, disk'.done + 1, work[v].end) = SubSeq(Content.messages, Content.done + 1, work[v].end)
    BY <1>1, <2>2, <2>3, ChunkIs
  <2> QED BY <2>2, <2>3, <2>4, <2>6, <2>7
<1>7. ASSUME Awaiting("idle")'
      PROVE  LET job == work'["idle"]
                 x   == heap'[job.object] IN
             /\ Numbers(job.chunk) \cap Numbers(job.keep) = {}
             /\ Numbers(job.chunk) \cup Numbers(job.keep) \subseteq Seen(x)
             /\ "unlocked" \notin Overlaps => Seen(x) \subseteq Numbers(job.chunk) \cup Numbers(job.keep)
  <2>1. "idle" \in Workers
    BY DEF Workers
  <2>2. /\ Awaiting("idle") /\ work'["idle"] = work["idle"]
        /\ heap[work["idle"].object] = Content /\ heap'[work["idle"].object] = disk'
    BY <1>4, <1>7, <2>1
  <2>3. "unlocked" \notin Overlaps => Recent = {}
    <3>1. said \in Nat
      BY ConsolidationAssumption DEF TypeInv, RestType
    <3> QED BY <2>2, <3>1 DEF Recent
  <2>4. LET job == work["idle"] IN
        /\ Numbers(job.chunk) \cap Numbers(job.keep) = {}
        /\ Numbers(job.chunk) \cup Numbers(job.keep) \subseteq Seen(Content)
        /\ "unlocked" \notin Overlaps => Seen(Content) \subseteq Numbers(job.chunk) \cup Numbers(job.keep)
    BY <2>2 DEF JobsInv
  <2> QED BY <1>1, <2>2, <2>3, <2>4
<1>8. JobsInv'
  BY <1>5, <1>6, <1>7, Zenon DEF JobsInv
<1> QED BY <1>1, <1>2, <1>3, <1>8

\* A turn begins.
LEMMA BeginTurnFlows ==
  ASSUME TypeInv, RangeInv, JobsInv, BeginTurn
  PROVE  RangeInv' /\ JobsInv' /\ Step({})
<1>1. /\ turn.step = "none" /\ said' \in said..(said + 1)
      /\ Grown(Content, disk', said, said') /\ heap'[Current] = disk' /\ cache' = Current
      /\ ~Unanswered(Content) => said' = said
  BY BeginTurnIs
<1>2. /\ turn' = [step |-> "building", object |-> Current]
      /\ work' = [work EXCEPT !["turn"] = Waiting]
      /\ Unanswered(Content) /\ Awaiting("idle") => "unlocked" \in Overlaps
      /\ work["idle"].step = "locking" => "stale" \in Overlaps
      /\ UNCHANGED <<log, leaving, old>>
  BY DEF BeginTurn, Undisturbed
<1>3. work \in [Workers -> Job] /\ {"turn", "idle"} \subseteq Workers /\ said \in Nat
  BY ConsolidationAssumption DEF TypeInv, RestType, LockType, Workers
<1>4. work'["turn"] = Waiting /\ \A v \in Workers \ {"turn"} : work'[v] = work[v]
  BY <1>2, <1>3
<1>5. \A v \in Workers : Awaiting(v)' => Awaiting(v) /\ work'[v] = work[v]
  BY <1>4, JobIs DEF Awaiting
<1>6. turn'.object \in {None, Current} /\ (Awaiting("idle") /\ "unlocked" \notin Overlaps => said' = said)
  BY <1>1, <1>2
<1>7. said' \in Nat /\ said <= said'
  BY <1>1, <1>3
<1>8. JobsInv' /\ (\A y \in Sessions' : InRange(y)) /\ Step({})
  BY <1>1, <1>2, <1>5, <1>6, <1>7, GrowsIs
<1>9. RangeInv'
  <2>1. Current # None
    BY FetchedIs, ConsolidationAssumption
  <2>2. work'["idle"].step = "locking" => "stale" \in Overlaps
    BY <1>2, <1>3, <1>4
  <2> QED BY <1>1, <1>2, <1>8, <2>1, <2>2 DEF RangeInv
<1> QED BY <1>8, <1>9

\* A command.
LEMMA CommandFlows ==
  ASSUME TypeInv, RangeInv, JobsInv, Command
  PROVE  RangeInv' /\ JobsInv' /\ Step({})
<1>1. /\ turn.step = "none" /\ said' \in said..(said + 3)
      /\ Grown(Content, disk', said, said') /\ heap'[Current] = disk' /\ cache' = Current
      /\ UNCHANGED <<log, queue, work, turn, leaving, news, old, crashes>>
  BY CommandIs
<1>2. Awaiting("idle") => "unlocked" \in Overlaps
  BY DEF Command
<1>3. turn.object = None /\ said \in Nat
  BY <1>1, ConsolidationAssumption DEF TypeInv, RestType, LockType, LockInv
<1>4. \A v \in Workers : Awaiting(v)' => Awaiting(v) /\ work'[v] = work[v]
  BY <1>1 DEF Awaiting
<1>5. said' \in Nat /\ said <= said'
  BY <1>1, <1>3
<1>6. JobsInv' /\ (\A y \in Sessions' : InRange(y)) /\ Step({})
  BY <1>1, <1>2, <1>3, <1>4, <1>5, GrowsIs
<1>7. RangeInv'
  BY <1>1, <1>6 DEF RangeInv
<1> QED BY <1>6, <1>7

\* The end of a turn takes out what the file cap has archived.
LEMMA EndTurnFlows ==
  ASSUME TypeInv, RangeInv, EndTurn
  PROVE  RangeInv' /\ JobsInv' /\ Step(Numbers(Overflow(Replied)))
<1> DEFINE x == heap[turn.object]
           C == Numbers(Overflow(Replied))
<1>1. /\ turn.object \in Objects /\ queue = <<>>
      /\ Good(x, said) /\ Grown(x, Replied, said, said + 1)
      /\ log' = Logged(Overflow(Replied))
      /\ Same(Trimmed(Replied), disk') /\ heap'[turn.object] = disk' /\ cache' = turn.object
      /\ said' = said + 1 /\ turn' = NoTurn
      /\ work' = [work EXCEPT !["background"] = Waiting]
      /\ UNCHANGED <<leaving, news, old, crashes>>
  BY EndTurnIs
<1>2. /\ said \in Nat /\ said + 1 \in Nat /\ said <= said + 1 /\ None \notin Objects /\ LockType
      /\ work \in [Workers -> Job] /\ log \in [1..MaxMessages -> Nat]
  BY ConsolidationAssumption DEF TypeInv, RestType, LockType
<1>3. x \in Sessions /\ InRange(x)
  BY <1>1, <1>2, SessionsAre DEF RangeInv
<1>4. Good(Replied, said + 1) /\ InRange(Replied) /\ Seen(Replied) = Seen(x) \cup Recent
  BY <1>1, <1>3 DEF Grown, Recent
<1>5. InRange(Trimmed(Replied)) /\ Seen(Replied) = C \cup Seen(Trimmed(Replied)) /\ C \cap Seen(Trimmed(Replied)) = {}
  BY <1>2, <1>4, TrimmedIs
<1>6. InRange(disk') /\ Seen(disk') = Seen(Trimmed(Replied))
  BY <1>1, <1>5, SameIs
<1>7. \A y \in Sessions' : y = disk'
  BY <1>1, NextSessionsAre DEF NoTurn
<1>8. JobsInv'
  <2>1. \A v \in Workers : ~Awaiting(v)
    BY <1>1, <1>2, HolderIs
  <2>2. \A v \in Workers : ~Awaiting(v)'
    BY <1>1, <1>2, <2>1, JobIs DEF Awaiting
  <2> QED BY <2>2 DEF JobsInv, Workers
<1> HIDE DEF x, C
<1>9. RangeInv'
  BY <1>1, <1>6, <1>7 DEF RangeInv, NoTurn
<1>10. Flow(C)
  BY <1>3, <1>4, <1>5, <1>6, <1>7 DEF Flow
<1>11. Archived(C)
  <2>1. \A n \in 1..MaxMessages : log'[n] = IF n \in C THEN log[n] + 1 ELSE log[n]
    BY <1>1, <1>2, LoggedIs DEF C
  <2>2. C \subseteq Seen(x) \cup Recent
    BY <1>4, <1>5
  <2> QED BY <1>3, <2>1, <2>2 DEF Archived
<1> QED BY <1>1, <1>2, <1>8, <1>9, <1>10, <1>11 DEF Step, C

\* /stop.
LEMMA StopFlows ==
  ASSUME TypeInv, RangeInv, JobsInv, Stop
  PROVE  RangeInv' /\ JobsInv' /\ Step({})
<1>1. Cancelled /\ UNCHANGED <<heap, cache, disk, log, leaving, said, news, old, crashes>>
  BY DEF Stop
<1>2. /\ turn'.step = "none" /\ turn'.object = None /\ work'["turn"] = NoJob
      /\ \A v \in Workers \ {"turn"} : work'[v] = work[v]
  BY <1>1, CancelledIs DEF TypeInv
<1>3. \A v \in Workers : Awaiting(v)' => v # "turn" /\ Awaiting(v) /\ work'[v] = work[v]
  BY <1>2, JobIs DEF Awaiting
<1>4. JobsInv'
  <2>1. {"turn", "background", "idle"} = Workers
    BY DEF Workers
  <2>2. \A v \in Workers : Awaiting(v)' => work'[v].object = cache'
    BY <1>1, <1>3 DEF JobsInv
  <2>3. \A v \in {"turn", "background"} : Awaiting(v)' =>
          LET x == heap'[work'[v].object] IN
          /\ x.done <= work'[v].end /\ work'[v].end <= Len(x.messages)
          /\ work'[v].chunk = SubSeq(x.messages, x.done + 1, work'[v].end)
    BY <1>1, <1>3, <2>1 DEF JobsInv
  <2>4. Awaiting("idle")' =>
          LET job == work'["idle"]
              x   == heap'[job.object] IN
          /\ Numbers(job.chunk) \cap Numbers(job.keep) = {}
          /\ Numbers(job.chunk) \cup Numbers(job.keep) \subseteq Seen(x)
          /\ "unlocked" \notin Overlaps => Seen(x) \subseteq Numbers(job.chunk) \cup Numbers(job.keep)
    BY <1>1, <1>3, <2>1 DEF JobsInv
  <2> QED BY <2>2, <2>3, <2>4, Zenon DEF JobsInv
<1>5. \A y \in Sessions' : y \in Sessions
  BY <1>1, <1>2, NextSessionsAre, SessionsAre
<1>6. RangeInv'
  BY <1>2, <1>5 DEF RangeInv
<1>7. Recent = {} /\ said' \in Nat /\ said <= said'
  BY <1>1, ConsolidationAssumption DEF Recent, TypeInv, RestType
<1>8. \A y \in Sessions' : \E x \in Sessions : Seen(y) = Seen(x) \cup Recent
  BY <1>5, <1>7
<1> QED BY <1>1, <1>4, <1>6, <1>7, <1>8, QuietStep

\* /new leaves an empty session and no task.
LEMMA NewFlows ==
  ASSUME TypeInv, Calm, New
  PROVE  /\ RangeInv' /\ JobsInv' /\ \A y \in Sessions' : Seen(y) = {}
<1>1. /\ InRange(disk') /\ Seen(disk') = {} /\ cache' = None /\ Cancelled
      /\ ~Awaiting("background") /\ ~Awaiting("idle")
  BY NewIs DEF Calm
<1>2. /\ turn'.step = "none" /\ turn'.object = None /\ work'["turn"] = NoJob
      /\ \A v \in Workers \ {"turn"} : work'[v] = work[v]
  BY <1>1, CancelledIs DEF TypeInv
<1>3. \A v \in Workers : ~Awaiting(v)'
  BY <1>1, <1>2, JobIs DEF Awaiting, Workers
<1>4. JobsInv'
  BY <1>3 DEF JobsInv, Workers
<1>5. \A y \in Sessions' : y = disk'
  BY <1>1, <1>2, NextSessionsAre
<1>6. RangeInv'
  BY <1>1, <1>2, <1>5 DEF RangeInv
<1> QED BY <1>1, <1>4, <1>5, <1>6

\* The sessions stay as they are.
LEMMA SessionsStay ==
  ASSUME RangeInv, JobsInv, UNCHANGED <<heap, cache, disk, work, turn>>
  PROVE  RangeInv' /\ JobsInv' /\ Sessions' = Sessions
BY DEF RangeInv, JobsInv, Sessions, Live, Awaiting

\* A crash leaves the file.
LEMMA CrashFlows ==
  ASSUME TypeInv, RangeInv, Crash \/ CrashInSave
  PROVE  RangeInv' /\ JobsInv' /\ \A y \in Sessions' : y \in Sessions
<1>1. cache' = None /\ work' = [w \in Workers |-> NoJob] /\ turn' = NoTurn /\ disk' = disk
  BY CrashIs DEF Dies
<1>2. \A v \in Workers : ~Awaiting(v)'
  BY <1>1, JobIs DEF Awaiting
<1>3. JobsInv'
  BY <1>2 DEF JobsInv, Workers
<1>4. \A y \in Sessions' : y \in Sessions
  BY <1>1, NextSessionsAre, SessionsAre DEF NoTurn
<1>5. RangeInv'
  BY <1>1, <1>4 DEF RangeInv, NoTurn
<1> QED BY <1>3, <1>4, <1>5

\* Without /new beside a task a step archives what is seen, or it is /new, an
\* archive task of /new, or a crash.
LEMMA Steps ==
  ASSUME TypeInv, TypeInv', RangeInv, JobsInv, Calm, [Next]_vars
  PROVE  RangeInv' /\ JobsInv' /\ ((\E C : Step(C)) \/ New \/ ArchiveLeft \/ Crash \/ CrashInSave)
<1>1. ASSUME NEW w \in Workers, Lock(w) PROVE RangeInv' /\ JobsInv' /\ Step({})
  BY <1>1, LockFlows
<1>2. ASSUME NEW w \in Workers, Consolidate(w) PROVE RangeInv' /\ JobsInv' /\ \E C : Step(C)
  BY <1>2, ConsolidateFlows
<1>3. CASE Expire
  BY <1>3, ExpireFlows
<1>4. CASE BeginCompaction
  BY <1>4, BeginCompactionFlows
<1>5. CASE EndCompaction
  BY <1>5, EndCompactionFlows
<1>6. CASE BeginTurn
  BY <1>6, BeginTurnFlows
<1>7. CASE Command
  BY <1>7, CommandFlows
<1>8. CASE EndTurn
  BY <1>8, EndTurnFlows
<1>9. CASE Stop
  BY <1>9, StopFlows
<1>10. CASE New
  BY <1>10, NewFlows
<1>11. CASE ArchiveLeft
  BY <1>11, SessionsStay DEF ArchiveLeft
<1>12. CASE Crash \/ CrashInSave
  BY <1>12, CrashFlows
<1>13. CASE UNCHANGED vars
  <2>1. UNCHANGED <<heap, cache, disk, work, turn>> /\ UNCHANGED <<said, log, leaving, old>>
    BY <1>13 DEF vars
  <2>2. RangeInv' /\ JobsInv' /\ Sessions' = Sessions
    BY <2>1, SessionsStay
  <2>3. Recent = {} /\ said' \in Nat /\ said <= said'
    BY <2>1, ConsolidationAssumption DEF Recent, TypeInv, RestType
  <2>4. \A y \in Sessions' : \E x \in Sessions : Seen(y) = Seen(x) \cup Recent
    BY <2>2, <2>3
  <2> QED BY <2>1, <2>2, <2>3, <2>4, QuietStep
<1> QED BY <1>1, <1>2, <1>3, <1>4, <1>5, <1>6, <1>7, <1>8, <1>9, <1>10, <1>11, <1>12, <1>13 DEF Next

\* CalmInv is an invariant.
LEMMA CalmInvHolds == Spec => []CalmInv
<1>1. Init => CalmInv
  <2> SUFFICES ASSUME Init PROVE RangeInv /\ JobsInv
    BY DEF CalmInv
  <2>1. cache = None /\ turn = NoTurn /\ disk = Empty /\ \A w \in Workers : work[w] = NoJob
    BY DEF Init
  <2>2. \A w \in Workers : ~Awaiting(w)
    BY <2>1, JobIs DEF Awaiting
  <2>3. JobsInv
    BY <2>2 DEF JobsInv, Workers
  <2>4. \A x \in Sessions : x = Empty
    BY <2>1, SessionsAre DEF NoTurn
  <2>5. InRange(Empty)
    BY EmptyIs
  <2>6. RangeInv
    BY <2>1, <2>4, <2>5 DEF RangeInv, NoTurn
  <2> QED BY <2>3, <2>6
<1>2. TypeInv /\ TypeInv' /\ CalmInv /\ [Next]_vars => CalmInv'
  <2> SUFFICES ASSUME TypeInv, TypeInv', CalmInv, [Next]_vars, Calm PROVE RangeInv' /\ JobsInv'
    BY DEF CalmInv, Calm
  <2>1. RangeInv /\ JobsInv
    BY DEF CalmInv
  <2> QED BY <2>1, Steps
<1> QED BY <1>1, <1>2, TypeInvHolds, PTL DEF Spec

\* What sessions see is in the chat.
LEMMA SeenSaid ==
  ASSUME TypeInv
  PROVE  \A x \in Sessions : \A n \in Seen(x) : n \in 1..MaxMessages /\ n <= said
<1>1. said \in Nat /\ Sound(heap, said) /\ Good(disk, said)
      /\ cache \in Objects \cup {None} /\ turn.object \in Objects \cup {None}
  BY ConsolidationAssumption DEF TypeInv, RestType, SessionInv, LockType
<1>2. \A x \in Sessions : Good(x, said)
  BY <1>1, SessionsAre DEF Sound
<1> QED BY <1>1, <1>2, SeenIs

\* What is seen was said.
LEMMA NextSeenSaid ==
  ASSUME TypeInv'
  PROVE  \A y \in Sessions' : \A n \in Seen(y) : n \in 1..MaxMessages /\ n <= said'
<1>1. said' \in Nat /\ Sound(heap', said') /\ Good(disk', said')
      /\ cache' \in Objects \cup {None} /\ turn'.object \in Objects \cup {None}
  BY ConsolidationAssumption DEF TypeInv, RestType, SessionInv, LockType
<1>2. \A x \in Sessions' : Good(x, said')
  BY <1>1, NextSessionsAre DEF Sound
<1> QED BY <1>1, <1>2, SeenIs

-----------------------------------------------------------------------------
(* What /new and the archive tasks do *)

\* What is left for an archive task.
LEMMA LeftIs ==
  /\ \A n : n \in Left <=> \E c \in leaving : n \in Numbers(c)
  /\ \A n : n \in Left' <=> \E c \in leaving' : n \in Numbers(c)
BY DEF Left

\* /new hands over what a session that goes on sees, and the new messages.
LEMMA NewLeaves ==
  ASSUME TypeInv, RangeInv, New
  PROVE  /\ leaving' = leaving \cup ({Visible(Found)} \ {<<>>})
         /\ \E x \in Sessions : Numbers(Visible(Found)) = Seen(x) \cup Recent
         /\ \A n : n \in Left' <=> n \in Left \/ n \in Numbers(Visible(Found))
         /\ said' \in Nat /\ said <= said' /\ old' = said' /\ log' = log
<1>1. /\ said' \in said..(said + 1) /\ Grown(Content, Found, said, said')
      /\ leaving' = leaving \cup ({Visible(Found)} \ {<<>>}) /\ old' = said' /\ log' = log
  BY NewIs
<1>2. said \in Nat
  BY ConsolidationAssumption DEF TypeInv, RestType
<1>3. PICK x \in Sessions : Seen(Content) = Seen(x)
  BY ContentIs
<1>4. Numbers(Visible(Found)) = Seen(x) \cup Recent
  BY <1>1, <1>3, ContentIs DEF Grown, Recent, Seen
<1>5. \A n : n \in Left' <=> n \in Left \/ n \in Numbers(Visible(Found))
  BY <1>1, LeftIs, NumbersIs
<1> QED BY <1>1, <1>2, <1>4, <1>5

\* An archive task of /new ends.
LEMMA ArchiveLeftIs ==
  ASSUME TypeInv, ArchiveLeft
  PROVE  \E chunk \in leaving :
           /\ leaving' = leaving \ {chunk}
           /\ \A n \in 1..MaxMessages : log'[n] = IF n \in Numbers(chunk) THEN log[n] + 1 ELSE log[n]
           /\ \A n : n \in Left => n \in Left' \/ n \in Numbers(chunk)
           /\ \A n : n \in Left' => n \in Left
           /\ Sessions' = Sessions /\ UNCHANGED <<said, old>>
<1>1. PICK chunk \in leaving :
        /\ leaving' = leaving \ {chunk} /\ log' = Logged(chunk)
        /\ UNCHANGED <<heap, cache, disk, queue, work, turn, said, news, old, crashes>>
  BY DEF ArchiveLeft
<1>2. log \in [1..MaxMessages -> Nat]
  BY DEF TypeInv, RestType
<1>3. \A n \in 1..MaxMessages : log'[n] = IF n \in Numbers(chunk) THEN log[n] + 1 ELSE log[n]
  BY <1>1, <1>2, LoggedIs
<1>4. Sessions' = Sessions
  BY <1>1 DEF Sessions, Live
<1>5. /\ \A n : n \in Left => n \in Left' \/ n \in Numbers(chunk)
      /\ \A n : n \in Left' => n \in Left
  BY <1>1, LeftIs
<1> QED BY <1>1, <1>3, <1>4, <1>5

-----------------------------------------------------------------------------
(* A fresh start *)

\* Every step keeps it: what comes is later than what was said.
LEMMA FreshInvStep ==
  ASSUME TypeInv, TypeInv', CalmInv, FreshInv, [Next]_vars
  PROVE  FreshInv'
<1> SUFFICES ASSUME Calm, NEW y \in Sessions', NEW n \in Seen(y) PROVE n > old'
  BY DEF FreshInv, Calm
<1>1. RangeInv /\ JobsInv /\ \A x \in Sessions : \A m \in Seen(x) : m > old
  BY DEF CalmInv, FreshInv
<1>2. said \in Nat /\ old \in Nat /\ old <= said
  BY ConsolidationAssumption DEF TypeInv, RestType
<1>3. CASE \E C : Step(C)
  <2>1. PICK C : Step(C)
    BY <1>3
  <2>2. PICK x \in Sessions : Seen(y) \subseteq Seen(x) \cup Recent
    BY <2>1 DEF Step, Flow
  <2>3. old' = old
    BY <2>1 DEF Step
  <2>4. \A m \in Recent : m > old
    BY <1>2, <2>1 DEF Recent, Step
  <2> QED BY <1>1, <2>2, <2>3, <2>4
<1>4. CASE New
  BY <1>4, NewFlows
<1>5. CASE ArchiveLeft
  BY <1>1, <1>5, ArchiveLeftIs
<1>6. CASE Crash \/ CrashInSave
  <2>1. y \in Sessions /\ old' = old
    BY <1>1, <1>6, CrashFlows, CrashIs DEF Dies
  <2> QED BY <1>1, <2>1
<1> QED BY <1>1, <1>3, <1>4, <1>5, <1>6, Steps

\* FreshInv is an invariant.
LEMMA FreshInvHolds == Spec => []FreshInv
<1>1. Init => FreshInv
  <2> SUFFICES ASSUME Init, NEW x \in Sessions, NEW n \in Seen(x) PROVE n > old
    BY DEF FreshInv
  <2>1. x = Empty
    BY SessionsAre DEF Init, NoTurn
  <2> QED BY <2>1, EmptyIs
<1>2. TypeInv /\ TypeInv' /\ CalmInv /\ FreshInv /\ [Next]_vars => FreshInv'
  BY FreshInvStep
<1> QED BY <1>1, <1>2, TypeInvHolds, CalmInvHolds, PTL DEF Spec

\* While no task consolidates or compacts beside /new, what was said before /new
\* is not seen again.
THEOREM CalmStartsFresh ==
  ASSUME "new" \notin Overlaps
  PROVE  Spec => []NewStartsFresh
<1>1. FreshInv => NewStartsFresh
  BY SessionsAre DEF FreshInv, Calm, NewStartsFresh, Seen
<1> QED BY <1>1, FreshInvHolds, PTL

\* And the offset of the session in use stays in range.
THEOREM CalmInRange ==
  ASSUME "new" \notin Overlaps
  PROVE  Spec => []OffsetInRange
<1>1. CalmInv => OffsetInRange
  BY SessionsAre DEF CalmInv, Calm, RangeInv, InRange, OffsetInRange
<1> QED BY <1>1, CalmInvHolds, PTL

-----------------------------------------------------------------------------
(* Nothing is lost *)

\* Every step keeps it: what goes out of sight is archived.
LEMMA KeptInvStep ==
  ASSUME TypeInv, TypeInv', CalmInv, KeptInv, [Next]_vars
  PROVE  KeptInv'
<1> SUFFICES ASSUME Overlaps \subseteq {"stale"}, NEW y \in Sessions', NEW n \in 1..said'
             PROVE  log'[n] > 0 \/ n \in Seen(y) \/ n \in Left'
  BY DEF KeptInv
<1>1. /\ Calm /\ "unlocked" \notin Overlaps /\ "kill" \notin Overlaps
      /\ RangeInv /\ JobsInv
  BY DEF CalmInv, Calm
<1>2. \A x \in Sessions : \A m \in 1..said : log[m] > 0 \/ m \in Seen(x) \/ m \in Left
  BY DEF KeptInv
<1>3. /\ said \in Nat /\ said' \in Nat /\ n \in Nat /\ n \in 1..MaxMessages
      /\ log \in [1..MaxMessages -> Nat]
  BY ConsolidationAssumption DEF TypeInv, RestType
<1>4. n \in 1..said \/ n \in Recent
  BY <1>3 DEF Recent
<1>5. CASE \E C : Step(C)
  <2>1. PICK C : Step(C)
    BY <1>5
  <2>2. PICK x \in Sessions : Seen(x) \cup Recent \subseteq Seen(y) \cup C
    BY <1>1, <2>1 DEF Step, Flow
  <2>3. log[n] \in Nat /\ log'[n] = IF n \in C THEN log[n] + 1 ELSE log[n]
    BY <1>3, <2>1 DEF Step, Archived
  <2>4. Left' = Left
    BY <2>1 DEF Step, Left
  <2>5. CASE n \in C
    BY <2>3, <2>5
  <2>6. CASE n \notin C
    BY <1>2, <1>4, <2>2, <2>3, <2>4, <2>6
  <2> QED BY <2>5, <2>6
<1>6. CASE New
  <2>1. PICK x \in Sessions : Numbers(Visible(Found)) = Seen(x) \cup Recent
    BY <1>1, <1>6, NewLeaves
  <2>2. (\A m : m \in Left' <=> m \in Left \/ m \in Numbers(Visible(Found))) /\ log' = log
    BY <1>1, <1>6, NewLeaves
  <2> QED BY <1>2, <1>4, <2>1, <2>2
<1>7. CASE ArchiveLeft
  <2>1. PICK chunk \in leaving :
           /\ \A m \in 1..MaxMessages : log'[m] = IF m \in Numbers(chunk) THEN log[m] + 1 ELSE log[m]
           /\ \A m : m \in Left => m \in Left' \/ m \in Numbers(chunk)
           /\ Sessions' = Sessions /\ said' = said
    BY <1>7, ArchiveLeftIs
  <2>2. log[n] \in Nat /\ log'[n] = IF n \in Numbers(chunk) THEN log[n] + 1 ELSE log[n]
    BY <1>3, <2>1
  <2>3. log[n] > 0 \/ n \in Seen(y) \/ n \in Left
    BY <1>2, <2>1
  <2>4. CASE n \in Numbers(chunk)
    BY <2>2, <2>4
  <2>5. CASE n \notin Numbers(chunk)
    BY <2>1, <2>2, <2>3, <2>5
  <2> QED BY <2>4, <2>5
<1>8. CASE Crash \/ CrashInSave
  <2>0. leaving = {} /\ said' = said
    BY <1>1, <1>8, CrashIs DEF Dies
  <2>1. log[n] \in Nat /\ (log[n] > 0 => log'[n] > 0)
    <3>1. log[n] \in Nat
      BY <1>3
    <3>2. CASE log' = log
      BY <3>1, <3>2
    <3>3. CASE \E chunk : log' = Logged(chunk)
      <4>1. log'[n] = log[n] + 1 \/ log'[n] = log[n]
        BY <1>3, <3>3, LoggedIs
      <4> QED BY <3>1, <4>1
    <3> QED BY <1>8, <3>1, <3>2, <3>3, CrashIs
  <2>2. n \notin Left
    BY <2>0, LeftIs
  <2>3. y \in Sessions
    BY <1>1, <1>8, CrashFlows
  <2> QED BY <1>2, <2>0, <2>1, <2>2, <2>3
<1> QED BY <1>1, <1>5, <1>6, <1>7, <1>8, Steps

\* KeptInv is an invariant.
LEMMA KeptInvHolds == Spec => []KeptInv
<1>1. Init => KeptInv
  <2>1. Init => \A n \in 1..said : FALSE
    BY DEF Init
  <2> QED BY <2>1 DEF KeptInv
<1>2. TypeInv /\ TypeInv' /\ CalmInv /\ KeptInv /\ [Next]_vars => KeptInv'
  BY KeptInvStep
<1> QED BY <1>1, <1>2, TypeInvHolds, CalmInvHolds, PTL DEF Spec

\* While no command and no closing note comes between the chunk and the end of a
\* compaction, /new comes beside no task, and the process does not die before
\* the archive of /new is written, no message is lost.
THEOREM NothingIsLost ==
  ASSUME Overlaps \subseteq {"stale"}
  PROVE  Spec => []NothingLost
<1>1. KeptInv => NothingLost
  BY SessionsAre, LeftIs DEF KeptInv, NothingLost, Seen
<1> QED BY <1>1, KeptInvHolds, PTL

-----------------------------------------------------------------------------
(* Nothing is archived twice *)

\* Every step keeps it: what is archived goes out of sight of all.
LEMMA OnceInvStep ==
  ASSUME TypeInv, TypeInv', UnsavedInv, CalmInv, OnceInv, [Next]_vars
  PROVE  OnceInv'
<1> DEFINE Logs  == \A n \in 1..MaxMessages : log[n] <= 1 + unsaved[n] /\ (n > said => log[n] = unsaved[n])
           Sees  == \A x \in Sessions : \A n \in Seen(x) : log[n] = unsaved[n] /\ n \notin Left
           Lefts == \A n \in Left : log[n] = unsaved[n] /\ n <= said
           Apart == \A c, d \in leaving : c # d => Numbers(c) \cap Numbers(d) = {}
<1> SUFFICES ASSUME Overlaps \subseteq {"unlocked", "kill"} PROVE Logs' /\ Sees' /\ Lefts' /\ Apart'
  BY DEF OnceInv
<1>1. /\ Calm /\ "stale" \notin Overlaps /\ RangeInv /\ JobsInv
  BY DEF CalmInv, Calm
<1>2. Logs /\ Sees /\ Lefts /\ Apart
  BY DEF OnceInv
<1>3. /\ said \in Nat /\ said' \in Nat /\ MaxMessages \in Nat /\ log \in [1..MaxMessages -> Nat]
      /\ said' <= MaxMessages /\ said <= MaxMessages /\ unsaved \in [1..MaxMessages -> Nat]
  BY ConsolidationAssumption DEF TypeInv, RestType, UnsavedInv
<1>4. /\ \A x \in Sessions : \A n \in Seen(x) : n \in 1..MaxMessages /\ n <= said
      /\ \A y \in Sessions' : \A n \in Seen(y) : n \in 1..MaxMessages /\ n <= said'
  BY SeenSaid, NextSeenSaid
<1>5. \A n \in Left : n \in 1..MaxMessages
  BY LeftIs, NumbersIs DEF TypeInv, RestType
<1>6. \A n \in Recent : n \in 1..MaxMessages /\ n > said /\ n <= said' /\ log[n] = unsaved[n] /\ n \notin Left
  <2> SUFFICES ASSUME NEW n \in Recent PROVE n \in 1..MaxMessages /\ n > said /\ n <= said' /\ log[n] = unsaved[n] /\ n \notin Left
    OBVIOUS
  <2>1. n \in 1..MaxMessages /\ n > said /\ n <= said'
    BY <1>3 DEF Recent
  <2>2. log[n] = unsaved[n]
    BY <1>2, <2>1
  <2>3. n \notin Left
    <3>1. n \in Left => n <= said
      BY <1>2
    <3> QED BY <1>3, <2>1, <3>1
  <2> QED BY <2>1, <2>2, <2>3
<1>7. CASE unsaved' = unsaved /\ \E C : Step(C)
  <2>1. PICK C : Step(C)
    BY <1>7
  <2>2. PICK a \in Sessions : C \subseteq Seen(a) \cup Recent
    BY <2>1 DEF Step, Archived
  <2>3. /\ \A n \in 1..MaxMessages : log'[n] = IF n \in C THEN log[n] + 1 ELSE log[n]
        /\ Left' = Left /\ leaving' = leaving /\ said <= said'
    BY <2>1 DEF Step, Archived, Left
  <2>4. \A n \in C : n \in 1..MaxMessages /\ n <= said' /\ log[n] = unsaved[n] /\ n \notin Left
    <3> SUFFICES ASSUME NEW n \in C PROVE n \in 1..MaxMessages /\ n <= said' /\ log[n] = unsaved[n] /\ n \notin Left
      OBVIOUS
    <3>1. CASE n \in Seen(a)
      <4>1. n \in 1..MaxMessages /\ n <= said /\ log[n] = unsaved[n] /\ n \notin Left
        BY <1>2, <1>4, <3>1
      <4>2. n <= said'
        BY <1>3, <2>3, <4>1
      <4> QED BY <4>1, <4>2
    <3>2. CASE n \in Recent
      BY <1>6, <3>2
    <3> QED BY <2>2, <3>1, <3>2
  <2>5. Logs'
    <3> SUFFICES ASSUME NEW n \in 1..MaxMessages PROVE log'[n] <= 1 + unsaved[n] /\ (n > said' => log'[n] = unsaved[n])
      BY <1>7
    <3>1. CASE n \in C
      <4>1. log'[n] = 1 + unsaved[n] /\ n <= said'
        BY <1>3, <2>3, <2>4, <3>1
      <4> QED BY <1>3, <4>1
    <3>2. CASE n \notin C
      <4>1. log'[n] = log[n] /\ log[n] <= 1 + unsaved[n] /\ (n > said => log[n] = unsaved[n])
        BY <1>2, <2>3, <3>2
      <4> QED BY <1>3, <2>3, <4>1
    <3> QED BY <3>1, <3>2
  <2>6. Sees'
    <3> SUFFICES ASSUME NEW y \in Sessions', NEW n \in Seen(y) PROVE log'[n] = unsaved[n] /\ n \notin Left'
      BY <1>7
    <3>1. PICK x \in Sessions : Seen(y) \subseteq Seen(x) \cup Recent /\ Seen(y) \cap C = {}
      BY <1>1, <2>1 DEF Step, Flow
    <3>2. n \in 1..MaxMessages /\ log'[n] = log[n]
      BY <1>4, <2>3, <3>1
    <3>3. log[n] = unsaved[n] /\ n \notin Left
      BY <1>2, <1>6, <3>1
    <3> QED BY <2>3, <3>2, <3>3
  <2>7. Lefts'
    <3> SUFFICES ASSUME NEW n \in Left PROVE log'[n] = unsaved[n] /\ n <= said'
      BY <2>3, <1>7
    <3>1. n \notin C /\ n \in 1..MaxMessages /\ log[n] = unsaved[n] /\ n <= said
      BY <1>2, <1>5, <2>4
    <3> QED BY <1>3, <2>3, <3>1
  <2> QED BY <1>2, <2>3, <2>5, <2>6, <2>7
<1>8. CASE unsaved' = unsaved /\ New
  <2> DEFINE v == Visible(Found)
  <2>1. /\ leaving' = leaving \cup ({v} \ {<<>>})
        /\ \A n : n \in Left' <=> n \in Left \/ n \in Numbers(v)
        /\ said <= said' /\ log' = log
    BY <1>1, <1>8, NewLeaves
  <2>2. PICK x \in Sessions : Numbers(v) = Seen(x) \cup Recent
    BY <1>1, <1>8, NewLeaves
  <2>3. \A y \in Sessions' : Seen(y) = {}
    BY <1>1, <1>8, NewFlows
  <2> HIDE DEF v
  <2>4. \A n \in Numbers(v) : log[n] = unsaved[n] /\ n \notin Left /\ n <= said'
    <3> SUFFICES ASSUME NEW n \in Numbers(v) PROVE log[n] = unsaved[n] /\ n \notin Left /\ n <= said'
      OBVIOUS
    <3>1. CASE n \in Seen(x)
      <4>1. log[n] = unsaved[n] /\ n \notin Left /\ n <= said /\ n \in 1..MaxMessages
        BY <1>2, <1>4, <3>1
      <4> QED BY <1>3, <2>1, <4>1
    <3>2. CASE n \in Recent
      BY <1>6, <3>2
    <3> QED BY <2>2, <3>1, <3>2
  <2>5. Logs'
    BY <1>2, <1>3, <1>8, <2>1
  <2>6. Sees'
    BY <2>3
  <2>7. Lefts'
    <3> SUFFICES ASSUME NEW n \in Left' PROVE log[n] = unsaved[n] /\ n <= said'
      BY <1>8, <2>1
    <3>1. CASE n \in Left
      <4>1. log[n] = unsaved[n] /\ n <= said /\ n \in 1..MaxMessages
        BY <1>2, <1>5, <3>1
      <4> QED BY <1>3, <2>1, <4>1
    <3>2. CASE n \in Numbers(v)
      BY <2>4, <3>2
    <3> QED BY <2>1, <3>1, <3>2
  <2>8. Apart'
    <3>1. \A c \in leaving : Numbers(c) \cap Numbers(v) = {}
      BY <2>4, LeftIs
    <3> QED BY <1>2, <2>1, <3>1
  <2> QED BY <2>5, <2>6, <2>7, <2>8
<1>9. CASE unsaved' = unsaved /\ ArchiveLeft
  <2>1. PICK chunk \in leaving :
           /\ leaving' = leaving \ {chunk}
           /\ \A n \in 1..MaxMessages : log'[n] = IF n \in Numbers(chunk) THEN log[n] + 1 ELSE log[n]
           /\ \A n : n \in Left' => n \in Left
           /\ Sessions' = Sessions /\ said' = said
    BY <1>9, ArchiveLeftIs
  <2>2. \A n \in Numbers(chunk) : n \in Left /\ n \notin Left'
    <3> SUFFICES ASSUME NEW n \in Numbers(chunk) PROVE n \in Left /\ n \notin Left'
      OBVIOUS
    <3>1. n \in Left
      BY LeftIs
    <3>2. ASSUME n \in Left' PROVE FALSE
      <4>1. PICK c \in leaving' : n \in Numbers(c)
        BY <3>2, LeftIs
      <4> QED BY <1>2, <2>1, <4>1
    <3> QED BY <3>1, <3>2
  <2>3. Logs'
    <3> SUFFICES ASSUME NEW n \in 1..MaxMessages PROVE log'[n] <= 1 + unsaved[n] /\ (n > said => log'[n] = unsaved[n])
      BY <2>1, <1>9
    <3>1. CASE n \in Numbers(chunk)
      <4>1. log[n] = unsaved[n] /\ n <= said
        BY <1>2, <2>2, <3>1
      <4>2. log'[n] = 1 + unsaved[n]
        BY <1>3, <2>1, <3>1, <4>1
      <4> QED BY <1>3, <4>1, <4>2
    <3>2. CASE n \notin Numbers(chunk)
      BY <1>2, <2>1, <3>2
    <3> QED BY <3>1, <3>2
  <2>4. Sees'
    <3> SUFFICES ASSUME NEW x \in Sessions, NEW n \in Seen(x) PROVE log'[n] = unsaved[n] /\ n \notin Left'
      BY <2>1, <1>9
    <3>1. log[n] = unsaved[n] /\ n \notin Left /\ n \in 1..MaxMessages
      BY <1>2, <1>4
    <3> QED BY <2>1, <2>2, <3>1
  <2>5. Lefts'
    <3> SUFFICES ASSUME NEW n \in Left' PROVE log'[n] = unsaved[n] /\ n <= said
      BY <2>1, <1>9
    <3>1. n \in Left /\ n \notin Numbers(chunk)
      BY <2>1, <2>2
    <3>2. log[n] = unsaved[n] /\ n <= said /\ n \in 1..MaxMessages
      BY <1>2, <1>5, <3>1
    <3> QED BY <2>1, <3>1, <3>2
  <2>6. Apart'
    BY <1>2, <2>1
  <2> QED BY <2>3, <2>4, <2>5, <2>6
<1>10. CASE CrashInSave \/ (Crash /\ unsaved' = unsaved)
  <2>1. leaving' = {} /\ said' = said
    BY <1>10, CrashIs DEF Dies
  <2>2. \A n : n \notin Left'
    BY <2>1, LeftIs
  <2>3. \A y \in Sessions' : y \in Sessions
    BY <1>1, <1>10, CrashFlows
  <2>4. ASSUME NEW n \in 1..MaxMessages
        PROVE  \/ log'[n] = log[n] /\ unsaved'[n] = unsaved[n]
               \/ log'[n] = log[n] + 1 /\ unsaved'[n] = unsaved[n] + 1
    <3>1. CASE log' = log /\ unsaved' = unsaved
      BY <3>1
    <3>2. CASE \E chunk : log' = Logged(chunk) /\ unsaved' = Plus(unsaved, chunk)
      <4>1. PICK chunk : log' = Logged(chunk) /\ unsaved' = Plus(unsaved, chunk)
        BY <3>2
      <4>2. /\ log'[n] = IF n \in Numbers(chunk) THEN log[n] + 1 ELSE log[n]
            /\ unsaved'[n] = IF n \in Numbers(chunk) THEN unsaved[n] + 1 ELSE unsaved[n]
        BY <1>3, <4>1, LoggedIs, PlusIs
      <4> QED BY <4>2
    <3> QED BY <1>10, <3>1, <3>2, CrashIs
  <2>5. \A n \in 1..MaxMessages :
          /\ log[n] <= 1 + unsaved[n] => log'[n] <= 1 + unsaved'[n]
          /\ log[n] = unsaved[n] => log'[n] = unsaved'[n]
    <3>1. \A n \in 1..MaxMessages : log[n] \in Nat /\ unsaved[n] \in Nat
      BY <1>3
    <3> QED BY <2>4, <3>1
  <2>6. Logs'
    <3> SUFFICES ASSUME NEW n \in 1..MaxMessages
                 PROVE  log'[n] <= 1 + unsaved'[n] /\ (n > said' => log'[n] = unsaved'[n])
      OBVIOUS
    <3>1. log[n] <= 1 + unsaved[n] /\ (n > said => log[n] = unsaved[n])
      BY <1>2
    <3>2. /\ log[n] <= 1 + unsaved[n] => log'[n] <= 1 + unsaved'[n]
          /\ log[n] = unsaved[n] => log'[n] = unsaved'[n]
      BY <2>5, Zenon
    <3> QED BY <2>1, <3>1, <3>2, Zenon
  <2>7. Sees'
    <3> SUFFICES ASSUME NEW y \in Sessions', NEW n \in Seen(y) PROVE log'[n] = unsaved'[n] /\ n \notin Left'
      OBVIOUS
    <3>1. y \in Sessions
      BY <2>3
    <3>2. n \in 1..MaxMessages /\ log[n] = unsaved[n]
      BY <1>2, <1>4, <3>1
    <3> QED BY <2>2, <2>5, <3>2, Zenon
  <2> QED BY <2>1, <2>2, <2>6, <2>7
<1> QED BY <1>1, <1>7, <1>8, <1>9, <1>10, UnsavedIs, Steps

\* OnceInv is an invariant.
LEMMA OnceInvHolds == Spec => []OnceInv
<1>1. Init => OnceInv
  <2> SUFFICES ASSUME Init PROVE OnceInv
    OBVIOUS
  <2>1. /\ \A n \in 1..MaxMessages : log[n] = 0 /\ unsaved[n] = 0
        /\ leaving = {} /\ cache = None /\ turn = NoTurn /\ disk = Empty
    BY DEF Init
  <2>2. \A x \in Sessions : Seen(x) = {}
    BY <2>1, SessionsAre, EmptyIs DEF NoTurn
  <2>3. \A n : n \notin Left
    BY <2>1, LeftIs
  <2> QED BY <2>1, <2>2, <2>3 DEF OnceInv
<1>2. TypeInv /\ TypeInv' /\ UnsavedInv /\ CalmInv /\ OnceInv /\ [Next]_vars => OnceInv'
  BY OnceInvStep
<1> QED BY <1>1, <1>2, TypeInvHolds, UnsavedInvHolds, CalmInvHolds, PTL DEF Spec

\* While no turn begins with an object that a waiting compaction will replace,
\* and /new comes beside no task, no message is archived twice, but for the
\* entries before whose save of the session the process died.
THEOREM ArchivedAtMostOnce ==
  ASSUME Overlaps \subseteq {"unlocked", "kill"}
  PROVE  Spec => []ArchivedOnce
<1>1. TypeInv /\ OnceInv => ArchivedOnce
  <2> SUFFICES ASSUME TypeInv, OnceInv, NEW n \in 1..said PROVE log[n] <= 1 + unsaved[n]
    BY DEF ArchivedOnce
  <2>1. n \in 1..MaxMessages
    BY ConsolidationAssumption DEF TypeInv, RestType
  <2> QED BY <2>1 DEF OnceInv
<1> QED BY <1>1, TypeInvHolds, OnceInvHolds, PTL
=============================================================================
