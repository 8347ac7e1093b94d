-------------------------- MODULE TurnHistoryProofs --------------------------
(***************************************************************************)
(* What holds of the history of a session for every number of turns,      *)
(* iterations and follow-ups.  The steps of the runner are first brought   *)
(* into two shapes (Grow, Keep) and those of the turn into what they leave *)
(* in the fields of the sessions (BeginIs ... BudgetIs).  The invariants,  *)
(* each proved from those before it:                                       *)
(*   TypeInv        types, and what a turn in progress has (PhaseInv);     *)
(*   SameInv        nothing in memory alone, if the event store works;     *)
(*   AheadInv       the cached history continues that of the file;         *)
(*   CheckpointInv  which checkpoints the runner saves, and of which turn; *)
(*   CoverInv       the runner's messages cover the checkpoint;            *)
(*   LegalInv       calls and results match, in the history and in work;   *)
(*   AskInv         who closes an ask at the end of the history;           *)
(*   WorkInv        the runner has each of its messages once;              *)
(*   OnceInv        of a turn in progress the history has only its ask.    *)
(***************************************************************************)
EXTENDS TurnHistory, SequenceTheorems, FiniteSetTheorems, WellFoundedInduction, TLAPS

-----------------------------------------------------------------------------
(* Sequences *)

\* No element comes twice.
Once(q) == \A i, j \in DOMAIN q : q[i] = q[j] => i = j

\* What a sequence that gains an element holds.
LEMMA AppendRange ==
  ASSUME NEW S, NEW q \in Seq(S), NEW x \in S
  PROVE  /\ Append(q, x) \in Seq(S)
         /\ Range(Append(q, x)) = Range(q) \cup {x}
         /\ Once(q) /\ x \notin Range(q) => Once(Append(q, x))
<1>1. /\ Append(q, x) \in Seq(S)
      /\ DOMAIN Append(q, x) = 1..(Len(q) + 1)
      /\ DOMAIN q = 1..Len(q) /\ Len(q) \in Nat
      /\ \A i \in 1..Len(q) : Append(q, x)[i] = q[i]
      /\ Append(q, x)[Len(q) + 1] = x
  OBVIOUS
<1>2. Range(Append(q, x)) = Range(q) \cup {x}
  BY <1>1, SMT DEF Range
<1>3. Once(q) /\ x \notin Range(q) => Once(Append(q, x))
  BY <1>1, SMT DEF Once, Range
<1> QED BY <1>1, <1>2, <1>3

\* What two sequences hold together.
LEMMA ConcatRange ==
  ASSUME NEW S, NEW p \in Seq(S), NEW q \in Seq(S)
  PROVE  /\ p \o q \in Seq(S)
         /\ Range(p \o q) = Range(p) \cup Range(q)
         /\ Once(p) /\ Once(q) /\ Range(p) \cap Range(q) = {} => Once(p \o q)
<1>1. /\ p \o q \in Seq(S)
      /\ Len(p) \in Nat /\ Len(q) \in Nat
      /\ DOMAIN p = 1..Len(p) /\ DOMAIN q = 1..Len(q)
      /\ DOMAIN (p \o q) = 1..(Len(p) + Len(q))
      /\ \A i \in 1..(Len(p) + Len(q)) :
            (p \o q)[i] = IF i <= Len(p) THEN p[i] ELSE q[i - Len(p)]
  BY ConcatProperties, LenProperties
<1>2. \A i \in 1..Len(p) : (p \o q)[i] = p[i]
  BY <1>1
<1>3. \A i \in 1..Len(q) : Len(p) + i \in 1..(Len(p) + Len(q)) /\ (p \o q)[Len(p) + i] = q[i]
  BY <1>1
<1>4. Range(p \o q) = Range(p) \cup Range(q)
  <2>1. ASSUME NEW x \in Range(p \o q) PROVE x \in Range(p) \cup Range(q)
    BY <1>1, SMT DEF Range
  <2>2. ASSUME NEW x \in Range(p) PROVE x \in Range(p \o q)
    <3>1. PICK i \in 1..Len(p) : x = p[i]
      BY <1>1, <2>2, Zenon DEF Range
    <3>2. i \in DOMAIN (p \o q) /\ x = (p \o q)[i]
      BY <1>1, <1>2, <3>1
    <3> QED BY <3>2, Zenon DEF Range
  <2>3. ASSUME NEW x \in Range(q) PROVE x \in Range(p \o q)
    <3>1. PICK i \in 1..Len(q) : x = q[i]
      BY <1>1, <2>3, Zenon DEF Range
    <3>2. Len(p) + i \in DOMAIN (p \o q) /\ x = (p \o q)[Len(p) + i]
      BY <1>1, <1>3, <3>1
    <3> QED BY <3>2, Zenon DEF Range
  <2> QED BY <2>1, <2>2, <2>3
<1>5. ASSUME Once(p), Once(q), Range(p) \cap Range(q) = {} PROVE Once(p \o q)
  <2>1. \A i \in DOMAIN p, j \in DOMAIN q : p[i] # q[j]
    BY <1>5 DEF Range
  <2> QED BY <1>1, <1>5, <2>1, SMT DEF Once
<1> QED BY <1>1, <1>4, <1>5

\* What a contiguous part of a sequence holds.
LEMMA SubSeqRange ==
  ASSUME NEW S, NEW q \in Seq(S), NEW a \in 1..(Len(q) + 1), NEW b \in 0..Len(q)
  PROVE  /\ SubSeq(q, a, b) \in Seq(S)
         /\ Range(SubSeq(q, a, b)) \subseteq Range(q)
         /\ Once(q) => Once(SubSeq(q, a, b))
<1>1. /\ Len(q) \in Nat /\ DOMAIN q = 1..Len(q)
      /\ \A i \in a..b : q[i] \in S
  BY LenProperties
<1>2. /\ SubSeq(q, a, b) \in Seq(S)
      /\ Len(SubSeq(q, a, b)) = IF a <= b THEN b - a + 1 ELSE 0
      /\ \A i \in 1..(b - a + 1) : SubSeq(q, a, b)[i] = q[a + i - 1]
  BY <1>1, SubSeqProperties
<1>3. DOMAIN SubSeq(q, a, b) = 1..Len(SubSeq(q, a, b))
  BY <1>2, LenProperties
<1>4. \A i \in DOMAIN SubSeq(q, a, b) :
         a + i - 1 \in DOMAIN q /\ SubSeq(q, a, b)[i] = q[a + i - 1]
  <2> SUFFICES ASSUME NEW i \in DOMAIN SubSeq(q, a, b)
               PROVE  a + i - 1 \in DOMAIN q /\ SubSeq(q, a, b)[i] = q[a + i - 1]
    OBVIOUS
  <2>1. a \in Nat /\ b \in Nat /\ a >= 1 /\ b <= Len(q)
    BY <1>1
  <2>2. i \in 1..(b - a + 1)
    BY <1>2, <1>3, <2>1
  <2>3. a + i - 1 \in 1..Len(q)
    BY <1>1, <2>1, <2>2
  <2> QED BY <1>1, <1>2, <2>2, <2>3
<1>5. Range(SubSeq(q, a, b)) \subseteq Range(q)
  BY <1>4, Zenon DEF Range
<1>6. Once(q) => Once(SubSeq(q, a, b))
  BY <1>1, <1>2, <1>3, <1>4, SMT DEF Once
<1> QED BY <1>2, <1>5, <1>6

\* The empty sequence.
LEMMA NothingInEmpty == Once(<<>>) /\ Range(<<>>) = {}
BY SMT DEF Once, Range

\* A set of numbers has a least one.
LEMMA LeastOf ==
  ASSUME NEW T, T \subseteq Nat, T # {}
  PROVE  \E x \in T : \A y \in T : x <= y
<1> DEFINE R == OpToRel(<, Nat)
<1>1. IsWellFoundedOn(R, Nat)
  BY NatLessThanWellFounded, Zenon
<1>2. \A i, j \in Nat : i < j => <<i, j>> \in R
  BY SMT DEF OpToRel
<1> HIDE DEF R
<1>3. PICK x \in T : \A y \in T : ~ (<<y, x>> \in R)
  BY <1>1, WFMin, Zenon
<1>4. ASSUME NEW y \in T PROVE x <= y
  <2>1. x \in Nat /\ y \in Nat /\ ~(y < x)
    BY <1>2, <1>3
  <2> QED BY <2>1
<1> QED BY <1>4, Zenon

-----------------------------------------------------------------------------
(* The file cap *)

\* q is what m holds from i to j.
Slice(m, q, i, j) ==
  /\ i \in 1..Len(m) + 1 /\ j \in 0..Len(m) /\ i <= j + 1
  /\ q \in Seq(Entry) /\ Len(q) = j - i + 1
  /\ \A n \in 1..Len(q) : n + i - 1 \in i..j /\ q[n] = m[n + i - 1]

\* The cap finds a user message among the last FileCap messages, if it has to.
Fits(m) == Len(m) <= FileCap \/ Recent(m) # {}

\* A set of numbers up to n has a greatest one, and Min and Max are what they say.
LEMMA Extremes ==
  ASSUME NEW n \in Nat, NEW T, T \subseteq 0..n, T # {}
  PROVE  /\ Min(T) \in T /\ \A y \in T : Min(T) <= y
         /\ Max(T) \in T /\ \A y \in T : y <= Max(T)
<1>1. PICK x \in T : \A y \in T : x <= y
  <2>1. T \subseteq Nat
    OBVIOUS
  <2> QED BY <2>1, LeastOf
<1>2. Min(T) \in T /\ \A y \in T : Min(T) <= y
  BY <1>1, Zenon DEF Min
<1> DEFINE U == {n - y : y \in T}
<1>3. U \subseteq Nat /\ U # {}
  OBVIOUS
<1>4. PICK u \in U : \A y \in U : u <= y
  <2> HIDE DEF U
  <2> QED BY <1>3, LeastOf
<1>5. PICK z \in T : u = n - z
  BY <1>4
<1>6. ASSUME NEW y \in T PROVE z >= y
  <2>1. n - z <= n - y
    BY <1>4, <1>5
  <2> QED BY <2>1
<1>7. Max(T) \in T /\ \A y \in T : Max(T) >= y
  BY <1>5, <1>6, Zenon DEF Max
<1>8. \A y \in T : y <= Max(T)
  BY <1>7
<1> QED BY <1>2, <1>7, <1>8

\* The window lies in the messages.
LEMMA WindowIs ==
  ASSUME NEW m \in Seq(Entry), ~(Len(m) <= FileCap)
  PROVE  /\ Window(m).from \in 1..Len(m) /\ Window(m).to \in Window(m).from..Len(m)
         /\ Fits(m) => Window(m).to = Len(m)
<1> DEFINE n == Len(m)
<1>1. n \in Nat /\ FileCap \in Nat \ {0} /\ DOMAIN m = 1..n /\ n > FileCap
  BY LenProperties, HistoryAssumption
<1>2. Users(m) \subseteq 1..n /\ Recent(m) \subseteq 1..n
  BY <1>1 DEF Users, Recent
<1> HIDE DEF n
<1>3. CASE Recent(m) # {}
  <2>1. Min(Recent(m)) \in Recent(m)
    <3>1. Recent(m) \subseteq 0..n
      BY <1>1, <1>2
    <3> QED BY <1>1, <1>3, <3>1, Extremes
  <2>2. Window(m).from = Min(Recent(m)) /\ Window(m).to = n
    BY <1>3 DEF Window, n
  <2> QED BY <1>1, <1>2, <2>1, <2>2 DEF n
<1>4. CASE Recent(m) = {} /\ Users(m) # {}
  <2> DEFINE u == Max(Users(m))
             b == u + FileCap - 1
             t == Min({n, b})
  <2>1. u \in 1..n
    <3>1. Users(m) \subseteq 0..n
      BY <1>1, <1>2
    <3>2. u \in Users(m)
      BY <1>1, <1>4, <3>1, Extremes
    <3> QED BY <1>2, <3>2
  <2>2. Window(m).from = u /\ Window(m).to = t
    BY <1>4 DEF Window, n
  <2> HIDE DEF u
  <2>3. b \in Nat /\ b >= u /\ u \in Nat
    BY <1>1, <2>1
  <2> HIDE DEF b
  <2>4. t \in {n, b} /\ t <= n
    <3>1. n + b \in Nat /\ {n, b} \subseteq 0..(n + b) /\ {n, b} # {}
      BY <1>1, <2>3
    <3>2. t \in {n, b} /\ \A y \in {n, b} : t <= y
      BY <3>1, Extremes
    <3> QED BY <3>2
  <2> HIDE DEF t
  <2>5. t \in u..n
    BY <1>1, <2>1, <2>3, <2>4
  <2> QED BY <1>1, <1>4, <2>1, <2>2, <2>5 DEF Fits, n
<1>5. CASE Recent(m) = {} /\ Users(m) = {}
  <2>1. Window(m).from = n - FileCap + 1 /\ Window(m).to = n
    BY <1>5 DEF Window, n
  <2> QED BY <1>1, <2>1 DEF n
<1> QED BY <1>3, <1>4, <1>5

\* What is kept: the messages from i to j, up to the end if a user message is
\* near, and never from a result on whose calls are cut off.
Keeping(m, i, j) ==
  /\ i \in 1..Len(m) + 1 /\ j \in 0..Len(m) /\ i <= j + 1
  /\ Kept(m).from = i /\ Kept(m).to = j
  /\ Fits(m) => j = Len(m)
  /\ i = 1 \/ i > j \/ Role(m[i]) # "tool"

LEMMA KeptIs ==
  ASSUME NEW m \in Seq(Entry)
  PROVE  \E i, j : Keeping(m, i, j)
<1> DEFINE n == Len(m)
<1>1. n \in Nat
  BY LenProperties
<1>2. CASE n <= FileCap
  <2>1. Kept(m).from = 1 /\ Kept(m).to = n
    BY <1>2 DEF Kept
  <2>2. Keeping(m, 1, n)
    BY <1>1, <2>1 DEF Keeping
  <2> QED BY <2>2
<1>3. CASE ~(n <= FileCap)
  <2> DEFINE w == Window(m)
             a == w.from
             b == w.to
             Starts(s) == \A i \in s..b : Role(m[i]) = "tool" =>
                            \E j \in s..i - 1 : m[j] = [m[i] EXCEPT !.body = "calls"]
             T == {s \in a..b + 1 : Starts(s)}
  <2>1. a \in 1..n /\ b \in a..n /\ (Fits(m) => b = n)
    BY <1>3, WindowIs
  <2>2. Kept(m).from = Min(T) /\ Kept(m).to = b
    BY <1>3 DEF Kept, LegalStart
  <2> HIDE DEF w
  <2>3. Min(T) \in T
    <3>1. b + 1 \in a..b + 1 /\ Starts(b + 1)
      BY <1>1, <2>1
    <3> HIDE DEF Starts
    <3>2. T \subseteq 0..n + 1 /\ T # {} /\ n + 1 \in Nat
      BY <1>1, <2>1, <3>1
    <3> HIDE DEF T
    <3> QED BY <3>2, Extremes
  <2> DEFINE s == Min(T)
  <2>4. s \in a..b + 1 /\ Starts(s)
    BY <2>3
  <2>5. s > b \/ Role(m[s]) # "tool"
    <3> HIDE DEF s, a, b
    <3>1. SUFFICES ASSUME s <= b, Role(m[s]) = "tool" PROVE FALSE
      BY <1>1, <2>1, <2>4
    <3>2. s \in s..b /\ s..s - 1 = {}
      BY <1>1, <2>1, <2>4, <3>1
    <3>3. PICK k \in s..s - 1 : m[k] = [m[s] EXCEPT !.body = "calls"]
      BY <2>4, <3>1, <3>2, Zenon
    <3> QED BY <3>2, <3>3
  <2> HIDE DEF s, a, b, n
  <2>6. Kept(m).from = s /\ Kept(m).to = b
    BY <2>2 DEF s
  <2>7. s \in 1..n + 1 /\ b \in 0..n /\ s <= b + 1
    BY <1>1, <2>1, <2>4
  <2>8. Keeping(m, s, b)
    BY <2>1, <2>5, <2>6, <2>7 DEF Keeping, n
  <2> QED BY <2>8
<1> QED BY <1>2, <1>3

\* enforce_file_cap keeps a contiguous part and archives the rest.
LEMMA CappedIs ==
  ASSUME NEW m \in Seq(Entry)
  PROVE  \E i, j : /\ Keeping(m, i, j)
                   /\ Slice(m, Capped(m), i, j)
                   /\ Dropped(m) = {m[k] : k \in 1..Len(m) \ i..j}
                   /\ Dropped(m) \subseteq Entry
<1>1. PICK i, j : Keeping(m, i, j)
  BY KeptIs
<1>2. /\ Len(m) \in Nat /\ DOMAIN m = 1..Len(m) /\ \A k \in 1..Len(m) : m[k] \in Entry
      /\ i \in 1..Len(m) + 1 /\ j \in 0..Len(m) /\ i <= j + 1
      /\ Kept(m).from = i /\ Kept(m).to = j
  BY <1>1, LenProperties, ElementOfSeq DEF Keeping
<1>3. /\ SubSeq(m, i, j) \in Seq(Entry)
      /\ Len(SubSeq(m, i, j)) = IF i <= j THEN j - i + 1 ELSE 0
      /\ \A k \in 1..(j - i + 1) : SubSeq(m, i, j)[k] = m[i + k - 1]
  <2>1. \A k \in i..j : m[k] \in Entry
    BY <1>2
  <2>2. i \in Int /\ j \in Int
    BY <1>2
  <2> QED BY <1>2, <2>1, <2>2, SubSeqProperties
<1>4. Capped(m) = SubSeq(m, i, j)
  BY <1>2, Zenon DEF Capped
<1>5. Slice(m, Capped(m), i, j)
  <2> DEFINE q == SubSeq(m, i, j)
  <2> HIDE DEF q
  <2>1. q \in Seq(Entry) /\ Len(q) = j - i + 1
    BY <1>2, <1>3 DEF q
  <2>2. ASSUME NEW k \in 1..Len(q) PROVE k + i - 1 \in i..j /\ q[k] = m[k + i - 1]
    <3>1. k \in 1..(j - i + 1) /\ k + i - 1 = i + k - 1 /\ k + i - 1 \in i..j
      BY <1>2, <2>1
    <3>2. q[k] = m[i + k - 1]
      BY <1>3, <3>1 DEF q
    <3> QED BY <3>1, <3>2
  <2>3. Slice(m, q, i, j)
    BY <1>2, <2>1, <2>2 DEF Slice
  <2> QED BY <1>4, <2>3 DEF q
<1>6. Dropped(m) = {m[k] : k \in 1..Len(m) \ i..j}
  BY <1>2, Zenon DEF Dropped
<1>7. Dropped(m) \subseteq Entry
  BY <1>2, <1>6
<1> QED BY <1>1, <1>5, <1>6, <1>7

\* Nothing of the messages is lost between the file and the archive.
LEMMA CappedCovers ==
  ASSUME NEW m \in Seq(Entry)
  PROVE  /\ Capped(m) \in Seq(Entry) /\ Range(Capped(m)) \subseteq Range(m)
         /\ Range(m) \subseteq Range(Capped(m)) \cup Dropped(m)
         /\ Once(m) => Once(Capped(m))
<1>1. PICK i, j : Slice(m, Capped(m), i, j) /\ Dropped(m) = {m[k] : k \in 1..Len(m) \ i..j}
  BY CappedIs
<1> DEFINE q == Capped(m)
<1>2. /\ Len(m) \in Nat /\ DOMAIN m = 1..Len(m)
      /\ q \in Seq(Entry) /\ Len(q) \in Nat /\ DOMAIN q = 1..Len(q)
      /\ i \in 1..Len(m) + 1 /\ j \in 0..Len(m) /\ Len(q) = j - i + 1
      /\ \A n \in 1..Len(q) : n + i - 1 \in i..j /\ q[n] = m[n + i - 1]
  BY <1>1, LenProperties DEF Slice
<1> HIDE DEF q
<1>3. \A n \in 1..Len(q) : n + i - 1 \in 1..Len(m)
  BY <1>2
<1>4. Range(q) \subseteq Range(m)
  <2>1. SUFFICES ASSUME NEW n \in 1..Len(q) PROVE q[n] \in Range(m)
    BY <1>2, Zenon DEF Range
  <2>2. n + i - 1 \in DOMAIN m /\ q[n] = m[n + i - 1]
    BY <1>2, <1>3
  <2> QED BY <2>2, Zenon DEF Range
<1>5. ASSUME NEW k \in 1..Len(m) PROVE m[k] \in Range(q) \cup Dropped(m)
  <2>1. CASE k \in i..j
    <3>1. k - i + 1 \in 1..Len(q) /\ (k - i + 1) + i - 1 = k
      BY <1>2, <2>1
    <3>2. q[k - i + 1] = m[k]
      BY <1>2, <3>1
    <3> QED BY <1>2, <3>1, <3>2 DEF Range
  <2>2. CASE k \notin i..j
    BY <1>1, <2>2
  <2> QED BY <2>1, <2>2
<1>6. Range(m) \subseteq Range(q) \cup Dropped(m)
  BY <1>2, <1>5 DEF Range
<1>7. Once(m) => Once(q)
  <2>1. SUFFICES ASSUME Once(m), NEW n \in 1..Len(q), NEW k \in 1..Len(q), q[n] = q[k] PROVE n = k
    BY <1>2, Zenon DEF Once
  <2>2. n + i - 1 \in DOMAIN m /\ k + i - 1 \in DOMAIN m /\ m[n + i - 1] = m[k + i - 1]
    BY <1>2, <1>3, <2>1
  <2>3. n + i - 1 = k + i - 1
    BY <2>1, <2>2, Zenon DEF Once
  <2> QED BY <1>2, <2>3
<1> QED BY <1>2, <1>4, <1>6, <1>7 DEF q

-----------------------------------------------------------------------------
(* Sessions and checkpoints *)

\* A session with these fields.
Has(s, messages, checkpoint, pending) ==
  /\ s \in Session /\ s # None
  /\ s.messages = messages /\ s.checkpoint = checkpoint /\ s.pendingUser = pending

\* The fields of a session.
LEMMA SessionFields ==
  ASSUME NEW s \in Session
  PROVE  /\ s.messages \in Seq(Entry) /\ s.checkpoint \in Checkpoint \cup {None}
         /\ s.pendingUser \in BOOLEAN /\ s # None
BY NoneAssumption DEF Session

\* What the updates of a session leave in its fields.
LEMMA SessionUpdates ==
  ASSUME NEW s \in Session, NEW m \in Seq(Entry), NEW c \in Checkpoint \cup {None}, NEW b \in BOOLEAN
  PROVE  /\ Has([s EXCEPT !.checkpoint = c], s.messages, c, s.pendingUser)
         /\ Has([s EXCEPT !.messages = m], m, s.checkpoint, s.pendingUser)
         /\ Has([s EXCEPT !.pendingUser = b], s.messages, s.checkpoint, b)
         /\ Has([s EXCEPT !.messages = m, !.pendingUser = b], m, s.checkpoint, b)
         /\ Has([s EXCEPT !.messages = m, !.checkpoint = c, !.pendingUser = b], m, c, b)
         /\ Has([messages |-> m, checkpoint |-> c, pendingUser |-> b], m, c, b)
<1>1. \A t \in Session : t # None
  BY NoneAssumption
<1>2. Has([s EXCEPT !.checkpoint = c], s.messages, c, s.pendingUser)
  BY <1>1 DEF Session, Has
<1>3. Has([s EXCEPT !.messages = m], m, s.checkpoint, s.pendingUser)
  BY <1>1 DEF Session, Has
<1>4. Has([s EXCEPT !.pendingUser = b], s.messages, s.checkpoint, b)
  BY <1>1 DEF Session, Has
<1>5. Has([s EXCEPT !.messages = m, !.pendingUser = b], m, s.checkpoint, b)
  BY <1>1 DEF Session, Has
<1>6. Has([s EXCEPT !.messages = m, !.checkpoint = c, !.pendingUser = b], m, c, b)
  BY <1>1 DEF Session, Has
<1>7. Has([messages |-> m, checkpoint |-> c, pendingUser |-> b], m, c, b)
  BY <1>1 DEF Session, Has
<1> QED BY <1>2, <1>3, <1>4, <1>5, <1>6, <1>7

\* An entry of the current turn.
LEMMA ItemType ==
  ASSUME HistoryAssumption, turn \in 1..MaxTurns, NEW b \in Bodies,
         NEW n \in 0..(MaxIterations + MaxFollowUps)
  PROVE  /\ Item(b, n) \in Entry
         /\ Item(b, n).body = b /\ Item(b, n).turn = turn /\ Item(b, n).step = n
BY DEF Item, Entry

\* An entry with another body.
LEMMA EntryUpdate ==
  ASSUME NEW e \in Entry, NEW b \in Bodies
  PROVE  /\ [e EXCEPT !.body = b] \in Entry
         /\ [e EXCEPT !.body = b].body = b
         /\ [e EXCEPT !.body = b].turn = e.turn /\ [e EXCEPT !.body = b].step = e.step
BY DEF Entry

\* The fields of a checkpoint.
LEMMA CheckpointMade ==
  ASSUME NEW a \in Entry, NEW r \in Seq(Entry), NEW p \in Seq(Entry)
  PROVE  LET c == [assistant |-> a, results |-> r, pending |-> p]
         IN  c \in Checkpoint /\ c # None
             /\ c.assistant = a /\ c.results = r /\ c.pending = p
BY NoneAssumption DEF Checkpoint

LEMMA CheckpointFields ==
  ASSUME NEW c \in Checkpoint
  PROVE  c.assistant \in Entry /\ c.results \in Seq(Entry) /\ c.pending \in Seq(Entry)
BY DEF Checkpoint

\* The messages of a checkpoint.
LEMMA MaterializeType ==
  ASSUME NEW c \in Checkpoint
  PROVE  Materialize(c) \in Seq(Entry)
<1> DEFINE p == [i \in 1..Len(c.pending) |-> [c.pending[i] EXCEPT !.body = "interrupted"]]
<1>1. c.assistant \in Entry /\ c.results \in Seq(Entry) /\ c.pending \in Seq(Entry)
  BY CheckpointFields
<1>2. Len(c.pending) \in Nat /\ \A i \in 1..Len(c.pending) : c.pending[i] \in Entry
  BY <1>1, ElementOfSeq, LenProperties
<1>3. \A i \in 1..Len(c.pending) : [c.pending[i] EXCEPT !.body = "interrupted"] \in Entry
  BY <1>2, EntryUpdate DEF Bodies
<1>4. p \in Seq(Entry)
  BY <1>2, <1>3, SeqDef
<1>5. <<c.assistant>> \in Seq(Entry)
  BY <1>1
<1> HIDE DEF p
<1>6. (<<c.assistant>> \o c.results) \o p \in Seq(Entry)
  BY <1>1, <1>4, <1>5, ConcatProperties
<1> QED BY <1>6 DEF Materialize, p
-----------------------------------------------------------------------------
(* Restoring *)

\* The overlap is a number of messages that are restored already.
LEMMA OverlapIs ==
  ASSUME NEW m \in Seq(Entry), NEW q \in Seq(Entry)
  PROVE  /\ Overlap(m, q) \in 0..Len(q) /\ Overlap(m, q) <= Len(m)
         /\ \A i \in 1..Overlap(m, q) : m[Len(m) - Overlap(m, q) + i] = q[i]
<1> DEFINE Same(k) == SubSeq(m, Len(m) - k + 1, Len(m)) = SubSeq(q, 1, k)
           sizes   == {k \in 0..Len(q) : k <= Len(m) /\ Same(k)}
           T       == {Len(q) - k : k \in sizes}
<1>1. Len(m) \in Nat /\ Len(q) \in Nat
  BY LenProperties
<1>2. Same(0)
  BY <1>1
<1>3. 0 \in sizes
  BY <1>1, <1>2
<1> HIDE DEF Same
<1>4. T \subseteq Nat /\ T # {}
  BY <1>1, <1>3
<1>5. PICK x \in T : \A y \in T : x <= y
  <2> HIDE DEF T
  <2> QED BY <1>4, LeastOf
<1>6. PICK k \in sizes : x = Len(q) - k
  BY <1>5
<1>7. \A j \in sizes : j <= k
  <2>1. SUFFICES ASSUME NEW j \in sizes PROVE j <= k
    OBVIOUS
  <2>2. Len(q) - j \in T
    BY <2>1
  <2>3. Len(q) - k <= Len(q) - j
    BY <1>5, <1>6, <2>2
  <2>4. j \in Nat /\ k \in Nat
    BY <1>1, <1>6
  <2> QED BY <1>1, <2>3, <2>4
<1> DEFINE o == CHOOSE i \in sizes : \A j \in sizes : j <= i
<1>8. o \in sizes
  <2> HIDE DEF sizes
  <2> QED BY <1>6, <1>7
<1>9. o = Overlap(m, q)
  BY Zenon DEF Overlap, Same
<1> HIDE DEF o
<1>10. o \in 0..Len(q) /\ o <= Len(m) /\ Same(o)
  BY <1>8
<1>11. ASSUME NEW i \in 1..o PROVE m[Len(m) - o + i] = q[i]
  <2> DEFINE a == Len(m) - o + 1
             n == Len(m)
  <2>a. n \in Nat /\ o \in Nat /\ o <= n /\ i \in 1..o
    BY <1>1, <1>10
  <2>b. \A u, v \in Nat : v <= u =>
          /\ u - v + 1 \in 1..(u + 1) /\ \A j \in (u - v + 1)..u : j \in 1..u
          /\ \A w \in 1..v : w \in 1..(u - (u - v + 1) + 1) /\ (u - v + 1) + w - 1 = u - v + w
    OBVIOUS
  <2>0. /\ n \in Nat /\ a \in 1..(n + 1) /\ i \in 1..(n - a + 1) /\ a + i - 1 = n - o + i
        /\ \A j \in a..n : m[j] \in Entry
    BY <1>1, <2>a, <2>b
  <2>1. SubSeq(m, Len(m) - o + 1, Len(m))[i] = m[Len(m) - o + i]
    <3> HIDE DEF a, n
    <3>1. SubSeq(m, a, n)[i] = m[a + i - 1]
      BY <2>0, SubSeqProperties
    <3>2. SubSeq(m, a, n)[i] = m[n - o + i]
      BY <2>0, <3>1
    <3> QED BY <3>2 DEF a, n
  <2>2. SubSeq(q, 1, o)[i] = q[i]
    BY <1>1, <1>10
  <2> QED BY <1>10, <2>1, <2>2 DEF Same
<1> QED BY <1>9, <1>10, <1>11

\* Where the restored messages begin that the history does not end with.
Known(m, q, k) ==
  /\ k \in 0..Len(q) /\ k <= Len(m)
  /\ \A i \in 1..k : m[Len(m) - k + i] = q[i]

\* _restore_runtime_checkpoint: the history gains an end of the checkpoint.
LEMMA RestoreIs ==
  ASSUME NEW s \in Session, s.checkpoint # None
  PROVE  \E k : /\ Known(s.messages, Materialize(s.checkpoint), k)
                /\ SubSeq(Materialize(s.checkpoint), k + 1, Len(Materialize(s.checkpoint))) \in Seq(Entry)
                /\ Has(RestoreCheckpoint(s),
                       s.messages \o SubSeq(Materialize(s.checkpoint), k + 1, Len(Materialize(s.checkpoint))),
                       None, FALSE)
<1> DEFINE q == Materialize(s.checkpoint)
           k == Overlap(s.messages, q)
           r == SubSeq(q, k + 1, Len(q))
<1>1. s.messages \in Seq(Entry) /\ s.checkpoint \in Checkpoint
  BY SessionFields
<1>2. q \in Seq(Entry)
  BY <1>1, MaterializeType
<1> HIDE DEF q
<1>3. Known(s.messages, q, k)
  BY <1>1, <1>2, OverlapIs DEF Known
<1>4. Len(q) \in Nat
  BY <1>2, LenProperties
<1> HIDE DEF k
<1>5. r \in Seq(Entry)
  BY <1>2, <1>3, <1>4 DEF Known
<1> HIDE DEF r
<1>6. s.messages \o r \in Seq(Entry)
  BY <1>1, <1>5, ConcatProperties
<1> DEFINE m == s.messages \o r
<1> HIDE DEF m
<1>7. Has([messages |-> m, checkpoint |-> None, pendingUser |-> FALSE], m, None, FALSE)
  BY <1>6, SessionUpdates DEF m
<1>8. RestoreCheckpoint(s) = [messages |-> m, checkpoint |-> None, pendingUser |-> FALSE]
  BY DEF RestoreCheckpoint, m, r, k, q
<1> QED BY <1>3, <1>5, <1>7, <1>8 DEF q, r, m

\* _restore_pending_user_turn: a user message at the end is closed.
LEMMA CloseIs ==
  ASSUME NEW s \in Session
  PROVE  \E m \in Seq(Entry) :
           /\ Has(ClosePendingUser(s), m, s.checkpoint, FALSE)
           /\ \/ m = s.messages /\ (m = <<>> \/ Role(Last(m)) # "user")
              \/ /\ s.messages # <<>> /\ Role(Last(s.messages)) = "user"
                 /\ Last(s.messages) \in Entry
                 /\ m = Append(s.messages, [Last(s.messages) EXCEPT !.body = "notice"])
<1> DEFINE l == Last(s.messages)
           m == IF s.messages # <<>> /\ Role(l) = "user"
                THEN Append(s.messages, [l EXCEPT !.body = "notice"]) ELSE s.messages
<1>1. s.messages \in Seq(Entry)
  BY SessionFields
<1>2. s.messages # <<>> => l \in Entry
  BY <1>1 DEF Last
<1> HIDE DEF l
<1>3. m \in Seq(Entry)
  <2>1. s.messages # <<>> => [l EXCEPT !.body = "notice"] \in Entry
    BY <1>2, EntryUpdate DEF Bodies
  <2> QED BY <1>1, <2>1
<1>4. Has([s EXCEPT !.messages = m, !.pendingUser = FALSE], m, s.checkpoint, FALSE)
  <2> HIDE DEF m
  <2> QED BY <1>3, SessionUpdates
<1>5. ClosePendingUser(s) = [s EXCEPT !.messages = m, !.pendingUser = FALSE]
  BY SessionFields DEF ClosePendingUser, l, Session
<1>6. \/ m = s.messages /\ (m = <<>> \/ Role(Last(m)) # "user")
      \/ /\ s.messages # <<>> /\ Role(l) = "user" /\ l \in Entry
         /\ m = Append(s.messages, [l EXCEPT !.body = "notice"])
  BY <1>2 DEF l
<1> HIDE DEF m
<1> QED BY <1>3, <1>4, <1>5, <1>6 DEF l
-----------------------------------------------------------------------------
(* Types *)

\* A turn in progress has a session and a number, and the checkpoints of the
\* cached session and of the file are one.
PhaseInv ==
  /\ phase # "idle" => mem # None /\ turn > 0
  /\ phase = "tools" => iteration < MaxIterations
  /\ mem # None => mem.checkpoint = disk.checkpoint

TypeInv == TypeOK /\ PhaseInv

\* Follow-ups at the end of the runner's messages.
LEMMA InjectedIs ==
  ASSUME TypeInv, turn > 0, NEW p \in Seq(Entry), NEW n \in 0..MaxFollowUps,
         followups + n <= MaxFollowUps
  PROVE  /\ InjectedAfter(p, n) \in Seq(Entry)
         /\ p = <<>> => InjectedAfter(p, n) = <<>>
         /\ p # <<>> => /\ Len(InjectedAfter(p, n)) = Len(p) + n
                        /\ \A i \in 1..Len(p) : InjectedAfter(p, n)[i] = p[i]
                        /\ \A i \in 1..n : InjectedAfter(p, n)[Len(p) + i] = Item("followup", followups + i)
<1> DEFINE f == [i \in 1..n |-> Item("followup", followups + i)]
<1>1. MaxFollowUps \in Nat /\ MaxIterations \in Nat /\ followups \in Nat /\ turn \in 1..MaxTurns
  BY HistoryAssumption DEF TypeInv, TypeOK
<1>2. \A i \in 1..n : Item("followup", followups + i) \in Entry
  BY <1>1, ItemType, HistoryAssumption DEF Bodies
<1>3. f \in Seq(Entry) /\ Len(f) = n /\ \A i \in 1..n : f[i] = Item("followup", followups + i)
  BY <1>1, <1>2
<1> HIDE DEF f
<1>4. /\ p \o f \in Seq(Entry) /\ Len(p \o f) = Len(p) + n
      /\ \A i \in 1..Len(p) : (p \o f)[i] = p[i]
      /\ \A i \in 1..n : (p \o f)[Len(p) + i] = f[i]
  BY <1>1, <1>3
<1>5. InjectedAfter(p, n) = IF p = <<>> THEN p ELSE p \o f
  BY DEF InjectedAfter, f
<1> QED BY <1>3, <1>4, <1>5

\* The final response of the model.
Answered == Append(work, Item("final", iteration))

\* The messages of a step that goes on: a response or the results of the
\* tools, and a message of the runner's own.
Base(b) ==
  \/ /\ phase = "model"
     /\ \/ b = Answered
        \/ \E y \in {"nudge", "correction"} : b = Append(Answered, Item(y, iteration))
  \/ /\ phase = "tools"
     /\ \/ b = AfterTools
        \/ \E y \in {"nudge", "correction", "final"} : b = Append(AfterTools, Item(y, iteration))

\* The checkpoint of such a step.
Marks ==
  \/ UNCHANGED <<disk, mem>>
  \/ phase = "model" /\ SaveCheckpoint(Item("final", iteration), <<>>, <<>>)
  \/ phase = "tools" /\ SaveCheckpoint(Item("calls", iteration), <<Item("result", iteration)>>, <<>>)
  \/ phase = "tools" /\ GuardsReports /\ SaveCheckpoint(Item("calls", iteration), <<>>, <<>>)

\* A step of the runner that adds messages other than tool calls.
Grows(b, n) ==
  /\ Base(b) /\ Marks
  /\ iteration < MaxIterations
  /\ followups + n <= MaxFollowUps /\ followups' = followups + n
  /\ \/ phase' = "model" /\ iteration' = iteration + 1 /\ work' = InjectedAfter(b, n)
     \/ phase' = "ended" /\ iteration' = iteration /\ work' = b
  /\ UNCHANGED <<archived, turn, kind>>

\* One that adds follow-ups at most.
Keeps(n) ==
  /\ phase = "model" /\ iteration < MaxIterations /\ SpendsLittle
  /\ followups + n <= MaxFollowUps /\ followups' = followups + n
  /\ phase' = "model" /\ iteration' = iteration + 1 /\ work' = InjectedAfter(work, n)
  /\ UNCHANGED <<disk, archived, mem, turn, kind>>

Grow == \E b, n : n \in 0..MaxFollowUps /\ Grows(b, n)
Keep == \E n \in 0..MaxFollowUps : Keeps(n)

RunnerGoesOn ==
  \/ ToolsDone \/ ToolsReported \/ ToolsFail \/ ModelFinal \/ ModelCorrected
  \/ ReportCorrected \/ ModelRetries \/ ModelFails

\* A runner that continues or ends after b.
LEMMA GoesOn ==
  ASSUME TypeInv, NEW b, Base(b), Marks, iteration < MaxIterations, UNCHANGED <<archived, turn, kind>>,
         ContinueOrEnd(b) \/ \E n \in 0..MaxFollowUps : Continue(b, n)
  PROVE  Grow
<1>1. MaxFollowUps \in Nat /\ followups \in 0..MaxFollowUps
  BY HistoryAssumption DEF TypeInv, TypeOK
<1>2. ASSUME NEW n \in 0..MaxFollowUps, Continue(b, n) PROVE Grow
  BY <1>2 DEF Grow, Grows, Continue, CountFollowUps
<1>3. CASE work' = b /\ phase' = "ended" /\ UNCHANGED <<iteration, followups>>
  <2>1. Grows(b, 0)
    BY <1>1, <1>3 DEF Grows
  <2> QED BY <1>1, <2>1 DEF Grow
<1> QED BY <1>1, <1>2, <1>3 DEF ContinueOrEnd

\* Every step of the runner between its first calls and the end of its budget
\* is one of these.
LEMMA RunnerIs ==
  ASSUME TypeInv, RunnerGoesOn
  PROVE  Grow \/ Keep
<1>0. /\ MaxFollowUps \in Nat /\ work \in Seq(Entry)
      /\ MaxIterations \in Nat /\ iteration \in 0..MaxIterations
      /\ phase = "tools" => iteration < MaxIterations
  BY HistoryAssumption DEF TypeInv, TypeOK, PhaseInv
<1>1. CASE ToolsDone
  <2>1. Base(AfterTools) /\ Marks
    BY <1>1 DEF ToolsDone, Base, Marks
  <2> QED BY <1>0, <1>1, <2>1, GoesOn DEF ToolsDone
<1>2. CASE ToolsReported
  <2>1. Base(AfterTools) /\ Base(Append(AfterTools, Item("nudge", iteration))) /\ Marks
    BY <1>2 DEF ToolsReported, Base, Marks
  <2>2. 0 \in 0..MaxFollowUps
    BY <1>0
  <2> QED BY <1>0, <1>2, <2>1, <2>2, GoesOn DEF ToolsReported
<1>3. CASE ToolsFail
  <2>1. Base(Append(AfterTools, Item("final", iteration))) /\ Marks
    BY <1>3 DEF ToolsFail, Base, Marks
  <2> QED BY <1>0, <1>3, <2>1, GoesOn DEF ToolsFail
<1>4. CASE ModelFinal
  <2>1. Base(Answered) /\ Base(Append(Answered, Item("nudge", iteration))) /\ Marks
    BY <1>4 DEF ModelFinal, Base, Marks
  <2>2. 0 \in 0..MaxFollowUps
    BY <1>0
  <2> QED BY <1>0, <1>4, <2>1, <2>2, GoesOn DEF ModelFinal, Answered, WithinBudget
<1>5. CASE ModelCorrected
  <2>1. PICK n \in 0..MaxFollowUps : Correct(Answered, n)
    BY <1>5 DEF ModelCorrected, Answered
  <2>2. Base(Append(Answered, Item("correction", iteration))) /\ Marks
    BY <1>5 DEF ModelCorrected, Base, Marks
  <2>3. iteration < MaxIterations
    BY <1>0, <2>1 DEF Correct
  <2>4. Continue(Append(Answered, Item("correction", iteration)), n) /\ UNCHANGED <<archived, turn, kind>>
    BY <1>5, <2>1 DEF Correct, ModelCorrected
  <2> QED BY <1>0, <2>2, <2>3, <2>4, GoesOn
<1>6. CASE ReportCorrected
  <2>1. PICK n \in 0..MaxFollowUps : Correct(AfterTools, n)
    BY <1>6 DEF ReportCorrected
  <2>2. Base(Append(AfterTools, Item("correction", iteration))) /\ Marks
    BY <1>6 DEF ReportCorrected, Base, Marks
  <2>3. iteration < MaxIterations
    BY <1>0, <1>6 DEF ReportCorrected
  <2>4. Continue(Append(AfterTools, Item("correction", iteration)), n) /\ UNCHANGED <<archived, turn, kind>>
    BY <1>6, <2>1 DEF Correct, ReportCorrected
  <2> QED BY <1>0, <2>2, <2>3, <2>4, GoesOn
<1>7. CASE ModelRetries
  <2>1. CASE SpendsLittle /\ Continue(work, 0)
    <3>1. Keeps(0)
      BY <1>7, <2>1 DEF ModelRetries, Keeps, Continue, CountFollowUps, WithinBudget
    <3> QED BY <1>0, <3>1 DEF Keep
  <2>2. CASE Continue(work \o <<Item("final", iteration), Item("nudge", iteration)>>, 0)
    <3>1. work \o <<Item("final", iteration), Item("nudge", iteration)>>
            = Append(Answered, Item("nudge", iteration))
      BY <1>0 DEF Answered
    <3>2. Base(Append(Answered, Item("nudge", iteration))) /\ Marks
      BY <1>7 DEF ModelRetries, Base, Marks
    <3>3. 0 \in 0..MaxFollowUps
      BY <1>0
    <3>5. Continue(Append(Answered, Item("nudge", iteration)), 0)
      BY <2>2, <3>1, Zenon
    <3>4. iteration < MaxIterations /\ UNCHANGED <<archived, turn, kind>>
      BY <1>7 DEF ModelRetries, WithinBudget
    <3> QED BY <3>2, <3>3, <3>4, <3>5, GoesOn
  <2> QED BY <1>7, <2>1, <2>2 DEF ModelRetries
<1>8. CASE ModelFails
  <2>1. CASE SpendsLittle /\ \E n \in 1..MaxFollowUps : Continue(work, n)
    <3>1. PICK n \in 1..MaxFollowUps : Continue(work, n)
      BY <2>1
    <3>2. Keeps(n) /\ n \in 0..MaxFollowUps
      BY <1>0, <1>8, <2>1, <3>1 DEF ModelFails, Keeps, Continue, CountFollowUps, WithinBudget
    <3> QED BY <3>2 DEF Keep
  <2>2. CASE ContinueOrEnd(Answered)
    <3>1. Base(Answered) /\ Marks
      BY <1>8 DEF ModelFails, Base, Marks
    <3> QED BY <1>8, <2>2, <3>1, GoesOn DEF ModelFails, WithinBudget
  <2> QED BY <1>8, <2>1, <2>2 DEF ModelFails, Answered
<1> QED BY <1>1, <1>2, <1>3, <1>4, <1>5, <1>6, <1>7, <1>8 DEF RunnerGoesOn

\* The entries of the current iteration.
LEMMA Items ==
  ASSUME TypeInv, turn > 0, NEW b \in Bodies
  PROVE  /\ Item(b, iteration) \in Entry /\ Item(b, 0) \in Entry
         /\ Item(b, iteration).body = b /\ Item(b, 0).body = b
         /\ Item(b, iteration).turn = turn /\ Item(b, 0).turn = turn
         /\ Item(b, iteration).step = iteration /\ Item(b, 0).step = 0
BY ItemType, HistoryAssumption DEF TypeInv, TypeOK

\* What Base adds is of the right type, and not nothing.
LEMMA BaseType ==
  ASSUME TypeInv, turn > 0, NEW b, Base(b)
  PROVE  b \in Seq(Entry) /\ b # <<>>
<1>1. work \in Seq(Entry)
  BY DEF TypeInv, TypeOK
<1>2. /\ Item("final", iteration) \in Entry /\ Item("nudge", iteration) \in Entry
      /\ Item("correction", iteration) \in Entry /\ Item("result", iteration) \in Entry
  BY Items DEF Bodies
<1>3. /\ Answered \in Seq(Entry) /\ Answered # <<>>
      /\ AfterTools \in Seq(Entry) /\ AfterTools # <<>>
  BY <1>1, <1>2 DEF Answered, AfterTools
<1>4. ASSUME NEW p \in Seq(Entry), NEW x \in Entry PROVE Append(p, x) \in Seq(Entry) /\ Append(p, x) # <<>>
  BY AppendProperties
<1>5. CASE b = Answered \/ b = AfterTools
  BY <1>3, <1>5
<1>6. CASE \E y \in {"nudge", "correction", "final"} :
             b = Append(Answered, Item(y, iteration)) \/ b = Append(AfterTools, Item(y, iteration))
  BY <1>2, <1>3, <1>4, <1>6
<1> QED BY <1>5, <1>6 DEF Base

\* The checkpoints of a step leave the messages alone.
LEMMA SavesCheckpoint ==
  ASSUME TypeInv, phase # "idle", NEW a \in Entry, NEW r \in Seq(Entry), NEW p \in Seq(Entry),
         SaveCheckpoint(a, r, p)
  PROVE  /\ Has(mem', mem.messages, [assistant |-> a, results |-> r, pending |-> p], mem.pendingUser)
         /\ disk' = mem'
<1> DEFINE c == [assistant |-> a, results |-> r, pending |-> p]
<1>1. c \in Checkpoint
  BY CheckpointMade
<1>2. mem \in Session
  BY DEF TypeInv, TypeOK, PhaseInv
<1> HIDE DEF c
<1>3. Has([mem EXCEPT !.checkpoint = c], mem.messages, c, mem.pendingUser)
  BY <1>1, <1>2, SessionUpdates, SessionFields
<1> QED BY <1>3 DEF SaveCheckpoint, Save, c

\* What is known of the checkpoint after Marks.
LEMMA MarksIs ==
  ASSUME TypeInv, phase # "idle", Marks
  PROVE  \/ UNCHANGED <<disk, mem>>
         \/ /\ disk' = mem' /\ mem' \in Session /\ mem' # None
            /\ mem'.messages = mem.messages /\ mem'.pendingUser = mem.pendingUser
            /\ \E a \in Entry, r \in {<<>>, <<Item("result", iteration)>>} :
                 /\ mem'.checkpoint = [assistant |-> a, results |-> r, pending |-> <<>>]
                 /\ \/ phase = "model" /\ a = Item("final", iteration) /\ r = <<>>
                    \/ phase = "tools" /\ a = Item("calls", iteration) /\ (r = <<>> => GuardsReports)
<1>0. turn > 0
  BY DEF TypeInv, PhaseInv
<1>1. /\ Item("final", iteration) \in Entry /\ Item("calls", iteration) \in Entry
      /\ Item("result", iteration) \in Entry
  BY <1>0, Items DEF Bodies
<1>2. <<>> \in Seq(Entry) /\ <<Item("result", iteration)>> \in Seq(Entry)
  BY <1>1
<1>3. CASE UNCHANGED <<disk, mem>>
  BY <1>3
<1>4. CASE phase = "model" /\ SaveCheckpoint(Item("final", iteration), <<>>, <<>>)
  BY <1>1, <1>2, <1>4, SavesCheckpoint DEF Has
<1>5. CASE phase = "tools" /\ SaveCheckpoint(Item("calls", iteration), <<Item("result", iteration)>>, <<>>)
  BY <1>1, <1>2, <1>5, SavesCheckpoint DEF Has
<1>6. CASE phase = "tools" /\ GuardsReports /\ SaveCheckpoint(Item("calls", iteration), <<>>, <<>>)
  BY <1>1, <1>2, <1>6, SavesCheckpoint DEF Has
<1> QED BY <1>3, <1>4, <1>5, <1>6 DEF Marks

\* RESTORE: what it makes of the session that the turn finds.
Found == IF mem = None THEN disk ELSE mem

LEMMA FoundIs ==
  ASSUME TypeInv
  PROVE  Found \in Session /\ Found # None /\ Found.checkpoint = disk.checkpoint
BY SessionFields DEF TypeInv, TypeOK, PhaseInv, Found

\* The three things RESTORE may do.
LEMMA BeginIs ==
  ASSUME TypeInv, NEW k \in Kinds, BeginTurn(k)
  PROVE  /\ mem' \in Session /\ mem' # None /\ mem'.checkpoint = None
         /\ mem'.checkpoint = disk'.checkpoint /\ disk' \in Session
         /\ mem'.pendingUser = FALSE
         /\ \/ /\ disk' = mem' /\ disk.checkpoint # None
               /\ \E j : /\ Known(Found.messages, Materialize(disk.checkpoint), j)
                         /\ SubSeq(Materialize(disk.checkpoint), j + 1, Len(Materialize(disk.checkpoint))) \in Seq(Entry)
                         /\ mem'.messages = Found.messages \o
                              SubSeq(Materialize(disk.checkpoint), j + 1, Len(Materialize(disk.checkpoint)))
            \/ /\ disk' = mem' /\ disk.checkpoint = None /\ Found.pendingUser
               /\ \/ mem'.messages = Found.messages /\ (mem'.messages = <<>> \/ Role(Last(mem'.messages)) # "user")
                  \/ /\ Found.messages # <<>> /\ Role(Last(Found.messages)) = "user"
                     /\ Last(Found.messages) \in Entry
                     /\ mem'.messages = Append(Found.messages, [Last(Found.messages) EXCEPT !.body = "notice"])
            \/ /\ disk.checkpoint = None /\ ~Found.pendingUser
               /\ mem' = Found /\ disk' = disk
<1>1. Found \in Session /\ Found # None /\ Found.checkpoint = disk.checkpoint /\ Found.pendingUser \in BOOLEAN
  BY FoundIs, SessionFields
<1>2. IF Found.checkpoint # None \/ Found.pendingUser
      THEN mem' = Restore(Found) /\ disk' = Restore(Found)
      ELSE mem' = Found /\ disk' = disk
  BY DEF BeginTurn, Save, Found
<1>3. disk \in Session
  BY DEF TypeInv, TypeOK
<1>4. CASE Found.checkpoint # None
  <2>1. mem' = RestoreCheckpoint(Found) /\ disk' = mem'
    BY <1>2, <1>4 DEF Restore
  <2>2. PICK j : /\ Known(Found.messages, Materialize(disk.checkpoint), j)
                 /\ SubSeq(Materialize(disk.checkpoint), j + 1, Len(Materialize(disk.checkpoint))) \in Seq(Entry)
                 /\ Has(RestoreCheckpoint(Found),
                        Found.messages \o SubSeq(Materialize(disk.checkpoint), j + 1, Len(Materialize(disk.checkpoint))),
                        None, FALSE)
    BY <1>1, <1>4, RestoreIs, Zenon
  <2> QED BY <1>1, <1>4, <2>1, <2>2, Zenon DEF Has
<1>5. CASE Found.checkpoint = None /\ Found.pendingUser
  <2>1. mem' = ClosePendingUser(Found) /\ disk' = mem'
    BY <1>2, <1>5 DEF Restore
  <2>2. PICK m \in Seq(Entry) :
           /\ Has(ClosePendingUser(Found), m, Found.checkpoint, FALSE)
           /\ \/ m = Found.messages /\ (m = <<>> \/ Role(Last(m)) # "user")
              \/ /\ Found.messages # <<>> /\ Role(Last(Found.messages)) = "user"
                 /\ Last(Found.messages) \in Entry
                 /\ m = Append(Found.messages, [Last(Found.messages) EXCEPT !.body = "notice"])
    BY <1>1, CloseIs
  <2> QED BY <1>1, <1>5, <2>1, <2>2 DEF Has
<1>6. CASE Found.checkpoint = None /\ ~Found.pendingUser
  BY <1>1, <1>2, <1>3, <1>6
<1> QED BY <1>1, <1>4, <1>5, <1>6

\* The user's message, or the prompt of a command, is saved at once.
LEMMA AskIs ==
  ASSUME TypeInv, PersistAsk
  PROVE  /\ Has(mem', Append(mem.messages, Item("ask", 0)), mem.checkpoint, TRUE)
         /\ disk' = mem' /\ mem \in Session
<1>1. mem \in Session /\ turn > 0
  BY DEF TypeInv, TypeOK, PhaseInv, PersistAsk
<1>2. Append(mem.messages, Item("ask", 0)) \in Seq(Entry)
  BY <1>1, SessionFields, Items DEF Bodies
<1> QED BY <1>1, <1>2, SessionUpdates, SessionFields DEF PersistAsk, Save

\* The reply of a command is saved before its flag is cleared.
LEMMA ReplyIs ==
  ASSUME TypeInv, CommandReply
  PROVE  /\ Has(disk', Append(mem.messages, Item("final", 0)), mem.checkpoint, mem.pendingUser)
         /\ Has(mem', Append(mem.messages, Item("final", 0)), mem.checkpoint, FALSE)
         /\ mem \in Session
<1> DEFINE m == Append(mem.messages, Item("final", 0))
           answered == [mem EXCEPT !.messages = m]
<1>1. mem \in Session /\ turn > 0
  BY DEF TypeInv, TypeOK, PhaseInv, CommandReply
<1>2. m \in Seq(Entry)
  BY <1>1, SessionFields, Items DEF Bodies
<1>3. answered = [mem EXCEPT !.messages = Append(@, Item("final", 0))]
  BY <1>1 DEF Session
<1> HIDE DEF m
<1>4. Has(answered, m, mem.checkpoint, mem.pendingUser)
  BY <1>1, <1>2, SessionUpdates, SessionFields
<1>5. disk' = answered /\ mem' = [answered EXCEPT !.pendingUser = FALSE]
  BY <1>3 DEF CommandReply
<1> HIDE DEF answered
<1>6. Has([answered EXCEPT !.pendingUser = FALSE], answered.messages, answered.checkpoint, FALSE)
  BY <1>4, SessionUpdates, SessionFields DEF Has
<1> QED BY <1>1, <1>4, <1>5, <1>6 DEF Has, m

\* The process is gone, before or in the middle of SAVE: the file is left.
Dies ==
  /\ mem' = None /\ phase' = "idle" /\ archived' \subseteq Entry
  /\ UNCHANGED <<disk, turn, kind, iteration, followups, work>>

LEMMA DeathIs ==
  ASSUME TypeInv, Crash \/ CrashInSave
  PROVE  Dies
<1>1. CASE Crash
  BY <1>1 DEF Crash, Dies, TypeInv, TypeOK
<1>2. CASE CrashInSave
  <2>1. archived' = archived \cup Dropped(Recorded.messages)
    BY <1>2 DEF CrashInSave, ArchiveDropped
  <2>2. Recorded.messages \in Seq(Entry)
    <3>1. mem \in Session /\ work \in Seq(Entry)
      BY <1>2 DEF TypeInv, TypeOK, PhaseInv, CrashInSave
    <3>2. mem.messages \o work \in Seq(Entry)
      BY <3>1, SessionFields, ConcatProperties
    <3> QED BY <3>1, <3>2 DEF Recorded, Session
  <2>3. Dropped(Recorded.messages) \subseteq Entry
    BY <2>2, CappedIs
  <2> QED BY <1>2, <2>1, <2>3 DEF CrashInSave, Dies, TypeInv, TypeOK
<1> QED BY <1>1, <1>2

\* SAVE keeps what the cap leaves and clears both flags.
LEMMA SaveIs ==
  ASSUME TypeInv, SaveTurn
  PROVE  /\ Has(mem', Capped(mem.messages \o work), None, FALSE)
         /\ disk' = mem' /\ mem \in Session /\ mem.messages \o work \in Seq(Entry)
         /\ archived' = archived \cup Dropped(mem.messages \o work) /\ archived' \subseteq Entry
         /\ ~LongTails => Fits(mem.messages \o work)
<1>1. mem \in Session /\ work \in Seq(Entry) /\ archived \subseteq Entry
  BY DEF TypeInv, TypeOK, PhaseInv, SaveTurn
<1> DEFINE m == mem.messages \o work
<1>2. m \in Seq(Entry)
  BY <1>1, SessionFields, ConcatProperties
<1>3. Recorded.messages = m
  BY <1>1 DEF Recorded, Session
<1> HIDE DEF m
<1>4. Capped(m) \in Seq(Entry) /\ Dropped(m) \subseteq Entry
  BY <1>2, CappedIs, CappedCovers
<1>5. Has([messages |-> Capped(m), checkpoint |-> None, pendingUser |-> FALSE], Capped(m), None, FALSE)
  <2> DEFINE q == Capped(m)
  <2> HIDE DEF q
  <2>1. q \in Seq(Entry)
    BY <1>4 DEF q
  <2>2. Has([messages |-> q, checkpoint |-> None, pendingUser |-> FALSE], q, None, FALSE)
    BY <1>1, <2>1, SessionUpdates
  <2> QED BY <2>2 DEF q
<1>6. /\ mem' = [messages |-> Capped(m), checkpoint |-> None, pendingUser |-> FALSE]
      /\ disk' = mem' /\ archived' = archived \cup Dropped(m) /\ (~LongTails => Fits(m))
  BY <1>3 DEF SaveTurn, Save, ArchiveDropped, Fits
<1> QED BY <1>1, <1>2, <1>4, <1>5, <1>6 DEF m

\* A cancelled turn with a checkpoint restores it.
LEMMA CancelIs ==
  ASSUME TypeInv, Cancel
  PROVE  /\ mem \in Session
         /\ \/ UNCHANGED <<disk, mem>> /\ disk.checkpoint = None
            \/ /\ disk' = mem' /\ disk.checkpoint # None
               /\ mem' \in Session /\ mem' # None /\ mem'.checkpoint = None /\ mem'.pendingUser = FALSE
               /\ \E j : /\ Known(mem.messages, Materialize(disk.checkpoint), j)
                         /\ SubSeq(Materialize(disk.checkpoint), j + 1, Len(Materialize(disk.checkpoint))) \in Seq(Entry)
                         /\ mem'.messages = mem.messages \o
                              SubSeq(Materialize(disk.checkpoint), j + 1, Len(Materialize(disk.checkpoint)))
<1>1. mem \in Session /\ mem.checkpoint = disk.checkpoint
  BY DEF TypeInv, TypeOK, PhaseInv, Cancel, Cancellable
<1>2. CASE mem.checkpoint # None
  <2>1. mem' = RestoreCheckpoint(mem) /\ disk' = mem'
    BY <1>2 DEF Cancel, Save
  <2>2. PICK j : /\ Known(mem.messages, Materialize(disk.checkpoint), j)
                 /\ SubSeq(Materialize(disk.checkpoint), j + 1, Len(Materialize(disk.checkpoint))) \in Seq(Entry)
                 /\ Has(RestoreCheckpoint(mem),
                        mem.messages \o SubSeq(Materialize(disk.checkpoint), j + 1, Len(Materialize(disk.checkpoint))),
                        None, FALSE)
    BY <1>1, <1>2, RestoreIs, Zenon
  <2> QED BY <1>1, <1>2, <2>1, <2>2, Zenon DEF Has
<1>3. CASE mem.checkpoint = None
  BY <1>1, <1>3 DEF Cancel
<1> QED BY <1>2, <1>3

\* The event store fails before the session is saved.
LEMMA StoreIs ==
  ASSUME TypeInv, FailInStore
  PROVE  /\ mem \in Session /\ disk' = disk /\ StoreMayFail
         /\ \/ phase = "restored" /\ Has(mem', Append(mem.messages, Item("ask", 0)), mem.checkpoint, mem.pendingUser)
            \/ phase = "ended" /\ Has(mem', mem.messages \o work, mem.checkpoint, mem.pendingUser)
<1>1. mem \in Session /\ turn > 0 /\ work \in Seq(Entry)
  BY DEF TypeInv, TypeOK, PhaseInv, FailInStore
<1>2. Append(mem.messages, Item("ask", 0)) \in Seq(Entry) /\ mem.messages \o work \in Seq(Entry)
  BY <1>1, SessionFields, Items, ConcatProperties DEF Bodies
<1>3. /\ [mem EXCEPT !.messages = Append(@, Item("ask", 0))] = [mem EXCEPT !.messages = Append(mem.messages, Item("ask", 0))]
      /\ Recorded = [mem EXCEPT !.messages = mem.messages \o work]
  BY <1>1 DEF Recorded, Session
<1>4. ASSUME NEW m \in Seq(Entry)
      PROVE  Has([mem EXCEPT !.messages = m], m, mem.checkpoint, mem.pendingUser)
  BY <1>1, SessionUpdates, SessionFields
<1>5. CASE phase = "restored" /\ mem' = [mem EXCEPT !.messages = Append(@, Item("ask", 0))]
  BY <1>1, <1>2, <1>3, <1>4, <1>5 DEF FailInStore
<1>6. CASE phase = "ended" /\ mem' = Recorded
  BY <1>1, <1>2, <1>3, <1>4, <1>6, Zenon DEF FailInStore
<1> QED BY <1>5, <1>6 DEF FailInStore

\* /new keeps the metadata.
LEMMA ClearIs ==
  ASSUME TypeInv, ClearSession
  PROVE  /\ Has(disk', <<>>, disk.checkpoint, Found.pendingUser)
         /\ mem' = None
<1>1. Found \in Session /\ Found.checkpoint = disk.checkpoint
  BY FoundIs
<1>2. disk' = [Found EXCEPT !.messages = <<>>] /\ mem' = None
  BY DEF ClearSession, Found
<1>3. <<>> \in Seq(Entry)
  OBVIOUS
<1> QED BY <1>1, <1>2, <1>3, SessionUpdates, SessionFields

\* The model asks for tools.
LEMMA CallsIs ==
  ASSUME TypeInv, ModelCalls
  PROVE  /\ Has(mem', mem.messages, [assistant |-> Item("calls", iteration), results |-> <<>>,
                                     pending |-> <<Item("calls", iteration)>>], mem.pendingUser)
         /\ disk' = mem' /\ work' = Append(work, Item("calls", iteration))
         /\ mem \in Session /\ work \in Seq(Entry) /\ Item("calls", iteration) \in Entry
         /\ phase' = "tools" /\ iteration < MaxIterations
         /\ UNCHANGED <<archived, turn, kind, iteration, followups>>
<1>1. phase # "idle" /\ turn > 0 /\ mem \in Session /\ work \in Seq(Entry)
  BY DEF TypeInv, TypeOK, PhaseInv, ModelCalls
<1>2. Item("calls", iteration) \in Entry
  BY <1>1, Items DEF Bodies
<1>3. <<>> \in Seq(Entry) /\ <<Item("calls", iteration)>> \in Seq(Entry)
  BY <1>2
<1> QED BY <1>1, <1>2, <1>3, SavesCheckpoint DEF ModelCalls, WithinBudget

\* The end of the budget.
LEMMA BudgetIs ==
  ASSUME TypeInv, BudgetSpent
  PROVE  \E n \in 0..MaxFollowUps :
           /\ followups + n <= MaxFollowUps /\ followups' = followups + n
           /\ InjectedAfter(work, n) \in Seq(Entry) /\ Item("final", iteration) \in Entry
           /\ work' \in {InjectedAfter(work, n), Append(InjectedAfter(work, n), Item("final", iteration))}
           /\ phase = "model" /\ phase' = "ended" /\ iteration = MaxIterations
           /\ UNCHANGED <<disk, archived, mem, turn, kind, iteration>>
<1>1. PICK n \in 0..MaxFollowUps, continues \in BOOLEAN :
       /\ CountFollowUps(n)
       /\ work' = InjectedAfter(work, n)
                    \o (IF continues THEN <<>> ELSE <<Item("final", iteration)>>)
  BY DEF BudgetSpent
<1>2. turn > 0 /\ work \in Seq(Entry) /\ followups + n <= MaxFollowUps
  BY <1>1 DEF TypeInv, TypeOK, PhaseInv, BudgetSpent, CountFollowUps
<1>3. InjectedAfter(work, n) \in Seq(Entry) /\ Item("final", iteration) \in Entry
  BY <1>2, InjectedIs, Items DEF Bodies
<1>4. ASSUME NEW p \in Seq(Entry), NEW x \in Entry
      PROVE  p \o <<>> = p /\ p \o <<x>> = Append(p, x)
  OBVIOUS
<1>5. work' \in {InjectedAfter(work, n), Append(InjectedAfter(work, n), Item("final", iteration))}
  BY <1>1, <1>3, <1>4, Zenon
<1> QED BY <1>1, <1>2, <1>3, <1>5 DEF BudgetSpent, CountFollowUps

\* The types, from what each action does.
LEMMA TypeBegin == ASSUME TypeInv, NEW k \in Kinds, BeginTurn(k) PROVE TypeInv'
<1>1. /\ mem' \in Session /\ mem' # None /\ disk' \in Session /\ mem'.checkpoint = disk'.checkpoint
  BY BeginIs
<1>2. /\ turn' \in 0..MaxTurns /\ turn' > 0 /\ kind' = k /\ phase' = "restored"
      /\ iteration' = 0 /\ followups' = 0 /\ work' = <<>> /\ archived' \subseteq Entry
  BY HistoryAssumption DEF BeginTurn, TypeInv, TypeOK
<1>3. MaxIterations \in Nat /\ MaxFollowUps \in Nat
  BY HistoryAssumption
<1> QED BY <1>1, <1>2, <1>3 DEF TypeInv, TypeOK, PhaseInv, Phases

\* A step that leaves the runner alone keeps the types if the sessions do.
LEMMA TypeSessions ==
  ASSUME TypeInv, disk' \in Session, mem' \in Session \cup {None}, phase' \in Phases \ {"tools"},
         mem' = None => phase' = "idle", phase' # "idle" => phase # "idle",
         mem' # None => mem'.checkpoint = disk'.checkpoint,
         UNCHANGED <<turn, kind, iteration, followups, work>>, archived' \subseteq Entry
  PROVE  TypeInv'
BY DEF TypeInv, TypeOK, PhaseInv

LEMMA TypeTurn ==
  ASSUME TypeInv, PersistAsk \/ BuildContinuation \/ CommandReply \/ Cancel \/ Fail \/ FailInStore
                  \/ Dies \/ ClearSession \/ SaveTurn
  PROVE  TypeInv'
<1>0. /\ disk \in Session /\ mem \in Session \cup {None} /\ phase \in Phases
      /\ phase # "idle" => mem # None
      /\ mem # None => mem.checkpoint = disk.checkpoint
      /\ archived \subseteq Entry
  BY DEF TypeInv, TypeOK, PhaseInv
<1>1. CASE PersistAsk
  <2>1. phase' \in {"model", "asked"} /\ UNCHANGED <<archived, turn, kind, iteration, followups, work>> /\ phase # "idle"
    BY <1>1 DEF PersistAsk
  <2> QED BY <1>0, <1>1, <2>1, AskIs, TypeSessions DEF Has, Phases
<1>2. CASE BuildContinuation
  BY <1>0, <1>2, TypeSessions DEF BuildContinuation, Phases
<1>3. CASE CommandReply
  <2>1. phase' = "idle" /\ UNCHANGED <<archived, turn, kind, iteration, followups, work>>
    BY <1>3 DEF CommandReply
  <2> QED BY <1>0, <1>3, <2>1, ReplyIs, TypeSessions DEF Has, Phases
<1>4. CASE Cancel
  <2>1. phase' = "idle" /\ UNCHANGED <<archived, turn, kind, iteration, followups, work>>
    BY <1>4 DEF Cancel
  <2> QED BY <1>0, <1>4, <2>1, CancelIs, TypeSessions DEF Phases
<1>5. CASE Fail
  BY <1>0, <1>5, TypeSessions DEF Fail, Phases
<1>6. CASE FailInStore
  <2>1. phase' = "idle" /\ UNCHANGED <<archived, turn, kind, iteration, followups, work>> /\ phase # "idle"
    BY <1>6 DEF FailInStore
  <2> QED BY <1>0, <1>6, <2>1, StoreIs, TypeSessions DEF Phases, Has
<1>7. CASE Dies
  BY <1>0, <1>7, TypeSessions DEF Dies, Phases
<1>8. CASE ClearSession
  <2>1. phase' = "idle" /\ UNCHANGED <<archived, turn, kind, iteration, followups, work>>
    BY <1>8 DEF ClearSession
  <2> QED BY <1>0, <1>8, <2>1, ClearIs, TypeSessions DEF Phases, Has
<1>9. CASE SaveTurn
  <2>1. phase' = "idle" /\ UNCHANGED <<turn, kind, iteration, followups, work>>
    BY <1>9 DEF SaveTurn
  <2> QED BY <1>9, <2>1, SaveIs, TypeSessions DEF Phases, Has
<1> QED BY <1>1, <1>2, <1>3, <1>4, <1>5, <1>6, <1>7, <1>8, <1>9

\* The same for the runner's steps, which leave a session in the cache.
LEMMA TypeWork ==
  ASSUME TypeInv, UNCHANGED <<disk, mem>> \/ (disk' = mem' /\ mem' \in Session /\ mem' # None),
         phase \in {"model", "tools"}, phase' \in {"model", "tools", "ended"},
         work' \in Seq(Entry), iteration' \in 0..MaxIterations, followups' \in 0..MaxFollowUps,
         phase' = "tools" => iteration' < MaxIterations, UNCHANGED <<archived, turn, kind>>
  PROVE  TypeInv'
BY DEF TypeInv, TypeOK, PhaseInv, Phases

LEMMA TypeRunner ==
  ASSUME TypeInv, ModelCalls \/ BudgetSpent \/ Grow \/ Keep
  PROVE  TypeInv'
<1>0. /\ MaxFollowUps \in Nat /\ MaxIterations \in Nat /\ iteration \in 0..MaxIterations
      /\ followups \in 0..MaxFollowUps /\ work \in Seq(Entry)
      /\ phase # "idle" => turn > 0
  BY HistoryAssumption DEF TypeInv, TypeOK, PhaseInv
<1>1. CASE ModelCalls
  <2>1. Append(work, Item("calls", iteration)) \in Seq(Entry)
    BY <1>1, CallsIs, AppendProperties
  <2>2. phase \in {"model", "tools"}
    BY <1>1 DEF ModelCalls
  <2> QED BY <1>0, <1>1, <2>1, <2>2, CallsIs, TypeWork DEF Has
<1>2. CASE BudgetSpent
  <2>1. work' \in Seq(Entry)
    BY <1>2, BudgetIs, AppendProperties
  <2> QED BY <1>0, <1>2, <2>1, BudgetIs, TypeWork
<1>3. CASE Grow
  <2>1. PICK b, n : n \in 0..MaxFollowUps /\ Grows(b, n)
    BY <1>3 DEF Grow
  <2>2. phase \in {"model", "tools"} /\ phase # "idle" /\ turn > 0
    BY <1>0, <2>1 DEF Grows, Base
  <2>3. b \in Seq(Entry) /\ InjectedAfter(b, n) \in Seq(Entry)
    BY <2>1, <2>2, BaseType, InjectedIs DEF Grows
  <2>4. UNCHANGED <<disk, mem>> \/ (disk' = mem' /\ mem' \in Session /\ mem' # None)
    BY <2>1, <2>2, MarksIs DEF Grows
  <2> QED BY <1>0, <2>1, <2>2, <2>3, <2>4, TypeWork DEF Grows
<1>4. CASE Keep
  <2>1. PICK n \in 0..MaxFollowUps : Keeps(n)
    BY <1>4 DEF Keep
  <2>2. InjectedAfter(work, n) \in Seq(Entry) /\ phase \in {"model", "tools"}
    BY <1>0, <2>1, InjectedIs DEF Keeps
  <2> QED BY <1>0, <2>1, <2>2, TypeWork DEF Keeps
<1> QED BY <1>1, <1>2, <1>3, <1>4

\* A step of a turn, read off the lemmas above.
TurnStep ==
  \/ PersistAsk \/ BuildContinuation \/ CommandReply \/ Cancel \/ Fail \/ FailInStore
  \/ Dies \/ ClearSession \/ SaveTurn

Step ==
  \/ \E k \in Kinds : BeginTurn(k)
  \/ TurnStep
  \/ ModelCalls \/ BudgetSpent \/ Grow \/ Keep
  \/ UNCHANGED vars

LEMMA StepIs == TypeInv /\ [Next]_vars => Step
BY RunnerIs, DeathIs DEF Next, Step, TurnStep, RunnerGoesOn

LEMMA TypeInit == Init => TypeInv
<1> SUFFICES ASSUME Init PROVE TypeInv
  OBVIOUS
<1>1. EmptySession \in Session
  BY DEF EmptySession, Session
<1> QED BY <1>1, HistoryAssumption DEF Init, TypeInv, TypeOK, PhaseInv, Kinds, Phases

LEMMA TypeStep == TypeInv /\ [Next]_vars => TypeInv'
<1> SUFFICES ASSUME TypeInv, Step PROVE TypeInv'
  BY StepIs
<1>1. CASE UNCHANGED vars
  BY <1>1 DEF vars, TypeInv, TypeOK, PhaseInv
<1> QED BY <1>1, TypeBegin, TypeTurn, TypeRunner DEF Step, TurnStep

LEMMA TypeInvariant == Spec => []TypeInv
BY TypeInit, TypeStep, PTL DEF Spec

\* Every reachable state is well-formed: the runner never passes its budget
\* of iterations and follow-ups, and a turn in progress has its session.
THEOREM HistoryTypes == Spec => []TypeOK
<1> QED BY TypeInvariant, PTL DEF TypeInv
-----------------------------------------------------------------------------
(* What the cached session has more than the file *)

\* Without failures of the event store nothing.
SameInv == ~StoreMayFail /\ mem # None => mem.messages = disk.messages

LEMMA SameStep == TypeInv /\ SameInv /\ [Next]_vars => SameInv'
<1> SUFFICES ASSUME TypeInv, SameInv, Step, ~StoreMayFail, mem' # None PROVE mem'.messages = disk'.messages
  BY StepIs DEF SameInv
<1>1. ASSUME NEW k \in Kinds, BeginTurn(k) PROVE mem'.messages = disk'.messages
  BY <1>1, BeginIs DEF SameInv, Found
<1>2. CASE TurnStep
  <2>1. CASE PersistAsk \/ SaveTurn \/ CommandReply \/ ClearSession \/ FailInStore
    BY <2>1, AskIs, SaveIs, ReplyIs, ClearIs, StoreIs DEF Has
  <2>2. CASE Cancel
    BY <2>2, CancelIs DEF SameInv, TypeInv, PhaseInv, Cancel, Cancellable
  <2>3. CASE BuildContinuation \/ Fail \/ Dies
    BY <2>3 DEF BuildContinuation, Fail, Dies, SameInv
  <2> QED BY <1>2, <2>1, <2>2, <2>3 DEF TurnStep
<1>3. CASE ModelCalls \/ BudgetSpent
  BY <1>3, CallsIs, BudgetIs DEF Has, SameInv
<1>4. CASE Grow
  <2>1. Marks /\ phase # "idle"
    BY <1>4 DEF Grow, Grows, Base
  <2> QED BY <2>1, MarksIs DEF SameInv
<1>5. CASE Keep \/ UNCHANGED vars
  BY <1>5 DEF Keep, Keeps, SameInv, vars
<1> QED BY <1>1, <1>2, <1>3, <1>4, <1>5 DEF Step

\* Between turns the file holds what the cached session holds: with an event
\* store that does not fail, whatever cancels, fails or restarts a turn, no
\* message and no checkpoint is in memory alone.
THEOREM SavedBetweenTurns ==
  ASSUME ~StoreMayFail
  PROVE  Spec => []NothingOnlyInMemory
<1>1. Init => SameInv
  BY DEF Init, SameInv
<1>2. Spec => []SameInv
  BY <1>1, TypeInvariant, SameStep, PTL DEF Spec
<1>3. TypeInv /\ SameInv => NothingOnlyInMemory
  BY DEF TypeInv, PhaseInv, SameInv, NothingOnlyInMemory
<1> QED BY <1>2, <1>3, TypeInvariant, PTL
-----------------------------------------------------------------------------
(* What the file keeps of the history *)

\* What it is to be a prefix.
LEMMA PrefixIs ==
  ASSUME NEW p \in Seq(Entry), NEW q \in Seq(Entry)
  PROVE  IsPrefix(p, q) <=> Len(p) <= Len(q) /\ \A i \in 1..Len(p) : p[i] = q[i]
<1>1. Len(p) \in Nat /\ Len(q) \in Nat
  BY LenProperties
<1>2. SubSeq(p, 1, Len(p)) = p
  BY <1>1
<1>3. CASE Len(p) <= Len(q)
  <2>1. /\ SubSeq(q, 1, Len(p)) \in Seq(Entry) /\ Len(SubSeq(q, 1, Len(p))) = Len(p)
        /\ \A i \in 1..Len(p) : SubSeq(q, 1, Len(p))[i] = q[i]
    BY <1>1, <1>3
  <2>2. (SubSeq(q, 1, Len(p)) = p) <=> \A i \in 1..Len(p) : p[i] = q[i]
    <3> DEFINE r == SubSeq(q, 1, Len(p))
    <3> HIDE DEF r
    <3>1. r \in Seq(Entry) /\ Len(r) = Len(p) /\ \A i \in 1..Len(p) : r[i] = q[i]
      BY <2>1 DEF r
    <3>2. (\A i \in 1..Len(p) : p[i] = q[i]) => r = p
      BY <1>1, <3>1, SeqEqual
    <3>3. r = p => \A i \in 1..Len(p) : p[i] = q[i]
      BY <3>1
    <3> QED BY <3>2, <3>3 DEF r
  <2> QED BY <1>2, <1>3, <2>2 DEF IsPrefix
<1>4. CASE ~ (Len(p) <= Len(q))
  BY <1>4 DEF IsPrefix
<1> QED BY <1>3, <1>4

\* A prefix stays one when the longer sequence grows.
LEMMA PrefixGrows ==
  ASSUME NEW p \in Seq(Entry), NEW q \in Seq(Entry), IsPrefix(p, q)
  PROVE  /\ \A r \in Seq(Entry) : IsPrefix(p, q \o r)
         /\ \A x \in Entry : IsPrefix(p, Append(q, x))
<1>1. Len(p) \in Nat /\ Len(q) \in Nat
  BY LenProperties
<1>2. Len(p) <= Len(q) /\ \A i \in 1..Len(p) : p[i] = q[i]
  BY PrefixIs
<1>5. ASSUME NEW t \in Seq(Entry), Len(q) <= Len(t), \A i \in 1..Len(q) : t[i] = q[i]
      PROVE  IsPrefix(p, t)
  <2>1. Len(t) \in Nat
    BY LenProperties
  <2> QED BY <1>1, <1>2, <1>5, <2>1, PrefixIs
<1>6. ASSUME NEW r \in Seq(Entry) PROVE IsPrefix(p, q \o r)
  <2> DEFINE t == q \o r
  <2>0. Len(r) \in Nat
    BY LenProperties
  <2>1. t \in Seq(Entry) /\ Len(q) <= Len(t) /\ \A i \in 1..Len(q) : t[i] = q[i]
    BY <1>1, <2>0
  <2> HIDE DEF t
  <2>2. IsPrefix(p, t)
    BY <1>5, <2>1
  <2> QED BY <2>2 DEF t
<1>7. ASSUME NEW x \in Entry PROVE IsPrefix(p, Append(q, x))
  <2> DEFINE t == Append(q, x)
  <2>1. t \in Seq(Entry) /\ Len(q) <= Len(t) /\ \A i \in 1..Len(q) : t[i] = q[i]
    BY <1>1
  <2> HIDE DEF t
  <2>2. IsPrefix(p, t)
    BY <1>5, <2>1
  <2> QED BY <2>2 DEF t
<1> QED BY <1>6, <1>7

LEMMA PrefixOfItself ==
  ASSUME NEW p \in Seq(Entry)
  PROVE  IsPrefix(p, p)
BY PrefixIs, LenProperties

\* What the cached session has more than the file comes after it.
AheadInv == mem # None => IsPrefix(disk.messages, mem.messages)

\* The history that RESTORE finds is at least that of the file.
LEMMA FoundAhead ==
  ASSUME TypeInv, AheadInv
  PROVE  /\ disk.messages \in Seq(Entry) /\ Found.messages \in Seq(Entry)
         /\ IsPrefix(disk.messages, Found.messages)
BY SessionFields, FoundIs, PrefixOfItself DEF AheadInv, Found, TypeInv, TypeOK

\* Cutting a longer history leaves the rest of the shorter one together, and
\* archives what it takes out of it.
LEMMA RetainedIs ==
  ASSUME NEW p \in Seq(Entry), NEW m \in Seq(Entry), NEW q, NEW i, NEW j,
         IsPrefix(p, m), Slice(m, q, i, j)
  PROVE  \E from \in 1..Len(p) + 1, to \in 0..Len(p) :
           /\ IsPrefix(SubSeq(p, from, to), q)
           /\ \A k \in 1..Len(p) : k \in from..to \/ (k \in 1..Len(m) \ i..j /\ p[k] = m[k])
<1>1. /\ Len(p) \in Nat /\ Len(m) \in Nat /\ Len(p) <= Len(m)
      /\ \A k \in 1..Len(p) : p[k] = m[k] /\ p[k] \in Entry
      /\ i \in 1..Len(m) + 1 /\ j \in 0..Len(m) /\ i <= j + 1
      /\ q \in Seq(Entry) /\ Len(q) = j - i + 1
      /\ \A n \in 1..Len(q) : q[n] = m[n + i - 1]
  BY PrefixIs, LenProperties, ElementOfSeq DEF Slice
<1> DEFINE from == IF i <= Len(p) THEN i ELSE Len(p) + 1
           to   == IF j <= Len(p) THEN j ELSE Len(p)
           r    == SubSeq(p, from, to)
<1>2. /\ from \in 1..Len(p) + 1 /\ to \in 0..Len(p) /\ from <= to + 1
      /\ from <= to => from = i /\ to <= j
  BY <1>1
<1>3. \A k \in 1..Len(p) : k \in from..to \/ (k \in 1..Len(m) \ i..j /\ p[k] = m[k])
  BY <1>1
<1> HIDE DEF from, to
<1>4. /\ r \in Seq(Entry) /\ Len(r) = IF from <= to THEN to - from + 1 ELSE 0
      /\ \A n \in 1..(to - from + 1) : r[n] = p[from + n - 1]
  <2>1. from \in Int /\ to \in Int /\ \A k \in from..to : p[k] \in Entry
    BY <1>1, <1>2
  <2> QED BY <2>1, SubSeqProperties
<1> HIDE DEF r
<1>5. ASSUME NEW n \in 1..Len(r) PROVE r[n] = q[n] /\ n <= Len(q)
  <2>1. /\ from <= to /\ n \in 1..(to - from + 1) /\ from + n - 1 = n + i - 1
        /\ n + i - 1 \in 1..Len(p) /\ n \in 1..Len(q)
    BY <1>1, <1>2, <1>4
  <2>2. r[n] = p[n + i - 1]
    BY <1>4, <2>1
  <2>3. q[n] = m[n + i - 1]
    BY <1>1, <2>1
  <2> QED BY <1>1, <2>1, <2>2, <2>3
<1>6. Len(r) <= Len(q)
  BY <1>1, <1>2, <1>4
<1>7. IsPrefix(r, q)
  BY <1>1, <1>4, <1>5, <1>6, PrefixIs
<1> QED BY <1>2, <1>3, <1>7 DEF r

\* A step after which the messages of the file are in it still, or archived.
Remembers ==
  \/ IsPrefix(disk.messages, disk'.messages)
  \/ ClearSession
  \/ \E from \in 1..Len(disk.messages) + 1, to \in 0..Len(disk.messages) : Retains(from, to)

LEMMA SaveForgetsNothing ==
  ASSUME TypeInv, AheadInv, SaveTurn
  PROVE  Remembers
<1> DEFINE p == disk.messages
           m == mem.messages \o work
           q == Capped(m)
<1>1. mem \in Session /\ mem # None /\ m \in Seq(Entry) /\ disk'.messages = q /\ archived' = archived \cup Dropped(m)
  BY SaveIs, SessionFields DEF Has
<1>2. p \in Seq(Entry) /\ IsPrefix(p, m) /\ DOMAIN p = 1..Len(p)
  <2>1. p \in Seq(Entry) /\ work \in Seq(Entry)
    BY SessionFields DEF TypeInv, TypeOK
  <2>2. mem.messages \in Seq(Entry) /\ IsPrefix(p, mem.messages)
    BY <1>1, SessionFields DEF AheadInv
  <2> QED BY <2>1, <2>2, PrefixGrows, LenProperties
<1> HIDE DEF m
<1>3. PICK i, j : Slice(m, q, i, j) /\ Dropped(m) = {m[k] : k \in 1..Len(m) \ i..j}
  BY <1>1, CappedIs
<1> HIDE DEF p, q
<1>4. PICK from \in 1..Len(p) + 1, to \in 0..Len(p) :
           /\ IsPrefix(SubSeq(p, from, to), q)
           /\ \A k \in 1..Len(p) : k \in from..to \/ (k \in 1..Len(m) \ i..j /\ p[k] = m[k])
  BY <1>1, <1>2, <1>3, RetainedIs
<1>5. \A k \in 1..Len(p) : k \in from..to \/ p[k] \in archived'
  BY <1>1, <1>3, <1>4
<1>6. Retains(from, to)
  BY <1>1, <1>2, <1>4, <1>5 DEF Retains, p
<1> QED BY <1>6 DEF Remembers, p

\* The history of the file is kept, and the cached session stays ahead.
LEMMA AheadStep ==
  TypeInv /\ AheadInv /\ [Next]_vars =>
    AheadInv' /\ Remembers
<1> SUFFICES ASSUME TypeInv, AheadInv, Step
             PROVE  AheadInv' /\ Remembers
  BY StepIs
<1>a. IsPrefix(disk.messages, disk'.messages) \/ ClearSession => Remembers
  BY DEF Remembers
<1>0. /\ disk.messages \in Seq(Entry) /\ Found.messages \in Seq(Entry)
      /\ IsPrefix(disk.messages, Found.messages)
      /\ work \in Seq(Entry)
      /\ mem \in Session => /\ mem.messages \in Seq(Entry) /\ IsPrefix(disk.messages, mem.messages)
  BY FoundAhead, SessionFields DEF TypeInv, TypeOK, AheadInv
<1>1. disk' = disk => IsPrefix(disk.messages, disk'.messages)
  BY <1>0, PrefixOfItself
<1>2. ASSUME disk'.messages = mem'.messages, mem'.messages \in Seq(Entry) PROVE AheadInv'
  BY <1>2, PrefixOfItself DEF AheadInv
<1>3. ASSUME NEW k \in Kinds, BeginTurn(k)
      PROVE  AheadInv' /\ IsPrefix(disk.messages, disk'.messages)
  <2>0. mem' \in Session /\ mem'.messages \in Seq(Entry) /\ mem' # None
    BY <1>3, BeginIs, SessionFields
  <2>1. CASE mem' = Found /\ disk' = disk
    BY <1>0, <1>1, <2>1 DEF AheadInv
  <2>2. CASE disk' = mem' /\ \E r \in Seq(Entry) : mem'.messages = Found.messages \o r
    <3>1. PICK r \in Seq(Entry) : mem'.messages = Found.messages \o r
      BY <2>2
    <3>2. IsPrefix(disk.messages, Found.messages \o r)
      BY <1>0, <3>1, PrefixGrows
    <3> QED BY <1>2, <2>0, <2>2, <3>1, <3>2
  <2>3. CASE disk' = mem' /\ \E x \in Entry : mem'.messages = Append(Found.messages, x)
    <3>1. PICK x \in Entry : mem'.messages = Append(Found.messages, x)
      BY <2>3
    <3>2. IsPrefix(disk.messages, Append(Found.messages, x))
      BY <1>0, <3>1, PrefixGrows
    <3> QED BY <1>2, <2>0, <2>3, <3>1, <3>2
  <2>4. CASE disk' = mem' /\ mem'.messages = Found.messages
    BY <1>0, <1>2, <2>0, <2>4
  <2>5. \A x \in Entry : [x EXCEPT !.body = "notice"] \in Entry
    BY EntryUpdate DEF Bodies
  <2> QED BY <1>3, <2>1, <2>2, <2>3, <2>4, <2>5, BeginIs
<1>4. CASE TurnStep
  <2>0. <<>> \in Seq(Entry) /\ (turn > 0 => Item("ask", 0) \in Entry /\ Item("final", 0) \in Entry)
    BY Items DEF Bodies
  <2>1. CASE PersistAsk
    <3>1. turn > 0
      BY <2>1 DEF PersistAsk, TypeInv, PhaseInv
    <3> QED BY <1>a, <1>0, <1>2, <2>0, <2>1, <3>1, AskIs, PrefixGrows, SessionFields DEF Has
  <2>2. CASE CommandReply
    <3>1. turn > 0
      BY <2>2 DEF CommandReply, TypeInv, PhaseInv
    <3> QED BY <1>a, <1>0, <1>2, <2>0, <2>2, <3>1, ReplyIs, PrefixGrows, SessionFields DEF Has
  <2>3. CASE SaveTurn
    BY <1>2, <2>3, SaveIs, SaveForgetsNothing, SessionFields DEF Has
  <2>4. CASE FailInStore
    <3>1. turn > 0
      BY <2>4 DEF FailInStore, TypeInv, PhaseInv
    <3>2. /\ mem \in Session /\ disk' = disk
          /\ \/ mem'.messages = Append(mem.messages, Item("ask", 0))
             \/ mem'.messages = mem.messages \o work
      BY <2>4, StoreIs DEF Has
    <3>3. IsPrefix(disk.messages, mem'.messages)
      BY <1>0, <2>0, <3>1, <3>2, PrefixGrows
    <3> QED BY <1>a, <1>1, <3>2, <3>3 DEF AheadInv
  <2>5. CASE Cancel
    <3>1. turn > 0 /\ mem # None
      BY <2>5 DEF Cancel, Cancellable, TypeInv, PhaseInv
    <3>2. CASE UNCHANGED <<disk, mem>>
      BY <1>a, <1>1, <3>2 DEF AheadInv
    <3>3. CASE disk' = mem' /\ \E r \in Seq(Entry) : mem'.messages = mem.messages \o r
      <4>1. PICK r \in Seq(Entry) : mem'.messages = mem.messages \o r
        BY <3>3
      <4>2. mem \in Session /\ mem.messages \in Seq(Entry) /\ IsPrefix(disk.messages, mem.messages)
        BY <1>0, <2>5, CancelIs
      <4>3. mem'.messages \in Seq(Entry) /\ IsPrefix(disk.messages, mem'.messages)
        BY <1>0, <4>1, <4>2, PrefixGrows, ConcatProperties
      <4> QED BY <1>a, <1>2, <3>3, <4>3
    <3> QED BY <2>5, <3>2, <3>3, CancelIs
  <2>6. CASE ClearSession
    BY <1>a, <2>6, ClearIs DEF AheadInv
  <2>7. CASE BuildContinuation \/ Fail \/ Dies
    BY <1>a, <1>1, <2>7 DEF BuildContinuation, Fail, Dies, AheadInv
  <2> QED BY <1>4, <2>1, <2>2, <2>3, <2>4, <2>5, <2>6, <2>7 DEF TurnStep
<1>5. CASE ModelCalls
  BY <1>a, <1>0, <1>2, <1>5, CallsIs DEF Has
<1>6. CASE Grow
  <2>1. Marks /\ phase # "idle"
    BY <1>6 DEF Grow, Grows, Base
  <2>2. mem \in Session
    BY <2>1 DEF TypeInv, TypeOK, PhaseInv
  <2> QED BY <1>a, <1>0, <1>1, <1>2, <2>1, <2>2, MarksIs DEF AheadInv
<1>7. CASE BudgetSpent \/ Keep \/ UNCHANGED vars
  BY <1>a, <1>1, <1>7 DEF BudgetSpent, Keep, Keeps, vars, AheadInv
<1> QED BY <1>a, <1>3, <1>4, <1>5, <1>6, <1>7 DEF Step

\* Nothing but /new and the file cap takes a message out of the history on
\* disk: neither a restored checkpoint, nor a cancelled or failed turn, nor a
\* write of a session that the cache kept, even if the event store fails.  What
\* the cap takes out has been archived, and the rest stays in its order.
THEOREM HistoryKept == Spec => NothingForgotten
<1>1. Init => AheadInv
  BY DEF Init, AheadInv
<1>2. Spec => []AheadInv
  BY <1>1, TypeInvariant, AheadStep, PTL DEF Spec
<1>3. TypeInv /\ AheadInv /\ [Next]_vars =>
        [\/ IsPrefix(disk.messages, disk'.messages)
         \/ ClearSession
         \/ \E from \in 1..Len(disk.messages) + 1, to \in 0..Len(disk.messages) : Retains(from, to)]_vars
  BY AheadStep DEF Remembers
<1> QED BY <1>2, <1>3, TypeInvariant, PTL DEF Spec, NothingForgotten
-----------------------------------------------------------------------------
(* Checkpoints *)

\* The checkpoints that the runner saves: calls without, or with, their
\* results, a final response, and the one of a guarded report.
Shape(c) ==
  LET e == c.assistant IN
  \/ e.body = "calls" /\ c.results = <<>> /\ c.pending = <<e>>
  \/ e.body = "calls" /\ c.results = <<[e EXCEPT !.body = "result"]>> /\ c.pending = <<>>
  \/ e.body = "final" /\ c.results = <<>> /\ c.pending = <<>>
  \/ GuardsReports /\ e.body = "calls" /\ c.results = <<>> /\ c.pending = <<>>

\* The checkpoint while the tools run.
Pending(c) == /\ c.assistant = Item("calls", iteration)
              /\ c.results = <<>> /\ c.pending = <<Item("calls", iteration)>>

\* A turn starts without a checkpoint and then saves only its own.
CheckpointInv ==
  /\ disk.checkpoint # None => Shape(disk.checkpoint)
  /\ phase # "idle" /\ disk.checkpoint # None => disk.checkpoint.assistant.turn = turn
  /\ phase \in {"restored", "asked"} => disk.checkpoint = None
  /\ phase = "tools" => /\ disk.checkpoint # None /\ Pending(disk.checkpoint)
                        /\ work # <<>> /\ Last(work) = Item("calls", iteration)

\* Short sequences.
LEMMA PairIs ==
  ASSUME NEW p \in Seq(Entry), NEW q \in Seq(Entry), NEW x \in Entry, NEW y \in Entry,
         Len(p) = 2, Len(q) = 2, q[1] = x, q[2] = y, p[1] = x, p[2] = y
  PROVE  p = q
<1>1. \A i \in 1..Len(p) : p[i] = q[i]
  OBVIOUS
<1> QED BY <1>1, SeqEqual

LEMMA ShortConcat ==
  ASSUME NEW e \in Entry, NEW x \in Entry
  PROVE  /\ <<>> \in Seq(Entry) /\ <<e>> \in Seq(Entry) /\ <<e, x>> \in Seq(Entry)
         /\ <<e>> \o <<>> = <<e>> /\ <<e>> \o <<x>> = <<e, x>> /\ <<e, x>> \o <<>> = <<e, x>>
<1>1. /\ <<>> \in Seq(Entry) /\ <<e>> \in Seq(Entry) /\ <<e, x>> \in Seq(Entry)
      /\ Append(<<e>>, x) \in Seq(Entry)
      /\ Len(Append(<<e>>, x)) = 2 /\ Len(<<e, x>>) = 2
  OBVIOUS
<1>2. <<e, x>>[1] = e /\ <<e, x>>[2] = x
  OBVIOUS
<1>3. Append(<<e>>, x)[1] = e
  OBVIOUS
<1>4. Append(<<e>>, x)[2] = x
  OBVIOUS
<1>5. Append(<<e>>, x) = <<e, x>>
  BY <1>1, <1>2, <1>3, <1>4, PairIs, Zenon
<1>6. \A q \in Seq(Entry) : q \o <<x>> = Append(q, x) /\ q \o <<>> = q
  OBVIOUS
<1> QED BY <1>1, <1>5, <1>6, Zenon

\* What such a checkpoint stands for.
LEMMA ShapeIs ==
  ASSUME NEW c \in Checkpoint, Shape(c)
  PROVE  /\ c.assistant \in Entry
         /\ \/ /\ Materialize(c) = <<c.assistant>>
               /\ c.assistant.body = "final" \/ (GuardsReports /\ c.assistant.body = "calls")
            \/ /\ c.assistant.body = "calls"
               /\ \E y \in {"result", "interrupted"} :
                    /\ Materialize(c) = <<c.assistant, [c.assistant EXCEPT !.body = y]>>
                    /\ y = "interrupted" => c.pending = <<c.assistant>>
<1> DEFINE e == c.assistant
           f == [i \in 1..Len(c.pending) |-> [c.pending[i] EXCEPT !.body = "interrupted"]]
<1>1. e \in Entry
  BY CheckpointFields
<1>2. Materialize(c) = (<<e>> \o c.results) \o f
  BY DEF Materialize
<1>3. ASSUME NEW x \in Entry PROVE (<<e>> \o <<x>>) \o <<>> = <<e, x>>
  BY <1>1, ShortConcat, Zenon
<1>4. ASSUME NEW x \in Entry PROVE (<<e>> \o <<>>) \o <<x>> = <<e, x>>
  BY <1>1, ShortConcat, Zenon
<1>5. (<<e>> \o <<>>) \o <<>> = <<e>>
  BY <1>1
<1>6. /\ [e EXCEPT !.body = "result"] \in Entry
      /\ [e EXCEPT !.body = "interrupted"] \in Entry
  BY <1>1, EntryUpdate DEF Bodies
<1>7. c.pending = <<>> => f = <<>>
  OBVIOUS
<1>8. c.pending = <<e>> => f = <<[e EXCEPT !.body = "interrupted"]>>
  <2>1. SUFFICES ASSUME c.pending = <<e>> PROVE f = <<[e EXCEPT !.body = "interrupted"]>>
    OBVIOUS
  <2>2. Len(c.pending) = 1 /\ c.pending[1] = e
    BY <2>1
  <2>3. f = [i \in 1..1 |-> [e EXCEPT !.body = "interrupted"]]
    BY <2>1, <2>2
  <2> DEFINE x == [e EXCEPT !.body = "interrupted"]
  <2> HIDE DEF x
  <2>4. [i \in 1..1 |-> x] = <<x>>
    OBVIOUS
  <2> QED BY <2>3, <2>4 DEF x
<1> HIDE DEF f
<1>9. CASE e.body = "calls" /\ c.results = <<>> /\ c.pending = <<e>>
  <2>1. Materialize(c) = <<e, [e EXCEPT !.body = "interrupted"]>>
    BY <1>2, <1>4, <1>6, <1>8, <1>9, Zenon
  <2> QED BY <1>1, <1>9, <2>1
<1>10. CASE e.body = "calls" /\ c.results = <<[e EXCEPT !.body = "result"]>> /\ c.pending = <<>>
  <2>1. Materialize(c) = <<e, [e EXCEPT !.body = "result"]>>
    BY <1>2, <1>3, <1>6, <1>7, <1>10, Zenon
  <2> QED BY <1>1, <1>10, <2>1
<1>11. CASE /\ e.body = "final" \/ (GuardsReports /\ e.body = "calls")
            /\ c.results = <<>> /\ c.pending = <<>>
  <2>1. Materialize(c) = <<e>>
    BY <1>2, <1>5, <1>7, <1>11, Zenon
  <2> QED BY <1>1, <1>11, <2>1
<1> QED BY <1>9, <1>10, <1>11 DEF Shape

\* The last checkpoint of a turn that is begun, and of the runner's steps.
LEMMA MarksShape ==
  ASSUME TypeInv, phase # "idle", Marks, CheckpointInv
  PROVE  /\ disk'.checkpoint # None => Shape(disk'.checkpoint) /\ disk'.checkpoint.assistant.turn = turn
         /\ disk.checkpoint # None => disk'.checkpoint # None
<1>0. turn > 0
  BY DEF TypeInv, PhaseInv
<1>1. CASE UNCHANGED <<disk, mem>>
  BY <1>1 DEF CheckpointInv
<1>2. CASE ~ UNCHANGED <<disk, mem>>
  <2>1. PICK a \in Entry, r \in {<<>>, <<Item("result", iteration)>>} :
          /\ disk'.checkpoint = [assistant |-> a, results |-> r, pending |-> <<>>]
          /\ \/ phase = "model" /\ a = Item("final", iteration) /\ r = <<>>
             \/ phase = "tools" /\ a = Item("calls", iteration) /\ (r = <<>> => GuardsReports)
    BY <1>2, MarksIs
  <2>2. /\ Item("final", iteration).body = "final" /\ Item("calls", iteration).body = "calls"
        /\ a.turn = turn /\ Item("result", iteration) \in Entry
    BY <1>0, <2>1, Items DEF Bodies
  <2>3. Item("result", iteration) = [Item("calls", iteration) EXCEPT !.body = "result"]
    BY DEF Item
  <2>4. r \in Seq(Entry) /\ <<>> \in Seq(Entry)
    <3>1. <<Item("result", iteration)>> \in Seq(Entry) /\ <<>> \in Seq(Entry)
      BY <2>2, ShortConcat
    <3> QED BY <2>1, <3>1
  <2> DEFINE c == [assistant |-> a, results |-> r, pending |-> <<>>]
  <2>5. c # None /\ c.assistant = a /\ c.results = r /\ c.pending = <<>>
    <3> DEFINE z == <<>>
    <3>1. z \in Seq(Entry)
      BY <2>4
    <3> HIDE DEF z
    <3>2. LET d == [assistant |-> a, results |-> r, pending |-> z]
          IN  d # None /\ d.assistant = a /\ d.results = r /\ d.pending = z
      BY <2>4, <3>1, CheckpointMade
    <3> QED BY <3>2 DEF z
  <2> HIDE DEF c
  <2>6. Shape(c)
    <3>1. CASE phase = "model"
      BY <2>1, <2>2, <2>5, <3>1 DEF Shape
    <3>2. CASE phase = "tools" /\ r = <<>>
      BY <2>1, <2>2, <2>5, <3>2 DEF Shape
    <3>3. CASE phase = "tools" /\ r # <<>>
      <4>1. c.results = <<[c.assistant EXCEPT !.body = "result"]>> /\ c.assistant.body = "calls"
        BY <2>1, <2>2, <2>3, <2>5, <3>3
      <4> QED BY <2>5, <4>1 DEF Shape
    <3> QED BY <2>1, <3>1, <3>2, <3>3
  <2> QED BY <2>1, <2>2, <2>5, <2>6 DEF c
<1> QED BY <1>1, <1>2

LEMMA CheckpointStep == TypeInv /\ CheckpointInv /\ [Next]_vars => CheckpointInv'
<1> SUFFICES ASSUME TypeInv, CheckpointInv, Step PROVE CheckpointInv'
  BY StepIs
<1>0. mem # None => mem.checkpoint = disk.checkpoint
  BY DEF TypeInv, PhaseInv
<1>1. ASSUME NEW k \in Kinds, BeginTurn(k) PROVE CheckpointInv'
  BY <1>1, BeginIs DEF BeginTurn, CheckpointInv
<1>2. CASE TurnStep
  <2>1. CASE PersistAsk
    <3>1. disk'.checkpoint = None
      BY <1>0, <2>1, AskIs DEF Has, CheckpointInv, TypeInv, PhaseInv, PersistAsk
    <3>2. phase' # "tools"
      BY <2>1 DEF PersistAsk
    <3> QED BY <3>1, <3>2 DEF CheckpointInv
  <2>2. CASE CommandReply \/ FailInStore \/ Cancel \/ SaveTurn \/ ClearSession
    <3>1. disk'.checkpoint \in {disk.checkpoint, None}
      BY <1>0, <2>2, ReplyIs, StoreIs, CancelIs, SaveIs, ClearIs, NoneAssumption DEF Has, TypeInv, TypeOK
    <3>2. phase' = "idle"
      BY <2>2 DEF CommandReply, FailInStore, Cancel, SaveTurn, ClearSession
    <3> QED BY <3>1, <3>2 DEF CheckpointInv
  <2>3. CASE BuildContinuation \/ Fail \/ Dies
    BY <2>3 DEF BuildContinuation, Fail, Dies, CheckpointInv
  <2> QED BY <1>2, <2>1, <2>2, <2>3 DEF TurnStep
<1>3. CASE ModelCalls
  <2>1. turn > 0
    BY <1>3 DEF ModelCalls, TypeInv, PhaseInv
  <2> DEFINE e == Item("calls", iteration)
  <2>2. e \in Entry /\ e.body = "calls" /\ e.turn = turn
    BY <2>1, Items DEF Bodies
  <2>3. <<>> \in Seq(Entry) /\ <<e>> \in Seq(Entry)
    BY <2>2
  <2>4. /\ disk'.checkpoint # None /\ disk'.checkpoint.assistant = e
        /\ disk'.checkpoint.results = <<>> /\ disk'.checkpoint.pending = <<e>>
    <3> HIDE DEF e
    <3>1. disk'.checkpoint = [assistant |-> e, results |-> <<>>, pending |-> <<e>>]
      BY <1>3, CallsIs DEF Has, e
    <3> DEFINE z == <<>>
               p == <<e>>
    <3>2. z \in Seq(Entry) /\ p \in Seq(Entry)
      BY <2>3
    <3> HIDE DEF z, p
    <3>3. LET d == [assistant |-> e, results |-> z, pending |-> p]
          IN  d # None /\ d.assistant = e /\ d.results = z /\ d.pending = p
      BY <2>2, <3>2, CheckpointMade
    <3> QED BY <3>1, <3>3 DEF z, p
  <2>5. work' # <<>> /\ Last(work') = e
    BY <1>3, <2>2, CallsIs DEF Last
  <2>6. Shape(disk'.checkpoint)
    <3> HIDE DEF e
    <3> QED BY <2>2, <2>4 DEF Shape
  <2>8. phase' = "tools" /\ turn' = turn /\ Item("calls", iteration)' = e
    BY <1>3, CallsIs DEF Item
  <2>7. Pending(disk.checkpoint)'
    BY <2>4, <2>8 DEF Pending
  <2> HIDE DEF e
  <2> QED BY <2>2, <2>4, <2>5, <2>6, <2>7, <2>8 DEF CheckpointInv
<1>4. CASE Grow
  <2>1. Marks /\ phase # "idle" /\ phase' \in {"model", "ended"} /\ turn' = turn
    BY <1>4 DEF Grow, Grows, Base
  <2> QED BY <2>1, MarksShape DEF CheckpointInv
<1>5. CASE BudgetSpent \/ Keep
  BY <1>5 DEF BudgetSpent, Keep, Keeps, CheckpointInv
<1>6. CASE UNCHANGED vars
  BY <1>6 DEF vars, CheckpointInv, Pending, Item
<1> QED BY <1>1, <1>2, <1>3, <1>4, <1>5, <1>6 DEF Step

LEMMA CheckpointInvariant == Spec => []CheckpointInv
<1>1. Init => CheckpointInv
  BY DEF Init, CheckpointInv, EmptySession
<1> QED BY <1>1, TypeInvariant, CheckpointStep, PTL DEF Spec

\* While a turn runs the checkpoint on disk is its own: what an interrupted
\* turn left is restored before anything else is written, also after a crash,
\* after /new and after the event store failed.
THEOREM CheckpointsOfTheTurn == Spec => []CheckpointIsOfTurn
<1>1. CheckpointInv => CheckpointIsOfTurn
  BY DEF CheckpointInv, CheckpointIsOfTurn
<1> QED BY <1>1, CheckpointInvariant, PTL

\* What follow-ups add to the runner's messages.
LEMMA InjectedRange ==
  ASSUME TypeInv, turn > 0, NEW p \in Seq(Entry), NEW n \in 0..MaxFollowUps,
         followups + n <= MaxFollowUps
  PROVE  /\ Range(p) \subseteq Range(InjectedAfter(p, n))
         /\ \A e \in Range(InjectedAfter(p, n)) :
              e \in Range(p) \/ \E i \in 1..n : e = Item("followup", followups + i)
<1> DEFINE q == InjectedAfter(p, n)
<1>1. /\ q \in Seq(Entry)
      /\ p = <<>> => q = <<>>
      /\ p # <<>> => /\ Len(q) = Len(p) + n
                     /\ \A i \in 1..Len(p) : q[i] = p[i]
                     /\ \A i \in 1..n : q[Len(p) + i] = Item("followup", followups + i)
  BY InjectedIs
<1> HIDE DEF q
<1>2. DOMAIN p = 1..Len(p) /\ DOMAIN q = 1..Len(q) /\ Len(p) \in Nat /\ Len(q) \in Nat /\ n \in Nat
  BY <1>1, LenProperties, HistoryAssumption
<1>3. CASE p = <<>>
  BY <1>1, <1>3 DEF q
<1>4. CASE p # <<>>
  <2>1. ASSUME NEW i \in 1..Len(p) PROVE p[i] \in Range(q)
    <3>1. i \in DOMAIN q /\ q[i] = p[i]
      BY <1>1, <1>2, <1>4
    <3> QED BY <3>1 DEF Range
  <2>2. ASSUME NEW j \in 1..Len(q)
        PROVE  q[j] \in Range(p) \/ \E i \in 1..n : q[j] = Item("followup", followups + i)
    <3>1. CASE j <= Len(p)
      <4>1. j \in DOMAIN p /\ q[j] = p[j]
        BY <1>1, <1>2, <1>4, <3>1
      <4> QED BY <4>1 DEF Range
    <3>2. CASE ~ (j <= Len(p))
      <4>1. j - Len(p) \in 1..n /\ j = Len(p) + (j - Len(p))
        BY <1>1, <1>2, <1>4, <3>2
      <4> QED BY <1>1, <1>4, <4>1
    <3> QED BY <3>1, <3>2
  <2>3. Range(p) \subseteq Range(q)
    BY <1>2, <2>1 DEF Range
  <2>4. \A e \in Range(q) : e \in Range(p) \/ \E i \in 1..n : e = Item("followup", followups + i)
    BY <1>2, <2>2 DEF Range
  <2> QED BY <2>3, <2>4 DEF q
<1> QED BY <1>3, <1>4

\* A restored history has all that its checkpoint stands for.
LEMMA RestoredRange ==
  ASSUME NEW m \in Seq(Entry), NEW q \in Seq(Entry), NEW k, Known(m, q, k)
  PROVE  /\ SubSeq(q, k + 1, Len(q)) \in Seq(Entry)
         /\ Range(q) \subseteq Range(m \o SubSeq(q, k + 1, Len(q)))
<1> DEFINE r == SubSeq(q, k + 1, Len(q))
           h == m \o r
<1>1. /\ Len(m) \in Nat /\ Len(q) \in Nat /\ DOMAIN m = 1..Len(m) /\ DOMAIN q = 1..Len(q)
      /\ k \in 0..Len(q) /\ k <= Len(m)
      /\ \A i \in 1..k : m[Len(m) - k + i] = q[i]
  BY LenProperties DEF Known
<1>2. r \in Seq(Entry) /\ Len(r) = Len(q) - k /\ \A i \in 1..(Len(q) - k) : r[i] = q[k + i]
  <2>1. /\ k + 1 \in Nat /\ Len(q) - (k + 1) + 1 = Len(q) - k
        /\ \A i \in (k + 1)..Len(q) : q[i] \in Entry
    BY <1>1, ElementOfSeq
  <2>2. /\ r \in Seq(Entry)
        /\ Len(r) = IF k + 1 <= Len(q) THEN Len(q) - (k + 1) + 1 ELSE 0
        /\ \A i \in 1..(Len(q) - (k + 1) + 1) : r[i] = q[k + 1 + i - 1]
    BY <1>1, <2>1, SubSeqProperties
  <2> HIDE DEF r
  <2>3. Len(q) \in Nat /\ k \in Nat /\ k <= Len(q)
    BY <1>1
  <2>4. Len(r) = Len(q) - k
    BY <2>2, <2>3
  <2>5. \A i \in 1..(Len(q) - k) : k + 1 + i - 1 = k + i
    BY <2>3
  <2> QED BY <2>1, <2>2, <2>4, <2>5
<1> HIDE DEF r
<1>3. Range(h) = Range(m) \cup Range(r)
  BY <1>2, ConcatRange
<1> HIDE DEF h
<1>4. ASSUME NEW i \in 1..Len(q) PROVE q[i] \in Range(h)
  <2>1. CASE i <= k
    <3>1. Len(m) - k + i \in DOMAIN m /\ m[Len(m) - k + i] = q[i]
      BY <1>1, <2>1
    <3>2. q[i] \in Range(m)
      BY <3>1 DEF Range
    <3> QED BY <1>3, <3>2
  <2>2. CASE ~ (i <= k)
    <3>1. i - k \in 1..(Len(q) - k) /\ k + (i - k) = i
      BY <1>1, <2>2
    <3>2. r[i - k] = q[i]
      BY <1>2, <3>1
    <3>3. i - k \in DOMAIN r
      BY <1>1, <1>2, <3>1
    <3>4. q[i] \in Range(r)
      BY <3>2, <3>3 DEF Range
    <3> QED BY <1>3, <3>4
  <2> QED BY <2>1, <2>2
<1>5. Range(q) \subseteq Range(h)
  BY <1>1, <1>4 DEF Range
<1> QED BY <1>2, <1>5 DEF r, h

\* What the runner's messages gain before follow-ups join.
LEMMA BaseRange ==
  ASSUME TypeInv, turn > 0, NEW b, Base(b)
  PROVE  /\ Range(work) \subseteq Range(b)
         /\ phase = "model" => Item("final", iteration) \in Range(b)
         /\ phase = "tools" => Item("result", iteration) \in Range(b)
<1>1. work \in Seq(Entry)
  BY DEF TypeInv, TypeOK
<1>2. /\ Item("final", iteration) \in Entry /\ Item("nudge", iteration) \in Entry
      /\ Item("correction", iteration) \in Entry /\ Item("result", iteration) \in Entry
  BY Items DEF Bodies
<1>3. /\ Answered \in Seq(Entry) /\ Range(Answered) = Range(work) \cup {Item("final", iteration)}
      /\ AfterTools \in Seq(Entry) /\ Range(AfterTools) = Range(work) \cup {Item("result", iteration)}
  BY <1>1, <1>2, AppendRange DEF Answered, AfterTools
<1>4. ASSUME NEW p \in Seq(Entry), NEW x \in Entry PROVE Range(p) \subseteq Range(Append(p, x))
  BY AppendRange
<1>5. CASE phase = "model"
  <2>1. Range(Answered) \subseteq Range(b)
    BY <1>2, <1>3, <1>4, <1>5 DEF Base
  <2> QED BY <1>3, <1>5, <2>1
<1>6. CASE phase = "tools"
  <2>1. Range(AfterTools) \subseteq Range(b)
    BY <1>2, <1>3, <1>4, <1>6 DEF Base
  <2> QED BY <1>3, <1>6, <2>1
<1> QED BY <1>5, <1>6 DEF Base

\* What a checkpoint stands for is among these messages, where the result of
\* its calls may stand for the calls that were pending.
Covered(c, w) ==
  \A e \in Range(Materialize(c)) :
    \/ e \in Range(w)
    \/ e.body = "interrupted" /\ [e EXCEPT !.body = "result"] \in Range(w)

LEMMA CoveredBy ==
  ASSUME NEW c \in Checkpoint, Shape(c), NEW w, c.assistant \in Range(w),
         c.assistant.body = "calls" => [c.assistant EXCEPT !.body = "result"] \in Range(w)
  PROVE  Covered(c, w)
<1> DEFINE e == c.assistant
<1>1. e \in Entry
  BY ShapeIs
<1>2. ASSUME NEW x \in Entry
      PROVE  Range(<<e>>) = {e} /\ Range(<<e, x>>) = {e, x}
  <2>1. /\ DOMAIN <<e>> = {1} /\ <<e>>[1] = e
        /\ DOMAIN <<e, x>> = {1, 2} /\ <<e, x>>[1] = e /\ <<e, x>>[2] = x
    BY <1>1
  <2> DEFINE p == <<e>>
             q == <<e, x>>
  <2> HIDE DEF p, q
  <2>2. DOMAIN p = {1} /\ p[1] = e /\ DOMAIN q = {1, 2} /\ q[1] = e /\ q[2] = x
    BY <2>1 DEF p, q
  <2>3. Range(p) = {e} /\ Range(q) = {e, x}
    BY <2>2 DEF Range
  <2> QED BY <2>3 DEF p, q
<1>3. ASSUME NEW y \in {"result", "interrupted"}
      PROVE  /\ [e EXCEPT !.body = y] \in Entry /\ [e EXCEPT !.body = y].body = y
             /\ [[e EXCEPT !.body = y] EXCEPT !.body = "result"] = [e EXCEPT !.body = "result"]
  BY <1>1 DEF Entry, Bodies
<1>4. CASE Materialize(c) = <<e>>
  <2>1. Range(Materialize(c)) = {e}
    BY <1>1, <1>2, <1>4
  <2> QED BY <2>1 DEF Covered
<1>5. ASSUME NEW y \in {"result", "interrupted"}, e.body = "calls",
             Materialize(c) = <<e, [e EXCEPT !.body = y]>>
      PROVE  Covered(c, w)
  <2> DEFINE x == [e EXCEPT !.body = y]
  <2>1. x \in Entry /\ x.body = y /\ [x EXCEPT !.body = "result"] = [e EXCEPT !.body = "result"]
    BY <1>3
  <2>2. y = "result" => x = [e EXCEPT !.body = "result"]
    OBVIOUS
  <2>3. Materialize(c) = <<e, x>>
    BY <1>5
  <2> HIDE DEF x
  <2>4. Range(Materialize(c)) = {e, x}
    BY <1>2, <2>1, <2>3
  <2> QED BY <1>5, <2>1, <2>2, <2>4 DEF Covered
<1> QED BY <1>4, <1>5, ShapeIs

LEMMA CoveredMore ==
  ASSUME NEW c, NEW w, NEW v, Covered(c, w), Range(w) \subseteq Range(v)
  PROVE  Covered(c, v)
BY DEF Covered

\* Outside the calls of tools, the runner's messages cover the checkpoint.
CoverInv ==
  phase \in {"model", "ended"} /\ disk.checkpoint # None => Covered(disk.checkpoint, work)

\* A step of the runner that adds messages covers the checkpoint it leaves.
LEMMA CoverGrow ==
  ASSUME TypeInv, CheckpointInv, CheckpointInv', CoverInv, TypeInv', Grow
  PROVE  CoverInv'
<1> SUFFICES ASSUME disk'.checkpoint # None PROVE Covered(disk'.checkpoint, work')
  BY DEF CoverInv
<1>1. PICK b, n : n \in 0..MaxFollowUps /\ Grows(b, n)
  BY DEF Grow
<1>2. /\ phase \in {"model", "tools"} /\ phase # "idle" /\ turn > 0 /\ Base(b) /\ Marks
      /\ phase' \in {"model", "ended"} /\ work \in Seq(Entry)
  BY <1>1 DEF Grows, Base, TypeInv, TypeOK, PhaseInv
<1>3. b \in Seq(Entry) /\ followups + n <= MaxFollowUps
  BY <1>1, <1>2, BaseType DEF Grows
<1>4. Range(b) \subseteq Range(work')
  BY <1>1, <1>2, <1>3, InjectedRange DEF Grows
<1>5. disk'.checkpoint \in Checkpoint /\ Shape(disk'.checkpoint)
  BY SessionFields DEF CheckpointInv, TypeInv, TypeOK
<1>6. Item("result", iteration) = [Item("calls", iteration) EXCEPT !.body = "result"]
  BY DEF Item
<1>7. phase = "tools" => Item("calls", iteration) \in Range(work)
  <2>1. work # <<>> => Last(work) \in Range(work)
    <3>1. work # <<>> => Len(work) \in DOMAIN work
      BY <1>2
    <3> QED BY <3>1 DEF Last, Range
  <2> QED BY <2>1 DEF CheckpointInv
<1>8. CASE phase = "model" /\ UNCHANGED <<disk, mem>>
  BY <1>2, <1>4, <1>8, BaseRange, CoveredMore DEF CoverInv
<1>9. CASE phase = "tools" \/ ~ UNCHANGED <<disk, mem>>
  <2>1. \/ phase = "tools" /\ disk'.checkpoint.assistant = Item("calls", iteration)
        \/ phase = "model" /\ disk'.checkpoint.assistant = Item("final", iteration)
    <3>1. CASE UNCHANGED <<disk, mem>>
      BY <1>9, <3>1 DEF CheckpointInv, Pending
    <3>2. CASE ~ UNCHANGED <<disk, mem>>
      <4>1. PICK a \in Entry, r \in {<<>>, <<Item("result", iteration)>>} :
              /\ disk'.checkpoint = [assistant |-> a, results |-> r, pending |-> <<>>]
              /\ \/ phase = "model" /\ a = Item("final", iteration)
                 \/ phase = "tools" /\ a = Item("calls", iteration)
        BY <1>2, <3>2, MarksIs
      <4> QED BY <4>1
    <3> QED BY <3>1, <3>2
  <2>2. Item("final", iteration).body = "final"
    BY DEF Item
  <2>3. disk'.checkpoint.assistant \in Range(work')
    BY <1>2, <1>4, <1>7, <2>1, BaseRange
  <2>4. disk'.checkpoint.assistant.body = "calls" =>
          [disk'.checkpoint.assistant EXCEPT !.body = "result"] \in Range(work')
    <3>1. CASE phase = "tools"
      <4>1. Item("result", iteration) \in Range(work')
        BY <1>2, <1>4, <3>1, BaseRange
      <4>2. [disk'.checkpoint.assistant EXCEPT !.body = "result"] = Item("result", iteration)
        BY <1>6, <2>1, <3>1
      <4> QED BY <4>1, <4>2
    <3>2. CASE phase = "model"
      BY <2>1, <2>2, <3>2
    <3> QED BY <1>2, <3>1, <3>2
  <2> QED BY <1>5, <2>3, <2>4, CoveredBy
<1> QED BY <1>2, <1>8, <1>9

LEMMA CoverStep ==
  TypeInv /\ TypeInv' /\ CheckpointInv /\ CheckpointInv' /\ CoverInv /\ [Next]_vars => CoverInv'
<1> SUFFICES ASSUME TypeInv, TypeInv', CheckpointInv, CheckpointInv', CoverInv, Step PROVE CoverInv'
  BY StepIs
<1>0. /\ work \in Seq(Entry)
      /\ phase # "idle" => turn > 0
      /\ mem # None => mem.checkpoint = disk.checkpoint
  BY DEF TypeInv, TypeOK, PhaseInv
<1>1. CASE phase' \notin {"model", "ended"}
  BY <1>1 DEF CoverInv
<1>2. CASE PersistAsk \/ BuildContinuation
  <2>1. disk'.checkpoint = None
    <3>1. disk.checkpoint = None /\ mem # None
      BY <1>2 DEF CheckpointInv, PersistAsk, BuildContinuation, TypeInv, PhaseInv
    <3>2. CASE PersistAsk
      BY <1>0, <3>1, <3>2, AskIs DEF Has
    <3>3. CASE BuildContinuation
      BY <3>1, <3>3 DEF BuildContinuation
    <3> QED BY <1>2, <3>2, <3>3
  <2> QED BY <2>1 DEF CoverInv
<1>3. CASE Grow
  BY <1>3, CoverGrow
<1>4. CASE BudgetSpent
  <2>1. PICK n \in 0..MaxFollowUps :
           /\ followups + n <= MaxFollowUps
           /\ InjectedAfter(work, n) \in Seq(Entry) /\ Item("final", iteration) \in Entry
           /\ work' \in {InjectedAfter(work, n), Append(InjectedAfter(work, n), Item("final", iteration))}
           /\ phase = "model" /\ UNCHANGED <<disk, archived, mem, turn, kind, iteration>>
    BY <1>4, BudgetIs
  <2>2. Range(work) \subseteq Range(InjectedAfter(work, n))
    BY <1>0, <2>1, InjectedRange
  <2>3. Range(InjectedAfter(work, n)) \subseteq Range(work')
    <3> DEFINE q == InjectedAfter(work, n)
               x == Item("final", iteration)
    <3> HIDE DEF q, x
    <3>1. q \in Seq(Entry) /\ x \in Entry /\ work' \in {q, Append(q, x)}
      BY <2>1 DEF q, x
    <3>2. Range(Append(q, x)) = Range(q) \cup {x}
      BY <3>1, AppendRange
    <3> QED BY <3>1, <3>2 DEF q
  <2>4. Range(work) \subseteq Range(work')
    BY <2>2, <2>3
  <2> QED BY <2>1, <2>4, CoveredMore DEF CoverInv
<1>5. CASE Keep
  <2>1. PICK n \in 0..MaxFollowUps : Keeps(n)
    BY <1>5 DEF Keep
  <2>2. phase = "model" /\ Range(work) \subseteq Range(work') /\ disk' = disk
    BY <1>0, <2>1, InjectedRange DEF Keeps
  <2> QED BY <2>2, CoveredMore DEF CoverInv
<1>6. CASE ModelCalls
  BY <1>1, <1>6 DEF ModelCalls
<1>7. CASE UNCHANGED vars
  BY <1>7 DEF vars, CoverInv, Covered
<1>8. CASE \E k \in Kinds : BeginTurn(k)
  BY <1>1, <1>8 DEF BeginTurn
<1>9. CASE CommandReply \/ Cancel \/ Fail \/ FailInStore \/ Dies \/ ClearSession \/ SaveTurn
  BY <1>1, <1>9 DEF CommandReply, Cancel, Fail, FailInStore, Dies, ClearSession, SaveTurn
<1> QED BY <1>2, <1>3, <1>4, <1>5, <1>6, <1>7, <1>8, <1>9 DEF Step, TurnStep

\* A step that gives the checkpoint up has its messages in the history or in the
\* archive.
RecordedIn(c, h) ==
  \A e \in Range(Materialize(c)) :
    \/ e \in h
    \/ e.body = "interrupted" /\ [e EXCEPT !.body = "result"] \in h

\* Where the messages of a step are.
Held == Range(disk'.messages) \cup archived'

LEMMA GivenUp ==
  ASSUME TypeInv, CheckpointInv, CoverInv, Step, disk.checkpoint # None, disk'.checkpoint = None
  PROVE  RecordedIn(disk.checkpoint, Held)
<1>0. /\ disk.checkpoint \in Checkpoint /\ Materialize(disk.checkpoint) \in Seq(Entry)
      /\ mem # None => mem.checkpoint = disk.checkpoint
  BY SessionFields, MaterializeType DEF TypeInv, TypeOK, PhaseInv
<1>1. ASSUME NEW m \in Seq(Entry), NEW k, Known(m, Materialize(disk.checkpoint), k),
             disk'.messages = m \o SubSeq(Materialize(disk.checkpoint), k + 1, Len(Materialize(disk.checkpoint)))
      PROVE  RecordedIn(disk.checkpoint, Held)
  <2> DEFINE q == Materialize(disk.checkpoint)
  <2>1. Range(q) \subseteq Range(m \o SubSeq(q, k + 1, Len(q)))
    BY <1>0, <1>1, RestoredRange
  <2> QED BY <1>1, <2>1 DEF RecordedIn, Held
<1>2. ASSUME NEW k \in Kinds, BeginTurn(k) PROVE RecordedIn(disk.checkpoint, Held)
  <2>1. Found.messages \in Seq(Entry)
    BY FoundIs, SessionFields
  <2>2. PICK j : /\ Known(Found.messages, Materialize(disk.checkpoint), j)
                 /\ disk'.messages = Found.messages \o
                      SubSeq(Materialize(disk.checkpoint), j + 1, Len(Materialize(disk.checkpoint)))
    BY <1>2, BeginIs
  <2> QED BY <1>1, <2>1, <2>2
<1>3. CASE Cancel
  <2>1. mem.messages \in Seq(Entry)
    BY <1>3, CancelIs, SessionFields
  <2>2. PICK j : /\ Known(mem.messages, Materialize(disk.checkpoint), j)
                 /\ disk'.messages = mem.messages \o
                      SubSeq(Materialize(disk.checkpoint), j + 1, Len(Materialize(disk.checkpoint)))
    BY <1>3, CancelIs
  <2> QED BY <1>1, <2>1, <2>2
<1>4. CASE SaveTurn
  <2> DEFINE m == mem.messages \o work
  <2>1. /\ disk'.messages = Capped(m) /\ Dropped(m) \subseteq archived'
        /\ m \in Seq(Entry) /\ mem.messages \in Seq(Entry) /\ work \in Seq(Entry)
    BY <1>4, SaveIs, SessionFields DEF Has, TypeInv, TypeOK
  <2>2. Range(work) \subseteq Range(m)
    BY <2>1, ConcatRange
  <2> HIDE DEF m
  <2>3. Range(m) \subseteq Held
    BY <2>1, CappedCovers DEF Held
  <2>4. Covered(disk.checkpoint, work)
    BY <1>4 DEF CoverInv, SaveTurn
  <2> QED BY <2>2, <2>3, <2>4 DEF Covered, RecordedIn
<1>5. CASE PersistAsk \/ CommandReply \/ FailInStore \/ ClearSession
  <2>1. mem # None \/ ClearSession
    BY <1>5 DEF PersistAsk, CommandReply, FailInStore, TypeInv, PhaseInv
  <2>2. disk'.checkpoint = disk.checkpoint
    BY <1>0, <1>5, <2>1, AskIs, ReplyIs, StoreIs, ClearIs DEF Has
  <2> QED BY <2>2
<1>6. CASE BuildContinuation \/ Fail \/ Dies \/ BudgetSpent \/ Keep \/ UNCHANGED vars
  <2>1. disk' = disk
    BY <1>6 DEF BuildContinuation, Fail, Dies, BudgetSpent, Keep, Keeps, vars
  <2> QED BY <2>1
<1>7. CASE ModelCalls
  <2>1. CheckpointInv'
    BY <1>7, CheckpointStep DEF Next
  <2> QED BY <1>7, <2>1, CallsIs DEF CheckpointInv
<1>8. CASE Grow
  <2>1. Marks /\ phase # "idle"
    BY <1>8 DEF Grow, Grows, Base
  <2> QED BY <2>1, MarksShape
<1> QED BY <1>2, <1>3, <1>4, <1>5, <1>6, <1>7, <1>8 DEF Step, TurnStep

\* A checkpoint is given up only for its messages in the history or, past the
\* file cap, in the archive: none of the ways in which a turn is saved,
\* cancelled, restarted or cleared forgets what the tools have done.
THEOREM CheckpointsAreKept == Spec => CheckpointNotForgotten
<1>1. Init => CoverInv
  BY DEF Init, CoverInv
<1>2. Spec => []CoverInv
  BY <1>1, TypeInvariant, CheckpointInvariant, CoverStep, PTL DEF Spec
<1>3. TypeInv /\ CheckpointInv /\ CoverInv /\ [Next]_vars =>
        [disk.checkpoint # None /\ disk'.checkpoint = None =>
           \A e \in Range(Materialize(disk.checkpoint)) :
             \/ e \in Range(disk'.messages) \cup archived'
             \/ /\ e.body = "interrupted"
                /\ [e EXCEPT !.body = "result"] \in Range(disk'.messages) \cup archived']_vars
  BY StepIs, GivenUp DEF RecordedIn, Held
<1> QED BY <1>2, <1>3, TypeInvariant, CheckpointInvariant, PTL DEF Spec, CheckpointNotForgotten
-----------------------------------------------------------------------------
(* Legal transcripts *)

Answer(f, e) == f \in {[e EXCEPT !.body = "result"], [e EXCEPT !.body = "interrupted"]}
CallsOf(e)   == [e EXCEPT !.body = "calls"]
IsTool(e)    == Role(e) = "tool"

\* The entries that a provider accepts anywhere.
Plain(e) == ~IsTool(e) /\ e.body # "calls"

\* Which bodies have which role.
LEMMA RoleIs ==
  ASSUME NEW e \in Entry
  PROVE  /\ IsTool(e) <=> e.body \in {"result", "interrupted"}
         /\ Role(e) = "user" <=> e.body \in {"ask", "followup", "nudge", "correction"}
         /\ Role(e) = "assistant" <=> e.body \in {"calls", "final", "notice"}
         /\ Plain(e) <=> e.body \notin {"calls", "result", "interrupted"}
<1>1. e.body \in Bodies
  BY DEF Entry
<1>2. CASE e.body \in {"ask", "followup", "nudge", "correction"}
  BY <1>2 DEF Role, IsTool, Plain
<1>3. CASE e.body \in {"calls", "final", "notice"}
  BY <1>3 DEF Role, IsTool, Plain
<1>4. CASE e.body \in {"result", "interrupted"}
  BY <1>4 DEF Role, IsTool, Plain
<1> QED BY <1>1, <1>2, <1>3, <1>4 DEF Bodies

\* An entry and the answer to it.
LEMMA AnswerIs ==
  ASSUME NEW e \in Entry, e.body = "calls", NEW y \in {"result", "interrupted"}
  PROVE  /\ Answer([e EXCEPT !.body = y], e) /\ CallsOf([e EXCEPT !.body = y]) = e
         /\ IsTool([e EXCEPT !.body = y]) /\ [e EXCEPT !.body = y].body # "calls"
         /\ ~IsTool(e)
<1>1. [e EXCEPT !.body = y] \in Entry /\ [e EXCEPT !.body = y].body = y
  <2>1. y \in Bodies
    BY DEF Bodies
  <2> QED BY <2>1, EntryUpdate
<1>2. CallsOf([e EXCEPT !.body = y]) = e
  BY DEF CallsOf, Entry
<1>3. IsTool([e EXCEPT !.body = y]) /\ ~IsTool(e)
  BY <1>1, RoleIs
<1> QED BY <1>1, <1>2, <1>3 DEF Answer

\* What it is to be legal.
LegalAt(q, i) ==
  /\ IsTool(q[i]) => i > 1 /\ q[i - 1] = CallsOf(q[i])
  /\ q[i].body = "calls" => i < Len(q) /\ Answer(q[i + 1], q[i])

LEMMA LegalIs ==
  ASSUME NEW q \in Seq(Entry)
  PROVE  Legal(q) <=> \A i \in 1..Len(q) : LegalAt(q, i)
<1>1. DOMAIN q = 1..Len(q)
  BY LenProperties
<1> QED BY <1>1, Zenon DEF Legal, LegalAt, IsTool, CallsOf, Answer

\* Legal but for the calls at the end, whose tools are running.
Unanswered(q) ==
  /\ q # <<>> /\ Last(q).body = "calls"
  /\ \A i \in 1..(Len(q) - 1) : LegalAt(q, i)

LEMMA LegalEmpty == Legal(<<>>)
BY DEF Legal

\* Appending what needs no answer, calls, and the answer to them.
LEMMA LegalAppend ==
  ASSUME NEW p \in Seq(Entry), NEW x \in Entry
  PROVE  /\ Legal(p) /\ Plain(x) => Legal(Append(p, x))
         /\ Legal(p) /\ x.body = "calls" => Unanswered(Append(p, x))
         /\ Unanswered(p) /\ (\E y \in {"result", "interrupted"} : x = [Last(p) EXCEPT !.body = y])
              => Legal(Append(p, x))
<1>1. Len(p) \in Nat /\ \A i \in 1..Len(p) : p[i] \in Entry
  BY ElementOfSeq, LenProperties
<1> DEFINE q == Append(p, x)
<1>2. /\ q \in Seq(Entry) /\ Len(q) = Len(p) + 1
      /\ \A i \in 1..Len(p) : q[i] = p[i]
      /\ q[Len(p) + 1] = x /\ q # <<>> /\ Last(q) = x
  BY AppendProperties DEF Last
<1> HIDE DEF q
<1>3. ASSUME Legal(p)
      PROVE  \A i \in 1..Len(p) : LegalAt(q, i)
  <2>1. SUFFICES ASSUME NEW i \in 1..Len(p) PROVE LegalAt(q, i)
    OBVIOUS
  <2>2. LegalAt(p, i) /\ q[i] = p[i]
    BY <1>2, <1>3, LegalIs
  <2>3. i > 1 => q[i - 1] = p[i - 1]
    BY <1>1, <1>2
  <2>4. i < Len(p) => q[i + 1] = p[i + 1] /\ i < Len(q)
    BY <1>1, <1>2
  <2> QED BY <2>2, <2>3, <2>4 DEF LegalAt
<1>4. Legal(p) /\ Plain(x) => Legal(q)
  <2>1. Plain(x) => LegalAt(q, Len(p) + 1)
    BY <1>2 DEF LegalAt, Plain
  <2>2. \A i \in 1..Len(q) : i \in 1..Len(p) \/ i = Len(p) + 1
    BY <1>1, <1>2
  <2> QED BY <1>2, <1>3, <2>1, <2>2, LegalIs
<1>5. Legal(p) /\ x.body = "calls" => Unanswered(q)
  <2>1. Len(q) - 1 = Len(p)
    BY <1>1, <1>2
  <2> QED BY <1>2, <1>3, <2>1 DEF Unanswered
<1>6. ASSUME Unanswered(p), NEW y \in {"result", "interrupted"}, x = [Last(p) EXCEPT !.body = y]
      PROVE  Legal(q)
  <2> DEFINE n == Len(p)
  <2>1. n \in Nat /\ n > 0 /\ p[n] = Last(p) /\ Last(p) \in Entry /\ Last(p).body = "calls"
    BY <1>1, <1>6, EmptySeq DEF Unanswered, Last
  <2>2. Answer(x, Last(p)) /\ CallsOf(x) = Last(p) /\ IsTool(x) /\ x.body # "calls" /\ ~IsTool(Last(p))
    BY <1>6, <2>1, AnswerIs
  <2>3. q[n] = Last(p) /\ q[n + 1] = x /\ Len(q) = n + 1
    BY <1>2, <2>1
  <2> HIDE DEF n
  <2>4. LegalAt(q, n)
    BY <2>1, <2>2, <2>3 DEF LegalAt
  <2>5. LegalAt(q, n + 1)
    <3>1. n + 1 > 1 /\ (n + 1) - 1 = n
      BY <2>1
    <3> QED BY <2>2, <2>3, <3>1 DEF LegalAt
  <2>6. ASSUME NEW i \in 1..(n - 1) PROVE LegalAt(q, i)
    <3>1. LegalAt(p, i) /\ q[i] = p[i]
      BY <1>2, <1>6, <2>1 DEF Unanswered, n
    <3>2. i > 1 => q[i - 1] = p[i - 1]
      BY <1>2, <2>1 DEF n
    <3>3. q[i + 1] = p[i + 1] /\ i < Len(q)
      BY <1>2, <2>1 DEF n
    <3> QED BY <3>1, <3>2, <3>3 DEF LegalAt
  <2>7. \A i \in 1..Len(q) : i \in 1..(n - 1) \/ i = n \/ i = n + 1
    BY <2>1, <2>3
  <2> QED BY <1>2, <2>4, <2>5, <2>6, <2>7, LegalIs
<1> QED BY <1>4, <1>5, <1>6 DEF q

\* Joining two legal sequences.
LEMMA LegalConcat ==
  ASSUME NEW p \in Seq(Entry), NEW r \in Seq(Entry), Legal(p), Legal(r)
  PROVE  Legal(p \o r)
<1> DEFINE q == p \o r
           n == Len(p)
<1>1. n \in Nat /\ Len(r) \in Nat
  BY LenProperties
<1>2. /\ q \in Seq(Entry) /\ Len(q) = n + Len(r)
      /\ \A i \in 1..n : q[i] = p[i]
      /\ \A i \in 1..Len(r) : q[n + i] = r[i]
  BY <1>1
<1>3. \A i \in 1..n : LegalAt(p, i) /\ (i < Len(p) => i + 1 \in 1..n) /\ (i > 1 => i - 1 \in 1..n)
  BY <1>1, LegalIs
<1>4. \A i \in 1..Len(r) : LegalAt(r, i)
  BY LegalIs
<1> HIDE DEF q
<1>5. ASSUME NEW i \in 1..n PROVE LegalAt(q, i)
  <2>1. LegalAt(p, i) /\ q[i] = p[i]
    BY <1>2, <1>3
  <2>2. i < Len(p) => q[i + 1] = p[i + 1] /\ i < Len(q)
    BY <1>1, <1>2, <1>3
  <2>3. i > 1 => q[i - 1] = p[i - 1]
    BY <1>2, <1>3
  <2> QED BY <2>1, <2>2, <2>3 DEF LegalAt
<1> HIDE DEF n
<1>6. ASSUME NEW i \in 1..Len(r) PROVE LegalAt(q, n + i)
  <2>1. /\ LegalAt(r, i) /\ q[n + i] = r[i]
        /\ i < Len(r) => n + i < Len(q) /\ q[(n + i) + 1] = r[i + 1]
        /\ i > 1 => n + i > 1 /\ q[(n + i) - 1] = r[i - 1]
    <3>1. i < Len(r) => i + 1 \in 1..Len(r) /\ (n + i) + 1 = n + (i + 1) /\ n + i < Len(q)
      BY <1>1, <1>2
    <3>2. i > 1 => i - 1 \in 1..Len(r) /\ (n + i) - 1 = n + (i - 1) /\ n + i > 1
      BY <1>1
    <3> QED BY <1>2, <1>4, <3>1, <3>2
  <2> QED BY <2>1 DEF LegalAt
<1>7. \A i \in 1..Len(q) : i \in 1..n \/ \E j \in 1..Len(r) : i = n + j
  <2>1. ASSUME NEW i \in 1..Len(q), i \notin 1..n PROVE i - n \in 1..Len(r) /\ i = n + (i - n)
    BY <1>1, <1>2, <2>1
  <2> QED BY <2>1
<1>8. Legal(q)
  BY <1>2, <1>5, <1>6, <1>7, LegalIs
<1> QED BY <1>8 DEF q

\* Only an entry and its neighbours matter.
LEMMA LegalMoved ==
  ASSUME NEW q, NEW r, NEW i \in Nat, NEW j \in Nat, LegalAt(q, j), r[i] = q[j],
         IsTool(q[j]) => i > 1 /\ r[i - 1] = q[j - 1],
         j < Len(q) => i < Len(r) /\ r[i + 1] = q[j + 1]
  PROVE  LegalAt(r, i)
BY DEF LegalAt

\* The end of a legal history, from anything but a result on.
LEMMA LegalCapped ==
  ASSUME NEW m \in Seq(Entry), Legal(m), Fits(m)
  PROVE  Legal(Capped(m))
<1>1. PICK i, j : Keeping(m, i, j) /\ Slice(m, Capped(m), i, j)
  BY CappedIs
<1> DEFINE q == Capped(m)
           n == Len(m)
<1>2. /\ n \in Nat /\ q \in Seq(Entry) /\ Len(q) \in Nat
      /\ i \in 1..n + 1 /\ j = n /\ i <= j + 1 /\ Len(q) = j - i + 1
      /\ \A k \in 1..Len(q) : q[k] = m[k + i - 1]
      /\ i = 1 \/ i > j \/ ~IsTool(m[i])
      /\ \A k \in 1..n : LegalAt(m, k)
  BY <1>1, LegalIs, LenProperties DEF Keeping, Slice, IsTool
<1> HIDE DEF q, n
<1>3. ASSUME NEW k \in 1..Len(q) PROVE LegalAt(q, k)
  <2> DEFINE l == k + i - 1
  <2>1. l \in 1..n /\ q[k] = m[l] /\ k \in Nat /\ l \in Nat
    BY <1>2
  <2>2. IsTool(m[l]) => k > 1 /\ q[k - 1] = m[l - 1]
    <3>1. ASSUME IsTool(m[l]) PROVE k > 1
      <4>1. k # 1
        <5>1. ASSUME k = 1 PROVE FALSE
          <6>1. l = i /\ i <= j
            BY <1>2, <5>1
          <6>2. i = 1
            BY <1>2, <3>1, <6>1
          <6>3. LegalAt(m, 1)
            BY <1>2, <2>1, <6>1, <6>2
          <6> QED BY <3>1, <6>1, <6>2, <6>3 DEF LegalAt
        <5> QED BY <5>1
      <4> QED BY <4>1
    <3>2. ASSUME k > 1 PROVE q[k - 1] = m[l - 1]
      <4>1. k - 1 \in 1..Len(q) /\ (k - 1) + i - 1 = l - 1
        BY <1>2, <3>2
      <4> QED BY <1>2, <4>1
    <3> QED BY <3>1, <3>2
  <2>3. l < n => k < Len(q) /\ q[k + 1] = m[l + 1]
    <3>1. ASSUME l < n PROVE k + 1 \in 1..Len(q) /\ (k + 1) + i - 1 = l + 1 /\ k < Len(q)
      BY <1>2, <3>1
    <3> QED BY <1>2, <3>1
  <2> HIDE DEF l
  <2>4. LegalAt(m, l)
    BY <1>2, <2>1
  <2> QED BY <2>1, <2>2, <2>3, <2>4, LegalMoved DEF n
<1>4. Legal(q)
  BY <1>2, <1>3, LegalIs
<1> QED BY <1>4 DEF q


\* A legal history never ends in the middle of a checkpoint.
LEMMA LegalRestored ==
  ASSUME NEW m \in Seq(Entry), NEW q \in Seq(Entry), NEW k, Known(m, q, k), Legal(m), Legal(q)
  PROVE  Legal(m \o SubSeq(q, k + 1, Len(q)))
<1> DEFINE r == SubSeq(q, k + 1, Len(q))
<1>1. /\ Len(m) \in Nat /\ Len(q) \in Nat
      /\ k \in 0..Len(q) /\ k <= Len(m)
      /\ \A i \in 1..k : m[Len(m) - k + i] = q[i]
      /\ \A i \in 1..Len(q) : q[i] \in Entry
  BY LenProperties, ElementOfSeq DEF Known
<1>2. r \in Seq(Entry) /\ Len(r) = Len(q) - k /\ \A i \in 1..(Len(q) - k) : r[i] = q[k + i]
  BY <1>1
<1> HIDE DEF r
<1>3. k >= 1 => q[k].body # "calls"
  <2>1. SUFFICES ASSUME k >= 1 PROVE q[k].body # "calls"
    OBVIOUS
  <2>2. k \in 1..k /\ Len(m) - k + k = Len(m) /\ Len(m) \in 1..Len(m)
    BY <1>1, <2>1
  <2>3. m[Len(m)] = q[k]
    BY <1>1, <2>2
  <2>4. LegalAt(m, Len(m))
    BY <2>2, LegalIs
  <2> QED BY <1>1, <2>3, <2>4 DEF LegalAt
<1>4. ASSUME NEW i \in 1..Len(r) PROVE LegalAt(r, i)
  <2> DEFINE j == k + i
  <2>1. /\ i \in Nat /\ j \in 1..Len(q) /\ j \in Nat /\ r[i] = q[j] /\ q[j] \in Entry
        /\ i = 1 => j - 1 = k
        /\ i >= 1
    BY <1>1, <1>2
  <2>2. LegalAt(q, j)
    BY <2>1, LegalIs
  <2>3. i > 1 => r[i - 1] = q[j - 1]
    <3>1. i > 1 => i - 1 \in 1..(Len(q) - k) /\ k + (i - 1) = j - 1
      BY <1>1, <1>2
    <3> QED BY <1>2, <3>1
  <2>4. j < Len(q) => i < Len(r) /\ r[i + 1] = q[j + 1]
    <3>1. j < Len(q) => i + 1 \in 1..(Len(q) - k) /\ k + (i + 1) = j + 1 /\ i < Len(r)
      BY <1>1, <1>2
    <3> QED BY <1>2, <3>1
  <2> HIDE DEF j
  <2>5. IsTool(q[j]) => i > 1
    <3>1. SUFFICES ASSUME IsTool(q[j]), i = 1 PROVE FALSE
      BY <2>1
    <3>2. q[j - 1] = CallsOf(q[j]) /\ j > 1
      BY <2>2, <3>1 DEF LegalAt
    <3>3. j - 1 = k /\ k >= 1
      BY <2>1, <3>1, <3>2
    <3>4. CallsOf(q[j]).body = "calls"
      <4>1. "calls" \in Bodies
        BY DEF Bodies
      <4> QED BY <2>1, <4>1, EntryUpdate DEF CallsOf
    <3> QED BY <1>3, <3>2, <3>3, <3>4
  <2> QED BY <2>1, <2>2, <2>3, <2>4, <2>5, LegalMoved
<1>5. Legal(r)
  BY <1>2, <1>4, LegalIs
<1> QED BY <1>2, <1>5, LegalConcat DEF r

\* What a checkpoint stands for is legal, unless calls were dropped from it.
LEMMA MaterializeLegal ==
  ASSUME NEW c \in Checkpoint, Shape(c), ~GuardsReports
  PROVE  Materialize(c) \in Seq(Entry) /\ Legal(Materialize(c))
<1> DEFINE e == c.assistant
           q == Materialize(c)
<1>1. e \in Entry /\ q \in Seq(Entry)
  BY ShapeIs, MaterializeType
<1>2. CASE q = <<e>> /\ e.body = "final"
  <2>1. Len(q) = 1 /\ q[1] = e /\ Plain(e)
    BY <1>1, <1>2, RoleIs
  <2> HIDE DEF q, e
  <2>2. LegalAt(q, 1)
    BY <2>1 DEF LegalAt, Plain
  <2>3. \A i \in 1..Len(q) : i = 1
    BY <2>1
  <2> QED BY <1>1, <2>2, <2>3, LegalIs DEF q
<1>3. ASSUME NEW y \in {"result", "interrupted"}, e.body = "calls", q = <<e, [e EXCEPT !.body = y]>>
      PROVE  Legal(q)
  <2> DEFINE x == [e EXCEPT !.body = y]
  <2>1. Answer(x, e) /\ CallsOf(x) = e /\ IsTool(x) /\ x.body # "calls" /\ ~IsTool(e)
    BY <1>1, <1>3, AnswerIs
  <2>2. Len(q) = 2 /\ q[1] = e /\ q[2] = x
    BY <1>1, <1>3
  <2> HIDE DEF q, e, x
  <2>3. LegalAt(q, 1) /\ LegalAt(q, 2)
    BY <1>3, <2>1, <2>2 DEF LegalAt
  <2>4. \A i \in 1..Len(q) : i = 1 \/ i = 2
    BY <2>2
  <2> QED BY <1>1, <2>3, <2>4, LegalIs
<1> QED BY <1>1, <1>2, <1>3, ShapeIs

\* The messages that need no answer.
LEMMA PlainItem ==
  ASSUME TypeInv, turn > 0, NEW b \in {"ask", "followup", "nudge", "correction", "final"}
  PROVE  /\ Item(b, iteration) \in Entry /\ Plain(Item(b, iteration))
         /\ Item(b, 0) \in Entry /\ Plain(Item(b, 0))
<1>1. b \in Bodies /\ b \notin {"calls", "result", "interrupted"}
  BY DEF Bodies
<1> QED BY <1>1, Items, RoleIs

\* Follow-ups leave a legal sequence legal.
LEMMA InjectedLegal ==
  ASSUME TypeInv, turn > 0, NEW p \in Seq(Entry), NEW n \in 0..MaxFollowUps,
         followups + n <= MaxFollowUps, Legal(p)
  PROVE  InjectedAfter(p, n) \in Seq(Entry) /\ Legal(InjectedAfter(p, n))
<1> DEFINE q == InjectedAfter(p, n)
<1>1. /\ q \in Seq(Entry)
      /\ p = <<>> => q = <<>>
      /\ p # <<>> => /\ Len(q) = Len(p) + n
                     /\ \A i \in 1..Len(p) : q[i] = p[i]
                     /\ \A i \in 1..n : q[Len(p) + i] = Item("followup", followups + i)
  BY InjectedIs
<1> HIDE DEF q
<1>2. CASE p = <<>>
  BY <1>1, <1>2 DEF q
<1>3. CASE p # <<>>
  <2>0. Len(p) \in Nat /\ n \in Nat /\ Len(q) = Len(p) + n
    BY <1>1, <1>3, LenProperties, HistoryAssumption
  <2>1. ASSUME NEW i \in 1..Len(p) PROVE LegalAt(q, i)
    <3>1. LegalAt(p, i) /\ i \in Nat
      BY <2>0, LegalIs
    <3>2. q[i] = p[i] /\ (i > 1 => q[i - 1] = p[i - 1])
      BY <1>1, <1>3, <2>0
    <3>3. i < Len(p) => i < Len(q) /\ q[i + 1] = p[i + 1]
      BY <1>1, <1>3, <2>0
    <3>4. IsTool(p[i]) => i > 1
      BY <3>1 DEF LegalAt
    <3> QED BY <3>1, <3>2, <3>3, <3>4, LegalMoved
  <2>2. ASSUME NEW i \in 1..n PROVE LegalAt(q, Len(p) + i)
    <3> DEFINE j == Len(p) + i
               x == Item("followup", followups + i)
    <3>1. q[j] = x
      BY <1>1, <1>3
    <3>2. j \in 1..Len(q)
      BY <2>0
    <3>3. q[j] \in Entry
      BY <1>1, <3>2, ElementOfSeq
    <3>4. x.body = "followup"
      BY DEF Item
    <3> HIDE DEF j, x
    <3>5. q[j].body = "followup"
      BY <3>1, <3>4
    <3>6. Plain(q[j])
      BY <3>3, <3>5, RoleIs
    <3>7. LegalAt(q, j)
      BY <3>6 DEF LegalAt, Plain
    <3> QED BY <3>7 DEF j
  <2>3. \A i \in 1..Len(q) : i \in 1..Len(p) \/ \E j \in 1..n : i = Len(p) + j
    <3>1. ASSUME NEW i \in 1..Len(q), i \notin 1..Len(p)
          PROVE  i - Len(p) \in 1..n /\ i = Len(p) + (i - Len(p))
      BY <2>0, <3>1
    <3> QED BY <3>1
  <2>4. Legal(q)
    BY <1>1, <2>1, <2>2, <2>3, LegalIs
  <2> QED BY <1>1, <2>4 DEF q
<1> QED BY <1>2, <1>3

\* The transcripts, on disk, in the cache and in the runner, are legal; while
\* the tools run the runner's messages end with their calls.
LegalInv ==
  /\ Legal(disk.messages)
  /\ mem # None => Legal(mem.messages)
  /\ phase \in {"model", "ended"} => Legal(work)
  /\ phase = "tools" => Unanswered(work)

\* A response, the results of tools and the runner's own messages.
LEMMA BaseLegal ==
  ASSUME TypeInv, CheckpointInv, LegalInv, turn > 0, NEW b, Base(b)
  PROVE  b \in Seq(Entry) /\ Legal(b)
<1>1. work \in Seq(Entry)
  BY DEF TypeInv, TypeOK
<1>2. ASSUME NEW y \in {"nudge", "correction", "final"}
      PROVE  Item(y, iteration) \in Entry /\ Plain(Item(y, iteration))
  <2>1. y \in {"ask", "followup", "nudge", "correction", "final"}
    OBVIOUS
  <2> QED BY <2>1, PlainItem
<1>3. ASSUME NEW p \in Seq(Entry), Legal(p), NEW y \in {"nudge", "correction", "final"}
      PROVE  Append(p, Item(y, iteration)) \in Seq(Entry) /\ Legal(Append(p, Item(y, iteration)))
  BY <1>2, <1>3, LegalAppend, AppendProperties
<1>4. CASE phase = "model"
  <2>1. Answered \in Seq(Entry) /\ Legal(Answered)
    BY <1>1, <1>3, <1>4 DEF LegalInv, Answered
  <2> QED BY <1>3, <1>4, <2>1 DEF Base
<1>5. CASE phase = "tools"
  <2>1. Unanswered(work) /\ Last(work) = Item("calls", iteration)
    BY <1>5 DEF LegalInv, CheckpointInv
  <2>2. Item("result", iteration) = [Item("calls", iteration) EXCEPT !.body = "result"]
    BY DEF Item
  <2>3. Item("result", iteration) \in Entry
    <3>1. "result" \in Bodies
      BY DEF Bodies
    <3> QED BY <3>1, Items
  <2>4. \E y \in {"result", "interrupted"} : Item("result", iteration) = [Last(work) EXCEPT !.body = y]
    BY <2>1, <2>2
  <2>5. AfterTools \in Seq(Entry) /\ Legal(AfterTools)
    <3> DEFINE x == Item("result", iteration)
    <3> HIDE DEF x
    <3>1. x \in Entry /\ \E y \in {"result", "interrupted"} : x = [Last(work) EXCEPT !.body = y]
      BY <2>3, <2>4 DEF x
    <3>2. Append(work, x) \in Seq(Entry) /\ Legal(Append(work, x))
      BY <1>1, <2>1, <3>1, LegalAppend, AppendProperties
    <3> QED BY <3>2 DEF AfterTools, x
  <2> QED BY <1>3, <1>5, <2>5 DEF Base
<1> QED BY <1>4, <1>5 DEF Base

\* A restored checkpoint leaves the history legal.
LEMMA RestoredLegal ==
  ASSUME TypeInv, CheckpointInv, ~GuardsReports, disk.checkpoint # None,
         NEW m \in Seq(Entry), Legal(m), NEW j, Known(m, Materialize(disk.checkpoint), j)
  PROVE  Legal(m \o SubSeq(Materialize(disk.checkpoint), j + 1, Len(Materialize(disk.checkpoint))))
<1> DEFINE q == Materialize(disk.checkpoint)
<1>1. disk.checkpoint \in Checkpoint /\ Shape(disk.checkpoint)
  BY SessionFields DEF TypeInv, TypeOK, CheckpointInv
<1>2. q \in Seq(Entry) /\ Legal(q)
  BY <1>1, MaterializeLegal
<1> HIDE DEF q
<1>3. Legal(m \o SubSeq(q, j + 1, Len(q)))
  BY <1>2, LegalRestored DEF q
<1> QED BY <1>3 DEF q

\* The runner starts with the initial messages alone.
BlankInv == phase = "restored" => work = <<>> /\ iteration = 0

LEMMA BlankStep == TypeInv /\ BlankInv /\ [Next]_vars => BlankInv'
<1> SUFFICES ASSUME TypeInv, BlankInv, Step, phase' = "restored" PROVE work' = <<>> /\ iteration' = 0
  BY StepIs DEF BlankInv
<1>1. CASE \E k \in Kinds : BeginTurn(k)
  BY <1>1 DEF BeginTurn
<1>2. CASE TurnStep
  BY <1>2 DEF TurnStep, PersistAsk, BuildContinuation, CommandReply, Cancel, Fail, FailInStore,
              Dies, ClearSession, SaveTurn
<1>3. CASE ModelCalls \/ BudgetSpent
  BY <1>3 DEF ModelCalls, BudgetSpent
<1>4. CASE Grow \/ Keep
  BY <1>4 DEF Grow, Grows, Keep, Keeps
<1>5. CASE UNCHANGED vars
  BY <1>5 DEF vars, BlankInv
<1> QED BY <1>1, <1>2, <1>3, <1>4, <1>5 DEF Step

LEMMA BlankInvariant == Spec => []BlankInv
<1>1. Init => BlankInv
  BY DEF Init, BlankInv
<1> QED BY <1>1, TypeInvariant, BlankStep, PTL DEF Spec

LEMMA LegalBegin ==
  ASSUME TypeInv, CheckpointInv, LegalInv, ~GuardsReports, NEW k \in Kinds, BeginTurn(k)
  PROVE  LegalInv'
<1>1. Found \in Session /\ Found.messages \in Seq(Entry) /\ Legal(Found.messages)
  BY FoundIs, SessionFields DEF LegalInv, Found
<1>2. Legal(mem'.messages) /\ Legal(disk'.messages)
  <2>1. CASE disk.checkpoint # None
    BY <1>1, <2>1, BeginIs, RestoredLegal
  <2>2. CASE disk.checkpoint = None /\ Found.pendingUser
    <3>1. ASSUME NEW l \in Entry PROVE [l EXCEPT !.body = "notice"] \in Entry /\ Plain([l EXCEPT !.body = "notice"])
      <4>1. "notice" \in Bodies /\ "notice" \notin {"calls", "result", "interrupted"}
        BY DEF Bodies
      <4> QED BY <4>1, EntryUpdate, RoleIs
    <3>2. ASSUME NEW l \in Entry PROVE Legal(Append(Found.messages, [l EXCEPT !.body = "notice"]))
      BY <1>1, <3>1, LegalAppend
    <3> QED BY <1>1, <2>2, <3>2, BeginIs
  <2>3. CASE disk.checkpoint = None /\ ~Found.pendingUser
    BY <1>1, <2>3, BeginIs DEF LegalInv
  <2> QED BY <2>1, <2>2, <2>3
<1>3. phase' = "restored"
  BY DEF BeginTurn
<1> QED BY <1>2, <1>3 DEF LegalInv

LEMMA LegalTurn ==
  ASSUME TypeInv, CheckpointInv, BlankInv, LegalInv, ~GuardsReports, ~LongTails, TurnStep
  PROVE  LegalInv'
<1>0. /\ disk.messages \in Seq(Entry) /\ work \in Seq(Entry)
      /\ mem \in Session => mem.messages \in Seq(Entry)
      /\ phase # "idle" => turn > 0
  BY SessionFields DEF TypeInv, TypeOK, PhaseInv
<1>1. ASSUME turn > 0, NEW m \in Seq(Entry), Legal(m)
      PROVE  Legal(Append(m, Item("ask", 0))) /\ Legal(Append(m, Item("final", 0)))
  BY <1>1, PlainItem, LegalAppend
<1>2. CASE PersistAsk
  <2>1. phase # "idle" /\ mem # None /\ phase' \in {"model", "asked"} /\ work' = <<>>
    BY <1>2 DEF PersistAsk, TypeInv, PhaseInv, BlankInv
  <2>2. Legal(mem'.messages) /\ disk' = mem'
    BY <1>0, <1>1, <1>2, <2>1, AskIs DEF Has, LegalInv
  <2> QED BY <2>1, <2>2, LegalEmpty DEF LegalInv
<1>3. CASE BuildContinuation
  BY <1>3, LegalEmpty DEF BuildContinuation, BlankInv, LegalInv
<1>4. CASE CommandReply
  <2>1. phase # "idle" /\ mem # None /\ phase' = "idle"
    BY <1>4 DEF CommandReply, TypeInv, PhaseInv
  <2>2. Legal(mem'.messages) /\ Legal(disk'.messages)
    BY <1>0, <1>1, <1>4, <2>1, ReplyIs DEF Has, LegalInv
  <2> QED BY <2>1, <2>2 DEF LegalInv
<1>5. CASE Cancel
  <2>1. phase # "idle" /\ mem # None /\ phase' = "idle" /\ Legal(mem.messages) /\ Legal(disk.messages)
    BY <1>5 DEF Cancel, Cancellable, TypeInv, PhaseInv, LegalInv
  <2>2. Legal(mem'.messages) /\ Legal(disk'.messages)
    BY <1>0, <1>5, <2>1, CancelIs, RestoredLegal
  <2> QED BY <2>1, <2>2 DEF LegalInv
<1>6. CASE Fail \/ Dies
  BY <1>6 DEF Fail, Dies, LegalInv
<1>7. CASE FailInStore
  <2>1. phase # "idle" /\ mem # None /\ phase' = "idle" /\ Legal(mem.messages)
    BY <1>7 DEF FailInStore, TypeInv, PhaseInv, LegalInv
  <2>2. Legal(mem'.messages)
    <3>1. CASE phase = "restored" /\ mem'.messages = Append(mem.messages, Item("ask", 0))
      BY <1>0, <1>1, <1>7, <2>1, <3>1, StoreIs
    <3>2. CASE phase = "ended" /\ mem'.messages = mem.messages \o work
      BY <1>0, <1>7, <2>1, <3>2, StoreIs, LegalConcat DEF LegalInv
    <3> QED BY <1>7, <3>1, <3>2, StoreIs DEF Has
  <2> QED BY <1>7, <2>1, <2>2, StoreIs DEF LegalInv
<1>8. CASE ClearSession
  <2>1. phase' = "idle"
    BY <1>8 DEF ClearSession
  <2> QED BY <1>8, <2>1, ClearIs, LegalEmpty DEF Has, LegalInv
<1>9. CASE SaveTurn
  <2>1. phase # "idle" /\ mem # None /\ phase' = "idle" /\ Legal(mem.messages) /\ Legal(work)
    BY <1>9 DEF SaveTurn, TypeInv, PhaseInv, LegalInv
  <2> DEFINE m == mem.messages \o work
  <2>2. /\ mem'.messages = Capped(m) /\ disk' = mem' /\ mem \in Session
        /\ m \in Seq(Entry) /\ Fits(m)
    BY <1>9, SaveIs DEF Has
  <2>4. Legal(m)
    BY <1>0, <2>1, <2>2, LegalConcat
  <2> HIDE DEF m
  <2>3. Legal(mem'.messages)
    BY <2>2, <2>4, LegalCapped
  <2> QED BY <2>1, <2>2, <2>3 DEF LegalInv
<1> QED BY <1>2, <1>3, <1>4, <1>5, <1>6, <1>7, <1>8, <1>9 DEF TurnStep

LEMMA LegalRunner ==
  ASSUME TypeInv, CheckpointInv, LegalInv, ModelCalls \/ BudgetSpent \/ Grow \/ Keep
  PROVE  LegalInv'
<1>0. /\ work \in Seq(Entry)
      /\ phase # "idle" => turn > 0 /\ mem # None
  BY DEF TypeInv, TypeOK, PhaseInv
<1>1. CASE ModelCalls
  <2>1. phase = "model" /\ Item("calls", iteration).body = "calls"
    BY <1>1 DEF ModelCalls, Item
  <2>2. Legal(mem.messages) /\ Legal(work)
    BY <1>0, <2>1 DEF LegalInv
  <2>3. Unanswered(work')
    <3> DEFINE x == Item("calls", iteration)
    <3> HIDE DEF x
    <3>1. x \in Entry /\ x.body = "calls" /\ work' = Append(work, x)
      BY <1>1, <2>1, CallsIs DEF x
    <3> QED BY <1>0, <2>2, <3>1, LegalAppend
  <2> QED BY <1>1, <2>2, <2>3, CallsIs DEF Has, LegalInv
<1>2. CASE BudgetSpent
  <2>1. PICK n \in 0..MaxFollowUps :
           /\ followups + n <= MaxFollowUps
           /\ work' \in {InjectedAfter(work, n), Append(InjectedAfter(work, n), Item("final", iteration))}
           /\ phase = "model" /\ phase' = "ended"
           /\ UNCHANGED <<disk, mem, turn, kind, iteration>>
    BY <1>2, BudgetIs
  <2>2. Legal(work')
    <3> DEFINE q == InjectedAfter(work, n)
               x == Item("final", iteration)
    <3>1. q \in Seq(Entry) /\ Legal(q)
      BY <1>0, <2>1, InjectedLegal DEF LegalInv
    <3>2. x \in Entry /\ Plain(x)
      <4>1. turn > 0
        BY <1>0, <2>1
      <4>2. "final" \in {"ask", "followup", "nudge", "correction", "final"}
        OBVIOUS
      <4> QED BY <4>1, <4>2, PlainItem
    <3> HIDE DEF q, x
    <3>3. Legal(Append(q, x))
      BY <3>1, <3>2, LegalAppend
    <3>4. work' \in {q, Append(q, x)}
      BY <2>1 DEF q, x
    <3> QED BY <3>1, <3>3, <3>4
  <2> QED BY <2>1, <2>2 DEF LegalInv
<1>3. CASE Grow
  <2>1. PICK b, n : n \in 0..MaxFollowUps /\ Grows(b, n)
    BY <1>3 DEF Grow
  <2>2. Base(b) /\ Marks /\ phase # "idle" /\ turn > 0 /\ mem # None /\ phase' \in {"model", "ended"}
    BY <1>0, <2>1 DEF Grows, Base
  <2>3. b \in Seq(Entry) /\ Legal(b)
    BY <2>2, BaseLegal
  <2>4. InjectedAfter(b, n) \in Seq(Entry) /\ Legal(InjectedAfter(b, n))
    BY <2>1, <2>2, <2>3, InjectedLegal DEF Grows
  <2>5. Legal(work')
    BY <2>1, <2>3, <2>4 DEF Grows
  <2>6. Legal(mem.messages) /\ Legal(disk.messages)
    BY <2>2 DEF LegalInv
  <2>7. Legal(mem'.messages) /\ Legal(disk'.messages)
    BY <2>2, <2>6, MarksIs
  <2> QED BY <2>2, <2>5, <2>7 DEF LegalInv
<1>4. CASE Keep
  <2>1. PICK n \in 0..MaxFollowUps : Keeps(n)
    BY <1>4 DEF Keep
  <2>2. Legal(InjectedAfter(work, n))
    BY <1>0, <2>1, InjectedLegal DEF Keeps, LegalInv
  <2> QED BY <2>1, <2>2 DEF Keeps, LegalInv
<1> QED BY <1>1, <1>2, <1>3, <1>4

LEMMA LegalStep ==
  ASSUME ~GuardsReports, ~LongTails
  PROVE  TypeInv /\ CheckpointInv /\ BlankInv /\ LegalInv /\ [Next]_vars => LegalInv'
<1> SUFFICES ASSUME TypeInv, CheckpointInv, BlankInv, LegalInv, Step PROVE LegalInv'
  BY StepIs
<1>1. CASE UNCHANGED vars
  BY <1>1 DEF vars, LegalInv
<1> QED BY <1>1, LegalBegin, LegalTurn, LegalRunner DEF Step

\* Whatever cancels, fails, restarts or clears the turns of a session, a
\* provider accepts its history: every tool call in it is followed by its
\* result and every result follows its call, in the file and in the cache.
\* Final responses beside calls of reporting tools are taken out
\* (GuardsReports): the code drops the results from their checkpoint.  So are
\* turns of more than FileCap messages (LongTails): what the cap keeps of them
\* may end in calls.
THEOREM TranscriptsAreLegal ==
  ASSUME ~GuardsReports, ~LongTails
  PROVE  Spec => []LegalTranscript
<1>1. Init => LegalInv
  BY LegalEmpty DEF Init, EmptySession, LegalInv
<1>2. Spec => []LegalInv
  BY <1>1, TypeInvariant, CheckpointInvariant, BlankInvariant, LegalStep, PTL DEF Spec
<1>3. LegalInv => LegalTranscript
  BY DEF LegalInv, LegalTranscript
<1> QED BY <1>2, <1>3, PTL
-----------------------------------------------------------------------------
(* Asks and reactions *)

AllAnswered(q) == \A i \in 1..Len(q) : q[i].body = "ask" /\ i < Len(q) => Role(q[i + 1]) = "assistant"
EndsInAsk(q)   == q # <<>> /\ q[Len(q)].body = "ask"

\* The runner's messages have no ask, and the first is the assistant's.
Reaction(q) ==
  /\ \A i \in 1..Len(q) : q[i].body # "ask"
  /\ q # <<>> => Role(q[1]) = "assistant"

LEMMA AnsweredAppend ==
  ASSUME NEW p \in Seq(Entry), NEW x \in Entry, AllAnswered(p), EndsInAsk(p) => Role(x) = "assistant"
  PROVE  AllAnswered(Append(p, x)) /\ (EndsInAsk(Append(p, x)) <=> x.body = "ask")
<1> DEFINE q == Append(p, x)
           n == Len(p)
<1>1. /\ n \in Nat /\ Len(q) = n + 1 /\ q[n + 1] = x /\ q # <<>>
      /\ \A i \in 1..n : q[i] = p[i]
      /\ n > 0 => p # <<>>
  BY AppendProperties, LenProperties
<1> HIDE DEF q
<1>2. ASSUME NEW i \in 1..Len(q), q[i].body = "ask", i < Len(q) PROVE Role(q[i + 1]) = "assistant"
  <2>1. i \in 1..n /\ q[i] = p[i]
    BY <1>1, <1>2
  <2>2. CASE i < n
    <3>1. i + 1 \in 1..n
      BY <1>1, <2>1, <2>2
    <3>2. q[i + 1] = p[i + 1]
      BY <1>1, <3>1
    <3> QED BY <1>2, <2>1, <2>2, <3>2 DEF AllAnswered
  <2>3. CASE i = n
    BY <1>1, <1>2, <2>1, <2>3 DEF EndsInAsk
  <2> QED BY <1>1, <2>1, <2>2, <2>3
<1>3. EndsInAsk(q) <=> x.body = "ask"
  BY <1>1 DEF EndsInAsk
<1>4. AllAnswered(q)
  BY <1>2 DEF AllAnswered
<1> QED BY <1>3, <1>4 DEF q

LEMMA AnsweredConcat ==
  ASSUME NEW p \in Seq(Entry), NEW r \in Seq(Entry), AllAnswered(p), r # <<>>,
         \A i \in 1..Len(r) : r[i].body # "ask", EndsInAsk(p) => Role(r[1]) = "assistant"
  PROVE  AllAnswered(p \o r) /\ ~EndsInAsk(p \o r)
<1> DEFINE q == p \o r
           n == Len(p)
<1>0. n \in Nat /\ Len(r) \in Nat /\ Len(r) > 0
  BY LenProperties, EmptySeq
<1>1. /\ q \in Seq(Entry) /\ Len(q) = n + Len(r)
      /\ \A i \in 1..n : q[i] = p[i]
      /\ \A i \in 1..Len(r) : q[n + i] = r[i]
      /\ n > 0 => p # <<>>
  BY <1>0
<1> HIDE DEF q
<1>2. ASSUME NEW i \in 1..Len(q), q[i].body = "ask", i < Len(q) PROVE Role(q[i + 1]) = "assistant"
  <2>1. CASE i > n
    <3>1. i - n \in 1..Len(r) /\ n + (i - n) = i
      BY <1>0, <1>1, <2>1
    <3>2. q[i] = r[i - n]
      BY <1>1, <3>1
    <3> QED BY <1>2, <3>1, <3>2
  <2>2. CASE i < n
    <3>1. i \in 1..n /\ i + 1 \in 1..n
      BY <1>0, <1>1, <2>2
    <3>2. q[i] = p[i] /\ q[i + 1] = p[i + 1]
      BY <1>1, <3>1
    <3> QED BY <1>2, <2>2, <3>1, <3>2 DEF AllAnswered
  <2>3. CASE i = n
    <3>1. i \in 1..n /\ 1 \in 1..Len(r)
      BY <1>0, <1>1, <2>3
    <3>2. q[i] = p[i] /\ q[n + 1] = r[1]
      BY <1>1, <3>1
    <3> QED BY <1>1, <1>2, <2>3, <3>1, <3>2 DEF EndsInAsk
  <2> QED BY <1>0, <1>1, <2>1, <2>2, <2>3
<1>3. ~EndsInAsk(q)
  <2>1. Len(r) \in 1..Len(r)
    BY <1>0
  <2>2. q[Len(q)] = r[Len(r)]
    BY <1>1, <2>1
  <2> QED BY <2>1, <2>2 DEF EndsInAsk
<1>4. AllAnswered(q)
  BY <1>2 DEF AllAnswered
<1> QED BY <1>3, <1>4 DEF q

\* Restoring a checkpoint answers the ask before it.
LEMMA AnsweredRestored ==
  ASSUME NEW m \in Seq(Entry), NEW q \in Seq(Entry), NEW k, Known(m, q, k),
         AllAnswered(m), Reaction(q), q # <<>>,
         SubSeq(q, k + 1, Len(q)) \in Seq(Entry)
  PROVE  /\ AllAnswered(m \o SubSeq(q, k + 1, Len(q)))
         /\ ~EndsInAsk(m \o SubSeq(q, k + 1, Len(q)))
<1> DEFINE r == SubSeq(q, k + 1, Len(q))
<1>1. /\ Len(m) \in Nat /\ Len(q) \in Nat /\ Len(q) > 0
      /\ k \in 0..Len(q) /\ k <= Len(m)
      /\ \A i \in 1..k : m[Len(m) - k + i] = q[i]
  BY LenProperties, EmptySeq DEF Known
<1>2. r \in Seq(Entry) /\ Len(r) = Len(q) - k /\ \A i \in 1..(Len(q) - k) : r[i] = q[k + i]
  BY <1>1
<1> HIDE DEF r
<1>3. k > 0 => ~EndsInAsk(m)
  <2>1. SUFFICES ASSUME k > 0 PROVE m[Len(m)].body # "ask"
    BY DEF EndsInAsk
  <2>2. k \in 1..k /\ k \in 1..Len(q) /\ Len(m) - k + k = Len(m)
    BY <1>1, <2>1
  <2>3. m[Len(m)] = q[k]
    BY <1>1, <2>2
  <2> QED BY <2>2, <2>3 DEF Reaction
<1>4. CASE r = <<>>
  <2>1. k > 0 /\ m \o r = m
    <3>1. Len(r) = 0
      BY <1>4
    <3>2. m \o <<>> = m
      OBVIOUS
    <3> QED BY <1>1, <1>2, <1>4, <3>1, <3>2
  <2> QED BY <1>3, <2>1 DEF r
<1>5. CASE r # <<>>
  <2>1. \A i \in 1..Len(r) : r[i].body # "ask"
    <3>1. \A i \in 1..Len(r) : i \in 1..(Len(q) - k) /\ k + i \in 1..Len(q)
      BY <1>1, <1>2
    <3> QED BY <1>2, <3>1 DEF Reaction
  <2>2. k = 0 => Role(r[1]) = "assistant"
    <3>1. 1 \in 1..(Len(q) - k) \/ k # 0
      BY <1>1
    <3>2. k = 0 => r[1] = q[1]
      BY <1>2, <3>1
    <3> QED BY <3>2 DEF Reaction
  <2>3. EndsInAsk(m) => Role(r[1]) = "assistant"
    BY <1>1, <1>3, <2>2
  <2>4. AllAnswered(m \o r) /\ ~EndsInAsk(m \o r)
    BY <1>2, <1>5, <2>1, <2>3, AnsweredConcat
  <2> QED BY <2>4 DEF r
<1> QED BY <1>4, <1>5

\* A checkpoint is a reaction.
LEMMA MaterializeReaction ==
  ASSUME NEW c \in Checkpoint, Shape(c)
  PROVE  Materialize(c) \in Seq(Entry) /\ Reaction(Materialize(c)) /\ Materialize(c) # <<>>
<1> DEFINE e == c.assistant
           q == Materialize(c)
<1>1. e \in Entry /\ q \in Seq(Entry) /\ e.body \in {"final", "calls"}
  BY ShapeIs, MaterializeType
<1>2. Role(e) = "assistant" /\ e.body # "ask"
  BY <1>1, RoleIs
<1>3. CASE q = <<e>>
  <2>1. Len(q) = 1 /\ q[1] = e /\ q # <<>>
    BY <1>1, <1>3
  <2> HIDE DEF q, e
  <2> QED BY <1>1, <1>2, <2>1 DEF Reaction, q
<1>4. ASSUME NEW y \in {"result", "interrupted"}, q = <<e, [e EXCEPT !.body = y]>>
      PROVE  Reaction(q) /\ q # <<>>
  <2> DEFINE x == [e EXCEPT !.body = y]
  <2>1. x.body # "ask"
    <3>1. y \in Bodies /\ y # "ask"
      BY DEF Bodies
    <3> QED BY <1>1, <3>1, EntryUpdate
  <2>2. Len(q) = 2 /\ q[1] = e /\ q[2] = x /\ q # <<>>
    BY <1>1, <1>4
  <2> HIDE DEF q, e, x
  <2>3. \A i \in 1..Len(q) : i = 1 \/ i = 2
    BY <2>2
  <2> QED BY <1>2, <2>1, <2>2, <2>3 DEF Reaction
<1> QED BY <1>1, <1>3, <1>4, ShapeIs

\* The runner's messages stay a reaction.
LEMMA ReactionAppend ==
  ASSUME NEW p \in Seq(Entry), NEW x \in Entry, Reaction(p), x.body # "ask",
         p = <<>> => Role(x) = "assistant"
  PROVE  Append(p, x) \in Seq(Entry) /\ Append(p, x) # <<>> /\ Reaction(Append(p, x))
<1> DEFINE q == Append(p, x)
           n == Len(p)
<1>1. /\ n \in Nat /\ q \in Seq(Entry) /\ Len(q) = n + 1 /\ q[n + 1] = x /\ q # <<>>
      /\ \A i \in 1..n : q[i] = p[i]
  BY AppendProperties, LenProperties
<1>2. p # <<>> => n > 0
  BY EmptySeq, LenProperties
<1> HIDE DEF q
<1>3. \A i \in 1..Len(q) : i \in 1..n \/ i = n + 1
  BY <1>1
<1>4. \A i \in 1..Len(q) : q[i].body # "ask"
  BY <1>1, <1>3 DEF Reaction
<1>5. Role(q[1]) = "assistant"
  <2>1. CASE p = <<>>
    <3>1. n = 0
      BY <2>1
    <3> QED BY <1>1, <2>1, <3>1
  <2>2. CASE p # <<>>
    <3>1. 1 \in 1..n
      BY <1>1, <1>2, <2>2
    <3> QED BY <1>1, <2>2, <3>1 DEF Reaction
  <2> QED BY <2>1, <2>2
<1>6. Reaction(q)
  BY <1>4, <1>5 DEF Reaction
<1> QED BY <1>1, <1>6 DEF q

LEMMA ReactionInjected ==
  ASSUME TypeInv, turn > 0, NEW p \in Seq(Entry), NEW n \in 0..MaxFollowUps,
         followups + n <= MaxFollowUps, Reaction(p)
  PROVE  /\ InjectedAfter(p, n) \in Seq(Entry) /\ Reaction(InjectedAfter(p, n))
         /\ p # <<>> => InjectedAfter(p, n) # <<>>
<1> DEFINE q == InjectedAfter(p, n)
<1>1. /\ q \in Seq(Entry)
      /\ p = <<>> => q = <<>>
      /\ p # <<>> => /\ Len(q) = Len(p) + n
                     /\ \A i \in 1..Len(p) : q[i] = p[i]
                     /\ \A i \in 1..n : q[Len(p) + i] = Item("followup", followups + i)
  BY InjectedIs
<1> HIDE DEF q
<1>2. CASE p = <<>>
  BY <1>1, <1>2 DEF q
<1>3. CASE p # <<>>
  <2>0. Len(p) \in Nat /\ Len(p) > 0 /\ n \in Nat /\ Len(q) = Len(p) + n
    BY <1>1, <1>3, LenProperties, EmptySeq, HistoryAssumption
  <2>1. \A i \in 1..n : Item("followup", followups + i).body # "ask"
    BY DEF Item
  <2>2. \A i \in 1..n : q[Len(p) + i].body # "ask"
    BY <1>1, <1>3, <2>1, Zenon
  <2>3. \A i \in 1..Len(p) : q[i].body # "ask"
    BY <1>1, <1>3 DEF Reaction
  <2>4. \A i \in 1..Len(q) : i \in 1..Len(p) \/ \E j \in 1..n : i = Len(p) + j
    <3>1. ASSUME NEW i \in 1..Len(q), i \notin 1..Len(p)
          PROVE  i - Len(p) \in 1..n /\ i = Len(p) + (i - Len(p))
      BY <2>0, <3>1
    <3> QED BY <3>1
  <2>5. \A i \in 1..Len(q) : q[i].body # "ask"
    BY <2>2, <2>3, <2>4
  <2>6. 1 \in 1..Len(p) /\ Len(q) > 0
    BY <2>0
  <2>7. Role(q[1]) = "assistant" /\ q # <<>>
    BY <1>1, <1>3, <2>6 DEF Reaction
  <2> QED BY <1>1, <2>5, <2>7 DEF Reaction, q
<1> QED BY <1>2, <1>3

\* The end of a history keeps its asks and what follows them.
LEMMA AnsweredCapped ==
  ASSUME NEW m \in Seq(Entry), AllAnswered(m), ~EndsInAsk(m), Fits(m)
  PROVE  AllAnswered(Capped(m)) /\ ~EndsInAsk(Capped(m))
<1>1. PICK i, j : Keeping(m, i, j) /\ Slice(m, Capped(m), i, j)
  BY CappedIs
<1> DEFINE q == Capped(m)
           n == Len(m)
<1>2. /\ n \in Nat /\ q \in Seq(Entry) /\ Len(q) \in Nat
      /\ i \in 1..n + 1 /\ j = n /\ Len(q) = j - i + 1
      /\ \A k \in 1..Len(q) : q[k] = m[k + i - 1]
      /\ q # <<>> => Len(q) > 0
      /\ n > 0 => m # <<>>
  BY <1>1, EmptySeq, LenProperties DEF Keeping, Slice
<1> HIDE DEF q
<1>3. ASSUME NEW k \in 1..Len(q), q[k].body = "ask", k < Len(q) PROVE Role(q[k + 1]) = "assistant"
  <2>1. k + i - 1 \in 1..n /\ k + i - 1 < n /\ k + 1 \in 1..Len(q) /\ (k + 1) + i - 1 = (k + i - 1) + 1
    BY <1>2, <1>3
  <2>2. m[k + i - 1].body = "ask" /\ q[k + 1] = m[(k + i - 1) + 1]
    BY <1>2, <1>3, <2>1
  <2> DEFINE l == k + i - 1
  <2> HIDE DEF l
  <2>3. l \in 1..n /\ l < n /\ m[l].body = "ask" /\ q[k + 1] = m[l + 1]
    BY <2>1, <2>2 DEF l
  <2> QED BY <2>3 DEF AllAnswered
<1>4. ~EndsInAsk(q)
  <2>1. SUFFICES ASSUME q # <<>>, q[Len(q)].body = "ask" PROVE FALSE
    BY DEF EndsInAsk
  <2>2. Len(q) \in 1..Len(q) /\ Len(q) + i - 1 = n /\ n > 0
    BY <1>2, <2>1
  <2>3. q[Len(q)] = m[n]
    BY <1>2, <2>2
  <2> QED BY <1>2, <2>1, <2>2, <2>3 DEF EndsInAsk
<1>5. AllAnswered(q)
  BY <1>3 DEF AllAnswered
<1> QED BY <1>4, <1>5 DEF q

\* Whatever ends in an ask says so in its flags.
Closes(s) == EndsInAsk(s.messages) => s.pendingUser \/ s.checkpoint # None

\* The asks of the history are answered, but for the last one, which the flags
\* of the session keep open until the next turn; that of a turn in progress is
\* answered by what the runner has.
AskInv ==
  /\ AllAnswered(disk.messages)
  /\ Closes(disk) /\ (mem # None => Closes(mem))
  /\ phase = "restored" => ~EndsInAsk(disk.messages)
  /\ phase \in {"model", "tools", "ended"} => Reaction(work)
  /\ phase = "ended" \/ (phase = "model" /\ iteration = MaxIterations) => work # <<>>

\* The same of a session that is saved.
AskSaved ==
  /\ AllAnswered(disk'.messages) /\ Closes(disk') /\ (mem' # None => Closes(mem'))

LEMMA AskBegin ==
  ASSUME TypeInv, CheckpointInv, SameInv, AskInv, ~StoreMayFail, NEW k \in Kinds, BeginTurn(k)
  PROVE  AskInv'
<1>1. /\ Found \in Session /\ Found.messages \in Seq(Entry) /\ Found.checkpoint = disk.checkpoint
      /\ Found.messages = disk.messages /\ AllAnswered(Found.messages) /\ Closes(Found)
  BY FoundIs, SessionFields DEF AskInv, SameInv, Found
<1>2. phase' = "restored"
  BY DEF BeginTurn
<1>3. ASSUME AllAnswered(disk'.messages), ~EndsInAsk(disk'.messages), disk' = mem' PROVE AskInv'
  BY <1>2, <1>3 DEF AskInv, Closes
<1>4. CASE disk.checkpoint # None
  <2>1. disk.checkpoint \in Checkpoint /\ Shape(disk.checkpoint)
    BY <1>4, SessionFields DEF TypeInv, TypeOK, CheckpointInv
  <2>2. PICK j : /\ Known(Found.messages, Materialize(disk.checkpoint), j)
                 /\ SubSeq(Materialize(disk.checkpoint), j + 1, Len(Materialize(disk.checkpoint))) \in Seq(Entry)
                 /\ mem'.messages = Found.messages \o
                      SubSeq(Materialize(disk.checkpoint), j + 1, Len(Materialize(disk.checkpoint)))
    BY <1>4, BeginIs
  <2>3. AllAnswered(mem'.messages) /\ ~EndsInAsk(mem'.messages)
    BY <1>1, <2>1, <2>2, MaterializeReaction, AnsweredRestored
  <2> QED BY <1>3, <1>4, <2>3, BeginIs
<1>5. CASE disk.checkpoint = None /\ Found.pendingUser
  <2>1. CASE mem'.messages = Found.messages /\ (mem'.messages = <<>> \/ Role(Last(mem'.messages)) # "user")
    <3>1. ~EndsInAsk(mem'.messages)
      <4>1. ASSUME EndsInAsk(mem'.messages) PROVE FALSE
        <5>1. mem'.messages # <<>> /\ Last(mem'.messages).body = "ask" /\ mem'.messages \in Seq(Entry)
          BY <1>1, <2>1, <4>1 DEF EndsInAsk, Last
        <5>2. Last(mem'.messages) \in Entry
          BY <5>1 DEF Last
        <5>3. Role(Last(mem'.messages)) = "user"
          BY <5>1, <5>2, RoleIs
        <5> QED BY <2>1, <5>1, <5>3
      <4> QED BY <4>1
    <3> QED BY <1>1, <1>3, <1>5, <2>1, <3>1, BeginIs
  <2>2. ASSUME NEW l \in Entry, mem'.messages = Append(Found.messages, [l EXCEPT !.body = "notice"])
        PROVE  AskInv'
    <3> DEFINE x == [l EXCEPT !.body = "notice"]
    <3>1. x \in Entry /\ x.body = "notice"
      <4>1. "notice" \in Bodies
        BY DEF Bodies
      <4> QED BY <4>1, EntryUpdate
    <3>2. Role(x) = "assistant"
      BY <3>1, RoleIs
    <3> HIDE DEF x
    <3>3. AllAnswered(Append(Found.messages, x)) /\ ~EndsInAsk(Append(Found.messages, x))
      BY <1>1, <3>1, <3>2, AnsweredAppend
    <3>4. disk' = mem'
      BY <1>5, BeginIs
    <3> QED BY <1>3, <2>2, <3>3, <3>4 DEF x
  <2> QED BY <1>5, <2>1, <2>2, BeginIs
<1>6. CASE disk.checkpoint = None /\ ~Found.pendingUser
  <2>1. mem' = Found /\ disk' = disk
    BY <1>6, BeginIs
  <2>2. ~EndsInAsk(Found.messages)
    BY <1>1, <1>6 DEF Closes
  <2> QED BY <1>1, <1>2, <2>1, <2>2 DEF AskInv
<1> QED BY <1>4, <1>5, <1>6

LEMMA AskTurn ==
  ASSUME TypeInv, CheckpointInv, SameInv, BlankInv, AskInv, ~StoreMayFail, ~LongTails, TurnStep
  PROVE  AskInv'
<1>0. /\ disk.messages \in Seq(Entry) /\ work \in Seq(Entry)
      /\ phase # "idle" => turn > 0 /\ mem # None
      /\ mem # None => mem.messages = disk.messages /\ mem.messages \in Seq(Entry)
      /\ MaxIterations # 0
  BY SessionFields, HistoryAssumption DEF TypeInv, TypeOK, PhaseInv, SameInv
<1>1. ASSUME phase' = "idle", AskSaved PROVE AskInv'
  BY <1>1 DEF AskInv, AskSaved
<1>2. ASSUME turn > 0
      PROVE  /\ Item("ask", 0) \in Entry /\ Role(Item("ask", 0)) = "user" /\ Item("ask", 0).body = "ask"
             /\ Item("final", 0) \in Entry /\ Role(Item("final", 0)) = "assistant"
             /\ Item("final", 0).body # "ask"
  BY <1>2, Items, RoleIs DEF Bodies
<1>3. Reaction(<<>>)
  BY DEF Reaction
<1>4. CASE PersistAsk
  <2>1. phase = "restored" /\ turn > 0 /\ mem # None /\ phase' \in {"model", "asked"} /\ work' = <<>>
        /\ iteration' = 0
    BY <1>0, <1>4 DEF PersistAsk, BlankInv
  <2>2. disk'.messages = Append(mem.messages, Item("ask", 0)) /\ disk'.pendingUser /\ disk' = mem'
    BY <1>4, AskIs DEF Has
  <2>3. AllAnswered(disk'.messages)
    <3> DEFINE x == Item("ask", 0)
    <3> HIDE DEF x
    <3>1. x \in Entry /\ disk'.messages = Append(mem.messages, x)
      BY <1>2, <2>1, <2>2 DEF x
    <3>2. AllAnswered(mem.messages) /\ ~EndsInAsk(mem.messages)
      BY <1>0, <2>1 DEF AskInv
    <3> QED BY <1>0, <2>1, <3>1, <3>2, AnsweredAppend
  <2> QED BY <1>0, <1>3, <2>1, <2>2, <2>3 DEF AskInv, Closes
<1>5. CASE BuildContinuation
  <2>1. phase' = "model" /\ UNCHANGED <<disk, mem>> /\ work' = <<>> /\ iteration' = 0
    BY <1>5 DEF BuildContinuation, BlankInv
  <2> QED BY <1>0, <1>3, <2>1 DEF AskInv
<1>6. CASE CommandReply
  <2>1. turn > 0 /\ mem # None /\ phase' = "idle"
    BY <1>0, <1>6 DEF CommandReply
  <2>2. /\ disk'.messages = Append(mem.messages, Item("final", 0))
        /\ mem'.messages = Append(mem.messages, Item("final", 0))
    BY <1>6, ReplyIs DEF Has
  <2>3. AllAnswered(disk'.messages) /\ ~EndsInAsk(disk'.messages) /\ mem'.messages = disk'.messages
    <3> DEFINE x == Item("final", 0)
    <3> HIDE DEF x
    <3>1. x \in Entry /\ Role(x) = "assistant" /\ x.body # "ask"
          /\ disk'.messages = Append(mem.messages, x) /\ mem'.messages = Append(mem.messages, x)
      BY <1>2, <2>1, <2>2 DEF x
    <3> QED BY <1>0, <2>1, <3>1, AnsweredAppend DEF AskInv
  <2> QED BY <1>1, <2>1, <2>3 DEF AskSaved, Closes
<1>7. CASE Cancel
  <2>1. mem # None /\ phase' = "idle"
    BY <1>0, <1>7 DEF Cancel, Cancellable
  <2>2. CASE UNCHANGED <<disk, mem>>
    BY <1>1, <2>1, <2>2 DEF AskInv, AskSaved
  <2>3. CASE disk' = mem' /\ disk.checkpoint # None
    <3>1. disk.checkpoint \in Checkpoint /\ Shape(disk.checkpoint)
      BY <2>3, SessionFields DEF TypeInv, TypeOK, CheckpointInv
    <3>2. CASE UNCHANGED <<disk, mem>>
      BY <2>2, <3>2
    <3>3. CASE ~ UNCHANGED <<disk, mem>>
      <4>1. PICK j : /\ Known(mem.messages, Materialize(disk.checkpoint), j)
                     /\ SubSeq(Materialize(disk.checkpoint), j + 1, Len(Materialize(disk.checkpoint))) \in Seq(Entry)
                     /\ mem'.messages = mem.messages \o
                          SubSeq(Materialize(disk.checkpoint), j + 1, Len(Materialize(disk.checkpoint)))
        BY <1>7, <3>3, CancelIs
      <4>2. AllAnswered(mem'.messages) /\ ~EndsInAsk(mem'.messages)
        BY <1>0, <2>1, <3>1, <4>1, MaterializeReaction, AnsweredRestored DEF AskInv
      <4> QED BY <1>1, <2>1, <2>3, <4>2 DEF AskSaved, Closes
    <3> QED BY <3>2, <3>3
  <2> QED BY <1>7, <2>2, <2>3, CancelIs
<1>8. CASE Fail \/ Dies
  BY <1>8 DEF Fail, Dies, AskInv
<1>9. CASE FailInStore
  BY <1>9, StoreIs
<1>10. CASE ClearSession
  <2>1. phase' = "idle" /\ mem' = None /\ disk'.messages = <<>>
    BY <1>10, ClearIs DEF ClearSession, Has
  <2>2. AllAnswered(<<>>) /\ ~EndsInAsk(<<>>)
    BY DEF AllAnswered, EndsInAsk
  <2> QED BY <1>1, <2>1, <2>2 DEF AskSaved, Closes
<1>11. CASE SaveTurn
  <2>1. phase' = "idle" /\ mem # None /\ Reaction(work) /\ work # <<>>
    BY <1>0, <1>11 DEF SaveTurn, AskInv
  <2> DEFINE m == mem.messages \o work
  <2>2. mem'.messages = Capped(m) /\ disk' = mem' /\ m \in Seq(Entry) /\ Fits(m)
    BY <1>11, SaveIs DEF Has
  <2>4. AllAnswered(m) /\ ~EndsInAsk(m)
    BY <1>0, <2>1, AnsweredConcat DEF AskInv, Reaction
  <2> HIDE DEF m
  <2>3. AllAnswered(mem'.messages) /\ ~EndsInAsk(mem'.messages)
    BY <2>2, <2>4, AnsweredCapped
  <2> QED BY <1>1, <2>1, <2>2, <2>3 DEF AskSaved, Closes
<1> QED BY <1>4, <1>5, <1>6, <1>7, <1>8, <1>9, <1>10, <1>11 DEF TurnStep

\* The messages of the runner's steps.
LEMMA ReactionBase ==
  ASSUME TypeInv, CheckpointInv, AskInv, turn > 0, NEW b, Base(b)
  PROVE  b \in Seq(Entry) /\ Reaction(b) /\ b # <<>>
<1>1. work \in Seq(Entry) /\ Reaction(work)
  BY DEF TypeInv, TypeOK, AskInv, Base
<1>2. ASSUME NEW y \in {"nudge", "correction", "final", "result"}
      PROVE  Item(y, iteration) \in Entry /\ Item(y, iteration).body = y
             /\ Item(y, iteration).body # "ask"
  <2>1. y \in Bodies /\ y # "ask"
    BY DEF Bodies
  <2> QED BY <2>1, Items
<1>3. Role(Item("final", iteration)) = "assistant"
  BY <1>2, RoleIs
<1>4. phase = "model" => Answered \in Seq(Entry) /\ Answered # <<>> /\ Reaction(Answered)
  <2> DEFINE x == Item("final", iteration)
  <2> HIDE DEF x
  <2>1. x \in Entry /\ x.body # "ask" /\ Role(x) = "assistant"
    BY <1>2, <1>3 DEF x
  <2> QED BY <1>1, <2>1, ReactionAppend DEF Answered, x
<1>5. phase = "tools" => AfterTools \in Seq(Entry) /\ AfterTools # <<>> /\ Reaction(AfterTools)
  <2> DEFINE x == Item("result", iteration)
  <2> HIDE DEF x
  <2>1. x \in Entry /\ x.body # "ask"
    BY <1>2 DEF x
  <2>2. phase = "tools" => work # <<>>
    BY DEF CheckpointInv
  <2> QED BY <1>1, <2>1, <2>2, ReactionAppend DEF AfterTools, x
<1>6. ASSUME NEW p \in Seq(Entry), p # <<>>, Reaction(p), NEW y \in {"nudge", "correction", "final"}
      PROVE  Append(p, Item(y, iteration)) \in Seq(Entry) /\ Append(p, Item(y, iteration)) # <<>>
             /\ Reaction(Append(p, Item(y, iteration)))
  BY <1>2, <1>6, ReactionAppend
<1>7. CASE phase = "model"
  BY <1>4, <1>6, <1>7 DEF Base
<1>8. CASE phase = "tools"
  BY <1>5, <1>6, <1>8 DEF Base
<1> QED BY <1>7, <1>8 DEF Base

LEMMA AskRunner ==
  ASSUME TypeInv, CheckpointInv, SameInv, AskInv, ~StoreMayFail, ModelCalls \/ BudgetSpent \/ Grow \/ Keep
  PROVE  AskInv'
<1>0. /\ work \in Seq(Entry) /\ MaxIterations \in Nat /\ iteration \in Nat
      /\ phase # "idle" => turn > 0 /\ mem # None
      /\ mem # None => mem.messages = disk.messages
  BY HistoryAssumption DEF TypeInv, TypeOK, PhaseInv, SameInv
<1>1. CASE ModelCalls
  <2>1. phase = "model" /\ turn > 0 /\ mem # None
    BY <1>0, <1>1 DEF ModelCalls
  <2>2. Reaction(work')
    <3> DEFINE x == Item("calls", iteration)
    <3>1. x \in Entry /\ x.body = "calls"
      BY <1>1, CallsIs DEF Item
    <3>2. Role(x) = "assistant"
      BY <3>1, RoleIs
    <3>3. work' = Append(work, x)
      BY <1>1, CallsIs
    <3> HIDE DEF x
    <3> QED BY <1>0, <2>1, <3>1, <3>2, <3>3, ReactionAppend DEF AskInv
  <2>3. disk'.messages = disk.messages /\ disk' = mem' /\ phase' = "tools" /\ disk'.checkpoint # None
    <3>1. TypeInv' /\ CheckpointInv'
      BY <1>1, TypeStep, CheckpointStep DEF Next
    <3> QED BY <1>0, <1>1, <2>1, <3>1, CallsIs DEF Has, CheckpointInv
  <2> QED BY <2>2, <2>3 DEF AskInv, Closes
<1>2. CASE BudgetSpent
  <2>1. PICK n \in 0..MaxFollowUps :
           /\ followups + n <= MaxFollowUps
           /\ work' \in {InjectedAfter(work, n), Append(InjectedAfter(work, n), Item("final", iteration))}
           /\ phase = "model" /\ phase' = "ended" /\ iteration = MaxIterations
           /\ Item("final", iteration) \in Entry
           /\ UNCHANGED <<disk, mem, turn, kind, iteration>>
    BY <1>2, BudgetIs
  <2>2. Reaction(work') /\ work' # <<>>
    <3> DEFINE q == InjectedAfter(work, n)
               x == Item("final", iteration)
    <3>1. q \in Seq(Entry) /\ Reaction(q) /\ q # <<>>
      BY <1>0, <2>1, ReactionInjected DEF AskInv
    <3>2. x \in Entry /\ x.body # "ask"
      BY <2>1 DEF Item
    <3> HIDE DEF q, x
    <3>3. Append(q, x) # <<>> /\ Reaction(Append(q, x))
      BY <3>1, <3>2, ReactionAppend
    <3>4. work' \in {q, Append(q, x)}
      BY <2>1 DEF q, x
    <3> QED BY <3>1, <3>3, <3>4
  <2> QED BY <2>1, <2>2 DEF AskInv
<1>3. CASE Grow
  <2>1. PICK b, n : n \in 0..MaxFollowUps /\ Grows(b, n)
    BY <1>3 DEF Grow
  <2>2. Base(b) /\ Marks /\ phase # "idle" /\ turn > 0 /\ mem # None /\ phase' \in {"model", "ended"}
    BY <1>0, <2>1 DEF Grows, Base
  <2>3. b \in Seq(Entry) /\ Reaction(b) /\ b # <<>>
    BY <2>2, ReactionBase
  <2>4. Reaction(work') /\ work' # <<>>
    BY <2>1, <2>2, <2>3, ReactionInjected DEF Grows
  <2>5. \/ UNCHANGED <<disk, mem>>
        \/ disk' = mem' /\ disk'.messages = disk.messages /\ disk'.checkpoint # None
    <3>1. CASE UNCHANGED <<disk, mem>>
      BY <3>1
    <3>2. CASE ~ UNCHANGED <<disk, mem>>
      <4>1. PICK a \in Entry, r \in {<<>>, <<Item("result", iteration)>>} :
              disk'.checkpoint = [assistant |-> a, results |-> r, pending |-> <<>>]
        BY <2>2, <3>2, MarksIs
      <4>2. r \in Seq(Entry) /\ <<>> \in Seq(Entry)
        <5>1. Item("result", iteration) \in Entry
          BY <2>2, Items DEF Bodies
        <5>2. <<Item("result", iteration)>> \in Seq(Entry) /\ <<>> \in Seq(Entry)
          BY <5>1, ShortConcat
        <5> QED BY <4>1, <5>2
      <4>3. [assistant |-> a, results |-> r, pending |-> <<>>] # None
        <5> DEFINE z == <<>>
        <5>1. z \in Seq(Entry)
          BY <4>2
        <5> HIDE DEF z
        <5>2. LET d == [assistant |-> a, results |-> r, pending |-> z] IN d # None
          BY <4>2, <5>1, CheckpointMade
        <5> QED BY <5>2 DEF z
      <4> QED BY <1>0, <2>2, <3>2, <4>1, <4>3, MarksIs
    <3> QED BY <3>1, <3>2
  <2> QED BY <2>2, <2>4, <2>5 DEF AskInv, Closes
<1>4. CASE Keep
  <2>1. PICK n \in 0..MaxFollowUps : Keeps(n)
    BY <1>4 DEF Keep
  <2>2. Reaction(work') /\ (work # <<>> => work' # <<>>)
    BY <1>0, <2>1, ReactionInjected DEF Keeps, AskInv
  <2>3. phase' = "model" /\ (iteration' = MaxIterations => work # <<>>) /\ UNCHANGED <<disk, mem>>
    BY <1>0, <2>1 DEF Keeps, SpendsLittle
  <2> QED BY <2>2, <2>3 DEF AskInv
<1> QED BY <1>1, <1>2, <1>3, <1>4

LEMMA AskStep ==
  ASSUME ~StoreMayFail, ~LongTails
  PROVE  TypeInv /\ CheckpointInv /\ SameInv /\ BlankInv /\ AskInv /\ [Next]_vars => AskInv'
<1> SUFFICES ASSUME TypeInv, CheckpointInv, SameInv, BlankInv, AskInv, Step PROVE AskInv'
  BY StepIs
<1>1. CASE UNCHANGED vars
  BY <1>1 DEF vars, AskInv
<1> QED BY <1>1, AskBegin, AskTurn, AskRunner DEF Step

\* No user message is left without a reaction of the assistant behind it once
\* a later turn writes to the history: a turn that is cancelled, fails or dies
\* leaves a checkpoint or the pending flag, and the next one closes it.  The cap
\* keeps the end of the history, unless a turn has more than FileCap messages.
THEOREM AsksGetReactions ==
  ASSUME ~StoreMayFail, ~LongTails
  PROVE  Spec => []AsksAnswered
<1>0. Init => SameInv
  BY DEF Init, SameInv
<1>1. Init => AskInv
  <2>1. AllAnswered(<<>>) /\ ~EndsInAsk(<<>>)
    BY DEF AllAnswered, EndsInAsk
  <2> QED BY <2>1 DEF Init, EmptySession, AskInv, Closes
<1>2. Spec => []SameInv
  BY <1>0, TypeInvariant, SameStep, PTL DEF Spec
<1>3. Spec => []AskInv
  BY <1>1, <1>2, TypeInvariant, CheckpointInvariant, BlankInvariant, AskStep, PTL DEF Spec
<1>4. TypeInv /\ AskInv => AsksAnswered
  <2>1. TypeInv => DOMAIN disk.messages = 1..Len(disk.messages)
    BY SessionFields, LenProperties DEF TypeInv, TypeOK
  <2> QED BY <2>1, Zenon DEF AskInv, AllAnswered, AsksAnswered
<1> QED BY <1>3, <1>4, TypeInvariant, PTL
-----------------------------------------------------------------------------
(* No message twice *)

\* A notice comes after the ask it closes, if that is there; of turn t there is nothing but its ask;
\* whatever is at the end of the user's is an ask.
Noticed(m)    == \A i, j \in 1..Len(m) :
                   m[i].body = "notice" /\ m[j] = [m[i] EXCEPT !.body = "ask"] => j < i
OnlyAsk(m, t) == \A e \in Range(m) : e.turn = t => e.body = "ask"
Ended(m)      == m # <<>> /\ Role(Last(m)) = "user" => Last(m).body = "ask"

LEMMA NoticedAppend ==
  ASSUME NEW m \in Seq(Entry), NEW x \in Entry, Noticed(m),
         x.body = "ask" => \A e \in Range(m) : e.turn # x.turn
  PROVE  Noticed(Append(m, x))
<1> DEFINE q == Append(m, x)
           n == Len(m)
<1>1. /\ n \in Nat /\ Len(q) = n + 1 /\ q[n + 1] = x
      /\ \A i \in 1..n : q[i] = m[i] /\ m[i] \in Range(m) /\ m[i] \in Entry
  BY AppendProperties, LenProperties, ElementOfSeq DEF Range
<1> HIDE DEF q
<1>2. ASSUME NEW i \in 1..Len(q), NEW j \in 1..Len(q), q[i].body = "notice",
             q[j] = [q[i] EXCEPT !.body = "ask"]
      PROVE  j < i
  <2>1. CASE i \in 1..n /\ j \in 1..n
    BY <1>1, <1>2, <2>1 DEF Noticed
  <2>2. CASE i = n + 1 /\ j \in 1..n
    BY <1>1, <2>2
  <2>3. CASE j = n + 1
    <3>1. x.body = "ask" /\ x.turn = q[i].turn /\ i # n + 1
      <4>1. q[i] \in Entry
        <5>1. i \in 1..n \/ i = n + 1
          BY <1>1
        <5> QED BY <1>1, <5>1
      <4>2. x = [q[i] EXCEPT !.body = "ask"]
        BY <1>1, <1>2, <2>3
      <4>3. [q[i] EXCEPT !.body = "ask"].body = "ask" /\ [q[i] EXCEPT !.body = "ask"].turn = q[i].turn
        BY <4>1, EntryUpdate DEF Bodies
      <4>4. i # n + 1
        BY <1>1, <1>2, <4>2, <4>3
      <4> QED BY <4>2, <4>3, <4>4
    <3>2. i \in 1..n
      BY <1>1, <3>1
    <3> QED BY <1>1, <3>1, <3>2
  <2> QED BY <1>1, <2>1, <2>2, <2>3
<1>3. Noticed(q)
  BY <1>2 DEF Noticed
<1> QED BY <1>3 DEF q

LEMMA NoticedConcat ==
  ASSUME NEW m \in Seq(Entry), NEW r \in Seq(Entry), Noticed(m),
         \A e \in Range(r) : e.body # "notice" /\ e.body # "ask"
  PROVE  Noticed(m \o r)
<1> DEFINE q == m \o r
           n == Len(m)
<1>0. n \in Nat /\ Len(r) \in Nat /\ DOMAIN r = 1..Len(r)
  BY LenProperties
<1>1. /\ Len(q) = n + Len(r)
      /\ \A i \in 1..n : q[i] = m[i] /\ m[i] \in Entry
      /\ \A i \in 1..Len(r) : q[n + i] = r[i]
  BY <1>0, ElementOfSeq
<1> HIDE DEF q
<1>2. ASSUME NEW i \in 1..Len(q), q[i].body \in {"notice", "ask"} PROVE i \in 1..n
  <2>1. CASE i \notin 1..n
    <3>1. i - n \in 1..Len(r) /\ n + (i - n) = i
      BY <1>0, <1>1, <2>1
    <3>2. q[i] = r[i - n]
      BY <1>1, <3>1
    <3>3. q[i] \in Range(r)
      BY <1>0, <3>1, <3>2 DEF Range
    <3> QED BY <1>2, <3>3
  <2> QED BY <2>1
<1>3. ASSUME NEW i \in 1..Len(q), NEW j \in 1..Len(q), q[i].body = "notice",
             q[j] = [q[i] EXCEPT !.body = "ask"]
      PROVE  j < i
  <2>1. i \in 1..n
    BY <1>2, <1>3
  <2>2. q[j].body = "ask"
    BY <1>1, <1>3, <2>1, EntryUpdate DEF Bodies
  <2>3. j \in 1..n
    BY <1>2, <2>2
  <2> QED BY <1>1, <1>3, <2>1, <2>3 DEF Noticed
<1>4. Noticed(q)
  BY <1>3 DEF Noticed
<1> QED BY <1>4 DEF q

LEMMA NoticedCapped ==
  ASSUME NEW m \in Seq(Entry), Noticed(m)
  PROVE  Noticed(Capped(m))
<1>1. PICK i, j : Slice(m, Capped(m), i, j)
  BY CappedIs
<1> DEFINE q == Capped(m)
<1>2. /\ Len(m) \in Nat /\ Len(q) \in Nat /\ i \in 1..Len(m) + 1 /\ j \in 0..Len(m)
      /\ \A n \in 1..Len(q) : n + i - 1 \in i..j /\ q[n] = m[n + i - 1]
  BY <1>1, LenProperties DEF Slice
<1> HIDE DEF q
<1>3. ASSUME NEW a \in 1..Len(q), NEW b \in 1..Len(q), q[a].body = "notice",
             q[b] = [q[a] EXCEPT !.body = "ask"]
      PROVE  b < a
  <2>1. a + i - 1 \in 1..Len(m) /\ b + i - 1 \in 1..Len(m)
    BY <1>2
  <2>2. b + i - 1 < a + i - 1
    BY <1>2, <1>3, <2>1 DEF Noticed
  <2> QED BY <1>2, <2>2
<1>4. Noticed(q)
  BY <1>3 DEF Noticed
<1> QED BY <1>4 DEF q

\* The notice that closes an ask is new.
LEMMA NoticeIsNew ==
  ASSUME NEW m \in Seq(Entry), m # <<>>, Last(m).body = "ask", Once(m), Noticed(m),
         NEW x, x = [Last(m) EXCEPT !.body = "notice"]
  PROVE  /\ x \in Entry /\ x.turn = Last(m).turn /\ x.body = "notice"
         /\ Once(Append(m, x)) /\ Noticed(Append(m, x))
         /\ Range(Append(m, x)) = Range(m) \cup {x} /\ Last(m) \in Range(m)
<1> DEFINE l == Last(m)
           n == Len(m)
<1>1. n \in Nat /\ n > 0 /\ DOMAIN m = 1..n /\ l \in Entry /\ l = m[n]
  BY EmptySeq, LenProperties, ElementOfSeq DEF Last
<1>2. x \in Entry /\ x.body = "notice" /\ x.turn = l.turn /\ [x EXCEPT !.body = "ask"] = l
  BY <1>1 DEF Entry, Bodies
<1>3. x \notin Range(m)
  <2>1. SUFFICES ASSUME NEW i \in 1..n, m[i] = x PROVE FALSE
    BY <1>1 DEF Range
  <2>2. m[i].body = "notice" /\ m[n] = [m[i] EXCEPT !.body = "ask"] /\ n \in 1..Len(m)
    <3>1. n \in 1..Len(m)
      BY <1>1
    <3> HIDE DEF l, n
    <3>2. m[i] = x /\ m[n] = l
      BY <1>1, <2>1
    <3> QED BY <1>2, <3>1, <3>2, Zenon
  <2>3. n < i
    BY <2>2 DEF Noticed
  <2> QED BY <1>1, <2>3
<1>4. l \in Range(m)
  BY <1>1 DEF Range
<1>5. Noticed(Append(m, x))
  BY <1>2, NoticedAppend
<1> QED BY <1>2, <1>3, <1>4, <1>5, AppendRange

\* A checkpoint stands for different messages of one turn.
LEMMA MaterializeOnce ==
  ASSUME NEW c \in Checkpoint, Shape(c)
  PROVE  /\ Materialize(c) \in Seq(Entry) /\ Once(Materialize(c))
         /\ \A e \in Range(Materialize(c)) :
              e.turn = c.assistant.turn /\ e.body # "ask" /\ e.body # "notice"
<1> DEFINE e == c.assistant
           q == Materialize(c)
<1>1. e \in Entry /\ q \in Seq(Entry) /\ e.body \in {"final", "calls"}
  BY ShapeIs, MaterializeType
<1>2. CASE q = <<e>>
  <2>1. DOMAIN q = {1} /\ q[1] = e
    BY <1>1, <1>2
  <2> HIDE DEF q, e
  <2>2. Once(q) /\ \A d \in Range(q) : d = e
    BY <2>1 DEF Once, Range
  <2> QED BY <1>1, <2>2 DEF q, e
<1>3. ASSUME NEW y \in {"result", "interrupted"}, e.body = "calls", q = <<e, [e EXCEPT !.body = y]>>
      PROVE  Once(q) /\ \A d \in Range(q) : d.turn = e.turn /\ d.body # "ask" /\ d.body # "notice"
  <2> DEFINE x == [e EXCEPT !.body = y]
  <2>1. x \in Entry /\ x.body = y /\ x.turn = e.turn
    <3>1. y \in Bodies
      BY DEF Bodies
    <3> QED BY <1>1, <3>1, EntryUpdate
  <2>2. DOMAIN q = {1, 2} /\ q[1] = e /\ q[2] = x
    BY <1>1, <1>3
  <2> HIDE DEF q, e, x
  <2>3. Once(q) /\ \A d \in Range(q) : d = e \/ d = x
    BY <1>3, <2>1, <2>2 DEF Once, Range
  <2> QED BY <1>3, <2>1, <2>3
<1> QED BY <1>1, <1>2, <1>3, ShapeIs

\* Restoring the checkpoint of a turn that has nothing but its ask in the
\* history repeats nothing.
LEMMA RestoredOnce ==
  ASSUME NEW c \in Checkpoint, Shape(c), NEW m \in Seq(Entry), Once(m), Noticed(m),
         OnlyAsk(m, c.assistant.turn), NEW k, Known(m, Materialize(c), k)
  PROVE  /\ Once(m \o SubSeq(Materialize(c), k + 1, Len(Materialize(c))))
         /\ Noticed(m \o SubSeq(Materialize(c), k + 1, Len(Materialize(c))))
         /\ \A e \in Range(m \o SubSeq(Materialize(c), k + 1, Len(Materialize(c)))) :
              e \in Range(m) \/ e.turn = c.assistant.turn
<1> DEFINE q == Materialize(c)
           r == SubSeq(q, k + 1, Len(q))
           t == c.assistant.turn
           h == m \o r
<1>1. q \in Seq(Entry) /\ Once(q) /\ \A e \in Range(q) : e.turn = t /\ e.body # "ask" /\ e.body # "notice"
  BY MaterializeOnce
<1> HIDE DEF q, t
<1>2. k + 1 \in 1..(Len(q) + 1) /\ Len(q) \in 0..Len(q)
  BY <1>1, LenProperties DEF Known, q
<1>3. r \in Seq(Entry) /\ Range(r) \subseteq Range(q) /\ Once(r)
  <2> DEFINE j == k + 1
  <2> HIDE DEF j
  <2>1. j \in 1..(Len(q) + 1)
    BY <1>2 DEF j
  <2>2. SubSeq(q, j, Len(q)) \in Seq(Entry) /\ Range(SubSeq(q, j, Len(q))) \subseteq Range(q) /\ Once(SubSeq(q, j, Len(q)))
    BY <1>1, <1>2, <2>1, SubSeqRange
  <2> QED BY <2>2 DEF j
<1>4. h = m \o r
  OBVIOUS
<1> HIDE DEF r, h
<1>5. Range(m) \cap Range(r) = {}
  BY <1>1, <1>3 DEF OnlyAsk, t
<1>6. Once(h) /\ Range(h) = Range(m) \cup Range(r)
  <2>1. Range(m \o r) = Range(m) \cup Range(r)
    BY <1>3, ConcatRange
  <2>2. Once(m \o r)
    BY <1>3, <1>5, ConcatRange
  <2> QED BY <1>4, <2>1, <2>2, Zenon
<1>7. Noticed(h)
  BY <1>1, <1>3, <1>4, NoticedConcat
<1>8. \A e \in Range(h) : e \in Range(m) \/ e.turn = c.assistant.turn
  BY <1>1, <1>3, <1>6 DEF t
<1> QED BY <1>6, <1>7, <1>8, Zenon DEF q, r, h

\* The runner's messages are different ones of turn t, of fewer than n
\* iterations and with at most f follow-ups.
WorkBodies == {"followup", "nudge", "correction", "calls", "final", "result"}

Own(w, t, f, n) ==
  /\ Once(w)
  /\ \A e \in Range(w) :
       /\ e.turn = t /\ e.body \in WorkBodies
       /\ IF e.body = "followup" THEN e.step <= f ELSE e.step < n

LEMMA OwnMore ==
  ASSUME NEW w \in Seq(Entry), NEW t, NEW f \in Nat, NEW g \in Nat, NEW n \in Nat, NEW o \in Nat,
         Own(w, t, f, n), f <= g, n <= o
  PROVE  Own(w, t, g, o)
<1>1. \A e \in Range(w) : e.step \in Nat
  <2>1. \A e \in Entry : e.step \in Nat
    BY HistoryAssumption DEF Entry
  <2> QED BY <2>1, RangeOfSeq
<1> QED BY <1>1 DEF Own

LEMMA OwnAppend ==
  ASSUME NEW w \in Seq(Entry), NEW t, NEW f \in Nat, NEW n \in Nat, Own(w, t, f, n),
         NEW x \in Entry, x \notin Range(w), x.turn = t, x.body \in WorkBodies \ {"followup"}, x.step < n
  PROVE  Append(w, x) \in Seq(Entry) /\ Own(Append(w, x), t, f, n)
<1>1. /\ Append(w, x) \in Seq(Entry) /\ Once(Append(w, x))
      /\ Range(Append(w, x)) = Range(w) \cup {x}
  BY AppendRange DEF Own
<1> QED BY <1>1 DEF Own

LEMMA OwnInjected ==
  ASSUME TypeInv, turn > 0, NEW p \in Seq(Entry), NEW k \in 0..MaxFollowUps,
         followups + k <= MaxFollowUps, NEW n \in Nat, Own(p, turn, followups, n)
  PROVE  /\ InjectedAfter(p, k) \in Seq(Entry)
         /\ Own(InjectedAfter(p, k), turn, followups + k, n)
<1> DEFINE q == InjectedAfter(p, k)
<1>1. /\ q \in Seq(Entry)
      /\ p = <<>> => q = <<>>
      /\ p # <<>> => /\ Len(q) = Len(p) + k
                     /\ \A i \in 1..Len(p) : q[i] = p[i]
                     /\ \A i \in 1..k : q[Len(p) + i] = Item("followup", followups + i)
  BY InjectedIs
<1>2. \A e \in Range(q) : e \in Range(p) \/ \E i \in 1..k : e = Item("followup", followups + i)
  BY InjectedRange
<1> HIDE DEF q
<1>3. followups \in Nat /\ k \in Nat
  BY HistoryAssumption DEF TypeInv, TypeOK
<1>4. Own(p, turn, followups + k, n)
  BY <1>3, OwnMore
<1>5. \A i \in 1..k : /\ Item("followup", followups + i).body = "followup"
                      /\ Item("followup", followups + i).turn = turn
                      /\ Item("followup", followups + i).step = followups + i
  BY DEF Item
<1>6. ASSUME NEW e \in Range(q)
      PROVE  /\ e.turn = turn /\ e.body \in WorkBodies
             /\ IF e.body = "followup" THEN e.step <= followups + k ELSE e.step < n
  <2>1. CASE e \in Range(p)
    BY <1>4, <2>1 DEF Own
  <2>2. CASE \E i \in 1..k : e = Item("followup", followups + i)
    <3>1. PICK i \in 1..k : e = Item("followup", followups + i)
      BY <2>2
    <3>2. e.body = "followup" /\ e.turn = turn /\ e.step = followups + i
      BY <1>5, <3>1
    <3>3. followups + i <= followups + k
      BY <1>3
    <3> QED BY <3>2, <3>3 DEF WorkBodies
  <2> QED BY <1>2, <2>1, <2>2
<1>7. Once(q)
  <2>1. CASE p = <<>>
    BY <1>1, <2>1, NothingInEmpty
  <2>2. CASE p # <<>>
    <3>0. Len(p) \in Nat /\ Len(q) = Len(p) + k /\ DOMAIN q = 1..Len(q) /\ DOMAIN p = 1..Len(p)
      BY <1>1, <2>2, LenProperties
    <3>1. ASSUME NEW i \in 1..Len(p)
          PROVE  q[i] = p[i] /\ (q[i].body = "followup" => q[i].step <= followups)
      <4>1. p[i] \in Range(p)
        BY <3>0 DEF Range
      <4> QED BY <1>1, <2>2, <4>1 DEF Own
    <3>2. ASSUME NEW i \in (Len(p) + 1)..Len(q)
          PROVE  q[i].body = "followup" /\ q[i].step = followups + (i - Len(p))
      <4>1. i - Len(p) \in 1..k /\ Len(p) + (i - Len(p)) = i
        BY <1>3, <3>0
      <4> QED BY <1>1, <1>5, <2>2, <4>1
    <3>3. ASSUME NEW i \in 1..Len(q), NEW j \in 1..Len(q), q[i] = q[j] PROVE i = j
      <4>0. \A a \in 1..Len(q) : a \in 1..Len(p) \/ a \in (Len(p) + 1)..Len(q)
        BY <3>0
      <4>1. CASE i \in 1..Len(p) /\ j \in 1..Len(p)
        <5>1. p[i] = p[j]
          BY <3>1, <3>3, <4>1
        <5> QED BY <3>0, <4>1, <5>1 DEF Own, Once
      <4>2. CASE i \in (Len(p) + 1)..Len(q) /\ j \in (Len(p) + 1)..Len(q)
        <5>1. followups + (i - Len(p)) = followups + (j - Len(p))
          BY <3>2, <3>3, <4>2
        <5> QED BY <1>3, <3>0, <5>1
      <4>3. ASSUME NEW a \in 1..Len(p), NEW b \in (Len(p) + 1)..Len(q), q[a] = q[b] PROVE FALSE
        <5>1. q[b].body = "followup" /\ q[b].step = followups + (b - Len(p)) /\ b - Len(p) > 0
          BY <3>0, <3>2
        <5>2. q[b].step <= followups
          BY <3>1, <4>3, <5>1
        <5> QED BY <1>3, <3>0, <5>1, <5>2
      <4> QED BY <3>3, <4>0, <4>1, <4>2, <4>3
    <3> QED BY <3>0, <3>3 DEF Once
  <2> QED BY <2>1, <2>2
<1> QED BY <1>1, <1>6, <1>7 DEF Own, q

\* While a turn runs the history has only its ask; what it made is in the
\* runner's messages or in its checkpoint, and comes into the history once.
OnceInv ==
  /\ Once(disk.messages) /\ Noticed(disk.messages)
  /\ \A e \in Range(disk.messages) : e.turn <= turn /\ (phase = "restored" => e.turn < turn)
  /\ phase # "idle" => OnlyAsk(disk.messages, turn)
  /\ disk.checkpoint # None => /\ OnlyAsk(disk.messages, disk.checkpoint.assistant.turn)
                               /\ disk.checkpoint.assistant.turn <= turn
  /\ disk.pendingUser => Ended(disk.messages)
  /\ mem # None /\ mem.pendingUser => Ended(mem.messages)

\* The runner has each message of its iterations once.
WorkInv ==
  /\ phase = "model" => Own(work, turn, followups, iteration)
  /\ phase = "tools" =>
       /\ Own(work, turn, followups, iteration + 1)
       /\ \A e \in Range(work) : e.body # "followup" => e.step < iteration \/ e = Item("calls", iteration)
  /\ phase = "ended" => Own(work, turn, followups, iteration + 1)

\* The history that a restored checkpoint, a new one or none of them leaves.
LEMMA TypesOfHistory ==
  ASSUME TypeInv
  PROVE  /\ disk.messages \in Seq(Entry) /\ turn \in Nat /\ work \in Seq(Entry)
         /\ mem # None => mem.messages \in Seq(Entry)
         /\ phase # "idle" => turn > 0 /\ mem # None
         /\ \A e \in Entry : e.turn \in Nat
         /\ disk.checkpoint # None => disk.checkpoint \in Checkpoint /\ disk.checkpoint.assistant \in Entry
         /\ \A e \in Range(disk.messages) : e \in Entry
<1>1. /\ disk \in Session /\ mem \in Session \cup {None} /\ turn \in 0..MaxTurns /\ work \in Seq(Entry)
      /\ phase # "idle" => turn > 0 /\ mem # None
  BY DEF TypeInv, TypeOK, PhaseInv
<1>2. disk.messages \in Seq(Entry) /\ disk.checkpoint \in Checkpoint \cup {None}
      /\ (mem # None => mem.messages \in Seq(Entry))
  BY <1>1, SessionFields
<1>3. turn \in Nat /\ \A e \in Entry : e.turn \in Nat
  BY <1>1, HistoryAssumption DEF Entry
<1>4. Range(disk.messages) \subseteq Entry
  BY <1>2, RangeOfSeq
<1> QED BY <1>1, <1>2, <1>3, <1>4, CheckpointFields

LEMMA OnceRestored ==
  ASSUME TypeInv, CheckpointInv, OnceInv, disk.checkpoint # None,
         NEW j, Known(disk.messages, Materialize(disk.checkpoint), j),
         NEW h, h = disk.messages \o SubSeq(Materialize(disk.checkpoint), j + 1, Len(Materialize(disk.checkpoint)))
  PROVE  Once(h) /\ Noticed(h) /\ \A e \in Range(h) : e.turn \in Nat /\ e.turn <= turn
<1>0. PICK c, m : c = disk.checkpoint /\ m = disk.messages
  OBVIOUS
<1>1. /\ c \in Checkpoint /\ Shape(c) /\ m \in Seq(Entry) /\ Once(m) /\ Noticed(m)
      /\ OnlyAsk(m, c.assistant.turn) /\ c.assistant.turn <= turn /\ c.assistant.turn \in Nat
      /\ \A e \in Range(m) : e.turn \in Nat /\ e.turn <= turn
  BY <1>0, TypesOfHistory DEF CheckpointInv, OnceInv
<1>2. Known(m, Materialize(c), j) /\ h = m \o SubSeq(Materialize(c), j + 1, Len(Materialize(c)))
  BY <1>0
<1>3. Once(h) /\ Noticed(h) /\ \A e \in Range(h) : e \in Range(m) \/ e.turn = c.assistant.turn
  <2>1. /\ Once(m \o SubSeq(Materialize(c), j + 1, Len(Materialize(c))))
        /\ Noticed(m \o SubSeq(Materialize(c), j + 1, Len(Materialize(c))))
        /\ \A e \in Range(m \o SubSeq(Materialize(c), j + 1, Len(Materialize(c)))) :
              e \in Range(m) \/ e.turn = c.assistant.turn
    BY <1>1, <1>2, RestoredOnce
  <2> QED BY <1>2, <2>1, Zenon
<1> QED BY <1>1, <1>3

LEMMA OnceBegin ==
  ASSUME TypeInv, CheckpointInv, SameInv, OnceInv, ~StoreMayFail, NEW k \in Kinds, BeginTurn(k)
  PROVE  OnceInv'
<1>1. /\ Found.messages = disk.messages /\ (Found.pendingUser => Ended(disk.messages))
      /\ disk.messages \in Seq(Entry)
  BY TypesOfHistory DEF SameInv, Found, OnceInv
<1>2. turn' = turn + 1 /\ phase' = "restored" /\ turn \in Nat /\ mem' # None /\ mem'.pendingUser = FALSE
      /\ disk'.checkpoint = None
  BY TypesOfHistory, BeginIs DEF BeginTurn
<1>3. ASSUME Once(disk'.messages), Noticed(disk'.messages), disk' = mem',
             \A e \in Range(disk'.messages) : e.turn \in Nat /\ e.turn <= turn
      PROVE  OnceInv'
  <2>1. \A e \in Range(disk'.messages) : e.turn < turn' /\ e.turn <= turn' /\ e.turn # turn'
    BY <1>2, <1>3
  <2>2. OnlyAsk(disk'.messages, turn')
    BY <2>1 DEF OnlyAsk
  <2> QED BY <1>2, <1>3, <2>1, <2>2 DEF OnceInv
<1>4. \A e \in Range(disk.messages) : e.turn \in Nat /\ e.turn <= turn
  BY TypesOfHistory DEF OnceInv
<1>5. CASE disk.checkpoint # None
  <2>2. disk' = mem'
    BY <1>5, BeginIs
  <2>3. PICK j : /\ Known(disk.messages, Materialize(disk.checkpoint), j)
                 /\ mem'.messages = disk.messages \o
                      SubSeq(Materialize(disk.checkpoint), j + 1, Len(Materialize(disk.checkpoint)))
    BY <1>1, <1>5, BeginIs
  <2> DEFINE h == mem'.messages
  <2> HIDE DEF h
  <2>4. Once(h) /\ Noticed(h) /\ \A e \in Range(h) : e.turn \in Nat /\ e.turn <= turn
    BY <1>5, <2>3, OnceRestored DEF h
  <2> QED BY <1>3, <2>2, <2>4 DEF h
<1>6. CASE disk.checkpoint = None /\ Found.pendingUser
  <2>1. disk' = mem' /\ Ended(disk.messages) /\ Once(disk.messages) /\ Noticed(disk.messages)
    BY <1>1, <1>6, BeginIs DEF OnceInv
  <2>2. CASE mem'.messages = disk.messages
    BY <1>3, <1>4, <2>1, <2>2
  <2>3. CASE /\ disk.messages # <<>> /\ Role(Last(disk.messages)) = "user"
             /\ mem'.messages = Append(disk.messages, [Last(disk.messages) EXCEPT !.body = "notice"])
    <3>1. Last(disk.messages).body = "ask"
      BY <2>1, <2>3 DEF Ended
    <3> DEFINE x == [Last(disk.messages) EXCEPT !.body = "notice"]
    <3>2. /\ x \in Entry /\ x.turn = Last(disk.messages).turn
          /\ Once(Append(disk.messages, x)) /\ Noticed(Append(disk.messages, x))
          /\ Range(Append(disk.messages, x)) = Range(disk.messages) \cup {x}
          /\ Last(disk.messages) \in Range(disk.messages)
      BY <1>1, <2>1, <2>3, <3>1, NoticeIsNew
    <3> HIDE DEF x
    <3>3. disk'.messages = Append(disk.messages, x)
      BY <2>1, <2>3 DEF x
    <3>4. \A e \in Range(disk'.messages) : e.turn \in Nat /\ e.turn <= turn
      BY <1>4, <3>2, <3>3
    <3> QED BY <1>3, <2>1, <3>2, <3>3, <3>4
  <2> QED BY <1>1, <1>6, <2>2, <2>3, BeginIs
<1>7. CASE disk.checkpoint = None /\ ~Found.pendingUser
  <2>1. mem' = Found /\ disk' = disk
    BY <1>7, BeginIs
  <2>2. \A e \in Range(disk.messages) : e.turn < turn' /\ e.turn <= turn' /\ e.turn # turn'
    BY <1>2, <1>4
  <2>3. OnlyAsk(disk.messages, turn')
    BY <2>2 DEF OnlyAsk
  <2> QED BY <1>2, <2>1, <2>2, <2>3 DEF OnceInv
<1> QED BY <1>5, <1>6, <1>7

LEMMA OnceTurn ==
  ASSUME TypeInv, CheckpointInv, SameInv, OnceInv, WorkInv, ~StoreMayFail, TurnStep
  PROVE  OnceInv'
<1>0. /\ disk.messages \in Seq(Entry) /\ turn \in Nat /\ work \in Seq(Entry)
      /\ phase # "idle" => turn > 0 /\ mem # None
      /\ mem # None => mem.messages = disk.messages
      /\ mem # None => mem.checkpoint = disk.checkpoint
      /\ Once(disk.messages) /\ Noticed(disk.messages)
      /\ \A e \in Range(disk.messages) : e.turn \in Nat /\ e.turn <= turn
  BY TypesOfHistory DEF SameInv, OnceInv, TypeInv, PhaseInv
<1>1. ASSUME phase' = "idle", turn' = turn, Once(disk'.messages), Noticed(disk'.messages),
             \A e \in Range(disk'.messages) : e.turn <= turn, disk'.checkpoint = None,
             Ended(disk'.messages) \/ ~disk'.pendingUser, mem' = None \/ ~mem'.pendingUser
      PROVE  OnceInv'
  BY <1>1 DEF OnceInv
<1>2. CASE PersistAsk
  <2> DEFINE x == Item("ask", 0)
  <2>1. /\ phase = "restored" /\ turn > 0 /\ mem # None /\ phase' \in {"model", "asked"} /\ turn' = turn
        /\ disk.checkpoint = None
    BY <1>0, <1>2 DEF PersistAsk, CheckpointInv
  <2>2. /\ x \in Entry /\ x.body = "ask" /\ x.turn = turn
    BY <2>1, Items DEF Bodies
  <2>3. disk'.messages = Append(disk.messages, x) /\ disk' = mem' /\ disk'.checkpoint = None
    BY <1>0, <1>2, <2>1, AskIs DEF Has
  <2> HIDE DEF x
  <2>4. x \notin Range(disk.messages)
    <3>1. \A e \in Range(disk.messages) : e.turn < turn
      BY <2>1 DEF OnceInv
    <3> QED BY <1>0, <2>2, <3>1
  <2>5. Once(disk'.messages) /\ Range(disk'.messages) = Range(disk.messages) \cup {x}
    BY <1>0, <2>2, <2>3, <2>4, AppendRange
  <2>6. Noticed(disk'.messages)
    <3>1. \A e \in Range(disk.messages) : e.turn < turn
      BY <2>1 DEF OnceInv
    <3>2. \A e \in Range(disk.messages) : e.turn # x.turn
      BY <1>0, <2>2, <3>1
    <3> QED BY <1>0, <2>2, <2>3, <3>2, NoticedAppend
  <2>7. OnlyAsk(disk'.messages, turn)
    <3>1. OnlyAsk(disk.messages, turn)
      BY <2>1 DEF OnceInv
    <3> QED BY <2>2, <2>5, <3>1 DEF OnlyAsk
  <2>8. Ended(disk'.messages)
    <3>1. Last(Append(disk.messages, x)) = x
      BY <1>0, <2>2, AppendProperties DEF Last
    <3> QED BY <2>2, <2>3, <3>1 DEF Ended
  <2>9. \A e \in Range(disk'.messages) : e.turn <= turn
    BY <1>0, <2>2, <2>5
  <2> QED BY <2>1, <2>3, <2>5, <2>6, <2>7, <2>8, <2>9 DEF OnceInv
<1>3. CASE BuildContinuation
  BY <1>3 DEF BuildContinuation, OnceInv
<1>4. CASE CommandReply
  <2> DEFINE x == Item("final", 0)
  <2>1. /\ phase = "asked" /\ turn > 0 /\ mem # None /\ phase' = "idle" /\ turn' = turn
        /\ disk.checkpoint = None
    BY <1>0, <1>4 DEF CommandReply, CheckpointInv
  <2>2. x \in Entry /\ x.body = "final" /\ x.turn = turn
    BY <2>1, Items DEF Bodies
  <2>3. /\ disk'.messages = Append(disk.messages, x) /\ disk'.checkpoint = None
        /\ mem'.pendingUser = FALSE
    BY <1>0, <1>4, <2>1, ReplyIs DEF Has
  <2>4. Role(x) # "user"
    BY <2>2, RoleIs
  <2> HIDE DEF x
  <2>5. x \notin Range(disk.messages)
    <3>1. OnlyAsk(disk.messages, turn)
      BY <2>1 DEF OnceInv
    <3> QED BY <2>2, <3>1 DEF OnlyAsk
  <2>6. Once(disk'.messages) /\ Range(disk'.messages) = Range(disk.messages) \cup {x}
    BY <1>0, <2>2, <2>3, <2>5, AppendRange
  <2>7. Noticed(disk'.messages)
    BY <1>0, <2>2, <2>3, NoticedAppend
  <2>8. Ended(disk'.messages)
    <3>1. Last(Append(disk.messages, x)) = x
      BY <1>0, <2>2, AppendProperties DEF Last
    <3> QED BY <2>3, <2>4, <3>1 DEF Ended
  <2>9. \A e \in Range(disk'.messages) : e.turn <= turn
    BY <1>0, <2>2, <2>6
  <2> QED BY <1>1, <2>1, <2>3, <2>6, <2>7, <2>8, <2>9
<1>5. CASE Cancel
  <2>1. phase # "idle" /\ mem # None /\ phase' = "idle" /\ turn' = turn
    BY <1>0, <1>5 DEF Cancel, Cancellable
  <2>2. CASE UNCHANGED <<disk, mem>>
    BY <2>1, <2>2 DEF OnceInv
  <2>3. CASE ~ UNCHANGED <<disk, mem>>
    <3>1. /\ disk' = mem' /\ disk.checkpoint # None /\ mem'.checkpoint = None /\ mem'.pendingUser = FALSE
      BY <1>5, <2>3, CancelIs
    <3>2. PICK j : /\ Known(disk.messages, Materialize(disk.checkpoint), j)
                   /\ disk'.messages = disk.messages \o
                        SubSeq(Materialize(disk.checkpoint), j + 1, Len(Materialize(disk.checkpoint)))
      BY <1>0, <1>5, <2>1, <2>3, CancelIs
    <3> DEFINE h == disk'.messages
    <3> HIDE DEF h
    <3>3. Once(h) /\ Noticed(h) /\ \A e \in Range(h) : e.turn \in Nat /\ e.turn <= turn
      BY <3>1, <3>2, OnceRestored DEF h
    <3> QED BY <1>1, <2>1, <3>1, <3>3 DEF h
  <2> QED BY <2>2, <2>3
<1>6. CASE Fail \/ Dies
  BY <1>6 DEF Fail, Dies, OnceInv
<1>7. CASE FailInStore
  BY <1>7, StoreIs
<1>8. CASE ClearSession
  <2>1. /\ disk'.messages = <<>> /\ mem' = None /\ disk'.checkpoint = disk.checkpoint
        /\ phase' = "idle" /\ turn' = turn
    BY <1>8, ClearIs DEF Has, ClearSession
  <2>2. Once(<<>>) /\ Range(<<>>) = {} /\ Noticed(<<>>) /\ Ended(<<>>)
    BY NothingInEmpty DEF Noticed, Ended
  <2> QED BY <2>1, <2>2 DEF OnceInv, OnlyAsk
<1>9. CASE SaveTurn
  <2>1. /\ phase = "ended" /\ mem # None /\ phase' = "idle" /\ turn' = turn
        /\ Own(work, turn, followups, iteration + 1) /\ OnlyAsk(disk.messages, turn)
    BY <1>0, <1>9 DEF SaveTurn, WorkInv, OnceInv
  <2> DEFINE m == disk.messages \o work
  <2>2. /\ disk'.messages = Capped(m) /\ disk' = mem' /\ disk'.checkpoint = None
        /\ disk'.pendingUser = FALSE /\ m \in Seq(Entry)
    BY <1>0, <1>9, <2>1, SaveIs DEF Has
  <2>3. \A e \in Range(work) : e.turn = turn /\ e.body # "ask" /\ e.body # "notice"
    BY <2>1 DEF Own, WorkBodies
  <2>4. Range(disk.messages) \cap Range(work) = {}
    BY <2>1, <2>3 DEF OnlyAsk
  <2>5. Once(m) /\ Range(m) = Range(disk.messages) \cup Range(work)
    BY <1>0, <2>1, <2>4, ConcatRange DEF Own
  <2>6. Noticed(m)
    BY <1>0, <2>3, NoticedConcat
  <2>7. \A e \in Range(m) : e.turn <= turn
    BY <1>0, <2>3, <2>5
  <2> HIDE DEF m
  <2>8. Once(Capped(m)) /\ Noticed(Capped(m)) /\ Range(Capped(m)) \subseteq Range(m)
    BY <2>2, <2>5, <2>6, CappedCovers, NoticedCapped
  <2> QED BY <1>1, <2>1, <2>2, <2>7, <2>8
<1> QED BY <1>2, <1>3, <1>4, <1>5, <1>6, <1>7, <1>8, <1>9 DEF TurnStep

LEMMA OnceRunner ==
  ASSUME TypeInv, CheckpointInv, CheckpointInv', SameInv, OnceInv, ~StoreMayFail,
         ModelCalls \/ BudgetSpent \/ Grow \/ Keep
  PROVE  OnceInv'
<1>0. /\ phase # "idle" => mem # None
      /\ mem # None => mem.messages = disk.messages
  BY DEF TypeInv, PhaseInv, SameInv
<1>1. /\ phase # "idle" /\ phase' \notin {"idle", "restored"} /\ turn' = turn
  BY DEF ModelCalls, BudgetSpent, Grow, Grows, Base, Keep, Keeps
<1>2. CASE UNCHANGED <<disk, mem>>
  BY <1>1, <1>2 DEF OnceInv
<1>3. CASE ~ UNCHANGED <<disk, mem>>
  <2>1. /\ disk' = mem' /\ mem'.messages = mem.messages /\ mem'.pendingUser = mem.pendingUser
    <3>1. CASE ModelCalls
      BY <3>1, CallsIs DEF Has
    <3>2. CASE Grow
      <4>1. Marks
        BY <3>2 DEF Grow, Grows
      <4> QED BY <1>1, <1>3, <4>1, MarksIs
    <3>3. CASE BudgetSpent \/ Keep
      BY <1>3, <3>3 DEF BudgetSpent, Keep, Keeps
    <3> QED BY <3>1, <3>2, <3>3
  <2>2. disk'.messages = disk.messages /\ (disk'.pendingUser => Ended(disk.messages))
    BY <1>0, <1>1, <2>1 DEF OnceInv
  <2>3. OnlyAsk(disk.messages, turn)
    BY <1>1 DEF OnceInv
  <2>4. disk'.checkpoint # None => disk'.checkpoint.assistant.turn = turn
    BY <1>1 DEF CheckpointInv
  <2>5. turn <= turn
    BY TypesOfHistory
  <2> QED BY <1>1, <2>1, <2>2, <2>3, <2>4, <2>5 DEF OnceInv
<1> QED BY <1>2, <1>3

LEMMA OnceStep ==
  ASSUME ~StoreMayFail
  PROVE  TypeInv /\ CheckpointInv /\ CheckpointInv' /\ SameInv /\ WorkInv /\ OnceInv /\ [Next]_vars => OnceInv'
<1> SUFFICES ASSUME TypeInv, CheckpointInv, CheckpointInv', SameInv, WorkInv, OnceInv, Step PROVE OnceInv'
  BY StepIs
<1>1. CASE UNCHANGED vars
  BY <1>1 DEF vars, OnceInv
<1> QED BY <1>1, OnceBegin, OnceTurn, OnceRunner DEF Step

\* What the runner adds is new.
LEMMA OwnBase ==
  ASSUME TypeInv, WorkInv, turn > 0, NEW b, Base(b)
  PROVE  b \in Seq(Entry) /\ Own(b, turn, followups, iteration + 1)
<1>1. work \in Seq(Entry) /\ followups \in Nat /\ iteration \in Nat /\ iteration + 1 \in Nat
  BY HistoryAssumption DEF TypeInv, TypeOK
<1>2. ASSUME NEW y \in {"nudge", "correction", "final", "result"}
      PROVE  /\ Item(y, iteration) \in Entry /\ Item(y, iteration).body = y
             /\ Item(y, iteration).turn = turn /\ Item(y, iteration).step = iteration
             /\ y \in WorkBodies \ {"followup"} /\ Item(y, iteration).step < iteration + 1
  <2>1. y \in Bodies /\ y \in WorkBodies \ {"followup"}
    BY DEF Bodies, WorkBodies
  <2>2. iteration < iteration + 1
    BY <1>1
  <2> QED BY <2>1, <2>2, Items
\* The first message, and one after it.
<1>3. ASSUME NEW p \in Seq(Entry), Own(p, turn, followups, iteration + 1),
             NEW y \in {"nudge", "correction", "final", "result"}, Item(y, iteration) \notin Range(p)
      PROVE  /\ Append(p, Item(y, iteration)) \in Seq(Entry)
             /\ Own(Append(p, Item(y, iteration)), turn, followups, iteration + 1)
             /\ Range(Append(p, Item(y, iteration))) = Range(p) \cup {Item(y, iteration)}
  <2> DEFINE x == Item(y, iteration)
             n == iteration + 1
  <2>1. x \in Entry /\ x.turn = turn /\ x.body \in WorkBodies \ {"followup"} /\ x.step < n /\ x \notin Range(p)
        /\ n \in Nat /\ Own(p, turn, followups, n)
    BY <1>1, <1>2, <1>3
  <2> HIDE DEF x, n
  <2>2. Append(p, x) \in Seq(Entry) /\ Own(Append(p, x), turn, followups, n)
    BY <1>1, <2>1, OwnAppend
  <2>3. Range(Append(p, x)) = Range(p) \cup {x}
    BY <2>1, AppendRange
  <2> QED BY <2>2, <2>3 DEF x, n
<1>4. ASSUME NEW p \in Seq(Entry), Own(p, turn, followups, iteration + 1), NEW z \in {"final", "result"},
             Item(z, iteration) \notin Range(p),
             NEW y \in {"nudge", "correction", "final"}, y # z, Item(y, iteration) \notin Range(p)
      PROVE  LET q == Append(p, Item(z, iteration))
             IN  /\ Append(q, Item(y, iteration)) \in Seq(Entry)
                 /\ Own(Append(q, Item(y, iteration)), turn, followups, iteration + 1)
  <2> DEFINE q == Append(p, Item(z, iteration))
  <2>1. z \in {"nudge", "correction", "final", "result"} /\ y \in {"nudge", "correction", "final", "result"}
    OBVIOUS
  <2>2. /\ q \in Seq(Entry) /\ Own(q, turn, followups, iteration + 1)
        /\ Range(q) = Range(p) \cup {Item(z, iteration)}
    BY <1>3, <1>4, <2>1
  <2>3. Item(y, iteration) # Item(z, iteration)
    BY <1>2, <1>4, <2>1
  <2> HIDE DEF q
  <2>4. Item(y, iteration) \notin Range(q)
    BY <1>4, <2>2, <2>3
  <2>5. Append(q, Item(y, iteration)) \in Seq(Entry) /\ Own(Append(q, Item(y, iteration)), turn, followups, iteration + 1)
    BY <1>3, <2>1, <2>2, <2>4
  <2> QED BY <2>5 DEF q
<1>5. CASE phase = "model"
  <2>1. Own(work, turn, followups, iteration) /\ iteration <= iteration + 1
    BY <1>1, <1>5 DEF WorkInv
  <2>2. Own(work, turn, followups, iteration + 1)
    <3> DEFINE n == iteration + 1
    <3>1. n \in Nat /\ iteration <= n /\ followups <= followups
      BY <1>1
    <3> HIDE DEF n
    <3>2. Own(work, turn, followups, n)
      BY <1>1, <2>1, <3>1, OwnMore
    <3> QED BY <3>2 DEF n
  <2>3. ASSUME NEW y \in {"nudge", "correction", "final"} PROVE Item(y, iteration) \notin Range(work)
    <3>1. Item(y, iteration).body = y /\ Item(y, iteration).step = iteration /\ y # "followup"
      BY <1>2
    <3> QED BY <1>1, <2>1, <3>1 DEF Own
  <2>4. Answered \in Seq(Entry) /\ Own(Answered, turn, followups, iteration + 1)
    BY <1>1, <1>3, <2>2, <2>3 DEF Answered
  <2>5. ASSUME NEW y \in {"nudge", "correction"}
        PROVE  /\ Append(Answered, Item(y, iteration)) \in Seq(Entry)
               /\ Own(Append(Answered, Item(y, iteration)), turn, followups, iteration + 1)
    BY <1>1, <1>4, <2>2, <2>3 DEF Answered
  <2> QED BY <1>5, <2>4, <2>5 DEF Base
<1>6. CASE phase = "tools"
  <2>1. /\ Own(work, turn, followups, iteration + 1)
        /\ \A e \in Range(work) : e.body # "followup" => e.step < iteration \/ e.body = "calls"
    BY <1>6 DEF WorkInv, Item
  <2>2. ASSUME NEW y \in {"nudge", "correction", "final", "result"} PROVE Item(y, iteration) \notin Range(work)
    <3>1. Item(y, iteration).body = y /\ Item(y, iteration).step = iteration /\ y # "followup" /\ y # "calls"
      BY <1>2
    <3> QED BY <1>1, <2>1, <3>1
  <2>3. AfterTools \in Seq(Entry) /\ Own(AfterTools, turn, followups, iteration + 1)
    BY <1>1, <1>3, <2>1, <2>2 DEF AfterTools
  <2>4. ASSUME NEW y \in {"nudge", "correction", "final"}
        PROVE  /\ Append(AfterTools, Item(y, iteration)) \in Seq(Entry)
               /\ Own(Append(AfterTools, Item(y, iteration)), turn, followups, iteration + 1)
    BY <1>1, <1>4, <2>1, <2>2 DEF AfterTools
  <2> QED BY <1>6, <2>3, <2>4 DEF Base
<1> QED BY <1>5, <1>6 DEF Base

LEMMA OwnNothing == \A t, f, n : Own(<<>>, t, f, n)
BY NothingInEmpty DEF Own

LEMMA WorkStep == TypeInv /\ BlankInv /\ WorkInv /\ [Next]_vars => WorkInv'
<1> SUFFICES ASSUME TypeInv, BlankInv, WorkInv, Step PROVE WorkInv'
  BY StepIs
<1>0. /\ work \in Seq(Entry) /\ followups \in Nat /\ iteration \in Nat /\ iteration + 1 \in Nat
      /\ MaxFollowUps \in Nat
      /\ phase # "idle" => turn > 0
  BY HistoryAssumption DEF TypeInv, TypeOK, PhaseInv
<1>1. CASE phase' \notin {"model", "tools", "ended"}
  BY <1>1 DEF WorkInv
<1>2. CASE PersistAsk \/ BuildContinuation
  <2>1. work' = <<>> /\ phase' \in {"model", "asked"}
    BY <1>2 DEF PersistAsk, BuildContinuation, BlankInv
  <2> QED BY <2>1, OwnNothing DEF WorkInv
<1>3. CASE ModelCalls
  <2> DEFINE x == Item("calls", iteration)
             n == iteration + 1
  <2>1. /\ phase = "model" /\ phase' = "tools" /\ work' = Append(work, x)
        /\ x \in Entry /\ UNCHANGED <<turn, iteration, followups>>
        /\ x.body = "calls" /\ x.turn = turn /\ x.step = iteration
        /\ x' = x
    BY <1>3, CallsIs DEF ModelCalls, Item
  <2>2. Own(work, turn, followups, iteration)
    BY <2>1 DEF WorkInv
  <2>3. n \in Nat /\ iteration <= n /\ followups <= followups /\ iteration < n
    BY <1>0
  <2> HIDE DEF n
  <2>4. Own(work, turn, followups, n)
    BY <1>0, <2>2, <2>3, OwnMore
  <2>5. x \notin Range(work)
    BY <1>0, <2>1, <2>2 DEF Own
  <2>6. Own(work', turn, followups, n) /\ Range(work') = Range(work) \cup {x}
    <3> HIDE DEF x
    <3>1. x.body \in WorkBodies \ {"followup"} /\ x.step < n
      BY <2>1, <2>3 DEF WorkBodies
    <3>2. Own(Append(work, x), turn, followups, n)
      BY <1>0, <2>1, <2>3, <2>4, <2>5, <3>1, OwnAppend
    <3>3. Range(Append(work, x)) = Range(work) \cup {x}
      BY <1>0, <2>1, AppendRange
    <3> QED BY <2>1, <3>2, <3>3
  <2>7. \A e \in Range(work') : e.body # "followup" => e.step < iteration \/ e = x
    BY <2>2, <2>6 DEF Own
  <2>8. /\ Own(work', turn', followups', iteration' + 1)
        /\ \A e \in Range(work') : e.body # "followup" => e.step < iteration' \/ e = x'
    BY <2>1, <2>6, <2>7 DEF n
  <2> QED BY <2>1, <2>8 DEF WorkInv
<1>4. CASE BudgetSpent
  <2>1. PICK k \in 0..MaxFollowUps :
           /\ followups + k <= MaxFollowUps /\ followups' = followups + k
           /\ work' \in {InjectedAfter(work, k), Append(InjectedAfter(work, k), Item("final", iteration))}
           /\ phase = "model" /\ phase' = "ended"
           /\ Item("final", iteration) \in Entry
           /\ UNCHANGED <<disk, archived, mem, turn, kind, iteration>>
    BY <1>4, BudgetIs
  <2> DEFINE q == InjectedAfter(work, k)
             x == Item("final", iteration)
             n == iteration + 1
             f == followups + k
  <2>2. q \in Seq(Entry) /\ Own(q, turn, f, iteration)
    BY <1>0, <2>1, OwnInjected DEF WorkInv
  <2>3. /\ x \in Entry /\ x.body = "final" /\ x.turn = turn /\ x.step = iteration
        /\ work' \in {q, Append(q, x)} /\ n \in Nat /\ f \in Nat /\ iteration <= n /\ f <= f /\ x.step < n
    BY <1>0, <2>1 DEF Item
  <2> HIDE DEF q, x, n, f
  <2>4. x \notin Range(q)
    BY <1>0, <2>2, <2>3 DEF Own
  <2>5. Own(q, turn, f, n)
    BY <1>0, <2>2, <2>3, OwnMore
  <2>6. Own(Append(q, x), turn, f, n)
    <3>1. x.body \in WorkBodies \ {"followup"}
      BY <2>3 DEF WorkBodies
    <3> QED BY <2>2, <2>3, <2>4, <2>5, <3>1, OwnAppend
  <2>7. Own(work', turn', followups', iteration' + 1)
    BY <2>1, <2>3, <2>5, <2>6 DEF n, f
  <2> QED BY <2>1, <2>7 DEF WorkInv
<1>5. CASE Grow
  <2>1. PICK b, k : k \in 0..MaxFollowUps /\ Grows(b, k)
    BY <1>5 DEF Grow
  <2>2. Base(b) /\ phase # "idle" /\ turn > 0 /\ turn' = turn /\ followups + k <= MaxFollowUps
        /\ followups' = followups + k
    BY <1>0, <2>1 DEF Grows, Base
  <2>3. b \in Seq(Entry) /\ Own(b, turn, followups, iteration + 1)
    BY <2>2, OwnBase
  <2> DEFINE n == iteration + 1
  <2>4. n \in Nat /\ n <= n /\ followups <= followups + k /\ followups + k \in Nat
    BY <1>0, <2>1
  <2> HIDE DEF n
  <2>5. Own(InjectedAfter(b, k), turn, followups + k, n)
    BY <2>1, <2>2, <2>3, <2>4, OwnInjected DEF n
  <2>6. Own(b, turn, followups + k, n)
    <3> DEFINE g == followups + k
    <3> HIDE DEF g
    <3>1. g \in Nat /\ followups <= g /\ Own(b, turn, followups, n)
      BY <2>3, <2>4 DEF g, n
    <3>2. Own(b, turn, g, n)
      BY <1>0, <2>3, <2>4, <3>1, OwnMore
    <3> QED BY <3>2 DEF g
  <2>7. CASE phase' = "model" /\ iteration' = iteration + 1 /\ work' = InjectedAfter(b, k)
    <3>1. Own(work', turn', followups', iteration')
      BY <2>2, <2>5, <2>7 DEF n
    <3> QED BY <2>7, <3>1 DEF WorkInv
  <2>8. CASE phase' = "ended" /\ iteration' = iteration /\ work' = b
    <3>1. Own(work', turn', followups', iteration' + 1)
      BY <2>2, <2>6, <2>8 DEF n
    <3> QED BY <2>8, <3>1 DEF WorkInv
  <2> QED BY <2>1, <2>7, <2>8 DEF Grows
<1>6. CASE Keep
  <2>1. PICK k \in 0..MaxFollowUps : Keeps(k)
    BY <1>6 DEF Keep
  <2>2. /\ phase = "model" /\ turn > 0 /\ turn' = turn /\ followups + k <= MaxFollowUps
        /\ followups' = followups + k /\ phase' = "model" /\ iteration' = iteration + 1
        /\ work' = InjectedAfter(work, k)
    BY <1>0, <2>1 DEF Keeps
  <2> DEFINE n == iteration + 1
  <2>3. n \in Nat /\ iteration <= n /\ followups <= followups
    BY <1>0
  <2> HIDE DEF n
  <2>4. Own(work, turn, followups, n)
    BY <1>0, <2>2, <2>3, OwnMore DEF WorkInv
  <2>5. Own(InjectedAfter(work, k), turn, followups + k, n)
    BY <1>0, <2>1, <2>2, <2>3, <2>4, OwnInjected
  <2>6. Own(work', turn', followups', iteration')
    BY <2>2, <2>5 DEF n
  <2> QED BY <2>2, <2>6 DEF WorkInv
<1>7. CASE UNCHANGED vars
  BY <1>7 DEF vars, WorkInv, Item
<1>8. CASE \E k \in Kinds : BeginTurn(k)
  BY <1>1, <1>8 DEF BeginTurn
<1>9. CASE CommandReply \/ Cancel \/ Fail \/ FailInStore \/ Dies \/ ClearSession \/ SaveTurn
  BY <1>1, <1>9 DEF CommandReply, Cancel, Fail, FailInStore, Dies, ClearSession, SaveTurn
<1> QED BY <1>2, <1>3, <1>4, <1>5, <1>6, <1>7, <1>8, <1>9 DEF Step, TurnStep

\* No message is in the history twice: neither a restored checkpoint, nor a
\* turn that is saved after a checkpoint, nor a turn that is cancelled, fails or
\* dies at any point and is picked up by a later one repeats what is there.
THEOREM NothingTwice ==
  ASSUME ~StoreMayFail
  PROVE  Spec => []NoDuplicates
<1>1. Init => SameInv
  BY DEF Init, SameInv
<1>2. Init => OnceInv /\ WorkInv
  <2>1. Once(<<>>) /\ Range(<<>>) = {} /\ Noticed(<<>>)
    BY NothingInEmpty DEF Noticed
  <2> QED BY <2>1 DEF Init, EmptySession, OnceInv, WorkInv
<1>3. Spec => []SameInv
  BY <1>1, TypeInvariant, SameStep, PTL DEF Spec
<1>4. Spec => []WorkInv
  BY <1>2, TypeInvariant, BlankInvariant, WorkStep, PTL DEF Spec
<1>5. Spec => []OnceInv
  BY <1>2, <1>3, <1>4, TypeInvariant, CheckpointInvariant, OnceStep, PTL DEF Spec
<1>6. OnceInv => NoDuplicates
  BY DEF OnceInv, Once, NoDuplicates
<1> QED BY <1>5, <1>6, PTL
=============================================================================
