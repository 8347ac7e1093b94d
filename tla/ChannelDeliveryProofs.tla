------------------------ MODULE ChannelDeliveryProofs ------------------------
(***************************************************************************)
(* What holds of the outbound messages for every set of turns, chats and   *)
(* texts and every number of attempts.  Neither property is inductive: that *)
(* a chat is served in order rests on the order of what is still on its    *)
(* way, and that a suppressed reply repeats one that was handed to the      *)
(* channel rests on what the fingerprints stand for.                       *)
(*                                                                         *)
(*   PublishedInv    a reply has a text                                    *)
(*   FlowInv         what is sent, put aside and queued is in order, open  *)
(*   SendingInv      what is merged is of one stream                       *)
(*   DeliveredInv    what was delivered is behind, or is being sent again  *)
(*   FingerprintInv  a fingerprint is that of a reply handed to a channel  *)
(***************************************************************************)
EXTENDS ChannelDelivery, SequenceTheorems, WellFoundedInduction, TLAPS

-----------------------------------------------------------------------------
(* Sequences of numbers *)

\* What is left when the head is taken.
LEMMA TailRange ==
  ASSUME NEW S, NEW q \in Seq(S), q # <<>>
  PROVE  /\ Head(q) \in S /\ Head(q) \in Range(q)
         /\ Tail(q) \in Seq(S)
         /\ Range(q) = {Head(q)} \cup Range(Tail(q))
<1>1. /\ Head(q) \in S /\ Tail(q) \in Seq(S)
      /\ Len(q) \in Nat \ {0} /\ DOMAIN q = 1..Len(q)
      /\ Head(q) = q[1]
      /\ DOMAIN Tail(q) = 1..(Len(q) - 1)
      /\ \A i \in 1..(Len(q) - 1) : Tail(q)[i] = q[i + 1]
  BY HeadTailProperties, EmptySeq, LenProperties
<1>2. Range(q) = {Head(q)} \cup Range(Tail(q))
  <2>1. ASSUME NEW x \in Range(q) PROVE x \in {Head(q)} \cup Range(Tail(q))
    <3>1. PICK i \in 1..Len(q) : x = q[i]
      BY <1>1 DEF Range
    <3>2. CASE i = 1 BY <1>1, <3>1, <3>2
    <3>3. CASE i # 1
      <4>1. i - 1 \in DOMAIN Tail(q) /\ x = Tail(q)[i - 1]
        BY <1>1, <3>1, <3>3
      <4> QED BY <4>1, Zenon DEF Range
    <3> QED BY <3>2, <3>3
  <2>2. Head(q) \in Range(q)
    BY <1>1, SMT DEF Range
  <2>3. ASSUME NEW x \in Range(Tail(q)) PROVE x \in Range(q)
    <3>1. PICK i \in 1..(Len(q) - 1) : x = Tail(q)[i]
      BY <1>1, Zenon DEF Range
    <3>2. i + 1 \in DOMAIN q /\ x = q[i + 1]
      BY <1>1, <3>1
    <3> QED BY <3>2, Zenon DEF Range
  <2> QED BY <2>1, <2>2, <2>3
<1> QED BY <1>1, <1>2, SMT

\* What a contiguous part of a sequence holds.
LEMMA SubSeqRange ==
  ASSUME NEW S, NEW q \in Seq(S), NEW a \in 1..(Len(q) + 1), NEW b \in 0..Len(q)
  PROVE  /\ SubSeq(q, a, b) \in Seq(S)
         /\ Range(SubSeq(q, a, b)) \subseteq Range(q)
<1>1. /\ Len(q) \in Nat /\ DOMAIN q = 1..Len(q)
      /\ \A i \in a..b : q[i] \in S
  BY LenProperties
<1>2. /\ SubSeq(q, a, b) \in Seq(S)
      /\ Len(SubSeq(q, a, b)) = IF a <= b THEN b - a + 1 ELSE 0
      /\ \A i \in 1..(b - a + 1) : SubSeq(q, a, b)[i] = q[a + i - 1]
  BY <1>1, SubSeqProperties
<1>3. DOMAIN SubSeq(q, a, b) = 1..Len(SubSeq(q, a, b))
  BY <1>2, LenProperties
<1>4. \A i \in DOMAIN SubSeq(q, a, b) :
         a + i - 1 \in DOMAIN q /\ SubSeq(q, a, b)[i] = q[a + i - 1]
  <2> SUFFICES ASSUME NEW i \in DOMAIN SubSeq(q, a, b)
               PROVE  a + i - 1 \in DOMAIN q /\ SubSeq(q, a, b)[i] = q[a + i - 1]
    OBVIOUS
  <2>1. a \in Nat /\ b \in Nat /\ a >= 1 /\ b <= Len(q)
    BY <1>1
  <2>2. i \in 1..(b - a + 1)
    BY <1>2, <1>3, <2>1
  <2>3. a + i - 1 \in 1..Len(q)
    BY <1>1, <2>1, <2>2
  <2> QED BY <1>1, <1>2, <2>2, <2>3
<1>5. Range(SubSeq(q, a, b)) \subseteq Range(q)
  BY <1>4, Zenon DEF Range
<1> QED BY <1>2, <1>5

\* The empty sequence.
LEMMA NothingInEmpty == Range(<<>>) = {}
BY SMT DEF Range

\* A set of numbers has a least one.
LEMMA LeastOf ==
  ASSUME NEW T, T \subseteq Nat, T # {}
  PROVE  \E x \in T : \A y \in T : x <= y
<1> DEFINE R == OpToRel(<, Nat)
<1>1. IsWellFoundedOn(R, Nat)
  BY NatLessThanWellFounded, Zenon
<1>2. \A i, j \in Nat : i < j => <<i, j>> \in R
  BY SMT DEF OpToRel
<1> HIDE DEF R
<1>3. PICK x \in T : \A y \in T : ~ (<<y, x>> \in R)
  BY <1>1, WFMin, Zenon
<1>4. ASSUME NEW y \in T PROVE x <= y
  <2>1. x \in Nat /\ y \in Nat /\ ~(y < x)
    BY <1>2, <1>3
  <2> QED BY <2>1
<1> QED BY <1>4, Zenon

\* Ascending numbers.
Ascending(q) == \A i, j \in DOMAIN q : i < j => q[i] < q[j]

\* The numbers of p are smaller than those of q.
Before(p, q) == \A m \in Range(p), n \in Range(q) : m < n

\* Nothing and one number.
LEMMA ShortAscending ==
  /\ Ascending(<<>>)
  /\ \A x : Ascending(<<x>>) /\ Range(<<x>>) = {x}
<1>1. Ascending(<<>>)
  BY DEF Ascending
<1>2. ASSUME NEW x PROVE Ascending(<<x>>) /\ Range(<<x>>) = {x}
  <2>1. DOMAIN <<x>> = {1} /\ <<x>>[1] = x
    OBVIOUS
  <2>2. Ascending(<<x>>)
    BY <2>1 DEF Ascending
  <2>3. Range(<<x>>) = {x}
    BY <2>1, Zenon DEF Range
  <2> QED BY <2>2, <2>3
<1> QED BY <1>1, <1>2

\* What a sequence of numbers that gains one holds.
LEMMA AppendOfNat ==
  ASSUME NEW q \in Seq(Nat), NEW x \in Nat
  PROVE  /\ Append(q, x) \in Seq(Nat)
         /\ Range(Append(q, x)) = Range(q) \cup {x}
<1>1. /\ Append(q, x) \in Seq(Nat)
      /\ DOMAIN Append(q, x) = 1..(Len(q) + 1)
      /\ DOMAIN q = 1..Len(q) /\ Len(q) \in Nat
      /\ \A i \in 1..Len(q) : Append(q, x)[i] = q[i]
      /\ Append(q, x)[Len(q) + 1] = x
  OBVIOUS
<1> QED BY <1>1, SMT DEF Range

\* A number that is larger than all is put at the end.
LEMMA AppendAscending ==
  ASSUME NEW q \in Seq(Nat), Ascending(q), NEW x \in Nat, \A n \in Range(q) : n < x
  PROVE  Ascending(Append(q, x))
<1>1. /\ DOMAIN Append(q, x) = 1..(Len(q) + 1)
      /\ DOMAIN q = 1..Len(q) /\ Len(q) \in Nat
      /\ \A i \in 1..Len(q) : Append(q, x)[i] = q[i]
      /\ Append(q, x)[Len(q) + 1] = x
  OBVIOUS
<1>2. \A i \in 1..Len(q) : q[i] < x
  BY <1>1, Zenon DEF Range
<1> QED BY <1>1, <1>2, SMT DEF Ascending

\* A number that is smaller than all is put in front.
LEMMA ConsAscending ==
  ASSUME NEW q \in Seq(Nat), Ascending(q), NEW x \in Nat, \A n \in Range(q) : x < n
  PROVE  /\ <<x>> \o q \in Seq(Nat) /\ Ascending(<<x>> \o q)
         /\ Range(<<x>> \o q) = {x} \cup Range(q)
         /\ <<x>> \o q # <<>> /\ (<<x>> \o q)[1] = x
<1>1. <<x>> \in Seq(Nat) /\ Len(<<x>>) = 1 /\ <<x>>[1] = x
  OBVIOUS
<1>2. /\ <<x>> \o q \in Seq(Nat) /\ Len(q) \in Nat /\ DOMAIN q = 1..Len(q)
      /\ DOMAIN (<<x>> \o q) = 1..(1 + Len(q))
      /\ \A i \in 1..(1 + Len(q)) : (<<x>> \o q)[i] = IF i <= 1 THEN <<x>>[i] ELSE q[i - 1]
  BY <1>1, ConcatProperties, LenProperties
<1>3. (<<x>> \o q)[1] = x /\ \A i \in 2..(1 + Len(q)) : (<<x>> \o q)[i] = q[i - 1]
  BY <1>1, <1>2
<1>4. \A i \in 1..Len(q) : x < q[i]
  BY <1>2, Zenon DEF Range
<1>5. Ascending(<<x>> \o q)
  <2> DEFINE r == <<x>> \o q
  <2>1. /\ Len(q) \in Nat /\ DOMAIN q = 1..Len(q) /\ DOMAIN r = 1..(1 + Len(q)) /\ r[1] = x
        /\ \A i \in 2..(1 + Len(q)) : r[i] = q[i - 1]
    BY <1>2, <1>3
  <2> HIDE DEF r
  <2>2. ASSUME NEW i \in DOMAIN r, NEW j \in DOMAIN r, i < j PROVE r[i] < r[j]
    <3>1. j - 1 \in 1..Len(q) /\ r[j] = q[j - 1]
      BY <2>1, <2>2
    <3>2. CASE i = 1
      BY <1>4, <2>1, <3>1, <3>2
    <3>3. CASE i # 1
      <4>1. i - 1 \in 1..Len(q) /\ r[i] = q[i - 1] /\ i - 1 < j - 1
        BY <2>1, <2>2, <3>3
      <4>2. q[i - 1] < q[j - 1]
        BY <2>1, <3>1, <4>1, Zenon DEF Ascending
      <4> QED BY <3>1, <4>1, <4>2, Zenon
    <3> QED BY <3>2, <3>3
  <2> QED BY <2>2, Zenon DEF Ascending, r
<1>6. Range(<<x>> \o q) = {x} \cup Range(q)
  <2>1. Range(<<x>>) = {x}
    BY ShortAscending
  <2>2. Range(<<x>> \o q) = Range(<<x>>) \cup Range(q)
    <3> DEFINE p == <<x>>
    <3>1. p \in Seq(Nat)
      BY <1>1
    <3> HIDE DEF p
    <3>2. Range(p \o q) = Range(p) \cup Range(q)
      BY <3>1, RangeConcatenation
    <3> QED BY <3>2 DEF p
  <2> QED BY <2>1, <2>2
<1>7. <<x>> \o q # <<>>
  BY <1>2
<1> QED BY <1>2, <1>3, <1>5, <1>6, <1>7

\* A sequence that is cut in two.
LEMMA CutAscending ==
  ASSUME NEW q \in Seq(Nat), Ascending(q), NEW c \in 0..Len(q)
  PROVE  LET p == SubSeq(q, 1, c)
             r == SubSeq(q, c + 1, Len(q))
         IN  /\ p \in Seq(Nat) /\ r \in Seq(Nat)
             /\ Ascending(p) /\ Ascending(r) /\ Before(p, r)
             /\ Range(p) \subseteq Range(q) /\ Range(r) \subseteq Range(q)
             /\ Range(p) = {q[k] : k \in 1..c}
<1> DEFINE p == SubSeq(q, 1, c)
           r == SubSeq(q, c + 1, Len(q))
<1>1. /\ Len(q) \in Nat /\ DOMAIN q = 1..Len(q)
      /\ \A i \in 1..Len(q) : q[i] \in Nat
  BY LenProperties
<1>0. Len(q) \in Nat /\ c \in Nat /\ c <= Len(q)
  BY <1>1
<1>2. /\ p \in Seq(Nat) /\ r \in Seq(Nat)
      /\ Range(p) \subseteq Range(q) /\ Range(r) \subseteq Range(q)
  <2>1. 1 \in 1..(Len(q) + 1) /\ c + 1 \in 1..(Len(q) + 1) /\ Len(q) \in 0..Len(q)
    BY <1>1
  <2> QED BY <2>1, SubSeqRange, Zenon
<1>3. DOMAIN p = 1..c /\ \A i \in 1..c : p[i] = q[i]
  BY <1>1, SubSeqProperties, LenProperties
<1>4. DOMAIN r = 1..(Len(q) - c) /\ \A i \in 1..(Len(q) - c) : r[i] = q[c + i]
  BY <1>1, SubSeqProperties, LenProperties
<1> HIDE DEF p, r
<1>5. Ascending(p)
  <2> SUFFICES ASSUME NEW i \in DOMAIN p, NEW j \in DOMAIN p, i < j PROVE p[i] < p[j]
    BY Zenon DEF Ascending
  <2>1. i \in 1..c /\ j \in 1..c
    BY <1>3, Zenon
  <2>2. i \in 1..Len(q) /\ j \in 1..Len(q)
    BY <1>0, <2>1
  <2>3. q[i] < q[j]
    BY <1>1, <2>2, Zenon DEF Ascending
  <2>4. p[i] = q[i] /\ p[j] = q[j]
    BY <1>3, <2>1, Zenon
  <2> QED BY <2>3, <2>4, Zenon
<1>6. Ascending(r)
  <2> SUFFICES ASSUME NEW i \in DOMAIN r, NEW j \in DOMAIN r, i < j PROVE r[i] < r[j]
    BY DEF Ascending
  <2>1. i \in 1..(Len(q) - c) /\ j \in 1..(Len(q) - c)
    BY <1>4, Zenon
  <2>2. c + i \in 1..Len(q) /\ c + j \in 1..Len(q) /\ c + i < c + j
    <3>1. i \in Nat /\ j \in Nat /\ i >= 1 /\ j >= 1 /\ i <= Len(q) - c /\ j <= Len(q) - c
      BY <1>0, <2>1
    <3>2. c + i <= Len(q) /\ c + j <= Len(q) /\ c + i >= 1 /\ c + j >= 1 /\ c + i < c + j
      BY <1>0, <3>1
    <3> QED BY <1>0, <3>1, <3>2
  <2>3. q[c + i] < q[c + j]
    BY <1>1, <2>2, Zenon DEF Ascending
  <2>4. r[i] = q[c + i] /\ r[j] = q[c + j]
    BY <1>4, <2>1, Zenon
  <2> QED BY <2>3, <2>4, Zenon
<1>7. Before(p, r)
  <2>1. \A i \in 1..c, j \in 1..(Len(q) - c) : p[i] < r[j]
    <3> SUFFICES ASSUME NEW i \in 1..c, NEW j \in 1..(Len(q) - c) PROVE p[i] < r[j]
      OBVIOUS
    <3>1. i \in DOMAIN q /\ c + j \in DOMAIN q /\ i < c + j
      BY <1>1
    <3>2. q[i] < q[c + j]
      BY <3>1, Zenon DEF Ascending
    <3> QED BY <1>3, <1>4, <3>2
  <2> QED BY <1>3, <1>4, <2>1, Zenon DEF Before, Range
<1>8. Range(p) = {q[k] : k \in 1..c}
  BY <1>3, Zenon DEF Range
<1> QED BY <1>2, <1>5, <1>6, <1>7, <1>8 DEF p, r

\* The head of a sequence and what is behind it.
LEMMA TailAscending ==
  ASSUME NEW q \in Seq(Nat), Ascending(q), q # <<>>
  PROVE  /\ Head(q) \in Nat /\ Tail(q) \in Seq(Nat) /\ Ascending(Tail(q))
         /\ \A n \in Range(Tail(q)) : Head(q) < n
         /\ Range(q) = {Head(q)} \cup Range(Tail(q))
         /\ SubSeq(q, 1, 1) = <<Head(q)>>
<1>1. /\ Head(q) \in Nat /\ Tail(q) \in Seq(Nat)
      /\ Len(q) \in Nat \ {0} /\ DOMAIN q = 1..Len(q)
      /\ Head(q) = q[1]
      /\ DOMAIN Tail(q) = 1..(Len(q) - 1)
      /\ \A i \in 1..(Len(q) - 1) : Tail(q)[i] = q[i + 1]
  BY HeadTailProperties, EmptySeq, LenProperties
<1>2. Ascending(Tail(q))
  <2> SUFFICES ASSUME NEW i \in DOMAIN Tail(q), NEW j \in DOMAIN Tail(q), i < j
               PROVE  Tail(q)[i] < Tail(q)[j]
    BY Zenon DEF Ascending
  <2>1. i \in 1..(Len(q) - 1) /\ j \in 1..(Len(q) - 1) /\ Len(q) \in Nat
    BY <1>1, Zenon
  <2>2. i + 1 \in 1..Len(q) /\ j + 1 \in 1..Len(q) /\ i + 1 < j + 1
    BY <2>1
  <2>3. q[i + 1] < q[j + 1]
    BY <1>1, <2>2, Zenon DEF Ascending
  <2>4. Tail(q)[i] = q[i + 1] /\ Tail(q)[j] = q[j + 1]
    BY <1>1, <2>1, Zenon
  <2> QED BY <2>3, <2>4, Zenon
<1>3. \A n \in Range(Tail(q)) : Head(q) < n
  <2>1. \A i \in 1..(Len(q) - 1) : Head(q) < Tail(q)[i]
    BY <1>1, SMT DEF Ascending
  <2> QED BY <1>1, <2>1, Zenon DEF Range
<1>4. SubSeq(q, 1, 1) = <<Head(q)>>
  <2>1. /\ SubSeq(q, 1, 1) \in Seq(Nat) /\ Len(SubSeq(q, 1, 1)) = 1
        /\ SubSeq(q, 1, 1)[1] = q[1]
    BY <1>1, SubSeqProperties
  <2>2. <<Head(q)>> \in Seq(Nat) /\ Len(<<Head(q)>>) = 1 /\ <<Head(q)>>[1] = q[1]
    BY <1>1
  <2>3. \A i \in 1..1 : SubSeq(q, 1, 1)[i] = <<Head(q)>>[i]
    BY <2>1, <2>2
  <2> QED BY <2>1, <2>2, <2>3, SeqEqual, Zenon
<1> QED BY <1>1, <1>2, <1>3, <1>4, TailRange

-----------------------------------------------------------------------------
PublishedInv ==
  \A n \in DOMAIN published : Kind(n) = "reply" => published[n].text # None

OnItsWay == Range(sending.events) \cup Range(pending) \cup Range(queue)

FlowInv ==
  /\ Ascending(sending.events) /\ Ascending(pending) /\ Ascending(queue)
  /\ Before(sending.events, pending) /\ Before(sending.events, queue) /\ Before(pending, queue)
  /\ \A n \in OnItsWay : n \in DOMAIN published /\ outcome[n] = "open"
  /\ ~up => sending = Idle /\ pending = <<>>

OneStream(ns) ==
  \A m, n \in Range(ns) : Turn(m) = Turn(n) /\ published[m].segment = published[n].segment

\* What became of an event is known before anything behind it is looked at.
SettledInv ==
  \A n \in DOMAIN published : outcome[n] # "open" => \A m \in OnItsWay : n < m

SendingInv ==
  /\ sending.events = <<>> => sending.failed = 0
  /\ OneStream(sending.events)

DeliveredInv ==
  /\ delivered = sending.events \/ Before(delivered, sending.events)
  /\ Before(delivered, pending) /\ Before(delivered, queue)
  /\ Range(delivered) \subseteq DOMAIN published

\* No later reply in the chat about the message was handed to the channel.
LastOf(k, c, s) ==
  \A j \in DOMAIN published :
    /\ k < j /\ Chat(j) = c /\ Kind(j) = "reply" /\ Source(j) = s
    => outcome[j] \notin {"sent", "failed"} /\ j \notin Range(sending.events)

FingerprintInv ==
  up => \A c \in Chats, s \in Turns : fingerprints[<<c, s>>] # None =>
    \E k \in DOMAIN published :
      /\ Chat(k) = c /\ Kind(k) = "reply" /\ Source(k) = s
      /\ published[k].text = fingerprints[<<c, s>>]
      /\ outcome[k] \in {"sent", "failed"} \/ k \in Range(sending.events)
      /\ \A n \in Range(pending) \cup Range(queue) : k < n
      /\ LastOf(k, c, s)

Inv ==
  /\ TypeOK /\ PublishedInv /\ FlowInv /\ SettledInv /\ SendingInv /\ DeliveredInv
  /\ FingerprintInv /\ SuppressedRepeats

Outcomes == {"open", "sent", "filtered", "suppressed", "failed", "lost"}

-----------------------------------------------------------------------------
(* The operators *)

\* The events that were published and what became of them are numbered alike.
LEMMA EventFacts ==
  ASSUME TypeOK
  PROVE  /\ Len(published) \in Nat
         /\ DOMAIN published = 1..Len(published) /\ DOMAIN outcome = DOMAIN published
         /\ \A n \in DOMAIN published : /\ published[n] \in Event /\ n \in Nat
                                        /\ Turn(n) \in Turns /\ Chat(n) \in Chats
                                        /\ Source(n) \in Turns
                                        /\ outcome[n] \in Outcomes
<1>1. /\ Len(published) \in Nat
      /\ DOMAIN published = 1..Len(published) /\ DOMAIN outcome = DOMAIN published
      /\ \A n \in DOMAIN published : published[n] \in Event /\ outcome[n] \in Outcomes
  BY LenProperties, ElementOfSeq DEF TypeOK, Outcomes
<1>2. \A n \in DOMAIN published : published[n].turn \in Turns
  BY <1>1 DEF Event
<1> QED BY <1>1, <1>2, ChannelAssumption DEF Turn, Chat, Source

\* The numbers of the events on their way.
LEMMA FlowTypes ==
  ASSUME TypeOK
  PROVE  /\ Range(sending.events) \subseteq Nat /\ Range(pending) \subseteq Nat
         /\ Range(queue) \subseteq Nat /\ Range(delivered) \subseteq Nat
<1>1. /\ sending.events \in Seq(Nat) /\ pending \in Seq(Nat) /\ queue \in Seq(Nat)
      /\ delivered \in Seq(Nat)
  BY DEF TypeOK
<1> QED BY <1>1, RangeOfSeq

\* Settle gives the events of a sequence their outcome and leaves the others.
LEMMA SettleFacts ==
  ASSUME TypeOK, NEW ns, NEW what \in Outcomes
  PROVE  /\ Settle(ns, what) \in Seq(Outcomes) /\ Len(Settle(ns, what)) = Len(published)
         /\ DOMAIN Settle(ns, what) = DOMAIN published
         /\ \A n \in DOMAIN published :
              Settle(ns, what)[n] = IF n \in Range(ns) THEN what ELSE outcome[n]
<1> DEFINE o == Settle(ns, what)
           m == Len(published)
<1>1. /\ m \in Nat /\ DOMAIN outcome = 1..m /\ DOMAIN published = 1..m
      /\ \A n \in 1..m : outcome[n] \in Outcomes
  BY EventFacts
<1>2. o = [n \in 1..m |-> IF n \in Range(ns) THEN what ELSE outcome[n]]
  BY <1>1, Zenon DEF Settle
<1> HIDE DEF o, m
<1>3. o \in [1..m -> Outcomes]
  BY <1>1, <1>2
<1>4. o \in Seq(Outcomes)
  BY <1>1, <1>3, SeqDef, Zenon
<1>5. DOMAIN o = 1..m
  BY <1>2
<1>6. Len(o) = m
  BY <1>1, <1>4, <1>5, LenProperties
<1> QED BY <1>1, <1>2, <1>4, <1>5, <1>6 DEF o, m

\* The deltas that are merged into event n are those of its stream.
LEMMA FollowingFacts ==
  ASSUME NEW n, NEW q \in Seq(Nat)
  PROVE  /\ Following(n, q) \in 0..Len(q)
         /\ \A k \in 1..Following(n, q) : SameStream(n, q[k])
<1> DEFINE Ends(i) == i < Len(q) => ~SameStream(n, q[i + 1])
           Found(i) == (\A k \in 1..i : SameStream(n, q[k])) /\ Ends(i)
           T == {i \in 0..Len(q) : Ends(i)}
<1>1. Len(q) \in Nat
  BY LenProperties
<1>2. T \subseteq Nat /\ Len(q) \in T
  BY <1>1
<1>3. PICK i \in T : \A j \in T : i <= j
  BY <1>2, LeastOf
<1>4. i \in 0..Len(q) /\ Ends(i)
  BY <1>3
<1>5. ASSUME NEW k \in 1..i PROVE SameStream(n, q[k])
  <2>1. k - 1 \in 0..Len(q) /\ k - 1 < Len(q) /\ k - 1 + 1 = k /\ ~(i <= k - 1)
    BY <1>1, <1>4
  <2>2. k - 1 \notin T
    BY <1>3, <2>1
  <2>3. SameStream(n, q[k - 1 + 1])
    BY <2>1, <2>2
  <2> QED BY <2>1, <2>3
<1>6. Found(i)
  BY <1>4, <1>5
<1>7. Following(n, q) = CHOOSE j \in 0..Len(q) : Found(j)
  BY DEF Following
<1> HIDE DEF Found, T, Ends
<1>8. Following(n, q) \in 0..Len(q) /\ Found(Following(n, q))
  BY <1>4, <1>6, <1>7, Zenon
<1> QED BY <1>8 DEF Found

-----------------------------------------------------------------------------
(* The steps *)

\* The reply that a suppressed one repeats.
Twin(k, n) ==
  /\ Handed(k, n) /\ published[k].text = published[n].text
  /\ \A j \in k + 1..n - 1 : ~Handed(j, n)

\* Settling what is on its way takes nothing back that a suppression rests on.
LEMMA SuppressedKept ==
  ASSUME TypeOK, SettledInv, SuppressedRepeats, published' = published,
         \A n \in DOMAIN published : n \notin OnItsWay => outcome'[n] = outcome[n],
         \A n \in DOMAIN published : outcome[n] # "open" => outcome'[n] = outcome[n],
         \A n \in DOMAIN published : outcome'[n] = "suppressed" => outcome[n] = "suppressed"
  PROVE  SuppressedRepeats'
<1> SUFFICES ASSUME NEW n \in DOMAIN published, outcome'[n] = "suppressed"
             PROVE  \E k \in 1..n - 1 : Twin(k, n)'
  BY Zenon DEF SuppressedRepeats, Twin
<1>1. outcome[n] = "suppressed" /\ n \in Nat
  BY EventFacts
<1>2. PICK k \in 1..n - 1 : Twin(k, n)
  BY <1>1, Zenon DEF SuppressedRepeats, Twin
<1>3. \A j \in 1..n - 1 : j \in DOMAIN published /\ outcome'[j] = outcome[j]
  <2> SUFFICES ASSUME NEW j \in 1..n - 1 PROVE j \in DOMAIN published /\ outcome'[j] = outcome[j]
    OBVIOUS
  <2>1. j \in DOMAIN published /\ j < n /\ n \in DOMAIN published
    BY EventFacts
  <2>2. j \notin OnItsWay
    BY <1>1, <2>1 DEF SettledInv
  <2> QED BY <2>1, <2>2
<1>4. \A j \in 1..n - 1 : Handed(j, n)' <=> Handed(j, n)
  BY <1>3 DEF Handed, Chat, Kind, Source, Turn
<1>5. \A j \in k + 1..n - 1 : j \in 1..n - 1
  BY <1>1
<1>6. Twin(k, n)'
  BY <1>2, <1>4, <1>5 DEF Twin
<1> QED BY <1>6

\* The events that are published keep their place in every operator.
LEMMA PublishKeeps ==
  ASSUME TypeOK, NEW t \in Turns, NEW kind, NEW text, Publish(t, kind, text)
  PROVE  /\ DOMAIN published' = DOMAIN published \cup {Len(published) + 1}
         /\ Len(published) + 1 \notin DOMAIN published
         /\ \A n \in DOMAIN published : /\ published'[n] = published[n] /\ outcome'[n] = outcome[n]
                                        /\ Turn(n)' = Turn(n) /\ Kind(n)' = Kind(n)
                                        /\ Chat(n)' = Chat(n) /\ Source(n)' = Source(n)
         /\ outcome'[Len(published) + 1] = "open"
         /\ published'[Len(published) + 1] =
              [turn |-> t, kind |-> kind, segment |-> segment[t], text |-> text]
<1> DEFINE m == Len(published)
           e == [turn |-> t, kind |-> kind, segment |-> segment[t], text |-> text]
<1>1. /\ m \in Nat /\ Len(outcome) = m
      /\ published \in Seq(Event) /\ outcome \in Seq(Outcomes)
  BY EventFacts DEF TypeOK, Outcomes
<1>2. published' = Append(published, e) /\ outcome' = Append(outcome, "open")
  BY DEF Publish
<1> HIDE DEF e
<1>3. /\ DOMAIN published = 1..m /\ DOMAIN published' = 1..(m + 1)
      /\ \A n \in 1..m : published'[n] = published[n]
      /\ published'[m + 1] = e
  BY <1>1, <1>2, LenProperties
<1>4. \A n \in 1..m : outcome'[n] = outcome[n]
  BY <1>1, <1>2, LenProperties
<1>5. outcome'[m + 1] = "open"
  BY <1>1, <1>2
<1>6. 1..(m + 1) = 1..m \cup {m + 1} /\ m + 1 \notin 1..m
  BY <1>1
<1>7. \A n \in 1..m : /\ Turn(n)' = Turn(n) /\ Kind(n)' = Kind(n)
                      /\ Chat(n)' = Chat(n) /\ Source(n)' = Source(n)
  BY <1>3 DEF Turn, Kind, Chat, Source
<1> QED BY <1>3, <1>4, <1>5, <1>6, <1>7 DEF e

\* What is published is behind everything that is on its way.
LEMMA PublishInv ==
  ASSUME Inv, NEW t \in Turns, NEW kind \in Notices \cup Stream \cup {"reply"},
         NEW text \in Texts \cup {None}, kind = "reply" => text # None,
         Publish(t, kind, text), segment' \in [Turns -> Nat]
  PROVE  Inv'
<1> DEFINE m == Len(published)
           e == [turn |-> t, kind |-> kind, segment |-> segment[t], text |-> text]
<1>1. TypeOK /\ m \in Nat /\ DOMAIN published = 1..m /\ segment \in [Turns -> Nat]
  BY EventFacts DEF Inv, TypeOK
<1>2. e \in Event
  BY <1>1 DEF Event
<1>3. /\ published' = Append(published, e) /\ outcome' = Append(outcome, "open")
      /\ queue' = Append(queue, m + 1)
      /\ up /\ UNCHANGED <<pending, sending, fingerprints, up, delivered>>
  BY DEF Publish
<1>4. /\ DOMAIN published' = DOMAIN published \cup {m + 1} /\ m + 1 \notin DOMAIN published
      /\ \A n \in DOMAIN published : /\ published'[n] = published[n] /\ outcome'[n] = outcome[n]
                                     /\ Turn(n)' = Turn(n) /\ Kind(n)' = Kind(n)
                                     /\ Chat(n)' = Chat(n) /\ Source(n)' = Source(n)
      /\ outcome'[m + 1] = "open" /\ published'[m + 1] = e
  BY <1>1, PublishKeeps
<1>5. published'[m + 1].kind = kind /\ published'[m + 1].text = text
  BY <1>4
<1>6. /\ queue \in Seq(Nat) /\ m + 1 \in Nat
      /\ Range(queue') = Range(queue) \cup {m + 1} /\ queue' \in Seq(Nat)
  <2>1. queue \in Seq(Nat) /\ m + 1 \in Nat
    BY <1>1 DEF TypeOK
  <2> QED BY <1>3, <2>1, AppendOfNat
<1>7. \A n \in DOMAIN published : n < m + 1
  BY <1>1
<1> HIDE DEF m
<1>8. TypeOK'
  <2>1. published' \in Seq(Event) /\ Len(published') = m + 1
    <3>1. published \in Seq(Event) /\ Len(published) = m
      BY <1>1 DEF TypeOK, m
    <3>2. published' = Append(published, e)
      BY <1>3
    <3> QED BY <1>2, <3>1, <3>2, AppendProperties
  <2>2. outcome' \in Seq(Outcomes) /\ Len(outcome') = m + 1
    <3>1. outcome \in Seq(Outcomes) /\ Len(outcome) = m /\ "open" \in Outcomes
      BY <1>1 DEF TypeOK, m, Outcomes
    <3>2. outcome' = Append(outcome, "open")
      BY <1>3
    <3> HIDE DEF Outcomes
    <3> QED BY <3>1, <3>2, AppendProperties
  <2> QED BY <1>1, <1>3, <1>6, <2>1, <2>2 DEF TypeOK, Outcomes
<1>9. PublishedInv'
  BY <1>4, <1>5 DEF Inv, PublishedInv, Kind
<1>10. FlowInv'
  <2>1. \A n \in OnItsWay : n \in DOMAIN published /\ outcome[n] = "open"
    BY DEF Inv, FlowInv
  <2>2. OnItsWay' = OnItsWay \cup {m + 1}
    BY <1>3, <1>6 DEF OnItsWay
  <2>3. \A n \in OnItsWay' : n \in DOMAIN published' /\ outcome'[n] = "open"
    BY <1>4, <2>1, <2>2
  <2>4. Ascending(queue')
    BY <1>3, <1>6, <1>7, <2>1, AppendAscending DEF Inv, FlowInv, OnItsWay
  <2>5. Before(sending.events, queue') /\ Before(pending, queue')
    BY <1>6, <1>7, <2>1 DEF Inv, FlowInv, OnItsWay, Before
  <2> QED BY <1>3, <2>3, <2>4, <2>5 DEF Inv, FlowInv
<1>11. SendingInv'
  BY <1>3, <1>4 DEF Inv, SendingInv, OneStream, FlowInv, OnItsWay
<1>12. DeliveredInv'
  <2>1. Before(delivered, queue')
    BY <1>6, <1>7 DEF Inv, DeliveredInv, Before
  <2> QED BY <1>3, <1>4, <2>1 DEF Inv, DeliveredInv
<1>13. FingerprintInv'
  <2> SUFFICES ASSUME NEW c \in Chats, NEW s \in Turns, fingerprints[<<c, s>>] # None
               PROVE  \E k \in DOMAIN published' :
                        /\ Chat(k)' = c /\ Kind(k)' = "reply" /\ Source(k)' = s
                        /\ published'[k].text = fingerprints[<<c, s>>]
                        /\ outcome'[k] \in {"sent", "failed"} \/ k \in Range(sending.events)
                        /\ \A n \in Range(pending) \cup Range(queue') : k < n
                        /\ LastOf(k, c, s)'
    BY <1>3 DEF FingerprintInv
  <2>1. PICK k \in DOMAIN published :
          /\ Chat(k) = c /\ Kind(k) = "reply" /\ Source(k) = s
          /\ published[k].text = fingerprints[<<c, s>>]
          /\ outcome[k] \in {"sent", "failed"} \/ k \in Range(sending.events)
          /\ \A n \in Range(pending) \cup Range(queue) : k < n
          /\ LastOf(k, c, s)
    BY <1>3 DEF Inv, FingerprintInv
  <2>2. k \in DOMAIN published'
    BY <1>4
  <2>3. LastOf(k, c, s)'
    <3>1. m + 1 \notin Range(sending'.events) /\ sending'.events = sending.events
      BY <1>3, <1>4 DEF Inv, FlowInv, OnItsWay
    <3> QED BY <1>4, <2>1, <3>1 DEF LastOf
  <2> WITNESS k \in DOMAIN published'
  <2> QED BY <1>4, <1>6, <1>7, <2>1, <2>3
<1>14. SuppressedRepeats'
  <2> SUFFICES ASSUME NEW n \in DOMAIN published, outcome[n] = "suppressed"
               PROVE  \E k \in 1..n - 1 : Twin(k, n)'
    BY <1>4, Zenon DEF SuppressedRepeats, Twin
  <2>1. PICK k \in 1..n - 1 : Twin(k, n)
    BY Zenon DEF Inv, SuppressedRepeats, Twin
  <2>2. n \in Nat /\ \A j \in 1..n - 1 : j \in DOMAIN published
    BY <1>1, EventFacts
  <2>3. \A j \in 1..n - 1 : Handed(j, n)' <=> Handed(j, n)
    BY <1>4, <2>2 DEF Handed
  <2>4. \A j \in k + 1..n - 1 : j \in 1..n - 1
    BY <2>2
  <2>5. Twin(k, n)'
    BY <1>4, <2>1, <2>2, <2>3, <2>4 DEF Twin
  <2> QED BY <2>5
<1>15. SettledInv'
  <2>1. OnItsWay' = OnItsWay \cup {m + 1}
    BY <1>3, <1>6 DEF OnItsWay
  <2> QED BY <1>4, <1>7, <2>1 DEF Inv, SettledInv
<1> QED BY <1>8, <1>9, <1>10, <1>11, <1>12, <1>13, <1>14, <1>15 DEF Inv

-----------------------------------------------------------------------------
(* Taking an event *)

\* The event that is taken, and what is left behind it.
LEMMA NextFacts ==
  ASSUME TypeOK, FlowInv, pending # <<>> \/ queue # <<>>,
         NEW n, n = Head(pending \o queue),
         NEW rest, rest = IF pending # <<>> THEN queue ELSE Tail(queue)
  PROVE  /\ n \in Nat /\ rest \in Seq(Nat) /\ Ascending(rest)
         /\ n \in Range(pending) \cup Range(queue)
         /\ Range(rest) \subseteq Range(pending) \cup Range(queue)
         /\ \A k \in Range(rest) : n < k
<1>1. /\ pending \in Seq(Nat) /\ Len(pending) <= 1 /\ queue \in Seq(Nat)
      /\ Ascending(pending) /\ Ascending(queue) /\ Before(pending, queue)
  BY DEF TypeOK, FlowInv
<1>2. CASE pending = <<>>
  <2>1. pending \o queue = queue /\ queue # <<>>
    BY <1>1, <1>2
  <2>2. n = Head(queue) /\ rest = Tail(queue)
    BY <1>2, <2>1
  <2> QED BY <1>1, <2>1, <2>2, TailAscending
<1>3. CASE pending # <<>>
  <2> DEFINE l == Len(pending)
  <2>1. l \in Nat /\ l # 0
    BY <1>1, <1>3, EmptySeq, LenProperties
  <2>2. l = 1 /\ 1 \in 1..l
    <3>1. l <= 1
      BY <1>1
    <3> HIDE DEF l
    <3> QED BY <2>1, <3>1
  <2>3. PICK p \in Nat : pending = <<p>>
    <3>1. pending[1] \in Nat
      BY <1>1, <2>2, ElementOfSeq, Zenon
    <3>2. <<pending[1]>> \in Seq(Nat) /\ Len(<<pending[1]>>) = 1 /\ <<pending[1]>>[1] = pending[1]
      BY <3>1
    <3>3. \A k \in 1..1 : pending[k] = <<pending[1]>>[k]
      BY <3>2
    <3>4. pending = <<pending[1]>>
      BY <1>1, <2>2, <3>2, <3>3, SeqEqual, Zenon
    <3> QED BY <3>1, <3>4
  <2>4. Range(pending) = {p}
    BY <2>3, ShortAscending
  <2>5. \A k \in Range(queue) : p < k
    BY <1>1, <2>4 DEF Before
  <2>6. (<<p>> \o queue)[1] = p /\ <<p>> \o queue # <<>> /\ <<p>> \o queue \in Seq(Nat)
    BY <1>1, <2>5, ConsAscending
  <2>7. n = p /\ rest = queue
    BY <1>3, <2>3, <2>6
  <2> QED BY <1>1, <2>4, <2>5, <2>7
<1> QED BY <1>2, <1>3

\* How many of the events behind it are merged with it, the merged events and
\* those that stay.
Merges(n, rest) == IF Kind(n) = "delta" THEN Following(n, rest) ELSE 0
Merged(n, rest) == <<n>> \o SubSeq(rest, 1, Merges(n, rest))
Left(n, rest)   == SubSeq(rest, Merges(n, rest) + 1, Len(rest))

\* What is merged is of one stream, and what stays is behind it.
LEMMA RunFacts ==
  ASSUME NEW n \in Nat, NEW rest \in Seq(Nat), Ascending(rest), \A k \in Range(rest) : n < k
  PROVE  /\ Merged(n, rest) \in Seq(Nat) /\ Left(n, rest) \in Seq(Nat)
         /\ Ascending(Merged(n, rest)) /\ Ascending(Left(n, rest))
         /\ Before(Merged(n, rest), Left(n, rest))
         /\ n \in Range(Merged(n, rest)) /\ Range(Merged(n, rest)) \subseteq {n} \cup Range(rest)
         /\ Range(Left(n, rest)) \subseteq Range(rest)
         /\ OneStream(Merged(n, rest))
         /\ Kind(n) # "delta" => Range(Merged(n, rest)) = {n}
         /\ \A k \in Range(Merged(n, rest)) : Kind(k) = Kind(n)
<1> DEFINE i == Merges(n, rest)
           ns == Merged(n, rest)
           left == Left(n, rest)
<1>1. i \in 0..Len(rest) /\ \A k \in 1..i : SameStream(n, rest[k])
  BY FollowingFacts, LenProperties DEF Merges
<1> DEFINE p == SubSeq(rest, 1, i)
<1>2. /\ p \in Seq(Nat) /\ left \in Seq(Nat)
      /\ Ascending(p) /\ Ascending(left) /\ Before(p, left)
      /\ Range(p) \subseteq Range(rest) /\ Range(left) \subseteq Range(rest)
      /\ Range(p) = {rest[k] : k \in 1..i}
  BY <1>1, CutAscending DEF Left
<1>3. ns = <<n>> \o p
  BY DEF Merged
<1>4. Kind(n) # "delta" => Range(p) = {}
  BY <1>2 DEF Merges
<1> HIDE DEF p
<1>5. /\ ns \in Seq(Nat) /\ Ascending(ns) /\ Range(ns) = {n} \cup Range(p)
  BY <1>2, <1>3, ConsAscending
<1>6. Before(ns, left)
  BY <1>2, <1>5 DEF Before
<1>7. \A k \in Range(p) : SameStream(n, k)
  BY <1>1, <1>2
<1>8. OneStream(ns)
  BY <1>5, <1>7 DEF OneStream, SameStream
<1>9. \A k \in Range(ns) : Kind(k) = Kind(n)
  BY <1>4, <1>5, <1>7 DEF SameStream
<1> QED BY <1>2, <1>4, <1>5, <1>6, <1>8, <1>9

\* What the step leaves put aside and queued.
LEMMA RestFacts ==
  ASSUME NEW ns \in Seq(Nat), NEW left \in Seq(Nat), Ascending(left), Before(ns, left),
         NEW delta \in BOOLEAN,
         IF delta /\ left # <<>>
         THEN pending' = Boundary(left) /\ queue' = Tail(left)
         ELSE pending' = <<>> /\ queue' = left
  PROVE  /\ pending' \in Seq(Nat) /\ Len(pending') <= 1 /\ queue' \in Seq(Nat)
         /\ Ascending(pending') /\ Ascending(queue') /\ Before(pending', queue')
         /\ Range(pending') \cup Range(queue') = Range(left)
         /\ Before(ns, pending') /\ Before(ns, queue')
<1>1. CASE delta /\ left # <<>>
  <2>1. /\ Head(left) \in Nat /\ queue' \in Seq(Nat) /\ Ascending(queue')
        /\ \A k \in Range(queue') : Head(left) < k
        /\ Range(left) = {Head(left)} \cup Range(queue')
        /\ pending' = <<Head(left)>>
    <3>1. pending' = Boundary(left) /\ queue' = Tail(left) /\ left # <<>>
      BY <1>1
    <3> QED BY <3>1, TailAscending DEF Boundary
  <2>2. /\ pending' \in Seq(Nat) /\ Len(pending') <= 1
        /\ Ascending(pending') /\ Range(pending') = {Head(left)}
    BY <2>1, ShortAscending
  <2> QED BY <2>1, <2>2 DEF Before
<1>2. CASE ~(delta /\ left # <<>>)
  <2>1. pending' = <<>> /\ queue' = left
    BY <1>2
  <2>2. Range(<<>>) = {} /\ Ascending(<<>>) /\ <<>> \in Seq(Nat) /\ Len(<<>>) = 0
    BY ShortAscending, NothingInEmpty
  <2> QED BY <2>1, <2>2 DEF Before
<1> QED BY <1>1, <1>2

\* What Take does to what is on its way.
TakeOf(n, ns, left) ==
  /\ Kind(n) # "delta" => Range(ns) = {n}
  /\ \A k \in Range(ns) : Kind(k) = Kind(n)
  /\ IF Filtered(n) THEN outcome' = Settle(ns, "filtered") /\ UNCHANGED <<sending, fingerprints>>
     ELSE IF Repeats(n)
     THEN outcome' = Settle(ns, "suppressed") /\ UNCHANGED <<sending, fingerprints>>
     ELSE /\ sending' = [Idle EXCEPT !.events = ns]
          /\ fingerprints' = Fingerprinted(n)
          /\ UNCHANGED outcome
  /\ ns \in Seq(Nat) /\ Ascending(ns) /\ OneStream(ns)
  /\ n \in Range(ns) /\ Range(ns) \subseteq Range(pending) \cup Range(queue)
  /\ pending' \in Seq(Nat) /\ Len(pending') <= 1 /\ queue' \in Seq(Nat)
  /\ Ascending(pending') /\ Ascending(queue') /\ Before(pending', queue')
  /\ Range(pending') \cup Range(queue') = Range(left)
  /\ Range(left) \subseteq Range(pending) \cup Range(queue)
  /\ Before(ns, pending') /\ Before(ns, queue')

\* Every step of the dispatcher to the next event is of that form.
LEMMA TakeFacts == ASSUME TypeOK, FlowInv, Take PROVE \E n, ns, left : TakeOf(n, ns, left)
<1>a. PICK n : n = Head(pending \o queue)
  OBVIOUS
<1>b. PICK rest : rest = IF pending # <<>> THEN queue ELSE Tail(queue)
  OBVIOUS
<1>c. PICK ns : ns = Merged(n, rest)
  OBVIOUS
<1>d. PICK left : left = Left(n, rest)
  OBVIOUS
<1>1. /\ IF Kind(n) = "delta" /\ left # <<>>
         THEN pending' = Boundary(left) /\ queue' = Tail(left)
         ELSE pending' = <<>> /\ queue' = left
      /\ IF Filtered(n) THEN outcome' = Settle(ns, "filtered") /\ UNCHANGED <<sending, fingerprints>>
         ELSE IF Repeats(n)
         THEN outcome' = Settle(ns, "suppressed") /\ UNCHANGED <<sending, fingerprints>>
         ELSE /\ sending' = [Idle EXCEPT !.events = ns]
              /\ fingerprints' = Fingerprinted(n)
              /\ UNCHANGED outcome
  BY <1>a, <1>b, <1>c, <1>d, Zenon DEF Take, Merges, Merged, Left
<1>2. pending # <<>> \/ queue # <<>>
  BY DEF Take
<1>3. /\ n \in Nat /\ rest \in Seq(Nat) /\ Ascending(rest)
      /\ n \in Range(pending) \cup Range(queue)
      /\ Range(rest) \subseteq Range(pending) \cup Range(queue)
      /\ \A k \in Range(rest) : n < k
  BY <1>a, <1>b, <1>2, NextFacts
<1>4. /\ ns \in Seq(Nat) /\ left \in Seq(Nat)
      /\ Ascending(ns) /\ Ascending(left) /\ Before(ns, left)
      /\ n \in Range(ns) /\ Range(ns) \subseteq {n} \cup Range(rest)
      /\ Range(left) \subseteq Range(rest)
      /\ OneStream(ns)
      /\ Kind(n) # "delta" => Range(ns) = {n}
      /\ \A k \in Range(ns) : Kind(k) = Kind(n)
  BY <1>c, <1>d, <1>3, RunFacts
<1>5. /\ pending' \in Seq(Nat) /\ Len(pending') <= 1 /\ queue' \in Seq(Nat)
      /\ Ascending(pending') /\ Ascending(queue') /\ Before(pending', queue')
      /\ Range(pending') \cup Range(queue') = Range(left)
      /\ Before(ns, pending') /\ Before(ns, queue')
  <2> DEFINE delta == Kind(n) = "delta"
  <2>1. /\ delta \in BOOLEAN
        /\ IF delta /\ left # <<>>
           THEN pending' = Boundary(left) /\ queue' = Tail(left)
           ELSE pending' = <<>> /\ queue' = left
    BY <1>1
  <2> HIDE DEF delta
  <2> QED BY <1>4, <2>1, RestFacts
<1>6. Range(ns) \subseteq Range(pending) \cup Range(queue) /\ Range(left) \subseteq Range(pending) \cup Range(queue)
  BY <1>3, <1>4
<1>7. TakeOf(n, ns, left)
  BY <1>1, <1>4, <1>5, <1>6 DEF TakeOf
<1> QED BY <1>7

\* What is taken is in front of everything else, was open, and a reply that is
\* sent leaves its fingerprint.
LEMMA TakeInv == ASSUME Inv, Take PROVE Inv'
<1>1. PICK n, ns, left : TakeOf(n, ns, left)
  BY TakeFacts DEF Inv
<1>2. /\ TypeOK /\ DOMAIN outcome = DOMAIN published
      /\ \A k \in DOMAIN published : /\ Turn(k) \in Turns /\ Chat(k) \in Chats
                                     /\ Source(k) \in Turns /\ k \in Nat
                                     /\ published[k] \in Event
  BY EventFacts DEF Inv
<1>3. /\ up /\ sending = Idle /\ sending.events = <<>> /\ Range(sending.events) = {}
      /\ UNCHANGED <<published, segment, up, delivered>>
  BY NothingInEmpty DEF Take, Idle, turnVars
<1>4. \A k \in Range(pending) \cup Range(queue) :
         k \in DOMAIN published /\ outcome[k] = "open" /\ k \in Nat
  BY <1>2 DEF Inv, FlowInv, OnItsWay
<1>5. /\ ns \in Seq(Nat) /\ n \in Range(ns) /\ n \in DOMAIN published
      /\ \A k \in Range(ns) : k \in DOMAIN published /\ outcome[k] = "open"
  BY <1>1, <1>4 DEF TakeOf
<1>6. \A k \in Range(pending') \cup Range(queue') :
         /\ k \in Range(pending) \cup Range(queue)
         /\ k \notin Range(ns) /\ k \in DOMAIN published /\ outcome[k] = "open"
  <2> SUFFICES ASSUME NEW k \in Range(pending') \cup Range(queue')
               PROVE  k \in Range(pending) \cup Range(queue) /\ k \notin Range(ns)
    BY <1>4
  <2>1. k \in Range(pending) \cup Range(queue)
    BY <1>1, Zenon DEF TakeOf
  <2>2. ASSUME k \in Range(ns) PROVE FALSE
    <3>1. k < k
      BY <1>1, <2>2 DEF TakeOf, Before
    <3> QED BY <1>4, <2>1, <3>1
  <2> QED BY <2>1, <2>2
<1>7. \/ \E what \in {"filtered", "suppressed"} :
           /\ outcome' = Settle(ns, what) /\ UNCHANGED <<sending, fingerprints>>
           /\ what = "suppressed" => Repeats(n)
      \/ /\ sending' = [Idle EXCEPT !.events = ns] /\ UNCHANGED outcome
         /\ fingerprints' = IF Kind(n) = "reply"
                            THEN [fingerprints EXCEPT ![<<Chat(n), Source(n)>>] = published[n].text]
                            ELSE fingerprints
  BY <1>1, Zenon DEF TakeOf, Fingerprinted
<1>8. ASSUME NEW what \in {"filtered", "suppressed"},
             outcome' = Settle(ns, what), UNCHANGED <<sending, fingerprints>>
      PROVE  /\ outcome' \in Seq(Outcomes) /\ Len(outcome') = Len(published)
             /\ DOMAIN outcome' = DOMAIN published
             /\ \A k \in DOMAIN published :
                   outcome'[k] = IF k \in Range(ns) THEN what ELSE outcome[k]
  <2>1. what \in Outcomes
    BY <1>8 DEF Outcomes
  <2> QED BY <1>2, <1>8, <2>1, SettleFacts
<1>9. \A k \in DOMAIN published : outcome[k] # "open" => outcome'[k] = outcome[k]
  BY <1>5, <1>7, <1>8
<1>10. TypeOK'
  <2>1. /\ outcome' \in Seq(Outcomes) /\ Len(outcome') = Len(published)
    BY <1>2, <1>7, <1>8 DEF TypeOK, Outcomes
  <2>2. sending' \in [events : Seq(Nat), failed : 0..MaxAttempts - 1]
    <3>1. [Idle EXCEPT !.events = ns] = [events |-> ns, failed |-> 0]
      BY DEF Idle
    <3>2. 0 \in 0..MaxAttempts - 1
      BY ChannelAssumption
    <3>3. sending' = sending \/ sending' = [events |-> ns, failed |-> 0]
      BY <1>7, <3>1
    <3> QED BY <1>2, <1>5, <3>2, <3>3 DEF TypeOK
  <2>3. fingerprints' \in [Chats \X Turns -> Texts \cup {None}]
    <3>1. published[n].text \in Texts \cup {None} /\ <<Chat(n), Source(n)>> \in Chats \X Turns
      BY <1>2, <1>5 DEF Event
    <3> QED BY <1>2, <1>7, <3>1 DEF TypeOK
  <2>4. pending' \in Seq(Nat) /\ Len(pending') <= 1 /\ queue' \in Seq(Nat)
    BY <1>1 DEF TakeOf
  <2> QED BY <1>2, <1>3, <2>1, <2>2, <2>3, <2>4 DEF TypeOK, Outcomes
<1>11. PublishedInv'
  BY <1>3 DEF Inv, PublishedInv, Kind
<1>12. sending'.events = <<>> \/ sending'.events = ns
  BY <1>3, <1>7 DEF Idle
<1>13. FlowInv'
  <2>1. Ascending(sending'.events) /\ Ascending(pending') /\ Ascending(queue')
    BY <1>1, <1>12, ShortAscending DEF TakeOf
  <2>2. /\ Before(sending'.events, pending') /\ Before(sending'.events, queue')
        /\ Before(pending', queue')
    BY <1>1, <1>12, NothingInEmpty DEF TakeOf, Before
  <2>3. \A k \in Range(pending') \cup Range(queue') : k \in DOMAIN published' /\ outcome'[k] = "open"
    BY <1>3, <1>6, <1>7, <1>8
  <2>4. \A k \in Range(sending'.events) : k \in DOMAIN published' /\ outcome'[k] = "open"
    <3>1. CASE outcome' = outcome
      BY <1>3, <1>5, <1>12, <3>1, NothingInEmpty
    <3>2. CASE sending' = sending
      BY <1>3, <3>2
    <3> QED BY <1>7, <3>1, <3>2
  <2> QED BY <1>3, <2>1, <2>2, <2>3, <2>4 DEF FlowInv, OnItsWay
<1>14. SendingInv'
  <2>1. OneStream(sending.events)'
    BY <1>1, <1>3, <1>12, NothingInEmpty DEF TakeOf, OneStream, Turn
  <2>2. sending'.failed = 0
    BY <1>3, <1>7 DEF Idle
  <2> QED BY <2>1, <2>2 DEF SendingInv
<1>15. DeliveredInv'
  <2>1. Before(delivered, ns) /\ Before(delivered, pending') /\ Before(delivered, queue')
    BY <1>1, <1>6 DEF TakeOf, Before, Inv, DeliveredInv
  <2>2. Before(delivered, <<>>)
    BY NothingInEmpty DEF Before
  <2> QED BY <1>3, <1>12, <2>1, <2>2 DEF Inv, DeliveredInv
<1>16. FingerprintInv'
  <2> SUFFICES ASSUME NEW c \in Chats, NEW s \in Turns, fingerprints'[<<c, s>>] # None
               PROVE  \E k \in DOMAIN published' :
                        /\ Chat(k)' = c /\ Kind(k)' = "reply" /\ Source(k)' = s
                        /\ published'[k].text = fingerprints'[<<c, s>>]
                        /\ outcome'[k] \in {"sent", "failed"} \/ k \in Range(sending'.events)
                        /\ \A m \in Range(pending') \cup Range(queue') : k < m
                        /\ LastOf(k, c, s)'
    BY DEF FingerprintInv
  <2>1. \A k \in DOMAIN published :
           Chat(k)' = Chat(k) /\ Kind(k)' = Kind(k) /\ Source(k)' = Source(k)
    BY <1>3 DEF Chat, Kind, Source, Turn
  <2> DEFINE Said == /\ Kind(n) = "reply" /\ Chat(n) = c /\ Source(n) = s
                     /\ sending' = [Idle EXCEPT !.events = ns] /\ outcome' = outcome
                     /\ fingerprints' = [fingerprints EXCEPT ![<<Chat(n), Source(n)>>] = published[n].text]
  <2>2. CASE ~Said
    <3>1. fingerprints'[<<c, s>>] = fingerprints[<<c, s>>]
      <4>1. CASE fingerprints' = fingerprints
        BY <4>1
      <4>2. CASE fingerprints' # fingerprints
        <5>1. /\ Kind(n) = "reply" /\ sending' = [Idle EXCEPT !.events = ns] /\ outcome' = outcome
              /\ fingerprints' = [fingerprints EXCEPT ![<<Chat(n), Source(n)>>] = published[n].text]
          BY <1>7, <4>2
        <5>2. <<c, s>> # <<Chat(n), Source(n)>>
          BY <2>2, <5>1
        <5>3. <<c, s>> \in DOMAIN fingerprints
          BY <1>2 DEF TypeOK
        <5> QED BY <5>1, <5>2, <5>3
      <4> QED BY <4>1, <4>2
    <3>2. PICK k \in DOMAIN published :
            /\ Chat(k) = c /\ Kind(k) = "reply" /\ Source(k) = s
            /\ published[k].text = fingerprints[<<c, s>>]
            /\ outcome[k] \in {"sent", "failed"} \/ k \in Range(sending.events)
            /\ \A m \in Range(pending) \cup Range(queue) : k < m
            /\ LastOf(k, c, s)
      BY <1>3, <3>1 DEF Inv, FingerprintInv
    <3>3. outcome'[k] \in {"sent", "failed"}
      BY <1>3, <1>9, <3>2
    <3>4. k \in DOMAIN published'
      BY <1>3
    <3>5. ASSUME NEW j \in DOMAIN published, k < j, Chat(j) = c, Kind(j) = "reply", Source(j) = s
          PROVE  outcome'[j] \notin {"sent", "failed"} /\ j \notin Range(sending'.events)
      <4>1. outcome[j] \notin {"sent", "failed"} /\ j \notin Range(sending.events)
        BY <3>2, <3>5 DEF LastOf
      <4>2. outcome'[j] \notin {"sent", "failed"}
        BY <1>7, <1>8, <4>1
      <4>3. ASSUME j \in Range(sending'.events) PROVE FALSE
        <5>1. /\ sending' = [Idle EXCEPT !.events = ns] /\ UNCHANGED outcome
              /\ fingerprints' = IF Kind(n) = "reply"
                                 THEN [fingerprints EXCEPT ![<<Chat(n), Source(n)>>] = published[n].text]
                                 ELSE fingerprints
          BY <1>7, <4>1, <4>3
        <5>2. j \in Range(ns)
          BY <4>3, <5>1 DEF Idle
        <5>3. Kind(n) = "reply" /\ j = n
          BY <1>1, <3>5, <5>2 DEF TakeOf
        <5> QED BY <2>2, <3>5, <5>1, <5>3
      <4> QED BY <4>2, <4>3
    <3>6. LastOf(k, c, s)'
      BY <1>3, <2>1, <3>5 DEF LastOf
    <3> WITNESS k \in DOMAIN published'
    <3> QED BY <1>3, <1>6, <2>1, <3>1, <3>2, <3>3, <3>6
  <2>3. CASE Said
    <3>1. /\ Kind(n) = "reply" /\ sending' = [Idle EXCEPT !.events = ns] /\ outcome' = outcome
          /\ fingerprints' = [fingerprints EXCEPT ![<<Chat(n), Source(n)>>] = published[n].text]
          /\ Chat(n) = c /\ Source(n) = s
      BY <2>3
    <3>3. fingerprints'[<<c, s>>] = published[n].text
      <4>1. <<Chat(n), Source(n)>> \in DOMAIN fingerprints
        BY <1>2, <1>5 DEF TypeOK
      <4> QED BY <3>1, <4>1
    <3>4. n \in Range(sending'.events) /\ Range(sending'.events) = {n}
      BY <1>1, <1>5, <3>1 DEF Idle, TakeOf
    <3>5. \A m \in Range(pending') \cup Range(queue') : n < m
      BY <1>1, <1>5 DEF TakeOf, Before
    <3>6. n \in DOMAIN published'
      BY <1>3, <1>5
    <3>7. ASSUME NEW j \in DOMAIN published, n < j
          PROVE  outcome'[j] \notin {"sent", "failed"} /\ j \notin Range(sending'.events)
      <4>1. n \in OnItsWay /\ n \in Nat /\ j \in Nat
        BY <1>1, <1>2, <1>5 DEF TakeOf, OnItsWay
      <4>2. outcome[j] = "open"
        BY <3>7, <4>1 DEF Inv, SettledInv
      <4>3. j # n
        BY <3>7, <4>1
      <4> QED BY <3>1, <3>4, <4>2, <4>3
    <3>8. LastOf(n, c, s)'
      BY <1>3, <3>7 DEF LastOf
    <3> WITNESS n \in DOMAIN published'
    <3> QED BY <1>3, <1>5, <2>1, <3>1, <3>3, <3>4, <3>5, <3>8
  <2> QED BY <2>2, <2>3
<1>17. SuppressedRepeats'
  <2>0. \A k \in DOMAIN published : k \notin OnItsWay => outcome'[k] = outcome[k]
    BY <1>1, <1>7, <1>8 DEF TakeOf, OnItsWay
  <2>1. CASE \A k \in DOMAIN published : outcome'[k] = "suppressed" => outcome[k] = "suppressed"
    BY <1>2, <1>3, <1>9, <2>0, <2>1, SuppressedKept DEF Inv
  <2>2. CASE ~ \A k \in DOMAIN published : outcome'[k] = "suppressed" => outcome[k] = "suppressed"
    <3>1. outcome' = Settle(ns, "suppressed") /\ UNCHANGED <<sending, fingerprints>> /\ Repeats(n)
      BY <1>7, <1>8, <2>2
    <3>2. /\ Kind(n) = "reply" /\ fingerprints[<<Chat(n), Source(n)>>] = published[n].text
          /\ published[n].text # None /\ Range(ns) = {n}
      BY <1>1, <1>5, <3>1 DEF Repeats, TakeOf, Inv, PublishedInv
    <3>3. PICK k \in DOMAIN published :
            /\ Chat(k) = Chat(n) /\ Kind(k) = "reply" /\ Source(k) = Source(n)
            /\ published[k].text = published[n].text
            /\ outcome[k] \in {"sent", "failed"}
            /\ \A m \in Range(pending) \cup Range(queue) : k < m
            /\ LastOf(k, Chat(n), Source(n))
      BY <1>2, <1>3, <1>5, <3>2 DEF Inv, FingerprintInv
    <3>4. n \in Range(pending) \cup Range(queue) /\ n \in OnItsWay
      BY <1>1 DEF TakeOf, OnItsWay
    <3>5. n \in Nat /\ k \in 1..n - 1 /\ \A j \in 1..n - 1 : j \in DOMAIN published /\ j \in Nat
      <4>1. k \in Nat /\ k >= 1 /\ n \in Nat
        BY <1>2, <1>5, EventFacts
      <4> QED BY <1>2, <1>5, <3>3, <3>4, <4>1, EventFacts
    <3> SUFFICES ASSUME NEW x \in DOMAIN published, outcome'[x] = "suppressed"
                 PROVE  \E y \in 1..x - 1 : Twin(y, x)'
      BY <1>3, Zenon DEF SuppressedRepeats, Twin
    <3>6. x \in Nat /\ \A j \in 1..x - 1 : j \in DOMAIN published /\ j < x /\ j \in Nat
      BY <1>2, EventFacts
    <3>7. \A j \in DOMAIN published : Handed(j, x)' <=> Handed(j, x)
      <4>1. \A j \in DOMAIN published : outcome'[j] \in {"sent", "failed"} <=> outcome[j] \in {"sent", "failed"}
        BY <1>5, <1>8, <3>1
      <4> QED BY <1>3, <4>1 DEF Handed, Chat, Kind, Source, Turn
    <3>8. PICK y \in 1..x - 1 : Twin(y, x)
      <4>1. CASE x = n
        <5>1. Handed(k, n)
          BY <3>3 DEF Handed
        <5>2. \A j \in k + 1..n - 1 : ~Handed(j, n)
          <6> SUFFICES ASSUME NEW j \in k + 1..n - 1, Handed(j, n) PROVE FALSE
            OBVIOUS
          <6>1. j \in 1..n - 1 /\ k < j
            BY <3>5
          <6> QED BY <3>3, <3>5, <6>1 DEF Handed, LastOf
        <5>3. Twin(k, n)
          BY <3>3, <5>1, <5>2 DEF Twin
        <5> QED BY <3>5, <4>1, <5>3
      <4>2. CASE x # n
        <5>1. outcome[x] = "suppressed"
          BY <1>8, <3>1, <3>2, <4>2
        <5> QED BY <5>1, Zenon DEF Inv, SuppressedRepeats, Twin
      <4> QED BY <4>1, <4>2
    <3>9. \A j \in y + 1..x - 1 : j \in 1..x - 1
      BY <3>6
    <3>10. Twin(y, x)'
      BY <1>3, <3>6, <3>7, <3>8, <3>9 DEF Twin
    <3> QED BY <3>10
  <2> QED BY <2>1, <2>2
<1>18. SettledInv'
  <2>1. ASSUME NEW x \in DOMAIN published, outcome'[x] # "open", NEW m \in OnItsWay' PROVE x < m
    <3>1. CASE outcome[x] # "open"
      <4>1. m \in OnItsWay
        BY <1>1, <1>3, <1>6, <1>12, NothingInEmpty DEF OnItsWay, TakeOf
      <4> QED BY <3>1, <4>1 DEF Inv, SettledInv
    <3>2. CASE outcome[x] = "open"
      <4>1. x \in Range(ns) /\ sending' = sending
        BY <1>7, <1>8, <2>1, <3>2
      <4>2. m \in Range(pending') \cup Range(queue')
        BY <1>3, <2>1, <4>1 DEF OnItsWay
      <4> QED BY <1>1, <4>1, <4>2 DEF TakeOf, Before
    <3> QED BY <3>1, <3>2
  <2> QED BY <1>3, <2>1 DEF SettledInv
<1> QED BY <1>10, <1>11, <1>13, <1>14, <1>15, <1>16, <1>17, <1>18 DEF Inv

-----------------------------------------------------------------------------
(* The end of a send, a send that is tried again, and the end of the dispatcher *)

\* What has been sent or given up leaves the way.
LEMMA FinishInv ==
  ASSUME Inv, up, NEW what \in {"sent", "failed"},
         outcome' = Settle(sending.events, what), sending' = Idle,
         delivered' \in {delivered, sending.events},
         UNCHANGED <<turnVars, queue, pending, fingerprints, up>>
  PROVE  Inv'
<1>1. TypeOK /\ published' = published /\ UNCHANGED <<segment, queue, pending, fingerprints, up>>
  BY DEF Inv, turnVars
<1>2. /\ outcome' \in Seq(Outcomes) /\ Len(outcome') = Len(published)
      /\ DOMAIN outcome' = DOMAIN published
      /\ \A k \in DOMAIN published :
            outcome'[k] = IF k \in Range(sending.events) THEN what ELSE outcome[k]
  <2>1. what \in Outcomes
    BY DEF Outcomes
  <2> QED BY <1>1, <2>1, SettleFacts
<1>3. \A k \in OnItsWay : k \in DOMAIN published /\ outcome[k] = "open" /\ k \in Nat
  BY <1>1, EventFacts DEF Inv, FlowInv
<1>4. \A k \in DOMAIN published : outcome[k] # "open" => outcome'[k] = outcome[k]
  BY <1>2, <1>3 DEF OnItsWay
<1>5. sending'.events = <<>> /\ sending'.failed = 0 /\ Range(sending'.events) = {}
  BY NothingInEmpty DEF Idle
<1>6. \A k \in Range(pending) \cup Range(queue) : k \notin Range(sending.events)
  <2> SUFFICES ASSUME NEW k \in Range(pending) \cup Range(queue), k \in Range(sending.events)
               PROVE  FALSE
    OBVIOUS
  <2>1. k < k
    BY DEF Inv, FlowInv, Before
  <2> QED BY <1>3, <2>1 DEF OnItsWay
<1>7. TypeOK'
  <2>1. sending' \in [events : Seq(Nat), failed : 0..MaxAttempts - 1]
    BY ChannelAssumption, EmptySeq DEF Idle
  <2>2. delivered' \in Seq(Nat)
    BY <1>1 DEF TypeOK
  <2> QED BY <1>1, <1>2, <2>1, <2>2 DEF TypeOK, Outcomes
<1>8. PublishedInv'
  BY <1>1 DEF Inv, PublishedInv, Kind
<1>9. FlowInv'
  <2>1. Ascending(sending'.events) /\ Before(sending'.events, pending) /\ Before(sending'.events, queue)
    BY <1>5, ShortAscending DEF Before
  <2>2. \A k \in OnItsWay' : k \in DOMAIN published /\ outcome'[k] = "open"
    BY <1>1, <1>2, <1>3, <1>5, <1>6 DEF OnItsWay
  <2> QED BY <1>1, <2>1, <2>2 DEF Inv, FlowInv
<1>10. SendingInv'
  BY <1>5 DEF SendingInv, OneStream
<1>11. DeliveredInv'
  <2>1. Before(delivered', sending'.events)
    BY <1>5 DEF Before
  <2>2. Before(delivered', pending) /\ Before(delivered', queue)
    BY DEF Inv, FlowInv, DeliveredInv
  <2>3. Range(delivered') \subseteq DOMAIN published
    BY <1>3 DEF Inv, DeliveredInv, OnItsWay
  <2> QED BY <1>1, <2>1, <2>2, <2>3 DEF DeliveredInv
<1>12. FingerprintInv'
  <2> SUFFICES ASSUME NEW c \in Chats, NEW s \in Turns, fingerprints[<<c, s>>] # None
               PROVE  \E k \in DOMAIN published :
                        /\ Chat(k)' = c /\ Kind(k)' = "reply" /\ Source(k)' = s
                        /\ published'[k].text = fingerprints'[<<c, s>>]
                        /\ outcome'[k] \in {"sent", "failed"} \/ k \in Range(sending'.events)
                        /\ \A m \in Range(pending') \cup Range(queue') : k < m
                        /\ LastOf(k, c, s)'
    BY <1>1 DEF FingerprintInv
  <2>1. PICK k \in DOMAIN published :
          /\ Chat(k) = c /\ Kind(k) = "reply" /\ Source(k) = s
          /\ published[k].text = fingerprints[<<c, s>>]
          /\ outcome[k] \in {"sent", "failed"} \/ k \in Range(sending.events)
          /\ \A m \in Range(pending) \cup Range(queue) : k < m
          /\ LastOf(k, c, s)
    BY DEF Inv, FingerprintInv
  <2>2. outcome'[k] \in {"sent", "failed"}
    BY <1>2, <2>1
  <2>3. LastOf(k, c, s)'
    BY <1>1, <1>2, <1>5, <2>1 DEF LastOf, Chat, Kind, Source, Turn
  <2> QED BY <1>1, <2>1, <2>2, <2>3 DEF Chat, Kind, Source, Turn
<1>13. SuppressedRepeats'
  <2>1. \A k \in DOMAIN published : outcome'[k] = "suppressed" => outcome[k] = "suppressed"
    BY <1>2
  <2>2. \A k \in DOMAIN published : k \notin OnItsWay => outcome'[k] = outcome[k]
    BY <1>2 DEF OnItsWay
  <2> QED BY <1>1, <1>4, <2>1, <2>2, SuppressedKept DEF Inv
<1>14. SettledInv'
  BY <1>1, <1>2, <1>5 DEF Inv, FlowInv, SettledInv, OnItsWay, Before
<1> QED BY <1>7, <1>8, <1>9, <1>10, <1>11, <1>12, <1>13, <1>14 DEF Inv

\* A send that succeeds.
LEMMA SendOnceInv == ASSUME Inv, SendOnce PROVE Inv'
<1>1. delivered' \in {delivered, sending.events}
  BY DEF SendOnce
<1>2. /\ up /\ outcome' = Settle(sending.events, "sent") /\ sending' = Idle
      /\ UNCHANGED <<turnVars, queue, pending, fingerprints, up>>
  BY DEF SendOnce
<1> QED BY <1>1, <1>2, FinishInv

\* The fingerprints stand for the same replies when nothing moves.
LEMMA FingerprintsKept ==
  ASSUME FingerprintInv, sending'.events = sending.events,
         UNCHANGED <<published, queue, pending, fingerprints, up, outcome>>
  PROVE  FingerprintInv'
<1> SUFFICES ASSUME up, NEW c \in Chats, NEW s \in Turns, fingerprints[<<c, s>>] # None
             PROVE  \E k \in DOMAIN published :
                      /\ Chat(k)' = c /\ Kind(k)' = "reply" /\ Source(k)' = s
                      /\ published'[k].text = fingerprints'[<<c, s>>]
                      /\ outcome'[k] \in {"sent", "failed"} \/ k \in Range(sending'.events)
                      /\ \A m \in Range(pending') \cup Range(queue') : k < m
                      /\ LastOf(k, c, s)'
  BY DEF FingerprintInv
<1>1. PICK k \in DOMAIN published :
        /\ Chat(k) = c /\ Kind(k) = "reply" /\ Source(k) = s
        /\ published[k].text = fingerprints[<<c, s>>]
        /\ outcome[k] \in {"sent", "failed"} \/ k \in Range(sending.events)
        /\ \A m \in Range(pending) \cup Range(queue) : k < m
        /\ LastOf(k, c, s)
  BY DEF FingerprintInv
<1>2. LastOf(k, c, s)'
  BY <1>1 DEF LastOf, Chat, Kind, Source, Turn
<1> QED BY <1>1, <1>2 DEF Chat, Kind, Source, Turn

\* A failure that is not the last leaves everything but the count.
LEMMA SendFailsInv == ASSUME Inv, SendFails PROVE Inv'
<1>1. /\ delivered' \in {delivered, sending.events} /\ up
      /\ UNCHANGED <<turnVars, queue, pending, fingerprints, up>>
  BY DEF SendFails
<1>2. CASE sending.failed + 1 = MaxAttempts
  <2>1. outcome' = Settle(sending.events, "failed") /\ sending' = Idle
    BY <1>2 DEF SendFails
  <2> QED BY <1>1, <2>1, FinishInv
<1>3. CASE sending.failed + 1 # MaxAttempts
  <2>1. outcome' = outcome /\ sending' = [sending EXCEPT !.failed = @ + 1]
    BY <1>3 DEF SendFails
  <2>2. sending \in [events : Seq(Nat), failed : 0..MaxAttempts - 1] /\ sending # Idle
    BY DEF Inv, TypeOK, SendFails
  <2>3. /\ sending' \in [events : Seq(Nat), failed : 0..MaxAttempts - 1]
        /\ sending'.events = sending.events
    <3> DEFINE f == sending.failed
               M == MaxAttempts
    <3>1. f \in 0..M - 1 /\ M \in Nat /\ f + 1 # M /\ sending.events \in Seq(Nat)
      BY <1>3, <2>2, ChannelAssumption
    <3>2. sending' = [events |-> sending.events, failed |-> f + 1]
      BY <2>1, <2>2
    <3> HIDE DEF f
    <3>3. f + 1 \in 0..M - 1
      BY <3>1
    <3> QED BY <3>1, <3>2, <3>3
  <2>4. sending.events # <<>>
    BY <2>2 DEF Inv, SendingInv, Idle
  <2>5. published' = published /\ UNCHANGED <<segment, queue, pending, fingerprints, up>>
    BY <1>1 DEF turnVars
  <2>6. TypeOK'
    BY <1>1, <2>1, <2>3, <2>5 DEF Inv, TypeOK
  <2>7. PublishedInv'
    BY <2>5 DEF Inv, PublishedInv, Kind
  <2>8. FlowInv'
    BY <1>1, <2>1, <2>3, <2>5 DEF Inv, FlowInv, OnItsWay
  <2>9. SendingInv'
    BY <2>3, <2>4, <2>5 DEF Inv, SendingInv, OneStream, Turn
  <2>10. DeliveredInv'
    BY <1>1, <2>3, <2>5 DEF Inv, DeliveredInv, FlowInv, OnItsWay
  <2>11. FingerprintInv'
    BY <2>1, <2>3, <2>5, FingerprintsKept DEF Inv
  <2>12. SuppressedRepeats'
    <3>1. \A k, n : Handed(k, n)' <=> Handed(k, n)
      BY <2>1, <2>5 DEF Handed, Chat, Kind, Source, Turn
    <3> QED BY <2>1, <2>5, <3>1 DEF Inv, SuppressedRepeats
  <2>13. SettledInv'
    BY <2>1, <2>3, <2>5 DEF Inv, SettledInv, OnItsWay
  <2> QED BY <2>6, <2>7, <2>8, <2>9, <2>10, <2>11, <2>12, <2>13 DEF Inv
<1> QED BY <1>2, <1>3

\* What was on its way to a channel is lost with the dispatcher; the queue stays.
LEMMA StopAllInv == ASSUME Inv, StopAll PROVE Inv'
<1>1. /\ TypeOK /\ ~up' /\ sending' = Idle /\ pending' = <<>>
      /\ outcome' = Settle(sending.events \o pending, "lost")
      /\ published' = published /\ UNCHANGED <<segment, queue, fingerprints, delivered>>
  BY DEF Inv, StopAll, turnVars
<1>2. /\ outcome' \in Seq(Outcomes) /\ Len(outcome') = Len(published)
      /\ DOMAIN outcome' = DOMAIN published
      /\ \A k \in DOMAIN published :
            outcome'[k] = IF k \in Range(sending.events \o pending) THEN "lost" ELSE outcome[k]
  <2>1. "lost" \in Outcomes
    BY DEF Outcomes
  <2> QED BY <1>1, <2>1, SettleFacts
<1>3. Range(sending.events \o pending) = Range(sending.events) \cup Range(pending)
  <2>1. PICK p \in Seq(Nat), q \in Seq(Nat) : p = sending.events /\ q = pending
    BY <1>1 DEF TypeOK
  <2>2. Range(p \o q) = Range(p) \cup Range(q)
    BY RangeConcatenation
  <2> QED BY <2>1, <2>2
<1>4. \A k \in OnItsWay : k \in DOMAIN published /\ outcome[k] = "open" /\ k \in Nat
  BY <1>1, EventFacts DEF Inv, FlowInv
<1>5. \A k \in DOMAIN published : outcome[k] # "open" => outcome'[k] = outcome[k]
  BY <1>2, <1>3, <1>4 DEF OnItsWay
<1>6. /\ sending'.events = <<>> /\ sending'.failed = 0 /\ Range(<<>>) = {}
      /\ Ascending(<<>>)
  BY <1>1, NothingInEmpty, ShortAscending DEF Idle
<1>7. \A k \in Range(queue) : k \notin Range(sending.events) \cup Range(pending)
  <2> SUFFICES ASSUME NEW k \in Range(queue), k \in Range(sending.events) \cup Range(pending)
               PROVE  FALSE
    OBVIOUS
  <2>1. k < k
    BY DEF Inv, FlowInv, Before
  <2> QED BY <1>4, <2>1 DEF OnItsWay
<1>8. TypeOK'
  <2>1. sending' \in [events : Seq(Nat), failed : 0..MaxAttempts - 1]
    BY <1>1, ChannelAssumption, EmptySeq DEF Idle
  <2>2. pending' \in Seq(Nat) /\ Len(pending') <= 1
    BY <1>1, EmptySeq
  <2>3. up' \in BOOLEAN
    BY DEF StopAll
  <2> QED BY <1>1, <1>2, <2>1, <2>2, <2>3 DEF TypeOK, Outcomes
<1>9. PublishedInv'
  BY <1>1 DEF Inv, PublishedInv, Kind
<1>10. FlowInv'
  <2>1. \A k \in OnItsWay' : k \in DOMAIN published /\ outcome'[k] = "open"
    BY <1>1, <1>2, <1>3, <1>4, <1>6, <1>7 DEF OnItsWay
  <2> QED BY <1>1, <1>6, <2>1 DEF Inv, FlowInv, Before
<1>11. SendingInv' /\ DeliveredInv' /\ FingerprintInv'
  BY <1>1, <1>6 DEF Inv, SendingInv, OneStream, DeliveredInv, FingerprintInv, Before
<1>12. SuppressedRepeats'
  <2>1. \A k \in DOMAIN published : outcome'[k] = "suppressed" => outcome[k] = "suppressed"
    BY <1>2
  <2>2. \A k \in DOMAIN published : k \notin OnItsWay => outcome'[k] = outcome[k]
    BY <1>2, <1>3 DEF OnItsWay
  <2> QED BY <1>1, <1>5, <2>1, <2>2, SuppressedKept DEF Inv
<1>13. SettledInv'
  BY <1>1, <1>2, <1>3, <1>6 DEF Inv, FlowInv, SettledInv, OnItsWay, Before
<1> QED BY <1>8, <1>9, <1>10, <1>11, <1>12, <1>13 DEF Inv

-----------------------------------------------------------------------------
(* The theorems *)

\* Nothing is published at first.
LEMMA InitInv == Init => Inv
<1> SUFFICES ASSUME Init PROVE Inv
  OBVIOUS
<1>1. /\ published = <<>> /\ queue = <<>> /\ pending = <<>> /\ sending = Idle /\ outcome = <<>>
      /\ delivered = <<>> /\ sending.events = <<>> /\ sending.failed = 0
      /\ Range(<<>>) = {} /\ Ascending(<<>>)
  BY NothingInEmpty, ShortAscending DEF Init, Idle
<1>2. TypeOK
  BY <1>1, ChannelAssumption, EmptySeq DEF Init, TypeOK, Idle
<1>3. DOMAIN published = {}
  BY <1>1
<1>4. PublishedInv /\ FlowInv /\ SettledInv /\ SendingInv /\ SuppressedRepeats
  BY <1>1, <1>3 DEF Init, PublishedInv, FlowInv, SettledInv, OnItsWay, SendingInv, OneStream, Before, SuppressedRepeats
<1>5. DeliveredInv /\ FingerprintInv
  BY <1>1 DEF Init, DeliveredInv, FingerprintInv, Before
<1> QED BY <1>2, <1>4, <1>5 DEF Inv

\* Each turn publishes in one of five ways.
LEMMA TurnStepsInv == ASSUME Inv, NEW t \in Turns, TurnSteps(t) PROVE Inv'
<1>1. segment \in [Turns -> Nat]
  BY DEF Inv, TypeOK
<1>2. CASE Delta(t) \/ Streamed(t)
  <2>1. PICK kind \in {"delta", "streamed"} : Publish(t, kind, None) /\ UNCHANGED segment
    BY <1>2 DEF Delta, Streamed
  <2>2. kind \in Notices \cup Stream \cup {"reply"} /\ kind # "reply" /\ None \in Texts \cup {None}
    BY DEF Stream
  <2> QED BY <1>1, <2>1, <2>2, PublishInv
<1>3. CASE EndSegment(t)
  <2>1. Publish(t, "end", None) /\ segment' = [segment EXCEPT ![t] = @ + 1]
    BY <1>3 DEF EndSegment
  <2>2. segment' \in [Turns -> Nat]
    BY <1>1, <2>1
  <2>3. "end" \in Notices \cup Stream \cup {"reply"} /\ None \in Texts \cup {None}
    BY DEF Stream
  <2> QED BY <2>1, <2>2, <2>3, PublishInv
<1>4. CASE \E kind \in Notices : Notice(t, kind)
  <2>1. PICK kind \in Notices : Publish(t, kind, None) /\ UNCHANGED segment
    BY <1>4 DEF Notice
  <2>2. kind \in Notices \cup Stream \cup {"reply"} /\ kind # "reply" /\ None \in Texts \cup {None}
    BY DEF Notices
  <2> QED BY <1>1, <2>1, <2>2, PublishInv
<1>5. CASE \E text \in Texts : Reply(t, text)
  <2>1. PICK text \in Texts : Publish(t, "reply", text) /\ UNCHANGED segment
    BY <1>5 DEF Reply
  <2>2. "reply" \in Notices \cup Stream \cup {"reply"} /\ text # None /\ text \in Texts \cup {None}
    BY ChannelAssumption
  <2> QED BY <1>1, <2>1, <2>2, PublishInv
<1> QED BY <1>2, <1>3, <1>4, <1>5 DEF TurnSteps

\* Every step keeps the invariant.
LEMMA StepInv == Inv /\ [Next]_vars => Inv'
<1> SUFFICES ASSUME Inv, [Next]_vars PROVE Inv'
  OBVIOUS
<1>1. CASE \E t \in Turns : TurnSteps(t)
  BY <1>1, TurnStepsInv
<1>2. CASE Take \/ SendOnce \/ SendFails \/ StopAll
  BY <1>2, TakeInv, SendOnceInv, SendFailsInv, StopAllInv
<1>3. CASE UNCHANGED vars
  <2>1. UNCHANGED <<published, segment, queue, pending, sending, fingerprints, up, outcome, delivered>>
    BY <1>3 DEF vars, turnVars
  <2>2. TypeOK' /\ PublishedInv' /\ FlowInv' /\ SettledInv' /\ SendingInv' /\ DeliveredInv'
    BY <2>1 DEF Inv, TypeOK, PublishedInv, FlowInv, SettledInv, OnItsWay, SendingInv, OneStream,
       DeliveredInv, Kind, Turn
  <2>3. FingerprintInv'
    BY <2>1, FingerprintsKept DEF Inv
  <2>4. SuppressedRepeats' <=> SuppressedRepeats
    <3>1. \A k, n : Handed(k, n)' <=> Handed(k, n)
      BY <2>1 DEF Handed, Chat, Kind, Source, Turn
    <3> QED BY <2>1, <3>1 DEF SuppressedRepeats
  <2> QED BY <2>2, <2>3, <2>4 DEF Inv
<1> QED BY <1>1, <1>2, <1>3 DEF Next

\* The invariant holds of every behaviour.
LEMMA Invariance == Spec => []Inv
BY InitInv, StepInv, PTL DEF Spec

\* Every variable keeps its type: the numbers of attempts stay below the limit,
\* and at most one event is put aside.
THEOREM DeliveryTypes == Spec => []TypeOK
BY Invariance, PTL DEF Inv

\* A reply is suppressed only if it repeats, in its chat, the last reply to the
\* message it reports on that was handed to the channel: whatever is merged,
\* filtered, retried or published meanwhile, its twin came before it, was sent
\* or given up, and no other reply to that message was handed over in between.
THEOREM SuppressionIsScoped == Spec => []SuppressedRepeats
BY Invariance, PTL DEF Inv

\* What reaches a channel comes in the order of publication, and what is merged
\* is of one stream.
LEMMA OrderOfStep == ASSUME Inv, Next, delivered' # delivered
  PROVE  /\ \A n \in Range(delivered), k \in Range(delivered') : n < k
         /\ \A n, k \in Range(delivered') :
              Turn(n) = Turn(k) /\ published[n].segment = published[k].segment
<1>1. delivered' = sending.events
  BY DEF Next, TurnSteps, Delta, EndSegment, Streamed, Notice, Reply, Publish, Take, SendOnce,
     SendFails, StopAll
<1>2. Before(delivered, sending.events)
  BY <1>1 DEF Inv, DeliveredInv
<1> QED BY <1>1, <1>2 DEF Before, Inv, SendingInv, OneStream

\* A chat sees its events in the order they were published, merged or retried:
\* no step delivers an event that was published before the last delivered one.
THEOREM DeliveredInOrder == Spec => InPublishedOrder
<1>1. ASSUME Inv, [Next]_vars
      PROVE  [delivered' # delivered =>
               /\ \A n \in Range(delivered), k \in Range(delivered') : n < k
               /\ \A n, k \in Range(delivered') :
                    Turn(n) = Turn(k) /\ published[n].segment = published[k].segment]_vars
  BY <1>1, OrderOfStep
<1> QED BY <1>1, Invariance, PTL DEF Spec, InPublishedOrder
================================================================================
