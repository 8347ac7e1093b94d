--------------------------- MODULE ChannelDelivery ---------------------------
(***************************************************************************)
(* The way of outbound messages from the turns of the agent loop to the    *)
(* channels: the outbound queue of the bus (bus/queue.py) and the single   *)
(* dispatcher of ChannelManager (channels/manager.py), which filters,      *)
(* merges the deltas of a stream, suppresses repeated replies and retries. *)
(*                                                                         *)
(* An event is known by its place in the order of publication.             *)
(***************************************************************************)
EXTENDS Naturals, FiniteSets, Sequences, SequencesExt

CONSTANTS
  Turns,         \* turns that publish, of users and of subagents
  Chats,         \* pairs of channel and chat
  ChatOf,        \* the chat a turn answers to
  OriginOf,      \* the turn whose message a subagent's turn reports on, or None
  Streaming,     \* turns whose channel wants the answer as a stream
  Known,         \* chats whose channel is enabled
  Texts,         \* texts of replies
  MaxAttempts,   \* max(send_max_retries, 1)
  MaxEvents,     \* a bound on the events that are published
  None

(* A progress, tool or reasoning notice that the channel shows, and one that it *)
(* does not show, which is what a retry notice always is.                       *)
Notices == {"shown", "hidden"}
Stream  == {"delta", "end", "streamed"}

ASSUME ChannelAssumption ==
  /\ ChatOf \in [Turns -> Chats] /\ OriginOf \in [Turns -> Turns \cup {None}]
  /\ Streaming \subseteq Turns /\ Known \subseteq Chats
  /\ MaxAttempts \in Nat \ {0} /\ MaxEvents \in Nat
  /\ None \notin Turns \cup Texts

VARIABLES
  published,    \* every event in the order of publication
  segment,      \* per turn, the segment of its stream
  queue,        \* bus.outbound
  pending,      \* the event the coalescing took from the queue and put aside
  sending,      \* what _send_with_retry sends: merged events, failed attempts
  fingerprints, \* _origin_reply_fingerprints: the last reply to each message
  up,           \* whether the dispatcher runs
  outcome,      \* per event, what became of it
  delivered     \* the last that reached a channel, several events when merged

turnVars == <<published, segment>>
vars == <<turnVars, queue, pending, sending, fingerprints, up, outcome, delivered>>

Event == [turn : Turns, kind : Notices \cup Stream \cup {"reply"},
          segment : Nat, text : Texts \cup {None}]
Idle  == [events |-> <<>>, failed |-> 0]

TypeOK ==
  /\ published \in Seq(Event)
  /\ segment \in [Turns -> Nat]
  /\ queue \in Seq(Nat)
  /\ pending \in Seq(Nat) /\ Len(pending) <= 1
  /\ sending \in [events : Seq(Nat), failed : 0..MaxAttempts - 1]
  /\ fingerprints \in [Chats \X Turns -> Texts \cup {None}]
  /\ up \in BOOLEAN
  /\ outcome \in Seq({"open", "sent", "filtered", "suppressed", "failed", "lost"})
  /\ Len(outcome) = Len(published)
  /\ delivered \in Seq(Nat)

Init ==
  /\ published = <<>>
  /\ segment = [t \in Turns |-> 0]
  /\ queue = <<>> /\ pending = <<>> /\ sending = Idle
  /\ fingerprints = [k \in Chats \X Turns |-> None]
  /\ up = TRUE
  /\ outcome = <<>>
  /\ delivered = <<>>

-----------------------------------------------------------------------------
(* The turns.  Each publishes in its own order; what they publish after the  *)
(* dispatcher has stopped stays in the queue and is left out.                *)

Publish(t, kind, text) ==
  /\ Len(published) < MaxEvents
  /\ up
  /\ published' = Append(published, [turn |-> t, kind |-> kind, segment |-> segment[t], text |-> text])
  /\ queue' = Append(queue, Len(published) + 1)
  /\ outcome' = Append(outcome, "open")
  /\ UNCHANGED <<pending, sending, fingerprints, up, delivered>>

\* The turn of a subagent's report runs without the callbacks for notices.
Notice(t, kind) == OriginOf[t] = None /\ Publish(t, kind, None) /\ UNCHANGED segment

\* on_stream and on_stream_end of a turn that streams; the end of a segment
\* carries no text.
Delta(t) == t \in Streaming /\ Publish(t, "delta", None) /\ UNCHANGED segment

EndSegment(t) ==
  /\ t \in Streaming
  /\ Publish(t, "end", None)
  /\ segment' = [segment EXCEPT ![t] = @ + 1]

\* What the message tool sends, and the response of a turn that does not stream.
Reply(t, text) == Publish(t, "reply", text) /\ UNCHANGED segment

\* The response of a turn that was streamed, which is only a mark.
Streamed(t) == t \in Streaming /\ Publish(t, "streamed", None) /\ UNCHANGED segment

-----------------------------------------------------------------------------
(* The dispatcher *)

Turn(n) == published[n].turn
Kind(n) == published[n].kind
Chat(n) == ChatOf[Turn(n)]

Filtered(n) == Kind(n) = "hidden" \/ Chat(n) \notin Known

\* The message a reply is about, by origin_message_id or message_id.
Source(n) == IF OriginOf[Turn(n)] # None THEN OriginOf[Turn(n)] ELSE Turn(n)

\* _should_suppress_outbound looks up what was last said about the message a
\* subagent's turn reports on.
Repeats(n) ==
  /\ Kind(n) = "reply" /\ OriginOf[Turn(n)] # None
  /\ fingerprints[<<Chat(n), Source(n)>>] = published[n].text

\* A reply that is let through is what was last said about its message.
\* Mutant of Fingerprinted: the first that was said about a message stays.
FirstFingerprinted(n) ==
  IF Kind(n) = "reply" /\ fingerprints[<<Chat(n), Source(n)>>] = None
  THEN [fingerprints EXCEPT ![<<Chat(n), Source(n)>>] = published[n].text] ELSE fingerprints

Fingerprinted(n) ==
  IF Kind(n) = "reply"
  THEN [fingerprints EXCEPT ![<<Chat(n), Source(n)>>] = published[n].text] ELSE fingerprints

\* _coalesce_stream_deltas: the deltas of the same stream that follow in the
\* queue.  Any other event ends the run and is put aside.
SameStream(n, k) == Kind(k) = "delta" /\ Turn(k) = Turn(n) /\ published[k].segment = published[n].segment

\* Mutant of Following: deltas beyond the boundary are merged as well.
FollowingAll(n, q) == Cardinality({i \in DOMAIN q : SameStream(n, q[i])})

Following(n, q) ==
  CHOOSE i \in 0..Len(q) :
    /\ \A k \in 1..i : SameStream(n, q[k])
    /\ i < Len(q) => ~SameStream(n, q[i + 1])

\* Mutant of Boundary: the event that ends the run is gone.
BoundaryGone(rest) == <<>>

Boundary(rest) == SubSeq(rest, 1, 1)

Settle(ns, what) == [n \in DOMAIN outcome |-> IF n \in Range(ns) THEN what ELSE outcome[n]]

\* The loop body up to the first await of a send.
Take ==
  /\ up /\ sending = Idle
  /\ pending # <<>> \/ queue # <<>>
  /\ LET n    == Head(pending \o queue)
         rest == IF pending # <<>> THEN queue ELSE Tail(queue)
         i    == IF Kind(n) = "delta" THEN Following(n, rest) ELSE 0
         ns   == <<n>> \o SubSeq(rest, 1, i)
         left == SubSeq(rest, i + 1, Len(rest))
     IN
     /\ IF Kind(n) = "delta" /\ left # <<>>
        THEN pending' = Boundary(left) /\ queue' = Tail(left)
        ELSE pending' = <<>> /\ queue' = left
     /\ IF Filtered(n) THEN outcome' = Settle(ns, "filtered") /\ UNCHANGED <<sending, fingerprints>>
        ELSE IF Repeats(n)
        THEN outcome' = Settle(ns, "suppressed") /\ UNCHANGED <<sending, fingerprints>>
        ELSE /\ sending' = [Idle EXCEPT !.events = ns]
             /\ fingerprints' = Fingerprinted(n)
             /\ UNCHANGED outcome
  /\ UNCHANGED <<turnVars, up, delivered>>

\* _send_once; a streamed response needs no send.
SendOnce ==
  /\ up /\ sending # Idle
  /\ delivered' = IF Kind(sending.events[1]) = "streamed" THEN delivered ELSE sending.events
  /\ outcome' = Settle(sending.events, "sent")
  /\ sending' = Idle
  /\ UNCHANGED <<turnVars, queue, pending, fingerprints, up>>

\* A send that raises, after the event reached the platform or before.  After
\* the last attempt _send_with_retry only logs it.
SendFails ==
  /\ up /\ sending # Idle /\ Kind(sending.events[1]) # "streamed"
  /\ \/ delivered' = sending.events
     \/ UNCHANGED delivered
  /\ IF sending.failed + 1 = MaxAttempts
     THEN outcome' = Settle(sending.events, "failed") /\ sending' = Idle
     ELSE UNCHANGED outcome /\ sending' = [sending EXCEPT !.failed = @ + 1]
  /\ UNCHANGED <<turnVars, queue, pending, fingerprints, up>>

\* stop_all cancels the dispatcher, between two events or in a send.
StopAll ==
  /\ up /\ up' = FALSE
  /\ outcome' = Settle(sending.events \o pending, "lost")
  /\ sending' = Idle /\ pending' = <<>>
  /\ UNCHANGED <<turnVars, queue, fingerprints, delivered>>

-----------------------------------------------------------------------------

TurnSteps(t) ==
  \/ Delta(t) \/ EndSegment(t) \/ Streamed(t)
  \/ \E kind \in Notices : Notice(t, kind)
  \/ \E text \in Texts : Reply(t, text)

Next == (\E t \in Turns : TurnSteps(t)) \/ Take \/ SendOnce \/ SendFails \/ StopAll

Spec == Init /\ [][Next]_vars

(* The dispatcher runs and a send ends, one way or the other. *)
FairSpec == Spec /\ WF_vars(Take) /\ WF_vars(SendOnce \/ SendFails)

-----------------------------------------------------------------------------
(* Properties *)

\* "Only merge consecutive deltas" (manager.py:577): a chat sees its events in
\* the order they were published, merged or retried, and what is merged into
\* one is the text of one stream.
InPublishedOrder ==
  [][delivered' # delivered =>
       /\ \A n \in Range(delivered), k \in Range(delivered') : n < k
       /\ \A n, k \in Range(delivered') :
            Turn(n) = Turn(k) /\ published[n].segment = published[k].segment]_vars

\* "Duplicate suppression is scoped to a known source message so repeated
\* content from separate turns is still delivered" (manager.py:423): a reply is
\* suppressed only if it repeats, in its chat, the last reply to the message it
\* reports on that was handed to the channel; a text that comes back after
\* another reply to that message is delivered again.
Handed(k, n) ==
  /\ Kind(k) = "reply" /\ Chat(k) = Chat(n) /\ Source(k) = Source(n)
  /\ outcome[k] \in {"sent", "failed"}

SuppressedRepeats ==
  \A n \in DOMAIN published : outcome[n] = "suppressed" =>
    \E k \in 1..n - 1 :
      /\ Handed(k, n) /\ published[k].text = published[n].text
      /\ \A j \in k + 1..n - 1 : ~Handed(j, n)

\* What a reader takes the same comment to promise: the twin was delivered.
SuppressedWasSeen ==
  \A n \in DOMAIN published : outcome[n] = "suppressed" =>
    \E k \in 1..n - 1 : published[k].text = published[n].text /\ outcome[k] = "sent"

\* While the dispatcher runs, every published event is sent, filtered,
\* suppressed or given up: none stays put aside, and no failure stops the rest.
EverythingDispatched ==
  []<>(up => \A n \in DOMAIN published : outcome[n] # "open")
=============================================================================
