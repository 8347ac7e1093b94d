-------------------------- MODULE SkillRegistryProofs --------------------------
(***************************************************************************)
(* What the search offers bears an id that a human approved, or that came  *)
(* with the program, and an approval that fails takes back the SKILL.md    *)
(* that it wrote, for any number of skills, ids, drafts and contents and   *)
(* with the command line between any two writes of the gateway.            *)
(*                                                                         *)
(*   DraftInv    a draft that is ready has a content, one that is being    *)
(*               composed a row                                            *)
(*   OpInv       what the operation under way has done and relies on       *)
(*   WriterInv   whose draft wrote a file, and what has become of it       *)
(***************************************************************************)
EXTENDS SkillRegistry, TLAPS

DraftInv ==
  /\ \A d \in Drafts : draft[d] # None /\ draft[d].status = "ready" => draft[d].content \in Contents
  /\ \A d \in composers : draft[d] # None

\* While an approval runs, nobody else touches its draft or whose file it is.
OpInv ==
  op # None /\ op.kind = "approve" =>
    /\ draft[op.draft] # None /\ draft[op.draft].status = "ready"
    /\ writer[op.name] = IF op.step = "write" THEN None ELSE op.draft

Undoing(n) == op # None /\ op.kind = "approve" /\ op.name = n /\ op.step # "write"

WriterInv ==
  \A n \in Names : writer[n] # None =>
    /\ file[n] \in Contents
    /\ draft[writer[n]] # None
    /\ crashes = 0 => \/ draft[writer[n]].status = "approved"
                      \/ Undoing(n) /\ op.draft = writer[n]

Inv == TypeOK /\ ApprovedOnly /\ DraftInv /\ OpInv /\ WriterInv

-----------------------------------------------------------------------------
(* The index *)

Rows == [Names -> Skill \cup {None}]

\* A row that is written out is no missing row, and a status is all that a
\* transition changes in it.
LEMMA SkillFacts ==
  /\ \A i \in Ids, s \in Statuses, c \in Contents \cup {"bundled"} :
       LET r == [id |-> i, status |-> s, content |-> c] IN
       r \in Skill /\ r # None /\ r.id = i /\ r.status = s /\ r.content = c
  /\ \A r \in Skill, s \in Statuses :
       LET q == [r EXCEPT !.status = s] IN
       q \in Skill /\ q # None /\ q.id = r.id /\ q.status = s /\ q.content = r.content
  /\ \A r \in Skill : r # None /\ r.id \in Ids /\ r.status \in Statuses
<1>1. \A i \in Ids, s \in Statuses, c \in Contents \cup {"bundled"} :
        [id |-> i, status |-> s, content |-> c] \in Skill
  BY DEF Skill
<1>2. ASSUME NEW r \in Skill, NEW s \in Statuses
      PROVE  LET q == [r EXCEPT !.status = s] IN
             q \in Skill /\ q.id = r.id /\ q.status = s /\ q.content = r.content
  BY DEF Skill
<1>3. \A r \in Skill : r # None /\ r.id \in Ids /\ r.status \in Statuses
  BY NoneAssumption DEF Skill
<1> QED BY <1>1, <1>2, <1>3

\* The index of files: what it offers came with the program, or has the id of
\* a row that the index offered before.
Offered(rows, n) == rows[n] # None /\ rows[n].status \in Searchable

Indexes(rows) ==
  \A n \in Names : Offered(rows, n) =>
    \/ rows[n].content = "bundled"
    \/ \E m \in Names : Offered(row, m) /\ row[m].id = rows[n].id

\* A skill that is there has an id, and its status is that of the row with this
\* id, or the one it enters with.
LEMMA KeptFacts ==
  ASSUME TypeOK, NEW files \in [Names -> Files], NEW n \in Discovered(files)
  PROVE  /\ n \in Names
         /\ Seen(files, n) \in Contents \cup {"bundled"} /\ IdOf(files, n) \in Ids
         /\ Kept(files, n) \in Statuses
         /\ Kept(files, n) \in Searchable =>
              \/ Seen(files, n) = "bundled"
              \/ \E m \in Names : Offered(row, m) /\ row[m].id = IdOf(files, n)
<1> DEFINE old == WithId(IdOf(files, n))
<1>1. /\ n \in Names /\ Seen(files, n) \in Contents \cup {"bundled"}
      /\ IdOf(files, n) \in Ids
  <2>1. n \in Names /\ Seen(files, n) # None
    BY DEF Discovered
  <2>2. CASE files[n] \in Contents
    BY <2>1, <2>2, SkillAssumption DEF Seen, IdOf
  <2>3. CASE files[n] \notin Contents
    BY <2>1, <2>3, SkillAssumption DEF Seen, IdOf
  <2> QED BY <2>2, <2>3, <2>1
<1>2. CASE old = {}
  <2>1. Kept(files, n) = StatusFor(Seen(files, n))
    BY <1>2 DEF Kept
  <2> QED BY <1>1, <2>1 DEF StatusFor, Statuses, Searchable
<1>3. CASE old # {}
  <2>1. PICK m : m = (CHOOSE k \in old : TRUE)
    OBVIOUS
  <2>2. m \in old
    BY <1>3, <2>1, Zenon
  <2>3. m \in Names /\ row[m] # None /\ row[m].id = IdOf(files, n)
    BY <2>2 DEF WithId
  <2>4. row[m] \in Skill
    BY <2>3 DEF TypeOK
  <2>5. Kept(files, n) = row[m].status
    BY <1>3, <2>1 DEF Kept
  <2> QED BY <1>1, <2>3, <2>4, <2>5, SkillFacts DEF Offered
<1> HIDE DEF old
<1> QED BY <1>2, <1>3

\* reindex never approves, whatever files it finds.
LEMMA ReindexedFacts ==
  ASSUME TypeOK, NEW files \in [Names -> Files]
  PROVE  Reindexed(files) \in Rows /\ Indexes(Reindexed(files))
<1>1. ASSUME NEW n \in Discovered(files)
      PROVE  /\ Reindexed(files)[n] \in Skill
             /\ Reindexed(files)[n].id = IdOf(files, n)
             /\ Reindexed(files)[n].status = Kept(files, n)
             /\ Reindexed(files)[n].content = Seen(files, n)
  <2>1. /\ n \in Names /\ IdOf(files, n) \in Ids /\ Kept(files, n) \in Statuses
        /\ Seen(files, n) \in Contents \cup {"bundled"}
    BY KeptFacts
  <2>2. Reindexed(files)[n] =
          [id |-> IdOf(files, n), status |-> Kept(files, n), content |-> Seen(files, n)]
    BY <2>1 DEF Reindexed
  <2> QED BY <2>1, <2>2, SkillFacts
<1>2. ASSUME NEW n \in Names, n \notin Discovered(files) PROVE Reindexed(files)[n] = None
  BY <1>2 DEF Reindexed
<1>3. Reindexed(files) \in Rows
  <2>1. \A n \in Names : Reindexed(files)[n] \in Skill \cup {None}
    BY <1>1, <1>2
  <2>2. Reindexed(files) = [n \in Names |-> Reindexed(files)[n]]
    BY DEF Reindexed
  <2> QED BY <2>1, <2>2 DEF Rows
<1>4. Indexes(Reindexed(files))
  <2> SUFFICES ASSUME NEW n \in Names, Offered(Reindexed(files), n)
               PROVE  \/ Reindexed(files)[n].content = "bundled"
                      \/ \E m \in Names : Offered(row, m) /\ row[m].id = Reindexed(files)[n].id
    BY DEF Indexes
  <2>1. n \in Discovered(files)
    BY <1>2 DEF Offered
  <2>2. Kept(files, n) \in Searchable
    BY <1>1, <2>1 DEF Offered
  <2> QED BY <1>1, <2>1, <2>2, KeptFacts
<1> QED BY <1>3, <1>4

\* The rows that are there are an index, too.
LEMMA RowFacts == ASSUME TypeOK PROVE row \in Rows /\ Indexes(row)
BY DEF TypeOK, Rows, Indexes

\* ensure_index leaves the index as it is, or rebuilds it.
LEMMA EnsuredFacts == ASSUME TypeOK PROVE Ensured \in Rows /\ Indexes(Ensured)
<1>1. file \in [Names -> Files]
  BY DEF TypeOK
<1> QED BY <1>1, ReindexedFacts, RowFacts DEF Ensured

\* What is blessed in an index is in it, and every skill that it offers is.
LEMMA BlessedFacts ==
  ASSUME TypeOK, ApprovedOnly, NEW rows \in Rows, Indexes(rows)
  PROVE  /\ Blessed(rows) \subseteq Ids
         /\ \A n \in Names : Offered(rows, n) => rows[n].id \in Blessed(rows)
<1>1. Blessed(rows) \subseteq Ids
  <2>1. \A n \in Names : rows[n] # None => rows[n].id \in Ids
    BY SkillFacts DEF Rows
  <2> QED BY <2>1 DEF Blessed, IdsIn, Shipped
<1>2. ASSUME NEW n \in Names, Offered(rows, n) PROVE rows[n].id \in Blessed(rows)
  <2>1. CASE rows[n].content = "bundled"
    BY <1>2, <2>1 DEF Blessed, Shipped, Offered
  <2>2. CASE \E m \in Names : Offered(row, m) /\ row[m].id = rows[n].id
    <3>1. rows[n].id \in blessed
      BY <2>2 DEF ApprovedOnly, Is, Offered
    <3> QED BY <1>2, <3>1 DEF Blessed, IdsIn, Offered
  <2> QED BY <1>2, <2>1, <2>2 DEF Indexes
<1> QED BY <1>1, <1>2

\* What a write of an index does to the approvals.
LEMMA WroteFacts ==
  ASSUME TypeOK, ApprovedOnly, NEW rows \in Rows, Indexes(rows),
         NEW written \in SUBSET Names, WroteAfter(rows, written)
  PROVE  row' \in Rows /\ newer' \subseteq Names /\ blessed' \subseteq Ids /\ ApprovedOnly'
<1>1. row' = rows /\ blessed' = Blessed(rows)
  BY DEF WroteAfter
<1>2. newer' \subseteq Names
  BY DEF WroteAfter, TypeOK
<1>3. ApprovedOnly'
  BY <1>1, BlessedFacts DEF ApprovedOnly, Is, Offered
<1> QED BY <1>1, <1>2, <1>3, BlessedFacts

\* The same with no file written before, and with a reindex that may raise.
LEMMA WroteOnlyFacts ==
  ASSUME TypeOK, ApprovedOnly, NEW rows \in Rows, Indexes(rows), Wrote(rows)
  PROVE  row' \in Rows /\ newer' \subseteq Names /\ blessed' \subseteq Ids /\ ApprovedOnly'
BY WroteFacts DEF Wrote

LEMMA ReindexAfterFacts ==
  ASSUME TypeOK, ApprovedOnly, NEW files \in [Names -> Files],
         NEW written \in SUBSET Names, ReindexAfter(files, written)
  PROVE  row' \in Rows /\ newer' \subseteq Names /\ blessed' \subseteq Ids /\ ApprovedOnly'
<1>1. CASE Indexable(files)
  <2>1. WroteAfter(Reindexed(files), written)
    BY <1>1 DEF ReindexAfter
  <2> QED BY <2>1, ReindexedFacts, WroteFacts
<1>2. CASE ~Indexable(files)
  BY <1>2 DEF ReindexAfter, TypeOK, Rows, ApprovedOnly, Is
<1> QED BY <1>1, <1>2

\* The same for a transition by a human.
LEMMA HumanFacts ==
  ASSUME TypeOK, ApprovedOnly, NEW rows \in Rows, Indexes(rows),
         NEW n \in Names, NEW target \in {"candidate", "verified", "deprecated", "rejected"},
         Human(n, target, rows)
  PROVE  row' \in Rows /\ newer' \subseteq Names /\ blessed' \subseteq Ids /\ ApprovedOnly'
<1>1. rows[n] \in Skill /\ target \in Statuses
  BY DEF Human, Rows, Statuses
<1>2. /\ row'[n] \in Skill /\ row'[n].id = rows[n].id /\ row'[n].status = target
      /\ \A k \in Names \ {n} : row'[k] = rows[k]
      /\ row' \in Rows
  BY <1>1, SkillFacts DEF Human, Rows
<1>3. /\ Blessed(rows) \subseteq blessed'
      /\ target \in Searchable => rows[n].id \in blessed'
      /\ blessed' \subseteq Blessed(rows) \cup {rows[n].id}
  BY DEF Human
<1>4. blessed' \subseteq Ids /\ newer' \subseteq Names
  <2>1. rows[n].id \in Ids
    BY <1>1, SkillFacts
  <2>2. newer' \in {{}, newer}
    BY DEF Human
  <2> QED BY <1>3, <2>1, <2>2, BlessedFacts DEF TypeOK
<1>5. ApprovedOnly'
  <2>1. ASSUME NEW k \in Names, k # n, Is(k, Searchable)' PROVE row'[k].id \in blessed'
    BY <1>2, <1>3, <2>1, BlessedFacts DEF Is, Offered
  <2>2. Is(n, Searchable)' => row'[n].id \in blessed'
    BY <1>2, <1>3 DEF Is
  <2> QED BY <2>1, <2>2 DEF ApprovedOnly
<1> QED BY <1>2, <1>4, <1>5

-----------------------------------------------------------------------------
(* Steps that leave the files alone *)

\* An operation that goes on relies on nothing that such a step changes.
LEMMA FilesKept ==
  ASSUME Inv, UNCHANGED <<file, draft, composers, op, writer, crashes>>
  PROVE  DraftInv' /\ OpInv' /\ WriterInv'
BY DEF Inv, DraftInv, OpInv, WriterInv, Undoing

\* Nothing is indexed or approved at first.
LEMMA InitInv == Init => Inv
<1> SUFFICES ASSUME Init PROVE Inv
  OBVIOUS
<1>1. TypeOK
  BY SkillAssumption DEF Init, TypeOK, Files
<1> QED BY <1>1 DEF Init, Inv, ApprovedOnly, Is, DraftInv, OpInv, WriterInv

\* The two processes that rebuild the index.
LEMMA EnsureIndexInv == ASSUME Inv, EnsureIndex PROVE Inv'
<1> USE DEF Inv, EnsureIndex
<1>1. row' \in Rows /\ newer' \subseteq Names /\ blessed' \subseteq Ids /\ ApprovedOnly'
  BY EnsuredFacts, WroteOnlyFacts
<1>2. TypeOK'
  BY <1>1 DEF TypeOK, Rows
<1> QED BY <1>1, <1>2, FilesKept

LEMMA CliReindexInv == ASSUME Inv, CliReindex PROVE Inv'
<1> USE DEF Inv, CliReindex
<1>1. row' \in Rows /\ newer' \subseteq Names /\ blessed' \subseteq Ids /\ ApprovedOnly'
  <2>1. file \in [Names -> Files]
    BY DEF TypeOK
  <2> QED BY <2>1, ReindexedFacts, WroteOnlyFacts
<1>2. TypeOK'
  BY <1>1 DEF TypeOK, Rows
<1> QED BY <1>1, <1>2, FilesKept

\* A human approves, deprecates or rejects, here or on the command line.
LEMMA TransitionInv ==
  ASSUME Inv, NEW n \in Names, NEW target \in {"candidate", "verified", "deprecated", "rejected"},
         Transition(n, target)
  PROVE  Inv'
<1> USE DEF Inv, Transition, Idle
<1>1. /\ row' \in Rows /\ newer' \subseteq Names /\ blessed' \subseteq Ids
      /\ ApprovedOnly'
  BY EnsuredFacts, HumanFacts
<1>2. TypeOK'
  BY <1>1 DEF TypeOK, Rows
<1> QED BY <1>1, <1>2, FilesKept

LEMMA CliTransitionInv ==
  ASSUME Inv, NEW n \in Names, NEW target \in {"candidate", "verified", "deprecated", "rejected"},
         CliTransition(n, target)
  PROVE  Inv'
<1> USE DEF Inv, CliTransition
<1>1. /\ row' \in Rows /\ newer' \subseteq Names /\ blessed' \subseteq Ids
      /\ ApprovedOnly'
  BY RowFacts, HumanFacts
<1>2. TypeOK'
  BY <1>1 DEF TypeOK, Rows
<1> QED BY <1>1, <1>2, FilesKept

\* The steps of the chat that write the index at most.
LEMMA AskInv == ASSUME Inv, NEW n \in Names, Ask(n) PROVE Inv'
<1> USE DEF Inv, Ask, Idle
<1>1. /\ row' \in Rows /\ newer' \subseteq Names /\ blessed' \subseteq Ids
      /\ ApprovedOnly'
  BY EnsuredFacts, WroteOnlyFacts
<1>2. question' \in Question
  BY DEF Question, Ready
<1>3. TypeOK'
  BY <1>1, <1>2 DEF TypeOK, Rows
<1> QED BY <1>1, <1>3, FilesKept

\* Ends of a question that approve nothing.
LEMMA QuestionInv == ASSUME Inv, OtherMessage \/ Expire \/ Dismiss PROVE Inv'
<1> USE DEF Inv
<1>1. /\ UNCHANGED <<file, newer, row, draft, composers, op, histVars>>
      /\ \/ question' = None
         \/ question # None /\ question' = [question EXCEPT !.age = "old"]
  BY DEF OtherMessage, Expire, Dismiss, Answerable
<1>2. \A x \in Question : [x EXCEPT !.age = "old"] \in Question
  BY DEF Question
<1>3. question' \in Question \cup {None}
  BY <1>1, <1>2 DEF TypeOK
<1>4. TypeOK'
  BY <1>1, <1>3 DEF TypeOK, histVars
<1>5. ApprovedOnly'
  BY <1>1 DEF ApprovedOnly, Is, histVars
<1> QED BY <1>1, <1>4, <1>5, FilesKept DEF histVars

-----------------------------------------------------------------------------
(* Drafts *)

\* A step on a draft that no approval has marked and none is registering.
LEMMA DraftsKept ==
  ASSUME Inv, op = None, UNCHANGED <<op, file, writer, crashes>>,
         NEW d \in Drafts, composers' \subseteq composers \cup {d}, draft'[d] # None,
         \A e \in Drafts \ {d} : draft'[e] = draft[e],
         \/ draft'[d] = draft[d]
         \/ /\ draft[d] # None => draft[d].status # "approved"
            /\ draft'[d].status = "ready" => draft'[d].content \in Contents
  PROVE  DraftInv' /\ OpInv' /\ WriterInv'
<1> USE DEF Inv
<1>1. DraftInv'
  BY DEF DraftInv, TypeOK
<1>2. OpInv'
  BY DEF OpInv
<1>3. ASSUME NEW n \in Names, writer[n] # None
      PROVE  draft'[writer[n]] # None /\ (crashes = 0 => draft'[writer[n]].status = "approved")
  <2>1. /\ writer[n] \in Drafts /\ draft[writer[n]] # None
        /\ crashes = 0 => draft[writer[n]].status = "approved"
    BY <1>3 DEF WriterInv, Undoing, TypeOK
  <2> QED BY <2>1
<1>4. WriterInv'
  BY <1>3 DEF WriterInv
<1> QED BY <1>1, <1>2, <1>4

\* What a draft that is written holds, field by field.
LEMMA DraftFacts ==
  ASSUME NEW n \in Names, NEW s \in {"composing", "failed", "ready", "approved", "deleted"},
         NEW c \in Contents \cup {None}
  PROVE  LET x == [name |-> n, status |-> s, content |-> c] IN
         x \in Draft /\ x # None /\ x.status = s /\ x.content = c
<1>1. [name |-> n, status |-> s, content |-> c] \in Draft
  BY DEF Draft
<1> QED BY <1>1, NoneAssumption

\* A draft changes its status, or gets a content.
LEMMA StatusFacts ==
  ASSUME NEW x \in Draft, NEW s \in {"composing", "failed", "ready", "approved", "deleted"}
  PROVE  LET y == [x EXCEPT !.status = s] IN
         y \in Draft /\ y # None /\ y.status = s /\ y.content = x.content
<1>1. LET y == [x EXCEPT !.status = s] IN
      y \in Draft /\ y.status = s /\ y.content = x.content
  BY DEF Draft
<1> QED BY <1>1, NoneAssumption

LEMMA ContentFacts ==
  ASSUME NEW x \in Draft, NEW s \in {"composing", "failed", "ready", "approved", "deleted"},
         NEW c \in Contents \cup {None}
  PROVE  LET y == [x EXCEPT !.status = s, !.content = c] IN
         y \in Draft /\ y # None /\ y.status = s /\ y.content = c
<1>1. LET y == [x EXCEPT !.status = s, !.content = c] IN
      y \in Draft /\ y.status = s /\ y.content = c
  BY DEF Draft
<1> QED BY <1>1, NoneAssumption

\* A new draft, imported or about to be composed.
LEMMA NewInv ==
  ASSUME Inv, NEW d \in Drafts, NEW n \in Names,
         NEW status \in {"ready", "composing"}, NEW content \in Contents \cup {None},
         status = "ready" => content \in Contents,
         New(d, n, status, content), composers' \subseteq composers \cup {d}
  PROVE  Inv'
<1> USE DEF Inv, New, Idle
<1>1. /\ row' \in Rows /\ newer' \subseteq Names /\ blessed' \subseteq Ids
      /\ ApprovedOnly'
  BY EnsuredFacts, WroteOnlyFacts
<1> DEFINE x == [name |-> n, status |-> status, content |-> content]
<1>2. x \in Draft /\ x # None /\ x.status = status /\ x.content = content
  BY DraftFacts
<1>3. draft' = [draft EXCEPT ![d] = x]
  OBVIOUS
<1> HIDE DEF x
<1>4. /\ draft' \in [Drafts -> Draft \cup {None}] /\ draft'[d] = x
      /\ \A e \in Drafts \ {d} : draft'[e] = draft[e]
  BY <1>2, <1>3 DEF TypeOK
<1>5. TypeOK'
  BY <1>1, <1>4 DEF TypeOK, Rows
<1>6. DraftInv' /\ OpInv' /\ WriterInv'
  BY <1>2, <1>4, DraftsKept
<1> QED BY <1>1, <1>5, <1>6

\* The composer writes its result into the draft, if it still waits for it.
LEMMA CompleteSkillDraftInv ==
  ASSUME Inv, NEW d \in Drafts, CompleteSkillDraft(d) PROVE Inv'
<1> USE DEF Inv, CompleteSkillDraft, Idle
<1>1. /\ row' \in Rows /\ newer' \subseteq Names /\ blessed' \subseteq Ids
      /\ ApprovedOnly'
  BY RowFacts, WroteOnlyFacts
<1>2. PICK c \in Contents \cup {None} : draft' = Completed(d, c)
  OBVIOUS
<1>3. draft[d] # None /\ draft[d] \in Draft
  BY DEF DraftInv, TypeOK
<1>4. /\ draft' \in [Drafts -> Draft \cup {None}] /\ draft'[d] # None
      /\ \A e \in Drafts \ {d} : draft'[e] = draft[e]
      /\ \/ draft'[d] = draft[d]
         \/ /\ draft[d].status # "approved"
            /\ draft'[d].status = "ready" => draft'[d].content \in Contents
  <2>1. CASE draft[d].status \notin {"composing", "failed"}
    BY <1>2, <1>3, <2>1 DEF Completed, TypeOK
  <2>2. CASE draft[d].status \in {"composing", "failed"}
    <3>1. PICK s \in {"failed", "ready"} :
            /\ s = (IF c = None THEN "failed" ELSE "ready")
            /\ s = "ready" => c \in Contents
      OBVIOUS
    <3>2. PICK y \in Draft : y = [draft[d] EXCEPT !.status = s, !.content = c]
      BY <1>3, ContentFacts
    <3>3. y # None /\ y.status = s /\ y.content = c
      <4>1. y # None
        BY NoneAssumption
      <4>2. y.status = s /\ y.content = c
        BY <1>3, <3>2 DEF Draft
      <4> QED BY <4>1, <4>2
    <3>4. draft' = [draft EXCEPT ![d] = y]
      BY <1>2, <2>2, <3>1, <3>2 DEF Completed, TypeOK
    <3> QED BY <2>2, <3>1, <3>3, <3>4 DEF TypeOK
  <2> QED BY <2>1, <2>2
<1>5. TypeOK'
  BY <1>1, <1>4 DEF TypeOK, Rows
<1>6. DraftInv' /\ OpInv' /\ WriterInv'
  BY <1>4, DraftsKept
<1> QED BY <1>1, <1>5, <1>6

\* A draft is deleted while no approval registers it.
LEMMA DeleteSkillDraftInv ==
  ASSUME Inv, NEW d \in Drafts, DeleteSkillDraft(d) PROVE Inv'
<1> USE DEF Inv, DeleteSkillDraft, Idle
<1>1. /\ row' \in Rows /\ newer' \subseteq Names /\ blessed' \subseteq Ids
      /\ ApprovedOnly'
  <2>1. Wrote(row) /\ TypeOK /\ ApprovedOnly
    BY Zenon
  <2> QED BY <2>1, RowFacts, WroteOnlyFacts, Zenon
<1> DEFINE y == [draft[d] EXCEPT !.status = "deleted"]
<1>2. y \in Draft /\ y # None /\ y.status = "deleted"
  <2>1. draft[d] \in Draft
    BY DEF TypeOK
  <2> QED BY <2>1, StatusFacts
<1>3. draft' = [draft EXCEPT ![d] = y]
  BY DEF TypeOK
<1> HIDE DEF y
<1>4. /\ draft' \in [Drafts -> Draft \cup {None}] /\ draft'[d] = y
      /\ \A e \in Drafts \ {d} : draft'[e] = draft[e]
  BY <1>2, <1>3 DEF TypeOK
<1>5. TypeOK'
  BY <1>1, <1>4 DEF TypeOK, Rows
<1>6. DraftInv' /\ OpInv' /\ WriterInv'
  BY <1>2, <1>4, DraftsKept
<1> QED BY <1>1, <1>5, <1>6

-----------------------------------------------------------------------------
(* approve_composed_draft and update_skill_markdown *)

\* An operation is an approval or an update, and a step changes nothing else
\* of it.
LEMMA OpFacts ==
  ASSUME TypeOK, op # None
  PROVE  /\ op.kind \in {"approve", "update"} /\ op.name \in Names
         /\ op.kind = "approve" =>
              /\ op \in Approval /\ op.draft \in Drafts
              /\ op.step \in {"write", "extras", "reindex", "transition", "mark", "undo", "partly"}
         /\ op.kind = "update" =>
              /\ op \in Update /\ op.old \in Contents /\ op.status \in Statuses \cup {None}
              /\ op.step \in {"reindex", "status", "undo"}
BY DEF TypeOK, Approval, Update

\* The steps of an approval and of an update, and what each goes on with.
LEMMA ApprovalStep ==
  ASSUME NEW x \in Approval, NEW s \in {"write", "extras", "reindex", "transition", "mark", "undo", "partly"}
  PROVE  \E y \in Approval :
           /\ y = [x EXCEPT !.step = s] /\ y # None /\ y.kind = x.kind
           /\ y.name = x.name /\ y.draft = x.draft /\ y.step = s
<1> DEFINE z == [x EXCEPT !.step = s]
<1>1. /\ z \in Approval /\ z.kind = x.kind /\ z.name = x.name /\ z.draft = x.draft
      /\ z.step = s
  BY DEF Approval
<1>2. z # None
  BY <1>1, NoneAssumption
<1> QED BY <1>1, <1>2, Zenon

LEMMA UpdateStep ==
  ASSUME NEW x \in Update, NEW s \in {"reindex", "status", "undo"}
  PROVE  LET y == [x EXCEPT !.step = s] IN
         /\ y \in Update /\ y # None /\ y.kind = x.kind /\ y.name = x.name
         /\ y.status = x.status /\ y.step = s
<1>1. LET y == [x EXCEPT !.step = s] IN
      y \in Update /\ y.kind = x.kind /\ y.name = x.name /\ y.status = x.status /\ y.step = s
  BY DEF Update
<1> QED BY <1>1, NoneAssumption

\* An operation goes on to step s, with the files as they are.
LEMMA OpGoesOn ==
  ASSUME Inv, op # None, NEW s, Step(s),
         \/ /\ op.kind = "approve" /\ op.step # "write"
            /\ s \in {"extras", "reindex", "transition", "mark", "undo", "partly"}
         \/ op.kind = "update" /\ s \in {"reindex", "status", "undo"},
         UNCHANGED <<file, draft, composers, writer, crashes>>
  PROVE  DraftInv' /\ OpInv' /\ WriterInv' /\ op' \in Approval \cup Update
<1> USE DEF Inv
<1>1. CASE op.kind = "approve"
  <2>1. /\ op' \in Approval /\ op' # None /\ op'.kind = "approve" /\ op'.name = op.name
        /\ op'.draft = op.draft /\ op'.step = s
    <3>1. op \in Approval /\ s \in {"write", "extras", "reindex", "transition", "mark", "undo", "partly"}
      <4>1. TypeOK
        BY Zenon
      <4>2. op \in Approval
        BY <1>1, <4>1, OpFacts, Zenon
      <4>3. s \in {"write", "extras", "reindex", "transition", "mark", "undo", "partly"}
        BY <1>1
      <4> QED BY <4>2, <4>3
    <3>2. op' = [op EXCEPT !.step = s]
      BY DEF Step
    <3>3. PICK y \in Approval :
            /\ y = [op EXCEPT !.step = s] /\ y # None /\ y.kind = op.kind
            /\ y.name = op.name /\ y.draft = op.draft /\ y.step = s
      BY <3>1, ApprovalStep, Zenon
    <3>4. op' = y
      BY <3>2, <3>3
    <3> QED BY <1>1, <3>3, <3>4
  <2> QED BY <1>1, <2>1 DEF DraftInv, OpInv, WriterInv, Undoing
<1>2. CASE op.kind = "update"
  <2>1. /\ op' \in Update /\ op' # None /\ op'.kind = "update" /\ op'.name = op.name
        /\ op'.status = op.status
    BY <1>2, OpFacts, UpdateStep DEF Step
  <2> QED BY <1>2, <2>1 DEF DraftInv, OpInv, WriterInv, Undoing
<1> QED BY <1>1, <1>2

\* An operation ends that has written no file for a draft, or only a part of it.
LEMMA OpEnds ==
  ASSUME Inv, op' = None, UNCHANGED <<draft, composers, writer, crashes>>,
         op # None /\ op.kind = "approve" => op.step = "write",
         \/ UNCHANGED file
         \/ op # None /\ op.kind = "approve" /\ \A n \in Names : n = op.name \/ file'[n] = file[n]
  PROVE  DraftInv' /\ OpInv' /\ WriterInv'
BY DEF Inv, DraftInv, OpInv, WriterInv, Undoing

\* The approval of a draft that is ready begins with an empty directory.
LEMMA BeginFacts ==
  ASSUME Inv, op = None, NEW d \in Drafts, draft[d] # None, draft[d].status = "ready",
         NEW rows, BeginApproval(d, rows),
         UNCHANGED <<draft, composers, writer, crashes>>
  PROVE  /\ DraftInv' /\ OpInv' /\ WriterInv'
         /\ file' \in [Names -> Files] /\ op' \in Approval
<1> USE DEF Inv
<1> DEFINE n == draft[d].name
<1>1. n \in Names
  BY DEF TypeOK, Draft
<1>2. file[n] = None /\ file' = [file EXCEPT ![n] = "empty"]
      /\ op' = [kind |-> "approve", draft |-> d, name |-> n, step |-> "write"]
  BY DEF BeginApproval
<1> HIDE DEF n
<1>3. op' \in Approval /\ op' # None
  BY <1>1, <1>2, NoneAssumption DEF Approval
<1>4. op'.kind = "approve" /\ op'.draft = d /\ op'.name = n /\ op'.step = "write"
  BY <1>2
<1>5. writer[n] = None
  BY <1>1, <1>2, SkillAssumption DEF WriterInv
<1>6. file' \in [Names -> Files] /\ \A k \in Names \ {n} : file'[k] = file[k]
  BY <1>1, <1>2 DEF TypeOK, Files
<1>7. WriterInv'
  BY <1>5, <1>6 DEF WriterInv, Undoing
<1>8. OpInv' /\ DraftInv'
  BY <1>4, <1>5 DEF OpInv, DraftInv
<1> QED BY <1>3, <1>6, <1>7, <1>8

\* An approval begins in WebUI, or by a yes in the chat.
LEMMA ApproveComposedDraftInv ==
  ASSUME Inv, NEW d \in Drafts, ApproveComposedDraft(d) PROVE Inv'
<1> USE DEF Inv, ApproveComposedDraft, Idle, histVars
<1>1. /\ DraftInv' /\ OpInv' /\ WriterInv'
      /\ file' \in [Names -> Files] /\ op' \in Approval
  BY BeginFacts
<1>2. TypeOK'
  BY <1>1 DEF TypeOK
<1> QED BY <1>1, <1>2 DEF ApprovedOnly, Is

LEMMA AnswerYesInv == ASSUME Inv, AnswerYes PROVE Inv'
<1> USE DEF Inv, Idle
<1>1. /\ op = None /\ question # None /\ question' = None /\ question.name \in Names
      /\ UNCHANGED <<draft, composers, writer, edits, failures, crashes>>
  BY DEF AnswerYes, Answerable, TypeOK, Question
<1>2. CASE Human(question.name, "candidate", Ensured) /\ UNCHANGED <<file, op>>
  <2>1. /\ row' \in Rows /\ newer' \subseteq Names /\ blessed' \subseteq Ids
        /\ ApprovedOnly'
    BY <1>1, <1>2, EnsuredFacts, HumanFacts
  <2>2. TypeOK'
    BY <1>1, <1>2, <2>1 DEF TypeOK, Rows
  <2> QED BY <1>1, <1>2, <2>1, <2>2, FilesKept
<1>3. CASE /\ Wrote(Ensured)
           /\ \E d \in Ready(question.name) : BeginApproval(d, Ensured)
  <2>1. /\ row' \in Rows /\ newer' \subseteq Names /\ blessed' \subseteq Ids
        /\ ApprovedOnly'
    BY <1>3, EnsuredFacts, WroteOnlyFacts
  <2>2. /\ DraftInv' /\ OpInv' /\ WriterInv'
        /\ file' \in [Names -> Files] /\ op' \in Approval
    BY <1>1, <1>3, BeginFacts DEF Ready
  <2>3. TypeOK'
    BY <1>1, <2>1, <2>2 DEF TypeOK, Rows
  <2> QED BY <2>1, <2>2, <2>3
<1> QED BY <1>2, <1>3 DEF AnswerYes

\* The writes of an operation, one by one, and what a failing one undoes.
LEMMA WriteSkillInv == ASSUME Inv, WriteSkill PROVE Inv'
<1> USE DEF Inv, WriteSkill, At
<1>1. /\ op.kind = "approve" /\ op \in Approval /\ op.name \in Names /\ op.draft \in Drafts
      /\ draft[op.draft] # None /\ draft[op.draft].status = "ready"
      /\ draft[op.draft].content \in Contents
  BY OpFacts DEF OpInv, DraftInv
<1>2. PICK n \in Names, d \in Drafts, c \in Contents :
        n = op.name /\ d = op.draft /\ c = draft[d].content
  BY <1>1
<1>3. /\ op' \in Approval /\ op' # None /\ op'.kind = "approve" /\ op'.name = n
      /\ op'.draft = d /\ op'.step = "extras"
  <2>1. PICK y \in Approval :
          /\ y = [op EXCEPT !.step = "extras"] /\ y # None /\ y.kind = op.kind
          /\ y.name = op.name /\ y.draft = op.draft /\ y.step = "extras"
    <3>1. op \in Approval /\ "extras" \in {"write", "extras", "reindex", "transition", "mark", "undo", "partly"}
      BY <1>1
    <3> QED BY <3>1, ApprovalStep, Zenon
  <2>2. op' = y
    BY <2>1 DEF Step
  <2> QED BY <1>1, <1>2, <2>1, <2>2
<1>4. /\ file' \in [Names -> Files] /\ file'[n] = c
      /\ writer' \in [Names -> Drafts \cup {None}] /\ writer'[n] = d
      /\ \A k \in Names \ {n} : file'[k] = file[k] /\ writer'[k] = writer[k]
  BY <1>2 DEF TypeOK, Files
<1>5. TypeOK'
  BY <1>2, <1>3, <1>4 DEF TypeOK
<1>6. DraftInv' /\ OpInv'
  BY <1>1, <1>2, <1>3, <1>4 DEF DraftInv, OpInv
<1>7. WriterInv'
  BY <1>1, <1>2, <1>3, <1>4 DEF WriterInv, Undoing
<1> QED BY <1>5, <1>6, <1>7 DEF ApprovedOnly, Is

LEMMA WriteFailsInv == ASSUME Inv, WriteFails PROVE Inv'
<1> USE DEF Inv, WriteFails, At
<1>1. op # None /\ op.kind = "approve" /\ op.name \in Names /\ op.step = "write"
  BY OpFacts
<1>2. /\ file' \in [Names -> Files] /\ \A n \in Names : n = op.name \/ file'[n] = file[n]
      /\ \E written \in SUBSET Names : ReindexAfter(file', written)
  <2>1. CASE UNCHANGED file /\ ReindexAfter(file, {})
    BY <2>1 DEF TypeOK
  <2>2. ASSUME NEW content \in Cut, file' = [file EXCEPT ![op.name] = content],
               ReindexAfter(file', {op.name})
        PROVE  /\ file' \in [Names -> Files] /\ \A n \in Names : n = op.name \/ file'[n] = file[n]
               /\ \E written \in SUBSET Names : ReindexAfter(file', written)
    BY <1>1, <2>2, SkillAssumption DEF TypeOK, Files
  <2> QED BY <2>1, <2>2
<1>3. row' \in Rows /\ newer' \subseteq Names /\ blessed' \subseteq Ids /\ ApprovedOnly'
  BY <1>2, ReindexAfterFacts
<1>4. TypeOK'
  <2>1. failures' \in 0..MaxFaults
    BY SkillAssumption DEF TypeOK
  <2> QED BY <1>2, <1>3, <2>1 DEF TypeOK, Rows
<1>5. DraftInv' /\ OpInv' /\ WriterInv'
  BY <1>1, <1>2, OpEnds
<1> QED BY <1>3, <1>4, <1>5

\* The writes that follow that of the skill, whole or cut off.
LEMMA WriteExtrasInv == ASSUME Inv, WriteExtras PROVE Inv'
<1> USE DEF Inv, WriteExtras, At
<1>1. op # None /\ op.kind = "approve" /\ op.step = "extras"
  BY OpFacts
<1>2. PICK s \in {"reindex", "undo", "partly"} : Step(s)
  OBVIOUS
<1>3. DraftInv' /\ OpInv' /\ WriterInv' /\ op' \in Approval \cup Update
  BY <1>1, <1>2, OpGoesOn
<1>4. failures' \in 0..MaxFaults
  BY SkillAssumption DEF TypeOK
<1>5. TypeOK'
  BY <1>3, <1>4 DEF TypeOK
<1> QED BY <1>3, <1>5 DEF ApprovedOnly, Is

LEMMA ReindexInv == ASSUME Inv, Reindex PROVE Inv'
<1> USE DEF Inv, Reindex, At
<1>1. op # None /\ op.step = "reindex" /\ op.kind \in {"approve", "update"}
  BY OpFacts
<1>2. PICK s : /\ Step(s)
               /\ \/ op.kind = "approve" /\ s \in {"transition", "undo"}
                  \/ op.kind = "update" /\ s \in {"status", "undo"}
  BY <1>1
<1>3. DraftInv' /\ OpInv' /\ WriterInv' /\ op' \in Approval \cup Update
  BY <1>1, <1>2, OpGoesOn
<1>4. row' \in Rows /\ newer' \subseteq Names /\ blessed' \subseteq Ids /\ ApprovedOnly'
  <2>1. CASE Indexable(file)
    <3>1. file \in [Names -> Files] /\ Wrote(Reindexed(file))
      BY <2>1 DEF TypeOK
    <3> QED BY <3>1, ReindexedFacts, WroteOnlyFacts
  <2>2. CASE ~Indexable(file)
    BY <2>2 DEF TypeOK, Rows, ApprovedOnly, Is
  <2> QED BY <2>1, <2>2
<1>5. TypeOK'
  BY <1>3, <1>4 DEF TypeOK, Rows
<1> QED BY <1>3, <1>4, <1>5

LEMMA RegisterInv == ASSUME Inv, Register PROVE Inv'
<1> USE DEF Inv, Register, At
<1>1. op # None /\ op.step = "transition" /\ op.kind = "approve" /\ op.name \in Names
  BY OpFacts
<1>2. /\ \E s \in {"mark", "undo"} : Step(s)
      /\ UNCHANGED <<newer, row, blessed>> \/ Human(op.name, "candidate", row)
  OBVIOUS
<1>3. DraftInv' /\ OpInv' /\ WriterInv' /\ op' \in Approval \cup Update
  BY <1>1, <1>2, OpGoesOn
<1>4. /\ row' \in Rows /\ newer' \subseteq Names /\ blessed' \subseteq Ids
      /\ ApprovedOnly'
  <2>1. CASE UNCHANGED <<newer, row, blessed>>
    BY <2>1 DEF TypeOK, Rows, ApprovedOnly, Is
  <2>2. CASE Human(op.name, "candidate", row)
    BY <1>1, <2>2, RowFacts, HumanFacts
  <2> QED BY <1>2, <2>1, <2>2
<1>5. TypeOK'
  BY <1>3, <1>4 DEF TypeOK, Rows
<1> QED BY <1>3, <1>4, <1>5

LEMMA MarkApprovedInv == ASSUME Inv, MarkApproved PROVE Inv'
<1> USE DEF Inv, MarkApproved, At
<1>1. /\ op # None /\ op.step = "mark" /\ op.kind = "approve"
      /\ op.name \in Names /\ op.draft \in Drafts
      /\ draft[op.draft] # None /\ writer[op.name] = op.draft
  BY OpFacts DEF OpInv
<1>2. /\ row' \in Rows /\ newer' \subseteq Names /\ blessed' \subseteq Ids
      /\ ApprovedOnly'
  BY RowFacts, WroteOnlyFacts
<1>3. PICK d \in Drafts : d = op.draft
  BY <1>1
<1>4. PICK y \in Draft : y = [draft[d] EXCEPT !.status = "approved"]
  <2>1. draft[d] \in Draft
    BY <1>1, <1>3 DEF TypeOK
  <2> QED BY <2>1, StatusFacts
<1>5. y # None /\ y.status = "approved"
  <2>1. y # None
    BY NoneAssumption
  <2>2. draft[d] \in Draft
    BY <1>1, <1>3 DEF TypeOK
  <2>3. y.status = "approved"
    BY <1>4, <2>2 DEF Draft
  <2> QED BY <2>1, <2>3
<1>6. draft' = [draft EXCEPT ![d] = y]
  BY <1>3, <1>4 DEF TypeOK
<1>7. draft' \in [Drafts -> Draft \cup {None}] /\ draft'[d] = y
      /\ \A e \in Drafts \ {d} : draft'[e] = draft[e]
  BY <1>6 DEF TypeOK
<1>8. TypeOK'
  BY <1>2, <1>7 DEF TypeOK, Rows
<1>9. DraftInv'
  BY <1>5, <1>7 DEF DraftInv, TypeOK
<1>10. OpInv'
  BY DEF OpInv
<1>11. WriterInv'
  <2> SUFFICES ASSUME NEW n \in Names, writer[n] # None
               PROVE  /\ file[n] \in Contents /\ draft'[writer[n]] # None
                      /\ crashes = 0 => draft'[writer[n]].status = "approved"
    BY DEF WriterInv
  <2>1. CASE writer[n] = d
    BY <1>5, <1>7, <2>1 DEF WriterInv
  <2>2. CASE writer[n] # d
    BY <1>3, <1>7, <2>2 DEF WriterInv, Undoing, TypeOK
  <2> QED BY <2>1, <2>2
<1> QED BY <1>2, <1>8, <1>9, <1>10, <1>11

LEMMA UndoInv == ASSUME Inv, Undo PROVE Inv'
<1> USE DEF Inv, Undo, At
<1>1. /\ op # None /\ op.step # "write" /\ op.name \in Names
      /\ op.kind \in {"approve", "update"}
      /\ op.kind = "update" => op.old \in Contents
  BY OpFacts
<1>2. PICK n \in Names : n = op.name
  BY <1>1
<1>3. /\ Undone \in [Names -> Files]
      /\ IF op.kind = "update" THEN Undone[n] = op.old ELSE Undone[n] \in {None, "empty"}
      /\ \A k \in Names \ {n} : Undone[k] = file[k]
  BY <1>1, <1>2 DEF Undone, TypeOK, Files
<1>4. /\ writer' \in [Names -> Drafts \cup {None}]
      /\ op.kind = "approve" => writer'[n] = None
      /\ writer'[n] # None => Undone[n] \in Contents
      /\ writer'[n] \in {None, writer[n]}
      /\ \A k \in Names \ {n} : writer'[k] = writer[k]
  BY <1>1, <1>2, <1>3, SkillAssumption DEF TypeOK
<1>5. /\ row' \in Rows /\ newer' \subseteq Names /\ blessed' \subseteq Ids
      /\ ApprovedOnly'
  <2>1. Undone = file' /\ {op.name} \in SUBSET Names /\ ReindexAfter(file', {op.name})
    BY <1>1
  <2> QED BY <1>3, <2>1, ReindexAfterFacts
<1>6. TypeOK'
  BY <1>3, <1>4, <1>5 DEF TypeOK, Rows
<1>7. DraftInv' /\ OpInv'
  BY DEF DraftInv, OpInv
<1>8. WriterInv'
  <2> SUFFICES ASSUME NEW k \in Names, writer'[k] # None
               PROVE  /\ file'[k] \in Contents /\ draft[writer'[k]] # None
                      /\ crashes = 0 => draft[writer'[k]].status = "approved"
    BY DEF WriterInv
  <2>1. CASE k = n
    BY <1>1, <1>2, <1>3, <1>4, <2>1 DEF WriterInv, Undoing
  <2>2. CASE k # n
    BY <1>2, <1>3, <1>4, <2>2 DEF WriterInv, Undoing
  <2> QED BY <2>1, <2>2
<1> QED BY <1>5, <1>6, <1>7, <1>8

\* An update rewrites the file and then the status.
LEMMA UpdatableFacts ==
  ASSUME Inv, NEW n \in Names, NEW text \in Contents,
         file' = [file EXCEPT ![n] = text], row' = Ensured, newer' = newer \cup {n},
         blessed' = Blessed(Ensured)
  PROVE  /\ file' \in [Names -> Files] /\ file'[n] = text
         /\ \A k \in Names \ {n} : file'[k] = file[k]
         /\ row' \in Rows /\ newer' \subseteq Names /\ blessed' \subseteq Ids /\ ApprovedOnly'
<1> USE DEF Inv
<1>1. Ensured \in Rows /\ Indexes(Ensured)
  BY EnsuredFacts
<1>2. blessed' \subseteq Ids /\ ApprovedOnly'
  BY <1>1, BlessedFacts DEF ApprovedOnly, Is, Offered
<1> QED BY <1>1, <1>2 DEF TypeOK, Files

LEMMA UpdateSkillInv ==
  ASSUME Inv, NEW n \in Names, NEW content \in Contents, UpdateSkill(n, content) PROVE Inv'
<1> USE DEF Inv, UpdateSkill, Updatable, Idle
<1>1. PICK status \in {"candidate", None} :
        op' = [kind |-> "update", name |-> n, old |-> file[n], status |-> status,
               step |-> "reindex"]
  OBVIOUS
<1>2. /\ file' \in [Names -> Files] /\ file'[n] = content
      /\ \A k \in Names \ {n} : file'[k] = file[k]
      /\ row' \in Rows /\ newer' \subseteq Names /\ blessed' \subseteq Ids /\ ApprovedOnly'
  BY UpdatableFacts
<1>3. op' \in Update /\ op' # None
  BY <1>1, NoneAssumption DEF Update, Statuses
<1>4. op'.kind = "update"
  BY <1>1
<1>5. TypeOK'
  BY <1>2, <1>3 DEF TypeOK, Rows
<1>6. DraftInv' /\ OpInv'
  BY <1>4 DEF DraftInv, OpInv
<1>7. WriterInv'
  BY <1>2 DEF WriterInv, Undoing
<1> QED BY <1>2, <1>5, <1>6, <1>7

LEMMA UpdateFailsInv == ASSUME Inv, NEW n \in Names, UpdateFails(n) PROVE Inv'
<1> USE DEF Inv, UpdateFails
<1>1. op = None
  BY DEF Updatable, Idle
<1>2. PICK content \in Contents : file' = [file EXCEPT ![n] = content]
  BY SkillAssumption
<1>3. /\ file' \in [Names -> Files] /\ file'[n] = content
      /\ \A k \in Names \ {n} : file'[k] = file[k]
      /\ row' \in Rows /\ newer' \subseteq Names /\ blessed' \subseteq Ids /\ ApprovedOnly'
  BY <1>2, UpdatableFacts
<1>4. failures' \in 0..MaxFaults
  BY SkillAssumption DEF TypeOK
<1>5. TypeOK'
  BY <1>3, <1>4 DEF TypeOK, Rows
<1>6. DraftInv' /\ OpInv'
  BY <1>1 DEF DraftInv, OpInv
<1>7. WriterInv'
  BY <1>1, <1>3 DEF WriterInv, Undoing
<1> QED BY <1>3, <1>5, <1>6, <1>7

LEMMA SetStatusInv == ASSUME Inv, SetStatus PROVE Inv'
<1> USE DEF Inv, SetStatus, At
<1>1. /\ op # None /\ op.step = "status" /\ op.kind = "update" /\ op.name \in Names
      /\ op.status \in Statuses \cup {None}
  BY OpFacts
<1>2. CASE op.status = None
  <2>1. DraftInv' /\ OpInv' /\ WriterInv'
    BY <1>1, <1>2, OpEnds
  <2>2. TypeOK'
    BY <1>2 DEF TypeOK
  <2> QED BY <1>2, <2>1, <2>2 DEF ApprovedOnly, Is
<1>3. CASE op.status # None /\ row[op.name] # None
  <2>1. PICK n \in Names, s \in Statuses : n = op.name /\ s = op.status
    BY <1>1, <1>3
  <2>2. /\ op' = None /\ row' = [row EXCEPT ![n].status = s] /\ newer' \in {{}, newer}
        /\ blessed' = Blessed(row) \cup {row[n].id}
    BY <1>3, <2>1
  <2>3. row[n] \in Skill
    BY <1>3, <2>1 DEF TypeOK
  <2>4. /\ row' \in Rows /\ row'[n].id = row[n].id
        /\ \A k \in Names \ {n} : row'[k] = row[k]
    BY <2>2, <2>3, SkillFacts DEF TypeOK, Rows
  <2>5. row[n].id \in Ids
    BY <2>3, SkillFacts
  <2>6. newer' \subseteq Names /\ blessed' \subseteq Ids
    BY <2>2, <2>5, RowFacts, BlessedFacts DEF TypeOK
  <2>7. ApprovedOnly'
    <3>1. ASSUME NEW k \in Names, k # n, Is(k, Searchable)' PROVE row'[k].id \in blessed'
      BY <2>2, <2>4, <3>1, RowFacts, BlessedFacts DEF Is, Offered
    <3> QED BY <2>2, <2>4, <3>1 DEF ApprovedOnly
  <2>8. DraftInv' /\ OpInv' /\ WriterInv'
    BY <1>1, <2>2, OpEnds
  <2>9. TypeOK'
    BY <2>2, <2>4, <2>6 DEF TypeOK, Rows
  <2> QED BY <2>7, <2>8, <2>9
<1>4. CASE op.status # None /\ row[op.name] = None
  <2>1. DraftInv' /\ OpInv' /\ WriterInv' /\ op' \in Approval \cup Update
    BY <1>1, <1>4, OpGoesOn
  <2>2. TypeOK'
    BY <1>4, <2>1 DEF TypeOK
  <2> QED BY <1>4, <2>1, <2>2 DEF ApprovedOnly, Is
<1> QED BY <1>2, <1>3, <1>4

-----------------------------------------------------------------------------
(* Editors, and the end of the gateway *)

\* An editor may change a file or remove it, but not while an operation writes it.
LEMMA EditInv == ASSUME Inv, NEW n \in Names, Edit(n) PROVE Inv'
<1> USE DEF Inv, Edit, Idle
<1>1. PICK content \in Contents \cup {None} : file' = [file EXCEPT ![n] = content]
  OBVIOUS
<1>2. /\ file' \in [Names -> Files] /\ \A k \in Names \ {n} : file'[k] = file[k]
      /\ writer' \in [Names -> Drafts \cup {None}] /\ writer'[n] = None
      /\ \A k \in Names \ {n} : writer'[k] = writer[k]
  BY <1>1 DEF TypeOK, Files
<1>3. edits' \in 0..MaxEdits /\ newer' \subseteq Names
  BY SkillAssumption DEF TypeOK
<1>4. TypeOK'
  BY <1>2, <1>3 DEF TypeOK
<1>5. ApprovedOnly' /\ DraftInv' /\ OpInv'
  BY DEF ApprovedOnly, Is, DraftInv, OpInv
<1>6. WriterInv'
  BY <1>2 DEF WriterInv, Undoing
<1> QED BY <1>4, <1>5, <1>6

\* After a crash the operation is gone and its writes stay.
LEMMA CrashInv == ASSUME Inv, Crash PROVE Inv'
<1> USE DEF Inv, Crash
<1>1. TypeOK' /\ crashes' # 0
  BY SkillAssumption DEF TypeOK
<1>2. ApprovedOnly' /\ DraftInv' /\ OpInv' /\ WriterInv'
  BY <1>1 DEF ApprovedOnly, Is, DraftInv, OpInv, WriterInv
<1> QED BY <1>1, <1>2

-----------------------------------------------------------------------------

\* The actions of a draft, of a skill, and every step.
LEMMA OfDraftInv == ASSUME Inv, NEW d \in Drafts, OfDraft(d) PROVE Inv'
<1>1. CASE \E n \in Names : ComposeDraft(d, n)
  BY <1>1, NewInv DEF ComposeDraft
<1>2. CASE \E n \in Names, c \in Contents : ImportDraft(d, n, c)
  BY <1>2, NewInv DEF ImportDraft
<1>3. CASE CompleteSkillDraft(d) \/ DeleteSkillDraft(d) \/ ApproveComposedDraft(d)
  BY <1>3, CompleteSkillDraftInv, DeleteSkillDraftInv, ApproveComposedDraftInv
<1> QED BY <1>1, <1>2, <1>3 DEF OfDraft

LEMMA OfSkillInv == ASSUME Inv, NEW n \in Names, OfSkill(n) PROVE Inv'
<1>1. CASE \E target \in {"candidate", "verified", "deprecated", "rejected"} :
             Transition(n, target) \/ CliTransition(n, target)
  BY <1>1, TransitionInv, CliTransitionInv
<1>2. CASE \E content \in Contents : UpdateSkill(n, content)
  BY <1>2, UpdateSkillInv
<1>3. CASE UpdateFails(n) \/ Ask(n) \/ Edit(n)
  BY <1>3, UpdateFailsInv, AskInv, EditInv
<1> QED BY <1>1, <1>2, <1>3 DEF OfSkill

LEMMA StepInv == ASSUME Inv, [Next]_vars PROVE Inv'
<1>1. CASE \E d \in Drafts : OfDraft(d)
  BY <1>1, OfDraftInv
<1>2. CASE \E n \in Names : OfSkill(n)
  BY <1>2, OfSkillInv
<1>3. CASE Steps
  BY <1>3, WriteSkillInv, WriteFailsInv, WriteExtrasInv, ReindexInv, RegisterInv, MarkApprovedInv, UndoInv,
     SetStatusInv DEF Steps
<1>4. CASE EnsureIndex \/ CliReindex \/ OtherMessage \/ Expire \/ AnswerYes \/ Dismiss \/ Crash
  BY <1>4, EnsureIndexInv, CliReindexInv, QuestionInv, AnswerYesInv, CrashInv
<1>5. CASE UNCHANGED vars
  BY <1>5 DEF vars, histVars, Inv, TypeOK, ApprovedOnly, Is, DraftInv, OpInv,
              WriterInv, Undoing
<1> QED BY <1>1, <1>2, <1>3, <1>4, <1>5 DEF Next

\* The invariant holds of every behaviour.
LEMMA Invariance == Spec => []Inv
BY InitInv, StepInv, PTL DEF Spec

\* Files, rows, drafts and the operation under way keep their types.
THEOREM RegistryTypes == Spec => []TypeOK
<1>1. Inv => TypeOK
  BY DEF Inv
<1> QED BY Invariance, <1>1, PTL

\* What the search offers bears an id that a human approved, or that came with
\* the program, since it is in the index, whatever editors, the command line,
\* failing writes and crashes do in between.
THEOREM ApprovedByHuman == Spec => []ApprovedOnly
<1>1. Inv => ApprovedOnly
  BY DEF Inv
<1> QED BY Invariance, <1>1, PTL

\* Without a crash, a SKILL.md that an approval wrote whole stays only if the
\* approval went through, or is under way.
THEOREM NothingLeftOver == Spec => []NoLeftovers
<1>1. Inv => NoLeftovers
  BY DEF Inv, WriterInv, Undoing, NoLeftovers
<1> QED BY Invariance, <1>1, PTL
================================================================================
