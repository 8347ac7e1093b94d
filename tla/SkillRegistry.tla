---------------------------- MODULE SkillRegistry ----------------------------
(***************************************************************************)
(* The registry of skills (skill_store.py): workspace files, their rows in *)
(* an SQLite index, composer drafts, and the approvals of the WebUI        *)
(* (webui/ws_http.py, webui/skill_manage_api.py), of the chat              *)
(* (agent/tools/skill_request_approval.py, agent/loop.py) and of the       *)
(* command line, which is a process of its own (cli/commands.py).          *)
(*                                                                         *)
(* In the gateway an operation is one synchronous call; between its writes *)
(* the command line may act and the process may die.                       *)
(***************************************************************************)
EXTENDS Naturals, FiniteSets

CONSTANTS
  Names,       \* of workspace skills
  Contents,    \* of SKILL.md
  Ids,         \* of skills in the index; a name stands for the id made from it
  Declares,    \* per content, the id that its frontmatter declares
  Bundled,     \* per name, the id of the skill that ships with the program
  Bad,         \* contents that indexing refuses, with every other skill
  Cut,         \* what a write of a SKILL.md that breaks off may leave
  Declaring,   \* contents whose frontmatter says status: verified
  Flagged,     \* contents whose draft the chat may not approve
  Drafts,      \* draft identifiers, each used once
  CliAmid,     \* whether the command line acts between two writes of the gateway
  MaxEdits,    \* bound on the edits of files outside the registry
  MaxFaults,   \* bound on writes of a file that fail, and crashes of the gateway
  None

ASSUME SkillAssumption ==
  /\ Bad \cup Cut \cup Declaring \cup Flagged \subseteq Contents
  /\ Names \subseteq Ids
  /\ Declares \in [Contents -> Ids \cup {None}]
  /\ Bundled \in [Names -> Ids \cup {None}]
  /\ CliAmid \in BOOLEAN
  /\ MaxEdits \in Nat /\ MaxFaults \in Nat
  /\ None \notin Names \cup Ids \cup Contents \cup Drafts
  /\ Contents \cap {"bundled", "empty"} = {} /\ None \notin {"bundled", "empty"}

VARIABLES
  file,      \* per name, its SKILL.md, "empty" when only the directory is there
  newer,     \* names whose file is newer than the database file
  row,       \* table skills
  draft,     \* table skill_drafts
  composers, \* drafts with a running _complete_skill_draft
  op,        \* the approval or update under way in the gateway
  question,  \* pending_skill_approval of the chat
  blessed,   \* ids in the index that a human approved or that came with the program
  writer,    \* per name, the draft whose approval wrote the file
  edits, failures, crashes

histVars == <<blessed, writer, edits, failures, crashes>>
vars == <<file, newer, row, draft, composers, op, question, histVars>>

Statuses   == {"draft", "candidate", "verified", "deprecated", "rejected"}
Searchable == {"candidate", "verified"}    \* skill_search
Files      == Contents \cup {"empty", None}
Skill      == [id : Ids, status : Statuses, content : Contents \cup {"bundled"}]
Draft      == [name : Names, status : {"composing", "failed", "ready", "approved", "deleted"},
               content : Contents \cup {None}]
Question   == [name : Names, draft : Drafts \cup {None}, age : {"fresh", "old"}]
Approval   == [kind : {"approve"}, draft : Drafts, name : Names,
               step : {"write", "extras", "reindex", "transition", "mark", "undo", "partly"}]
Update     == [kind : {"update"}, name : Names, old : Contents, status : Statuses \cup {None},
               step : {"reindex", "status", "undo"}]

ASSUME NoneAssumption == None \notin Skill \cup Draft \cup Question \cup Approval \cup Update

TypeOK ==
  /\ file \in [Names -> Files]
  /\ newer \subseteq Names
  /\ row \in [Names -> Skill \cup {None}]
  /\ draft \in [Drafts -> Draft \cup {None}]
  /\ composers \subseteq Drafts
  /\ op \in Approval \cup Update \cup {None}
  /\ question \in Question \cup {None}
  /\ blessed \subseteq Ids
  /\ writer \in [Names -> Drafts \cup {None}]
  /\ edits \in 0..MaxEdits /\ failures \in 0..MaxFaults /\ crashes \in 0..MaxFaults

Init ==
  /\ file = [n \in Names |-> None] /\ newer = {}
  /\ row = [n \in Names |-> None]
  /\ draft = [d \in Drafts |-> None]
  /\ composers = {} /\ op = None /\ question = None
  /\ blessed = {} /\ writer = [n \in Names |-> None]
  /\ edits = 0 /\ failures = 0 /\ crashes = 0

Is(n, statuses)  == row[n] # None /\ row[n].status \in statuses
Ready(n)         == {d \in Drafts : draft[d] # None /\ draft[d].name = n /\ draft[d].status = "ready"}
Composing(d)     == draft[d] # None /\ draft[d].status = "composing"
Idle             == op = None
Answerable       == Idle /\ question # None

-----------------------------------------------------------------------------
(* The index *)

\* discover_skill_files: a file of the workspace, or the bundled one that it
\* would hide.
Seen(files, n) ==
  IF files[n] \in Contents THEN files[n] ELSE IF Bundled[n] # None THEN "bundled" ELSE None

Discovered(files) == {n \in Names : Seen(files, n) # None}

\* _metadata_id: the id that the file declares, or one made from its name.
IdOf(files, n) ==
  IF Seen(files, n) = "bundled" THEN Bundled[n]
  ELSE IF Declares[files[n]] # None THEN Declares[files[n]] ELSE n

\* One file that _skill_from_file refuses, or two with one id, the primary key,
\* fail the whole reindex.
Indexable(files) ==
  /\ \A n \in Names : files[n] \notin Bad
  /\ \A m, n \in Discovered(files) : IdOf(files, m) = IdOf(files, n) => m = n

\* Mutant of StatusFor: the file says what it is.
StatusForDeclared(content) == IF content \in Declaring \cup {"bundled"} THEN "verified" ELSE "draft"

\* _status_for: a workspace file enters as a draft.
StatusFor(content) == IF content = "bundled" THEN "verified" ELSE "draft"

WithId(id) == {n \in Names : row[n] # None /\ row[n].id = id}

\* replace_index keeps the status of a row whose id is there again.
Kept(files, n) ==
  LET old == WithId(IdOf(files, n)) IN
  IF old # {} THEN row[CHOOSE m \in old : TRUE].status ELSE StatusFor(Seen(files, n))

Reindexed(files) ==
  [n \in Names |->
     IF n \in Discovered(files)
     THEN [id |-> IdOf(files, n), status |-> Kept(files, n), content |-> Seen(files, n)]
     ELSE None]

\* needs_reindex: an empty table, or a file newer than the database file.
NeedsReindex ==
  \/ \A n \in Names : row[n] = None
  \/ \E n \in newer : file[n] \in Contents

\* What ensure_index leaves, when it does not raise.
Ensured == IF NeedsReindex THEN Reindexed(file) ELSE row
Ensures == NeedsReindex => Indexable(file)

IdsIn(rows)   == {rows[n].id : n \in {m \in Names : rows[m] # None}}
Shipped(rows) == {rows[n].id : n \in {m \in Names : rows[m] # None /\ rows[m].content = "bundled"}}
Blessed(rows) == (blessed \cap IdsIn(rows)) \cup Shipped(rows)

\* A write to the database after writes of files, which may sit in its log with
\* the time of the database file unchanged.
WroteAfter(rows, written) ==
  /\ row' = rows
  /\ newer' \in {{}, newer \cup written}
  /\ blessed' = Blessed(rows)

Wrote(rows) == WroteAfter(rows, {})

\* reindex over files just written; when it raises, the index stays.
ReindexAfter(files, written) ==
  IF Indexable(files) THEN WroteAfter(Reindexed(files), written)
  ELSE newer' = newer \cup written /\ UNCHANGED <<row, blessed>>

\* skill_search, the lists and the start of the gateway; a search also leaves
\* a trace in the database.
EnsureIndex ==
  /\ Idle \/ CliAmid
  /\ Ensures
  /\ Wrote(Ensured)
  /\ UNCHANGED <<file, draft, composers, op, question, writer, edits, failures, crashes>>

\* nanobot skill reindex
CliReindex ==
  /\ Idle \/ CliAmid
  /\ Indexable(file)
  /\ Wrote(Reindexed(file))
  /\ UNCHANGED <<file, draft, composers, op, question, writer, edits, failures, crashes>>

-----------------------------------------------------------------------------
(* Transitions of a skill by a human *)

From(target) ==
  CASE target = "candidate"  -> {"draft"}
    [] target = "verified"   -> {"candidate"}
    [] target = "deprecated" -> {"draft", "candidate", "verified", "rejected"}
    [] target = "rejected"   -> {"draft", "candidate", "verified", "deprecated"}

Human(n, target, rows) ==
  /\ rows[n] # None /\ rows[n].status \in From(target)
  /\ row' = [rows EXCEPT ![n].status = target]
  /\ newer' \in {{}, newer}
  /\ blessed' = Blessed(rows) \cup (IF target \in Searchable THEN {rows[n].id} ELSE {})

\* The WebUI brings the index up to date first.
Transition(n, target) ==
  /\ Idle /\ Ensures
  /\ Human(n, target, Ensured)
  /\ UNCHANGED <<file, draft, composers, op, question, writer, edits, failures, crashes>>

CliTransition(n, target) ==
  /\ Idle \/ CliAmid
  /\ target # "rejected"
  /\ Human(n, target, row)
  /\ UNCHANGED <<file, draft, composers, op, question, writer, edits, failures, crashes>>

-----------------------------------------------------------------------------
(* Drafts *)

\* create_skill_draft and start_skill_draft refuse a name that is taken.
New(d, n, status, content) ==
  /\ Idle /\ Ensures
  /\ draft[d] = None /\ Ensured[n] = None /\ file[n] = None
  /\ draft' = [draft EXCEPT ![d] = [name |-> n, status |-> status, content |-> content]]
  /\ Wrote(Ensured)
  /\ UNCHANGED <<file, op, question, writer, edits, failures, crashes>>

ImportDraft(d, n, content) == New(d, n, "ready", content) /\ UNCHANGED composers

ComposeDraft(d, n) == New(d, n, "composing", None) /\ composers' = composers \cup {d}

\* Mutant of Completed: what an earlier end left is overwritten, with a content
\* only.
CompletedOnly(d, content) ==
  IF content = None \/ draft[d].status # "composing" THEN draft
  ELSE [draft EXCEPT ![d].status = "ready", ![d].content = content]

\* complete_skill_draft, of a content or, with None, of an error.
Completed(d, content) ==
  IF draft[d].status \notin {"composing", "failed"} THEN draft
  ELSE [draft EXCEPT ![d].status = IF content = None THEN "failed" ELSE "ready",
                     ![d].content = content]

CompleteSkillDraft(d) ==
  /\ Idle /\ d \in composers
  /\ composers' = composers \ {d}
  /\ \E content \in Contents \cup {None} : draft' = Completed(d, content)
  /\ Wrote(row)
  /\ UNCHANGED <<file, op, question, writer, edits, failures, crashes>>

DeleteSkillDraft(d) ==
  /\ Idle
  /\ draft[d] # None /\ draft[d].status \notin {"approved", "deleted"}
  /\ draft' = [draft EXCEPT ![d].status = "deleted"]
  /\ Wrote(row)
  /\ UNCHANGED <<file, composers, op, question, writer, edits, failures, crashes>>

-----------------------------------------------------------------------------
(* approve_composed_draft, write by write *)

\* Up to mkdir, which refuses a directory that is there.
BeginApproval(d, rows) ==
  LET n == draft[d].name IN
  /\ rows[n] = None /\ file[n] = None
  /\ file' = [file EXCEPT ![n] = "empty"]
  /\ op' = [kind |-> "approve", draft |-> d, name |-> n, step |-> "write"]

\* The WebUI, where a human overrides a flag with a reason.
ApproveComposedDraft(d) ==
  /\ Idle /\ draft[d] # None /\ draft[d].status = "ready"
  /\ BeginApproval(d, row)
  /\ UNCHANGED <<newer, row, draft, composers, question, histVars>>

At(step) == op # None /\ op.step = step
Step(step) == op' = [op EXCEPT !.step = step]

WriteSkill ==
  /\ At("write")
  /\ file' = [file EXCEPT ![op.name] = draft[op.draft].content]
  /\ newer' = newer \cup {op.name}
  /\ writer' = [writer EXCEPT ![op.name] = op.draft]
  /\ Step("extras")
  /\ UNCHANGED <<row, draft, composers, question, blessed, edits, failures, crashes>>

\* The write fails before or after it has opened the file; wrote_skill is not
\* set, so that the cleanup takes back neither file nor directory.
WriteFails ==
  /\ At("write") /\ failures + crashes < MaxFaults /\ failures' = failures + 1
  /\ op' = None
  /\ \/ UNCHANGED file /\ ReindexAfter(file, {})
     \/ \E content \in Cut :
          /\ file' = [file EXCEPT ![op.name] = content]
          /\ ReindexAfter(file', {op.name})
  /\ UNCHANGED <<draft, composers, question, writer, edits, crashes>>

\* Routing cases and attachments.  An attachment cut off is not yet among those
\* the cleanup removes, so that the directory stays.
WriteExtras ==
  /\ At("extras")
  /\ \/ Step("reindex") /\ UNCHANGED failures
     \/ /\ failures + crashes < MaxFaults /\ failures' = failures + 1
        /\ Step("undo") \/ Step("partly")
  /\ UNCHANGED <<file, newer, row, draft, composers, question, blessed, writer, edits, crashes>>

\* Also the first step of an update.
Reindex ==
  /\ At("reindex")
  /\ IF Indexable(file)
     THEN /\ Wrote(Reindexed(file))
          /\ Step(IF op.kind = "approve" THEN "transition" ELSE "status")
     ELSE Step("undo") /\ UNCHANGED <<newer, row, blessed>>
  /\ UNCHANGED <<file, draft, composers, question, writer, edits, failures, crashes>>

\* _transition_status
Register ==
  /\ At("transition")
  /\ IF Is(op.name, {"candidate"})  THEN Step("mark") /\ UNCHANGED <<newer, row, blessed>>
     ELSE IF Is(op.name, {"draft"}) THEN Step("mark") /\ Human(op.name, "candidate", row)
     ELSE Step("undo") /\ UNCHANGED <<newer, row, blessed>>
  /\ UNCHANGED <<file, draft, composers, question, writer, edits, failures, crashes>>

MarkApproved ==
  /\ At("mark")
  /\ draft' = [draft EXCEPT ![op.draft].status = "approved"]
  /\ op' = None
  /\ Wrote(row)
  /\ UNCHANGED <<file, composers, question, writer, edits, failures, crashes>>

\* Mutant of Undone: the written file stays.
UndoneNot == file

\* The file as it was before.
Undone ==
  [file EXCEPT ![op.name] =
     IF op.kind = "update" THEN op.old ELSE IF op.step = "partly" THEN "empty" ELSE None]

\* The files first, then the index of what is left, which may fail again.
Undo ==
  /\ At("undo") \/ At("partly")
  /\ file' = Undone
  /\ writer' = [writer EXCEPT ![op.name] = IF Undone[op.name] \in Contents THEN @ ELSE None]
  /\ op' = None
  /\ ReindexAfter(file', {op.name})
  /\ UNCHANGED <<draft, composers, question, edits, failures, crashes>>

-----------------------------------------------------------------------------
(* update_skill_markdown *)

\* classify_skill_update, which refuses a file outside the workspace.
Updatable(n, content) ==
  /\ Idle /\ Ensures
  /\ Ensured[n] # None /\ Ensured[n].content # "bundled"
  /\ file[n] \in Contents \ {content}

\* It has read the status; a major change of a verified skill takes it back to
\* candidate.
UpdateSkill(n, content) ==
  /\ Updatable(n, content)
  /\ \E major \in BOOLEAN :
       op' = [kind |-> "update", name |-> n, old |-> file[n],
              status |-> IF major /\ Ensured[n].status = "verified" THEN "candidate" ELSE None,
              step |-> "reindex"]
  /\ file' = [file EXCEPT ![n] = content]
  /\ row' = Ensured /\ newer' = newer \cup {n}
  /\ blessed' = Blessed(Ensured)
  /\ UNCHANGED <<draft, composers, question, writer, edits, failures, crashes>>

\* The write of the new text stands before the try.
UpdateFails(n) ==
  /\ \E content \in Contents : Updatable(n, content)
  /\ failures + crashes < MaxFaults /\ failures' = failures + 1
  /\ \E content \in Cut : file' = [file EXCEPT ![n] = content]
  /\ row' = Ensured /\ newer' = newer \cup {n}
  /\ blessed' = Blessed(Ensured)
  /\ UNCHANGED <<draft, composers, op, question, writer, edits, crashes>>

\* The human who asked for the update stands for the status it ends in.
SetStatus ==
  /\ At("status")
  /\ IF op.status = None THEN op' = None /\ UNCHANGED <<newer, row, blessed>>
     ELSE IF row[op.name] # None
     THEN /\ op' = None
          /\ row' = [row EXCEPT ![op.name].status = op.status]
          /\ newer' \in {{}, newer}
          /\ blessed' = Blessed(row) \cup {row[op.name].id}
     ELSE Step("undo") /\ UNCHANGED <<newer, row, blessed>>
  /\ UNCHANGED <<file, draft, composers, question, writer, edits, failures, crashes>>

-----------------------------------------------------------------------------
(* The chat *)

\* skill_request_approval, for what skill_manage_pending_approvals_payload lists.
Ask(n) ==
  /\ Idle /\ Ensures
  /\ \E d \in Drafts \cup {None} :
       /\ \/ d \in Ready(n)
          \/ d = None /\ Ready(n) = {} /\ Ensured[n] # None /\ Ensured[n].status = "draft"
       /\ question' = [name |-> n, draft |-> d, age |-> "fresh"]
  /\ Wrote(Ensured)
  /\ UNCHANGED <<file, draft, composers, op, writer, edits, failures, crashes>>

\* A message that is neither a yes nor a no, and 600 s.
OtherMessage ==
  /\ Answerable /\ question' = [question EXCEPT !.age = "old"]
  /\ UNCHANGED <<file, newer, row, draft, composers, op, histVars>>

Expire ==
  /\ question # None /\ question' = None
  /\ UNCHANGED <<file, newer, row, draft, composers, op, histVars>>

\* skill_manage_chat_approve_payload: by the name, first a row, then a draft.
AnswerYes ==
  /\ Answerable /\ question' = None /\ Ensures
  /\ LET n == question.name IN
     \/ /\ Human(n, "candidate", Ensured) /\ UNCHANGED <<file, op>>
     \/ /\ Ensured[n] = None /\ Wrote(Ensured)
        /\ \E d \in Ready(n) : draft[d].content \notin Flagged /\ BeginApproval(d, Ensured)
  /\ UNCHANGED <<draft, composers, writer, edits, failures, crashes>>

\* "no", or a "yes" that fails.
Dismiss ==
  /\ Answerable /\ question' = None
  /\ UNCHANGED <<file, newer, row, draft, composers, op, histVars>>

-----------------------------------------------------------------------------
(* Editors, and the end of the gateway *)

\* Between two operations: an edit within the milliseconds of one is left out.
Edit(n) ==
  /\ Idle
  /\ edits < MaxEdits /\ edits' = edits + 1
  /\ \E content \in Contents \cup {None} :
       /\ file' = [file EXCEPT ![n] = content]
       /\ newer' = IF content = None THEN newer ELSE newer \cup {n}
  /\ writer' = [writer EXCEPT ![n] = None]
  /\ UNCHANGED <<row, draft, composers, op, question, blessed, failures, crashes>>

Crash ==
  /\ failures + crashes < MaxFaults /\ crashes' = crashes + 1
  /\ op' = None /\ composers' = {}
  /\ UNCHANGED <<file, newer, row, draft, question, blessed, writer, edits, failures>>

-----------------------------------------------------------------------------

OfDraft(d) ==
  \/ \E n \in Names : ComposeDraft(d, n) \/ \E c \in Contents : ImportDraft(d, n, c)
  \/ CompleteSkillDraft(d) \/ DeleteSkillDraft(d) \/ ApproveComposedDraft(d)

OfSkill(n) ==
  \/ \E target \in {"candidate", "verified", "deprecated", "rejected"} :
       Transition(n, target) \/ CliTransition(n, target)
  \/ \E content \in Contents : UpdateSkill(n, content)
  \/ UpdateFails(n) \/ Ask(n) \/ Edit(n)

Steps ==
  WriteSkill \/ WriteFails \/ WriteExtras \/ Reindex \/ Register \/ MarkApproved \/ Undo \/ SetStatus

Next ==
  \/ \E d \in Drafts : OfDraft(d)
  \/ \E n \in Names : OfSkill(n)
  \/ Steps \/ EnsureIndex \/ CliReindex \/ OtherMessage \/ Expire \/ AnswerYes \/ Dismiss \/ Crash

Spec == Init /\ [][Next]_vars

(* The composer answers or fails, and its task gets its turn in the event    *)
(* loop between the synchronous calls, which go on.                          *)
FairSpec == Spec /\ WF_vars(Steps) /\ \A d \in Drafts : SF_vars(CompleteSkillDraft(d))

-----------------------------------------------------------------------------
(* Properties *)

\* "only a human approval (CLI/WebUI) moves them to candidate, so they stay out
\* of skill_search until then" (skill_store.py:1165): a skill the search offers
\* bears an id that, since it came into the index, a human approved or kept by
\* an update, or that a bundled skill brought.  Who may bear it is another
\* matter (FilesEnterAsDraft).
ApprovedOnly == \A n \in Names : Is(n, Searchable) => row[n].id \in blessed

\* A SKILL.md that an approval wrote whole stays only if the approval goes
\* through, whichever of its later writes fails and whoever acts in between; a
\* crash may leave one, and so may a write of SKILL.md itself that breaks off
\* (ReadyApprovable).
NoLeftovers ==
  crashes = 0 => \A n \in Names : writer[n] # None =>
    draft[writer[n]].status = "approved" \/ (op # None /\ op.name = n)

\* A draft is composed or fails, unless the process ends first.
ComposingSettles ==
  \A d \in Drafts :
    Composing(d) ~> ~Composing(d) \/ crashes > 0

-----------------------------------------------------------------------------
(* Statements that the code does not keep *)

\* A deprecated or rejected skill does not come back to the search.
NoResurrection ==
  [][\A n \in Names : Is(n, {"deprecated", "rejected"}) /\ Is(n, Searchable)'
       => row'[n].id # row[n].id]_vars

\* "runtime-written files always enter as draft and only a human approval
\* (CLI/WebUI) moves them to candidate" (skill_store.py:1164): the index of a
\* search offers no workspace file under a name that it did not offer before.
FilesEnterAsDraft ==
  [][EnsureIndex => \A n \in Names :
       Is(n, Searchable)' => Is(n, Searchable) \/ row'[n].content = "bundled"]_vars

\* "runtime-written files always enter as draft" (skill_store.py:1164): what
\* the search offers under a name changes by an update of the WebUI only.
EditsEnterAsDraft ==
  [][\A n \in Names : Is(n, Searchable) /\ Is(n, Searchable)' =>
       row'[n].content = row[n].content \/ (op # None /\ op.kind = "update")]_vars

\* After ensure_index, the index tells what is in the files.
IndexCurrent ==
  [][EnsureIndex => \A n \in Names :
       IF n \in Discovered(file) THEN row'[n] # None /\ row'[n].content = Seen(file, n)
       ELSE row'[n] = None]_vars

\* A draft that is ready for a free name can be approved.
ReadyApprovable ==
  \A d \in Drafts :
    Idle /\ edits = 0 /\ draft[d] # None /\ draft[d].status = "ready"
      => draft[d].name \in {n \in Names : row[n] # None \/ file[n] = None}

\* "Only the user's very next message" (skill_request_approval.py:67)
NextMessageOnly == [][AnswerYes => question.age = "fresh"]_vars

\* The draft that a yes registers is the one the user was asked about.
AskedIsApproved ==
  [][AnswerYes /\ op' # None => op'.draft = question.draft]_vars
=============================================================================
