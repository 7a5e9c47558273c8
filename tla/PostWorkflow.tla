---------------------------- MODULE PostWorkflow ----------------------------
(***************************************************************************)
(* One post of one board: its row, its revisions and its workflow events,  *)
(* and the requests that change them.  The four workflow services run      *)
(* whole under the row lock.  An edit does not: the page is opened, the    *)
(* row is read when the form comes back, read again to judge its status,   *)
(* and only the last step holds the lock - where the whole row is written  *)
(* as it was read first, with the new text.                                *)
(*                                                                         *)
(* A text (title, summary, content, slug) is a number, a new one for every *)
(* text somebody writes; an index into revisions is the primary key of a   *)
(* revision.  Category and visibility stay as they are, and so do accounts *)
(* and roles: what a policy says of a status is all that can change under  *)
(* a request.                                                              *)
(***************************************************************************)
EXTENDS AccessRules, Naturals, Sequences

CONSTANTS
  Users, Superusers, \* accounts
  Role,              \* Role[u]: the role of u on the board
  Requests,          \* slots of the requests in progress
  NoUser,
  Budget             \* how often each kind of operation happens

VARIABLES
  post,       \* the row
  revisions,  \* PostRevision, oldest first
  events,     \* PostWorkflowEvent, oldest first
  request,    \* request[q]: an edit in progress
  texts,      \* how many texts have been written
  past,       \* what the properties remember, nothing the program stores
  budget

workflowVars == <<post, revisions, events, request, texts, past, budget>>

Statuses == {"deleted", "normal", "draft", "review"}
(* The bounds: of posts created, of services called, of edits, rewraps,    *)
(* deletions and visits together, and of mishaps.                          *)
Kinds == {"create", "service", "operation", "mishap"}

(* Superusers have accounts; the command line and nobody have none.  The   *)
(* primary key of the post is given out once.                              *)
ASSUME WorkflowAssumption ==
  /\ Superusers \subseteq Users
  /\ Budget \in [Kinds -> Nat]
  /\ Budget["create"] <= 1

(* uv is the cached number of visitors; a form saves it with the row. *)
Post == [status : Statuses, text : Nat \ {0}, owner : Users, uv : Nat]
NoPost == [status |-> "none", text |-> 0, owner |-> NoUser, uv |-> 0]

Request ==
  [kind : {"web", "admin", "wrap"}, pc : {"page", "open", "read", "ready", "wrapped"},
   user : Users \union {NoUser}, seen : Nat, base : Nat,
   row : Post \union {NoPost}, prior : Post \union {NoPost}]

Idle == [kind |-> "none", pc |-> "idle", user |-> NoUser, seen |-> 0, base |-> 0,
         row |-> NoPost, prior |-> NoPost]

(* cleared: texts approved by a reviewer or written by a superuser; born:  *)
(* the first status; slips: the windows that something has fallen into.    *)
NoPast == [cleared |-> {}, born |-> "none", slips |-> {}]

Before(r1, r2) == r1.major < r2.major \/ (r1.major = r2.major /\ r1.minor < r2.minor)

Slips ==
  {"status read twice", "status changed before admin save", "text changed before admin save",
   "wrapped", "counter saved back", "deleted before admin save", "one visitor twice", "lost write"}

Past == [cleared : SUBSET Nat, born : Statuses \union {"none"}, slips : SUBSET Slips]

Revision == [major : Nat, minor : Nat, text : Nat]
Event == [from : Statuses \union {"none"}, to : Statuses]

(* A request knows what its steps so far have read. *)
HasRead(r) ==
  /\ r.kind # "wrap" => r.seen # 0
  /\ r.pc \in {"read", "ready"} => r.row # NoPost
  /\ r.pc = "ready" => r.prior # NoPost
  /\ r.pc # "read" /\ r.kind = "wrap" => r.pc = "wrapped"

(* Texts are numbered as they were written. *)
RowTyped == post \in Post \union {NoPost} /\ texts \in Nat /\ post.text <= texts

RevisionsTyped ==
  /\ revisions \in Seq(Revision)
  /\ \A i \in 1..Len(revisions) : revisions[i].text \in 1..texts

EventsTyped ==
  /\ events \in Seq(Event)
  /\ \A i \in 1..Len(events) : events[i].from # events[i].to

RequestsTyped ==
  /\ request \in [Requests -> Request \union {Idle}]
  /\ \A q \in Requests : request[q].seen <= texts /\ (request[q] # Idle => HasRead(request[q]))

WorkflowTypeOK ==
  /\ RowTyped /\ RevisionsTyped /\ EventsTyped /\ RequestsTyped
  /\ past \in Past
  /\ budget \in [Kinds -> Nat]

WorkflowInit ==
  /\ post = NoPost
  /\ revisions = <<>>
  /\ events = <<>>
  /\ request = [q \in Requests |-> Idle]
  /\ texts = 0
  /\ past = NoPast
  /\ budget = Budget

Spend(k) == budget[k] > 0 /\ budget' = [budget EXCEPT ![k] = @ - 1]

(* What the policies are asked about. *)
TheBoard == [id |-> "board", active |-> TRUE, category |-> "category"]

Person(u) ==
  [id |-> u, authenticated |-> TRUE, active |-> TRUE, superuser |-> u \in Superusers,
   member |-> [b \in {"board"} |-> [role |-> Role[u], active |-> TRUE]]]

Asked(p) == [category |-> "category", owner |-> p.owner, status |-> p.status]

MayCreate(u) == CanCreatePost(Person(u), TheBoard)
MayEdit(u, p) == CanEditPost(Person(u), {TheBoard}, Asked(p))
MaySubmit(u, p) == CanSubmitPost(Person(u), {TheBoard}, Asked(p))
MayReview(u, p) == CanReviewPost(Person(u), {TheBoard}, Asked(p))
MayPublish(u, p) == CanPublishPost(Person(u), {TheBoard}, Asked(p))

-----------------------------------------------------------------------------
(* Revisions and events *)

Newest == Len(revisions)

NextVersion(change) ==
  IF revisions = <<>> THEN [major |-> 1, minor |-> 0]
  ELSE LET last == revisions[Newest] IN
       IF change = "major" THEN [major |-> last.major + 1, minor |-> 0]
       ELSE [major |-> last.major, minor |-> last.minor + 1]

(* The snapshot is taken of the row, under its lock. *)
CreateRevision(text, change) ==
  revisions' = Append(revisions, [major |-> NextVersion(change).major,
                                  minor |-> NextVersion(change).minor, text |-> text])

RecordEvent(from, to) ==
  events' = IF from = to THEN events ELSE Append(events, [from |-> from, to |-> to])

(* The text of an edit: what the page showed, or a new one. *)
Written(q, shown, text) ==
  \/ text = shown /\ UNCHANGED texts
  \/ text = texts + 1 /\ texts' = texts + 1

-----------------------------------------------------------------------------
(* Creating and deleting *)

Born(u, status) ==
  /\ post = NoPost
  /\ Spend("create")
  /\ MayCreate(u)
  /\ texts' = texts + 1
  /\ post' = [status |-> status, text |-> texts + 1, owner |-> u, uv |-> 0]
  /\ CreateRevision(texts + 1, "major")
  /\ past' = [NoPast EXCEPT !.born = status,
                            !.cleared = IF u \in Superusers THEN {texts + 1} ELSE {}]
  /\ UNCHANGED <<events, request>>

(* PostCreateView: always a draft. *)
CreatePost(u) == Born(u, "draft")

(* The admin form: a superuser chooses the status. *)
CreateInAdmin(u) ==
  \E status \in Statuses : (u \in Superusers \/ status = "draft") /\ Born(u, status)

(* Revisions, events and visits go with the post. *)
DeletePost(u) ==
  /\ post # NoPost
  /\ u \in Superusers
  /\ Spend("operation")
  /\ post' = NoPost
  /\ revisions' = <<>>
  /\ events' = <<>>
  /\ UNCHANGED <<request, texts, past>>

-----------------------------------------------------------------------------
(* The workflow services, one transaction each *)

Transition(from, to, allowed) ==
  /\ post # NoPost
  /\ Spend("service")
  /\ allowed
  /\ post.status = from
  /\ post' = [post EXCEPT !.status = to]
  /\ RecordEvent(from, to)
  /\ UNCHANGED <<revisions, request, texts>>

SubmitPost(u) ==
  Transition("draft", "review", MaySubmit(u, post)) /\ UNCHANGED past

(* Whatever text the row holds now is what goes public. *)
ApprovePost(u) ==
  /\ Transition("review", "normal", MayPublish(u, post))
  /\ past' = [past EXCEPT !.cleared = @ \union {post.text}]

RejectPost(u) ==
  Transition("review", "draft", MayReview(u, post)) /\ UNCHANGED past

UnpublishPost(u) ==
  Transition("normal", "deleted", MayPublish(u, post)) /\ UNCHANGED past

-----------------------------------------------------------------------------
(* PostEditView *)

Step(q, pc) == request' = [request EXCEPT ![q].pc = pc]
End(q) == request' = [request EXCEPT ![q] = Idle]

(* GET: the row is read, *)
OpenPage(q, u) ==
  /\ request[q] = Idle
  /\ post # NoPost
  /\ MayEdit(u, post)
  /\ Spend("operation")
  /\ request' = [request EXCEPT ![q] =
       [Idle EXCEPT !.kind = "web", !.pc = "page", !.user = u, !.seen = post.text]]
  /\ UNCHANGED <<post, revisions, events, texts, past>>

(* ... then the form takes its base revision. *)
ShowForm(q) ==
  /\ request[q].pc = "page"
  /\ request' = [request EXCEPT ![q].pc = "open", ![q].base = Newest]
  /\ UNCHANGED <<post, revisions, events, texts, past, budget>>

(* POST: the row is read and the right to edit it checked, *)
ReadRow(q) ==
  /\ request[q].pc = "open"
  /\ IF post # NoPost /\ MayEdit(request[q].user, post)
     THEN request' = [request EXCEPT ![q].pc = "read", ![q].row = post]
     ELSE End(q)
  /\ UNCHANGED <<post, revisions, events, texts, past, budget>>

(* ... and read again for its status, by the admin also for its text; *)
(* without a row there is no owner to save the post with.             *)
ReadPrior(q) ==
  /\ request[q].pc = "read" /\ request[q].kind # "wrap"
  /\ IF post = NoPost
     THEN End(q)
     ELSE request' = [request EXCEPT ![q].pc = "ready", ![q].prior = post]
  /\ UNCHANGED <<post, revisions, events, texts, past, budget>>

(* Seeded fault: the status of the row as read first is kept. *)
StatusWrittenAsRead(r) == r.row.status

(* An edit returns a post to draft, unless it was one or a superuser edits: *)
(* then the status is written as it was read first.                         *)
StatusWritten(r) ==
  IF r.user \notin Superusers /\ r.prior.status # "draft" THEN "draft" ELSE r.row.status

(* Seeded fault: the base revision is not compared. *)
BaseIsNewestUnchecked(r) == TRUE

BaseIsNewest(r) == r.base = Newest

(* The windows an edit may fall into: its two reads differ in the status,  *)
(* or the row was changed or deleted between the second read and the save. *)
SlipsOf(r) ==
  (IF post = NoPost THEN {"deleted before admin save"} ELSE {})
    \union (IF r.row.status # r.prior.status /\ r.user \notin Superusers THEN {"status read twice"} ELSE {})
    \union (IF r.kind = "admin" /\ r.prior.status # post.status
            THEN {"status changed before admin save"} ELSE {})
    \union (IF r.row.uv # post.uv THEN {"counter saved back"} ELSE {})

(* The slips that a new snapshot of the row puts right. *)
TextSlips == {"text changed before admin save", "wrapped"}

ClearedBy(u, text) == IF u \in Superusers THEN {text} ELSE {}

(* Seeded fault: the event tells the status as it was read before the lock. *)
StatusReplacedAsRead(r) == r.prior.status

(* The status that is replaced, read under the lock. *)
StatusReplaced(r) == post.status

(* commit_post_form: lock, compare the base, save the row, add a revision. *)
CommitForm(q, text, change) ==
  LET r == request[q] IN
  /\ r.pc = "ready" /\ r.kind = "web"
  /\ post # NoPost
  /\ BaseIsNewest(r)
  /\ Written(q, r.seen, text)
  /\ post' = [r.row EXCEPT !.text = text, !.status = StatusWritten(r)]
  /\ CreateRevision(text, change)
  /\ RecordEvent(StatusReplaced(r), StatusWritten(r))
  /\ past' = [past EXCEPT !.cleared = @ \union ClearedBy(r.user, text),
                          !.slips = (@ \ TextSlips) \union SlipsOf(r)]
  /\ End(q)
  /\ UNCHANGED budget

(* RevisionConflict, or the post is gone: nothing is saved. *)
RefuseForm(q) ==
  /\ request[q].pc = "ready" /\ request[q].kind = "web"
  /\ post = NoPost \/ ~BaseIsNewest(request[q])
  /\ End(q)
  /\ UNCHANGED <<post, revisions, events, texts, past, budget>>

-----------------------------------------------------------------------------
(* PostAdmin: no base revision, no lock *)

OpenInAdmin(q, u) ==
  /\ request[q] = Idle
  /\ post # NoPost
  /\ MayEdit(u, post)
  /\ Spend("operation")
  /\ request' = [request EXCEPT ![q] =
       [Idle EXCEPT !.kind = "admin", !.pc = "read", !.user = u, !.row = post, !.seen = post.text]]
  /\ UNCHANGED <<post, revisions, events, texts, past>>

(* Seeded fault: the new text is compared with the row as read first. *)
SnapshotChangedSinceRow(r, text) == text # r.row.text

SnapshotChanged(r, text) == text # r.prior.text

(* save_model.  A superuser sets the status.  A post deleted since its     *)
(* second read is inserted again.                                          *)
SaveInAdmin(q, text, status) ==
  LET r == request[q]
      slip == IF r.prior.text # post.text THEN {"text changed before admin save"} ELSE {}
  IN
  /\ r.pc = "ready" /\ r.kind = "admin"
  /\ IF r.user \in Superusers THEN status \in Statuses ELSE status = StatusWritten(r)
  /\ Written(q, r.seen, text)
  /\ post' = [r.row EXCEPT !.text = text, !.status = status]
  /\ IF SnapshotChanged(r, text)
     THEN /\ CreateRevision(text, "minor")
          /\ past' = [past EXCEPT !.cleared = @ \union ClearedBy(r.user, text),
                                  !.slips = (@ \ TextSlips) \union SlipsOf(r)]
     ELSE /\ UNCHANGED revisions
          /\ past' = [past EXCEPT !.cleared = @ \union ClearedBy(r.user, text),
                                  !.slips = @ \union SlipsOf(r) \union slip]
  /\ RecordEvent(r.prior.status, status)
  /\ End(q)
  /\ UNCHANGED budget

-----------------------------------------------------------------------------
(* rewrap_content_action, rewrap_posts and bump_versions *)

(* The command line passes no editor and takes published posts. *)
ReadForWrap(q, u) ==
  /\ request[q] = Idle
  /\ post # NoPost
  /\ u \in Superusers \/ (u = NoUser /\ post.status = "normal")
  /\ Spend("operation")
  /\ request' = [request EXCEPT ![q] =
       [Idle EXCEPT !.kind = "wrap", !.pc = "read", !.user = u, !.row = post]]
  /\ UNCHANGED <<post, revisions, events, texts, past>>

(* The text alone is written, made of the text as it was read. *)
SaveWrap(q) ==
  LET r == request[q] IN
  /\ r.kind = "wrap" /\ r.pc = "read"
  /\ IF post = NoPost
     THEN End(q) /\ UNCHANGED <<post, texts, past>>
     ELSE /\ texts' = texts + 1
          /\ post' = [post EXCEPT !.text = texts + 1]
          /\ past' = [past EXCEPT !.cleared = @ \union {texts + 1}, !.slips = @ \union {"wrapped"}]
          /\ IF r.user = NoUser THEN End(q) ELSE Step(q, "wrapped")
  /\ UNCHANGED <<revisions, events, budget>>

(* The revision follows in a transaction of its own, of what is there then. *)
ReviseWrap(q) ==
  /\ request[q].pc = "wrapped"
  /\ IF post = NoPost THEN UNCHANGED <<revisions, past>>
     ELSE /\ CreateRevision(post.text, "minor")
          /\ past' = [past EXCEPT !.slips = @ \ TextSlips]
  /\ End(q)
  /\ UNCHANGED <<post, events, texts, budget>>

-----------------------------------------------------------------------------
(* The page is closed, the connection lost or the process killed. *)
Abandon(q) ==
  /\ request[q] # Idle
  /\ Spend("mishap")
  /\ End(q)
  /\ UNCHANGED <<post, revisions, events, texts, past>>

EditStep(q) ==
  \/ \E u \in Users : OpenPage(q, u) \/ OpenInAdmin(q, u)
  \/ ShowForm(q) \/ ReadRow(q) \/ ReadPrior(q)
  \/ \E text \in {request[q].seen, texts + 1}, change \in {"major", "minor"} :
       CommitForm(q, text, change)
  \/ \E text \in {request[q].seen, texts + 1}, status \in Statuses : SaveInAdmin(q, text, status)
  \/ RefuseForm(q)
  \/ \E u \in Superusers \union {NoUser} : ReadForWrap(q, u)
  \/ SaveWrap(q) \/ ReviseWrap(q)
  \/ Abandon(q)

WorkflowNext ==
  \/ \E u \in Users : \/ CreatePost(u) \/ CreateInAdmin(u) \/ DeletePost(u)
                      \/ SubmitPost(u) \/ ApprovePost(u) \/ RejectPost(u) \/ UnpublishPost(u)
  \/ \E q \in Requests : EditStep(q)

-----------------------------------------------------------------------------
(* Properties *)

(* PERMISSIONS_GUIDE.md: an edit returns a submitted or published post to   *)
(* draft.  A published text was approved, or written by a superuser, unless *)
(* the status changed between the two reads of one edit.                    *)
PublishedIsCleared ==
  post.status = "normal" /\ post.text \notin past.cleared => "status read twice" \in past.slips

(* DEVELOPMENT.md: every saved text is a revision.  The newest revision is  *)
(* what the row holds, except while a rewrap has not made its own, and      *)
(* except when an edit in the admin wrote an old text over a newer one.     *)
(* Versions never repeat and never go back, whoever saves at the same time. *)
NewestIsCurrent ==
  /\ \A i \in 1..Len(revisions) : \A j \in 1..(i - 1) : Before(revisions[j], revisions[i])
  /\ post # NoPost /\ TextSlips \intersect past.slips = {}
       => revisions # <<>> /\ revisions[Newest].text = post.text

(* The events tell how the status came about, one after the other, except   *)
(* when a status changed under an edit in the admin.                        *)
StatusIsExplained ==
  LET told == <<[from |-> "none", to |-> past.born]>> \o events IN
  post # NoPost /\ "status changed before admin save" \notin past.slips
    => /\ told[Len(told)].to = post.status
       /\ \A i \in 1..(Len(told) - 1) : told[i].to = told[i + 1].from

(* DEVELOPMENT.md: base_revision_id refuses to overwrite silently.  A form  *)
(* replaces the text its page showed; the exceptions are a page whose text  *)
(* is not that of its base revision, and a row that no revision holds.      *)
ReplacesWhatWasShown ==
  [][\A q \in Requests :
       LET r == request[q] IN
       r.kind = "web" /\ r.pc = "ready" /\ Len(revisions') > Len(revisions) /\ request'[q] = Idle
         => \/ r.seen = post.text
            \/ r.seen # revisions[r.base].text
            \/ post.text # revisions[Newest].text]_workflowVars
=============================================================================
