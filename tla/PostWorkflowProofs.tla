------------------------- MODULE PostWorkflowProofs -------------------------
(* Proofs of the properties of PostWorkflow and PostVisits. *)
EXTENDS PostVisits, FiniteSetTheorems, TLAPS

USE WorkflowAssumption

-----------------------------------------------------------------------------
(* The operators the actions are built from *)

(* Saving a form writes every column of the row as it was read first. *)
Saved(p, text, status) == [p EXCEPT !.text = text, !.status = status]

LEMMA SavedRow ==
  ASSUME NEW p \in Post, NEW text \in Nat \ {0}, NEW status \in Statuses
  PROVE  /\ Saved(p, text, status) \in Post
         /\ Saved(p, text, status).text = text
         /\ Saved(p, text, status).status = status
         /\ Saved(p, text, status).uv = p.uv
BY DEF Post, Saved

LEMMA RealPost == \A p \in Post : p # NoPost /\ p.status \in Statuses /\ p.text \in Nat \ {0} /\ p.uv \in Nat
BY DEF Post, NoPost, Statuses

LEMMA NothingThere ==
  /\ NoPost.status = "none" /\ NoPost.text = 0 /\ NoPost.uv = 0
  /\ NoVisit.pc = "idle" /\ NoVisit.newVisitor = FALSE
BY DEF NoPost, NoVisit

(* A new revision comes after all others and holds the text it was made of. *)
LEMMA NewRevision ==
  ASSUME revisions \in Seq(Revision), NEW text \in Nat, NEW change, CreateRevision(text, change)
  PROVE  /\ revisions' \in Seq(Revision)
         /\ Len(revisions') = Len(revisions) + 1
         /\ \A i \in 1..Len(revisions) : revisions'[i] = revisions[i]
         /\ revisions'[Len(revisions')].text = text
         /\ revisions # <<>> => Before(revisions[Len(revisions)], revisions'[Len(revisions')])
<1> DEFINE new == [major |-> NextVersion(change).major, minor |-> NextVersion(change).minor,
                   text |-> text]
<1>1. /\ NextVersion(change).major \in Nat /\ NextVersion(change).minor \in Nat
      /\ revisions # <<>> => Before(revisions[Len(revisions)], NextVersion(change))
  <2>1. CASE revisions = <<>>
    BY <2>1 DEF NextVersion
  <2>2. CASE revisions # <<>>
    <3>1. PICK last \in Revision : last = revisions[Len(revisions)]
      BY <2>2
    <3>2. last.major \in Nat /\ last.minor \in Nat
      BY DEF Revision
    <3>3. \/ NextVersion(change) = [major |-> last.major + 1, minor |-> 0]
          \/ NextVersion(change) = [major |-> last.major, minor |-> last.minor + 1]
      BY <2>2, <3>1 DEF NextVersion, Newest
    <3> QED
      BY <3>1, <3>2, <3>3 DEF Before
  <2> QED
    BY <2>1, <2>2
<1>2. new \in Revision
  BY <1>1 DEF Revision
<1>3. revisions' = Append(revisions, new)
  BY DEF CreateRevision
<1>4. revisions # <<>> => Before(revisions[Len(revisions)], new)
  BY <1>1 DEF Before
<1> HIDE DEF new
<1>5. new.text = text
  BY DEF new
<1> QED
  BY <1>2, <1>3, <1>4, <1>5

(* An event is recorded for a change of the status and for nothing else. *)
LEMMA NewEvent ==
  ASSUME events \in Seq(Event), NEW from \in Statuses \union {"none"}, NEW to \in Statuses,
         RecordEvent(from, to)
  PROVE  \/ from = to /\ events' = events
         \/ /\ from # to
            /\ events' \in Seq(Event)
            /\ Len(events') = Len(events) + 1
            /\ \A i \in 1..Len(events) : events'[i] = events[i]
            /\ events'[Len(events')].from = from
            /\ events'[Len(events')].to = to
<1>1. CASE from = to
  BY <1>1 DEF RecordEvent
<1>2. CASE from # to
  <2> DEFINE new == [from |-> from, to |-> to]
  <2>1. new \in Event /\ events' = Append(events, new)
    BY <1>2 DEF RecordEvent, Event
  <2>2. new.from = from /\ new.to = to
    OBVIOUS
  <2> HIDE DEF new
  <2> QED
    BY <1>2, <2>1, <2>2
<1> QED
  BY <1>1, <1>2

LEMMA EventTypes ==
  ASSUME EventsTyped, NEW from \in Statuses \union {"none"}, NEW to \in Statuses,
         RecordEvent(from, to)
  PROVE  EventsTyped'
<1> USE DEF EventsTyped
<1>1. CASE from = to
  BY <1>1, NewEvent
<1>2. CASE from # to
  <2>1. /\ events' \in Seq(Event)
        /\ Len(events') = Len(events) + 1
        /\ \A i \in 1..Len(events) : events'[i] = events[i]
        /\ events'[Len(events')].from = from
        /\ events'[Len(events')].to = to
    BY <1>2, NewEvent
  <2> SUFFICES ASSUME NEW i \in 1..Len(events')
               PROVE  events'[i].from # events'[i].to
    BY <2>1
  <2> CASE i \in 1..Len(events)
    BY <2>1
  <2> CASE i = Len(events')
    BY <1>2, <2>1
  <2> QED
    BY <2>1
<1> QED
  BY <1>1, <1>2

LEMMA RevisionTypes ==
  ASSUME RowTyped, RevisionsTyped, NEW text \in 1..texts', NEW change, CreateRevision(text, change),
         texts' \in Nat, texts <= texts'
  PROVE  RevisionsTyped'
BY NewRevision DEF RowTyped, RevisionsTyped

LEMMA OlderTexts ==
  ASSUME RowTyped, RevisionsTyped, UNCHANGED revisions, texts' \in Nat, texts <= texts'
  PROVE  RevisionsTyped'
BY DEF RowTyped, RevisionsTyped

LEMMA RequestType ==
  ASSUME RowTyped, RequestsTyped, NEW q \in Requests
  PROVE  /\ request[q] \in Request \union {Idle}
         /\ request[q].seen \in Nat /\ request[q].seen <= texts /\ texts \in Nat
         /\ request[q] # Idle => request[q] \in Request /\ HasRead(request[q])
         /\ request[q].pc # "idle" => request[q] # Idle
BY DEF RowTyped, RequestsTyped, Request, Idle

(* One request moves on; the others keep what they know. *)
LEMMA OneRequest ==
  ASSUME RowTyped, RequestsTyped, NEW q \in Requests,
         NEW x \in Request \union {Idle}, x # Idle => HasRead(x), x.seen <= texts,
         request' = [request EXCEPT ![q] = x], texts' \in Nat, texts <= texts'
  PROVE  RequestsTyped'
<1>1. \A p \in Requests : request[p].seen \in Nat /\ x.seen \in Nat
  BY RequestType DEF Request, Idle
<1> QED
  BY <1>1 DEF RowTyped, RequestsTyped

LEMMA OldRequests ==
  ASSUME RowTyped, RequestsTyped, UNCHANGED request, texts' \in Nat, texts <= texts'
  PROVE  RequestsTyped'
BY RequestType DEF RowTyped, RequestsTyped

LEMMA Ended ==
  ASSUME RowTyped, RequestsTyped, NEW q \in Requests, End(q), texts' \in Nat, texts <= texts'
  PROVE  RequestsTyped'
<1>1. Idle.seen <= texts
  BY DEF RowTyped, Idle
<1> QED
  BY <1>1, OneRequest DEF End

LEMMA Spent ==
  ASSUME budget \in [Kinds -> Nat], NEW k \in Kinds, Spend(k)
  PROVE  budget' \in [Kinds -> Nat] /\ \A l \in Kinds : l # k => budget'[l] = budget[l]
BY DEF Spend

(* The text of an edit is the one its page showed or a new one. *)
LEMMA EditedText ==
  ASSUME RowTyped, RequestsTyped, NEW q \in Requests, request[q].seen # 0, NEW text,
         Written(q, request[q].seen, text)
  PROVE  text \in 1..texts' /\ text \in Nat \ {0} /\ texts' \in Nat /\ texts <= texts'
BY RequestType DEF RowTyped, Written

LEMMA PastKept ==
  ASSUME past \in Past, NEW cleared \in SUBSET Nat, NEW slips \in SUBSET Slips
  PROVE  /\ [past EXCEPT !.cleared = cleared, !.slips = slips] \in Past
         /\ [past EXCEPT !.cleared = cleared] \in Past
         /\ [past EXCEPT !.slips = slips] \in Past
BY DEF Past

LEMMA SlipsAreSlips == \A r : SlipsOf(r) \subseteq Slips
BY DEF SlipsOf, Slips

-----------------------------------------------------------------------------
(* Types: each action *)

LEMMA InitTypes == WorkflowInit => WorkflowTypeOK
<1> SUFFICES ASSUME WorkflowInit PROVE WorkflowTypeOK
  OBVIOUS
<1> USE DEF WorkflowInit
<1>1. RowTyped
  BY DEF RowTyped, NoPost
<1>2. RevisionsTyped /\ EventsTyped
  BY DEF RevisionsTyped, EventsTyped
<1>3. RequestsTyped
  BY DEF RequestsTyped, Idle
<1>4. past \in Past
  BY DEF NoPast, Past
<1> QED
  BY <1>1, <1>2, <1>3, <1>4 DEF WorkflowTypeOK

LEMMA BornTypes ==
  ASSUME WorkflowTypeOK, NEW u \in Users, NEW status \in Statuses, Born(u, status)
  PROVE  WorkflowTypeOK'
<1>0. RowTyped /\ RevisionsTyped /\ EventsTyped /\ RequestsTyped
  BY DEF WorkflowTypeOK
<1>1. texts' \in Nat /\ texts' = texts + 1 /\ texts <= texts' /\ texts + 1 \in 1..texts'
  BY <1>0 DEF RowTyped, Born
<1>2. RowTyped'
  BY <1>0, <1>1 DEF RowTyped, Born, Post
<1>3. RevisionsTyped'
  BY <1>0, <1>1, RevisionTypes DEF Born
<1>4. EventsTyped' /\ RequestsTyped'
  BY <1>0, <1>1, OldRequests DEF Born, EventsTyped
<1>5. past' \in Past
  BY <1>0, <1>1 DEF Born, Past, NoPast, RowTyped
<1>6. budget' \in [Kinds -> Nat]
  BY Spent DEF Born, WorkflowTypeOK, Kinds
<1> QED
  BY <1>2, <1>3, <1>4, <1>5, <1>6 DEF WorkflowTypeOK

LEMMA DeleteTypes ==
  ASSUME WorkflowTypeOK, NEW u \in Users, DeletePost(u)
  PROVE  WorkflowTypeOK'
<1>0. RowTyped /\ RevisionsTyped /\ EventsTyped /\ RequestsTyped
  BY DEF WorkflowTypeOK
<1>1. RowTyped'
  BY <1>0 DEF RowTyped, DeletePost, NoPost
<1>2. RevisionsTyped' /\ EventsTyped'
  BY DEF RevisionsTyped, EventsTyped, DeletePost
<1>3. RequestsTyped' /\ past' \in Past
  BY <1>0 DEF RequestsTyped, DeletePost, WorkflowTypeOK
<1>4. budget' \in [Kinds -> Nat]
  BY Spent DEF DeletePost, WorkflowTypeOK, Kinds
<1> QED
  BY <1>1, <1>2, <1>3, <1>4 DEF WorkflowTypeOK

LEMMA TransitionTypes ==
  ASSUME WorkflowTypeOK, NEW from \in Statuses, NEW to \in Statuses, NEW allowed,
         Transition(from, to, allowed), past' \in Past
  PROVE  WorkflowTypeOK'
<1>0. RowTyped /\ RevisionsTyped /\ EventsTyped /\ RequestsTyped
  BY DEF WorkflowTypeOK
<1>1. RowTyped'
  BY <1>0 DEF RowTyped, Transition, Post
<1>2. RevisionsTyped' /\ RequestsTyped'
  BY <1>0 DEF RevisionsTyped, RequestsTyped, Transition
<1>3. EventsTyped'
  BY <1>0, EventTypes DEF Transition
<1>4. budget' \in [Kinds -> Nat]
  BY Spent DEF Transition, WorkflowTypeOK, Kinds
<1> QED
  BY <1>1, <1>2, <1>3, <1>4 DEF WorkflowTypeOK

LEMMA ServiceTypes ==
  ASSUME WorkflowTypeOK, NEW u \in Users,
         SubmitPost(u) \/ ApprovePost(u) \/ RejectPost(u) \/ UnpublishPost(u)
  PROVE  WorkflowTypeOK'
<1>1. SubmitPost(u) \/ RejectPost(u) \/ UnpublishPost(u) => past' \in Past
  BY DEF SubmitPost, RejectPost, UnpublishPost, WorkflowTypeOK
<1>2. ApprovePost(u) => past' \in Past
  <2> SUFFICES ASSUME ApprovePost(u) PROVE past' \in Past
    OBVIOUS
  <2>1. post \in Post
    BY DEF ApprovePost, Transition, WorkflowTypeOK, RowTyped
  <2>2. past.cleared \union {post.text} \in SUBSET Nat
    BY <2>1, RealPost DEF WorkflowTypeOK, Past
  <2> QED
    BY <2>2, PastKept DEF ApprovePost, WorkflowTypeOK, Past
<1>3. {"draft", "review", "normal", "deleted"} \subseteq Statuses
  BY DEF Statuses
<1> QED
  BY <1>1, <1>2, <1>3, TransitionTypes DEF SubmitPost, ApprovePost, RejectPost, UnpublishPost

(* A step of one request that stores nothing. *)
LEMMA ReadingTypes ==
  ASSUME WorkflowTypeOK, NEW q \in Requests, NEW x \in Request \union {Idle},
         x # Idle => HasRead(x), x.seen <= texts,
         request' = [request EXCEPT ![q] = x],
         UNCHANGED <<post, revisions, events, texts, past>>, budget' \in [Kinds -> Nat]
  PROVE  WorkflowTypeOK'
<1>1. RowTyped /\ RevisionsTyped /\ EventsTyped /\ RequestsTyped
  BY DEF WorkflowTypeOK
<1>2. RequestsTyped'
  <2>1. texts' \in Nat /\ texts <= texts'
    BY <1>1 DEF RowTyped
  <2> QED
    BY <1>1, <2>1, OneRequest
<1>3. RowTyped' /\ RevisionsTyped' /\ EventsTyped'
  BY <1>1 DEF RowTyped, RevisionsTyped, EventsTyped
<1> QED
  BY <1>2, <1>3 DEF WorkflowTypeOK

LEMMA EndingTypes ==
  ASSUME WorkflowTypeOK, NEW q \in Requests, End(q),
         UNCHANGED <<post, revisions, events, texts, past>>, budget' \in [Kinds -> Nat]
  PROVE  WorkflowTypeOK'
<1>1. Idle.seen <= texts
  BY DEF Idle, WorkflowTypeOK, RowTyped
<1> QED
  BY <1>1, ReadingTypes DEF End

LEMMA OpeningTypes ==
  ASSUME WorkflowTypeOK, NEW q \in Requests, NEW u \in Users \union {NoUser},
         OpenPage(q, u) \/ OpenInAdmin(q, u) \/ ReadForWrap(q, u)
  PROVE  WorkflowTypeOK'
<1>1. post # NoPost /\ post \in Post /\ post.text \in Nat \ {0} /\ post.text <= texts
  BY RealPost DEF OpenPage, OpenInAdmin, ReadForWrap, WorkflowTypeOK, RowTyped
<1>2. budget' \in [Kinds -> Nat]
  BY Spent DEF OpenPage, OpenInAdmin, ReadForWrap, WorkflowTypeOK, Kinds
<1>3. CASE OpenPage(q, u)
  <2> DEFINE x == [Idle EXCEPT !.kind = "web", !.pc = "page", !.user = u, !.seen = post.text]
  <2>1. x \in Request /\ HasRead(x) /\ x.seen <= texts
    BY <1>1 DEF Request, Idle, HasRead
  <2> QED
    BY <1>2, <1>3, <2>1, ReadingTypes DEF OpenPage
<1>4. CASE OpenInAdmin(q, u)
  <2> DEFINE x == [Idle EXCEPT !.kind = "admin", !.pc = "read", !.user = u, !.row = post,
                               !.seen = post.text]
  <2>1. x \in Request /\ HasRead(x) /\ x.seen <= texts
    BY <1>1 DEF Request, Idle, HasRead
  <2> QED
    BY <1>2, <1>4, <2>1, ReadingTypes DEF OpenInAdmin
<1>5. CASE ReadForWrap(q, u)
  <2> DEFINE x == [Idle EXCEPT !.kind = "wrap", !.pc = "read", !.user = u, !.row = post]
  <2>1. x \in Request /\ HasRead(x)
    BY <1>1 DEF Request, Idle, HasRead
  <2>2. x.seen <= texts
    BY DEF Idle, WorkflowTypeOK, RowTyped
  <2> QED
    BY <1>2, <1>5, <2>1, <2>2, ReadingTypes DEF ReadForWrap
<1> QED
  BY <1>3, <1>4, <1>5

LEMMA ReadTypes ==
  ASSUME WorkflowTypeOK, NEW q \in Requests, ShowForm(q) \/ ReadRow(q) \/ ReadPrior(q)
  PROVE  WorkflowTypeOK'
<1>0. RowTyped /\ RequestsTyped /\ budget' \in [Kinds -> Nat]
  BY DEF WorkflowTypeOK, ShowForm, ReadRow, ReadPrior
<1>1. PICK r \in Request : r = request[q] /\ HasRead(r) /\ r.seen <= texts
  BY <1>0, RequestType DEF ShowForm, ReadRow, ReadPrior
<1>2. CASE ShowForm(q)
  <2> DEFINE x == [r EXCEPT !.pc = "open", !.base = Newest]
  <2>1. Newest \in Nat
    BY DEF Newest, WorkflowTypeOK, RevisionsTyped
  <2>2. x \in Request /\ x.seen <= texts
    BY <1>1, <2>1 DEF Request
  <2>3. HasRead(x)
    BY <1>1, <1>2 DEF HasRead, ShowForm, Request
  <2>4. request' = [request EXCEPT ![q] = x]
    BY <1>0, <1>1, <1>2 DEF ShowForm, RequestsTyped
  <2> HIDE DEF x
  <2>5. UNCHANGED <<post, revisions, events, texts, past>>
    BY <1>2 DEF ShowForm
  <2> QED
    BY <1>0, <2>2, <2>3, <2>4, <2>5, ReadingTypes
<1>3. CASE ReadRow(q)
  <2>0. UNCHANGED <<post, revisions, events, texts, past>>
    BY <1>3 DEF ReadRow
  <2>1. CASE End(q)
    BY <1>0, <2>0, <2>1, EndingTypes
  <2>2. CASE ~End(q)
    <3> DEFINE x == [r EXCEPT !.pc = "read", !.row = post]
    <3>1. post \in Post /\ post # NoPost
      BY <1>0, <1>3, <2>2 DEF ReadRow, RowTyped
    <3>2. x \in Request /\ x.seen <= texts
      BY <1>1, <3>1 DEF Request
    <3>3. HasRead(x)
      BY <1>1, <1>3, <3>1 DEF HasRead, ReadRow, Request
    <3>4. request' = [request EXCEPT ![q] = x]
      BY <1>0, <1>1, <1>3, <2>2 DEF ReadRow, RequestsTyped
    <3> HIDE DEF x
    <3> QED
      BY <1>0, <2>0, <3>2, <3>3, <3>4, ReadingTypes
  <2> QED
    BY <2>1, <2>2
<1>4. CASE ReadPrior(q)
  <2>0. UNCHANGED <<post, revisions, events, texts, past>>
    BY <1>4 DEF ReadPrior
  <2>1. CASE post = NoPost
    BY <1>0, <1>4, <2>0, <2>1, EndingTypes DEF ReadPrior
  <2>2. CASE post # NoPost
    <3> DEFINE x == [r EXCEPT !.pc = "ready", !.prior = post]
    <3>1. post \in Post /\ post # NoPost
      BY <1>0, <2>2 DEF RowTyped
    <3>2. x \in Request /\ x.seen <= texts
      BY <1>1, <3>1 DEF Request
    <3>3. HasRead(x)
      BY <1>1, <1>4, <3>1 DEF HasRead, ReadPrior, Request
    <3>4. request' = [request EXCEPT ![q] = x]
      BY <1>0, <1>1, <1>4, <2>2 DEF ReadPrior, RequestsTyped
    <3> HIDE DEF x
    <3> QED
      BY <1>0, <2>0, <3>2, <3>3, <3>4, ReadingTypes
  <2> QED
    BY <2>1, <2>2
<1> QED
  BY <1>2, <1>3, <1>4

(* What a request that is about to save has read. *)
LEMMA ReadyRequest ==
  ASSUME WorkflowTypeOK, NEW q \in Requests, request[q].pc = "ready"
  PROVE  /\ request[q] \in Request
         /\ request[q].row \in Post /\ request[q].prior \in Post
         /\ request[q].seen # 0
         /\ StatusWritten(request[q]) \in Statuses
<1>1. RowTyped /\ RequestsTyped
  BY DEF WorkflowTypeOK
<1>2. request[q] \in Request /\ HasRead(request[q])
  BY <1>1, RequestType
<1>3. request[q].row \in Post /\ request[q].prior \in Post /\ request[q].seen # 0
  BY <1>2 DEF HasRead, Request
<1>4. "draft" \in Statuses
  BY DEF Statuses
<1> QED
  BY <1>2, <1>3, <1>4, RealPost DEF StatusWritten

LEMMA ClearedTypes ==
  ASSUME past \in Past, NEW u, NEW text \in Nat
  PROVE  past.cleared \union ClearedBy(u, text) \in SUBSET Nat
BY DEF Past, ClearedBy

LEMMA CommitTypes ==
  ASSUME WorkflowTypeOK, NEW q \in Requests, NEW text, NEW change, CommitForm(q, text, change)
  PROVE  WorkflowTypeOK'
<1>0. RowTyped /\ RevisionsTyped /\ EventsTyped /\ RequestsTyped /\ past \in Past
  BY DEF WorkflowTypeOK
<1> DEFINE r == request[q]
<1>1. /\ r.row \in Post /\ r.seen # 0 /\ StatusWritten(r) \in Statuses
      /\ post \in Post
  BY <1>0, ReadyRequest DEF CommitForm, RowTyped
<1>2. text \in 1..texts' /\ text \in Nat \ {0} /\ texts' \in Nat /\ texts <= texts'
  BY <1>0, <1>1, EditedText DEF CommitForm
<1>3. post' \in Post /\ post'.text = text
  <2>1. post' = Saved(r.row, text, StatusWritten(r))
    BY DEF CommitForm, Saved
  <2> QED
    BY <1>1, <1>2, <2>1, SavedRow
<1>4. RowTyped'
  BY <1>2, <1>3 DEF RowTyped
<1>5. RevisionsTyped'
  BY <1>0, <1>2, RevisionTypes DEF CommitForm
<1>6. EventsTyped'
  BY <1>0, <1>1, EventTypes, RealPost DEF CommitForm, StatusReplaced
<1>7. RequestsTyped'
  BY <1>0, <1>2, Ended DEF CommitForm
<1>8. past' \in Past
  <2>1. past.cleared \union ClearedBy(r.user, text) \in SUBSET Nat
    BY <1>0, <1>2, ClearedTypes
  <2>2. (past.slips \ TextSlips) \union SlipsOf(r) \in SUBSET Slips
    BY <1>0, SlipsAreSlips DEF Past
  <2> QED
    BY <1>0, <2>1, <2>2, PastKept DEF CommitForm
<1>9. budget' \in [Kinds -> Nat]
  BY DEF CommitForm, WorkflowTypeOK
<1> QED
  BY <1>4, <1>5, <1>6, <1>7, <1>8, <1>9 DEF WorkflowTypeOK

LEMMA AdminTypes ==
  ASSUME WorkflowTypeOK, NEW q \in Requests, NEW text, NEW status \in Statuses,
         SaveInAdmin(q, text, status)
  PROVE  WorkflowTypeOK'
<1>0. RowTyped /\ RevisionsTyped /\ EventsTyped /\ RequestsTyped /\ past \in Past
  BY DEF WorkflowTypeOK
<1> DEFINE r == request[q]
<1>1. r.row \in Post /\ r.seen # 0 /\ r.prior \in Post
  BY ReadyRequest DEF SaveInAdmin
<1>2. text \in 1..texts' /\ text \in Nat \ {0} /\ texts' \in Nat /\ texts <= texts'
  BY <1>0, <1>1, EditedText DEF SaveInAdmin
<1>3. post' \in Post /\ post'.text = text
  <2>1. post' = Saved(r.row, text, status)
    BY DEF SaveInAdmin, Saved
  <2> QED
    BY <1>1, <1>2, <2>1, SavedRow
<1>4. RowTyped'
  BY <1>2, <1>3 DEF RowTyped
<1>5. RevisionsTyped'
  BY <1>0, <1>2, RevisionTypes, OlderTexts DEF SaveInAdmin
<1>6. EventsTyped'
  BY <1>0, <1>1, EventTypes, RealPost DEF SaveInAdmin
<1>7. RequestsTyped'
  BY <1>0, <1>2, Ended DEF SaveInAdmin
<1>8. past' \in Past
  <2> DEFINE slip == IF r.prior.text # post.text THEN {"text changed before admin save"} ELSE {}
  <2> DEFINE cleared == past.cleared \union ClearedBy(r.user, text)
  <2> DEFINE renewed == (past.slips \ TextSlips) \union SlipsOf(r)
  <2> DEFINE added == past.slips \union SlipsOf(r) \union slip
  <2>1. cleared \in SUBSET Nat
    BY <1>0, <1>2, ClearedTypes
  <2>2. renewed \in SUBSET Slips /\ added \in SUBSET Slips
    BY <1>0, SlipsAreSlips DEF Past, Slips
  <2>3. \/ past' = [past EXCEPT !.cleared = cleared, !.slips = renewed]
        \/ past' = [past EXCEPT !.cleared = cleared, !.slips = added]
    BY DEF SaveInAdmin
  <2> HIDE DEF cleared, renewed, added
  <2> QED
    BY <1>0, <2>1, <2>2, <2>3, PastKept
<1>9. budget' \in [Kinds -> Nat]
  BY DEF SaveInAdmin, WorkflowTypeOK
<1> QED
  BY <1>4, <1>5, <1>6, <1>7, <1>8, <1>9 DEF WorkflowTypeOK

LEMMA WrapTypes ==
  ASSUME WorkflowTypeOK, NEW q \in Requests, SaveWrap(q) \/ ReviseWrap(q)
  PROVE  WorkflowTypeOK'
<1>0. RowTyped /\ RevisionsTyped /\ EventsTyped /\ RequestsTyped /\ past \in Past
  BY DEF WorkflowTypeOK
<1>1. PICK r \in Request : r = request[q] /\ HasRead(r) /\ r.seen <= texts
  BY <1>0, RequestType DEF SaveWrap, ReviseWrap, Idle
<1>2. /\ EventsTyped' /\ budget' \in [Kinds -> Nat]
  BY <1>0 DEF EventsTyped, SaveWrap, ReviseWrap, WorkflowTypeOK
<1>3. CASE SaveWrap(q)
  <2>1. CASE post = NoPost
    BY <1>0, <1>2, <1>3, <2>1, EndingTypes DEF SaveWrap
  <2>2. CASE post # NoPost
    <3>0. post \in Post
      BY <1>0, <2>2 DEF RowTyped
    <3>1. texts' \in Nat /\ texts <= texts' /\ texts' = texts + 1 /\ texts + 1 \in Nat \ {0}
      BY <1>0, <1>3, <2>2 DEF RowTyped, SaveWrap
    <3>2. post' = [post EXCEPT !.text = texts + 1]
      BY <1>3, <2>2 DEF SaveWrap
    <3>3. RowTyped'
      BY <3>0, <3>1, <3>2 DEF RowTyped, Post
    <3>4. RevisionsTyped'
      BY <1>0, <1>3, <3>1, OlderTexts DEF SaveWrap
    <3>5. RequestsTyped'
      <4>1. CASE End(q)
        BY <1>0, <3>1, <4>1, Ended
      <4>2. CASE Step(q, "wrapped")
        <5> DEFINE x == [r EXCEPT !.pc = "wrapped"]
        <5>1. x \in Request /\ x.seen <= texts /\ HasRead(x)
          BY <1>1, <1>3 DEF Request, HasRead, SaveWrap
        <5>2. request' = [request EXCEPT ![q] = x]
          BY <1>0, <1>1, <4>2 DEF Step, RequestsTyped
        <5> HIDE DEF x
        <5> QED
          BY <1>0, <3>1, <5>1, <5>2, OneRequest
      <4> QED
        BY <1>3, <2>2, <4>1, <4>2 DEF SaveWrap
    <3>6. past' \in Past
      <4> DEFINE cleared == past.cleared \union {texts + 1}
      <4> DEFINE slips == past.slips \union {"wrapped"}
      <4>1. cleared \in SUBSET Nat /\ slips \in SUBSET Slips
        BY <1>0, <3>1 DEF Past, Slips
      <4>2. past' = [past EXCEPT !.cleared = cleared, !.slips = slips]
        BY <1>3, <2>2 DEF SaveWrap
      <4> HIDE DEF cleared, slips
      <4> QED
        BY <1>0, <4>1, <4>2, PastKept
    <3> QED
      BY <1>2, <3>3, <3>4, <3>5, <3>6 DEF WorkflowTypeOK
  <2> QED
    BY <2>1, <2>2
<1>4. CASE ReviseWrap(q)
  <2>1. texts' \in Nat /\ texts <= texts' /\ texts' = texts
    BY <1>0, <1>4 DEF RowTyped, ReviseWrap
  <2>2. RequestsTyped' /\ RowTyped'
    BY <1>0, <1>4, <2>1, Ended DEF ReviseWrap, RowTyped
  <2>3. RevisionsTyped' /\ past' \in Past
    <3>1. CASE post = NoPost
      BY <1>0, <1>4, <2>1, <3>1, OlderTexts DEF ReviseWrap
    <3>2. CASE post # NoPost
      <4>1. post.text \in 1..texts'
        BY <1>0, <2>1, <3>2, RealPost DEF RowTyped
      <4>2. past.slips \ TextSlips \in SUBSET Slips
        BY <1>0 DEF Past
      <4>3. CreateRevision(post.text, "minor") /\ past' = [past EXCEPT !.slips = past.slips \ TextSlips]
        BY <1>4, <3>2 DEF ReviseWrap
      <4>4. past' \in Past
        BY <1>0, <4>2, <4>3 DEF Past
      <4> QED
        BY <1>0, <2>1, <4>1, <4>3, <4>4, RevisionTypes
    <3> QED
      BY <3>1, <3>2
  <2> QED
    BY <1>2, <2>2, <2>3 DEF WorkflowTypeOK
<1> QED
  BY <1>3, <1>4

LEMMA LeavingTypes ==
  ASSUME WorkflowTypeOK, NEW q \in Requests, RefuseForm(q) \/ Abandon(q)
  PROVE  WorkflowTypeOK'
<1>1. budget' \in [Kinds -> Nat]
  BY Spent DEF RefuseForm, Abandon, WorkflowTypeOK, Kinds
<1> QED
  BY <1>1, EndingTypes DEF RefuseForm, Abandon

LEMMA WorkflowTypes ==
  ASSUME WorkflowTypeOK, WorkflowNext
  PROVE  WorkflowTypeOK'
<1>1. ASSUME NEW u \in Users,
             \/ CreatePost(u) \/ CreateInAdmin(u) \/ DeletePost(u)
             \/ SubmitPost(u) \/ ApprovePost(u) \/ RejectPost(u) \/ UnpublishPost(u)
      PROVE  WorkflowTypeOK'
  <2>1. "draft" \in Statuses
    BY DEF Statuses
  <2> QED
    BY <1>1, <2>1, BornTypes, DeleteTypes, ServiceTypes DEF CreatePost, CreateInAdmin
<1>2. ASSUME NEW q \in Requests, EditStep(q)
      PROVE  WorkflowTypeOK'
  <2>1. Users \subseteq Users \union {NoUser} /\ Superusers \union {NoUser} \subseteq Users \union {NoUser}
    OBVIOUS
  <2>2. CASE \E u \in Users : OpenPage(q, u) \/ OpenInAdmin(q, u)
    BY <2>1, <2>2, OpeningTypes
  <2>3. CASE \E u \in Superusers \union {NoUser} : ReadForWrap(q, u)
    BY <2>1, <2>3, OpeningTypes
  <2>4. CASE ShowForm(q) \/ ReadRow(q) \/ ReadPrior(q)
    BY <2>4, ReadTypes
  <2>5. CASE \E text \in {request[q].seen, texts + 1}, change \in {"major", "minor"} :
               CommitForm(q, text, change)
    BY <2>5, CommitTypes
  <2>6. CASE \E text \in {request[q].seen, texts + 1}, status \in Statuses : SaveInAdmin(q, text, status)
    BY <2>6, AdminTypes
  <2>7. CASE SaveWrap(q) \/ ReviseWrap(q)
    BY <2>7, WrapTypes
  <2>8. CASE RefuseForm(q) \/ Abandon(q)
    BY <2>8, LeavingTypes
  <2> QED
    BY <1>2, <2>2, <2>3, <2>4, <2>5, <2>6, <2>7, <2>8 DEF EditStep
<1> QED
  BY <1>1, <1>2 DEF WorkflowNext

-----------------------------------------------------------------------------
(* Types: visits *)

(* What every step of a visit leaves alone. *)
LEMMA RestTyped ==
  ASSUME WorkflowTypeOK, UNCHANGED <<revisions, events, request, texts>>,
         post' \in Post \union {NoPost}, post'.text = post.text,
         past' \in Past, budget' \in [Kinds -> Nat]
  PROVE  WorkflowTypeOK'
<1>1. RowTyped'
  BY DEF WorkflowTypeOK, RowTyped
<1>2. RevisionsTyped' /\ EventsTyped'
  BY DEF WorkflowTypeOK, RevisionsTyped, EventsTyped
<1>3. RequestsTyped'
  BY DEF WorkflowTypeOK, RequestsTyped
<1> QED
  BY <1>1, <1>2, <1>3 DEF WorkflowTypeOK

LEMMA SlipTypes ==
  ASSUME past \in Past, NEW s \in SUBSET Slips, Slip(s)
  PROVE  past' \in Past /\ past'.slips = past.slips \union s /\ past'.cleared = past.cleared
         /\ past'.born = past.born
BY DEF Slip, Past

LEMMA MiscountsAreSlips == Miscounts \subseteq Slips /\ Miscounts \intersect TextSlips = {}
BY DEF Miscounts, Slips, TextSlips

LEMMA VisitType ==
  ASSUME TypeOK, NEW i \in Visits, visit[i] # NoVisit
  PROVE  visit[i] \in Visit
BY DEF TypeOK

(* The row of a post that is counted anew. *)
LEMMA CountedRow ==
  ASSUME post \in Post, NEW n \in Nat, post' = [post EXCEPT !.uv = n]
  PROVE  post' \in Post /\ post'.text = post.text /\ post'.status = post.status /\ post'.uv = n
BY DEF Post

LEMMA LeaveRowTypes ==
  ASSUME TypeOK, NEW i \in Visits, visit[i] # NoVisit, NEW k \in {"uv", "pv"}, LeaveRow(i, k)
  PROVE  /\ trace' \subseteq Visitors \X {"uv", "pv"} /\ past' \in Past
         /\ budget' \in [Kinds -> Nat]
<1>1. visit[i].who \in Visitors
  BY VisitType DEF Visit
<1>2. {"lost write"} \in SUBSET Slips
  BY DEF Slips
<1>3. past \in Past /\ budget \in [Kinds -> Nat] /\ trace \subseteq Visitors \X {"uv", "pv"}
  BY DEF TypeOK, WorkflowTypeOK
<1>4. "mishap" \in Kinds
  BY DEF Kinds
<1>5. CASE Spend("mishap") /\ Slip({"lost write"}) /\ UNCHANGED trace
  BY <1>2, <1>3, <1>4, <1>5, SlipTypes, Spent
<1>6. CASE UNCHANGED <<past, budget>> /\ trace' = IF post = NoPost THEN trace
                                                  ELSE trace \union {<<visit[i].who, k>>}
  BY <1>1, <1>3, <1>6
<1> QED
  BY <1>5, <1>6 DEF LeaveRow

LEMMA OneVisit ==
  ASSUME TypeOK, NEW i \in Visits, NEW x \in Visit \union {NoVisit},
         visit' = [visit EXCEPT ![i] = x]
  PROVE  visit' \in [Visits -> Visit \union {NoVisit}]
BY DEF TypeOK

LEMMA VisitTypes ==
  ASSUME TypeOK, NEW i \in Visits, VisitStep(i)
  PROVE  TypeOK'
<1>1. /\ WorkflowTypeOK /\ past \in Past /\ budget \in [Kinds -> Nat]
      /\ post \in Post \union {NoPost} /\ trace \subseteq Visitors \X {"uv", "pv"}
      /\ recent \subseteq Visitors
  BY DEF TypeOK, WorkflowTypeOK, RowTyped
<1>2. {"operation", "mishap"} \subseteq Kinds
  BY DEF Kinds
<1>3. {"one visitor twice", "lost write"} \subseteq Slips
  BY DEF Slips
<1>4. ASSUME NEW v \in Visitors, OpenPost(i, v)
      PROVE  TypeOK'
  <2>1. post \in Post /\ post.uv \in Nat
    <3>1. post # NoPost
      BY <1>4, NothingThere DEF OpenPost
    <3> QED
      BY <1>1, <3>1, RealPost
  <2> DEFINE x == [NoVisit EXCEPT !.pc = "look", !.who = v, !.uv = post.uv,
                                  !.newView = v \notin recent]
  <2>2. x \in Visit
    BY <2>1 DEF Visit, NoVisit
  <2>3. visit' = [visit EXCEPT ![i] = x] /\ recent' \subseteq Visitors
    BY <1>1, <1>4 DEF OpenPost
  <2> HIDE DEF x
  <2>4. past' \in Past /\ budget' \in [Kinds -> Nat]
    BY <1>1, <1>2, <1>3, <1>4, SlipTypes, Spent DEF OpenPost
  <2>5. WorkflowTypeOK'
    BY <1>1, <1>4, <2>4, RestTyped DEF OpenPost
  <2> QED
    BY <1>1, <1>4, <2>2, <2>3, <2>5, OneVisit DEF OpenPost, TypeOK
<1>5. CASE LookForRows(i)
  <2>1. visit[i] \in Visit
    BY <1>5, VisitType DEF LookForRows, NoVisit
  <2> DEFINE x == [visit[i] EXCEPT !.pc = "count",
                     !.newVisitor = \A k \in {"uv", "pv"} : <<visit[i].who, k>> \notin trace]
  <2>2. x \in Visit
    BY <2>1 DEF Visit
  <2>3. visit' = [visit EXCEPT ![i] = x]
    BY <1>5 DEF LookForRows, TypeOK
  <2> HIDE DEF x
  <2>4. UNCHANGED workflowVars
    BY <1>5 DEF LookForRows
  <2>5. WorkflowTypeOK'
    BY <1>1, <2>4, RestTyped DEF workflowVars
  <2> QED
    BY <1>1, <1>5, <2>2, <2>3, <2>5, OneVisit DEF LookForRows, TypeOK
<1>6. CASE Count(i)
  <2>1. visit[i] \in Visit
    <3>1. visit[i] # NoVisit
      BY <1>6, NothingThere DEF Count
    <3> QED
      BY <3>1, VisitType
  <2> DEFINE x == [visit[i] EXCEPT !.pc = "pv"]
  <2>2. x \in Visit
    BY <2>1 DEF Visit
  <2>3. visit' = [visit EXCEPT ![i] = x]
    BY <1>6 DEF Count, TypeOK
  <2> HIDE DEF x
  <2>4. past' \in Past /\ budget' \in [Kinds -> Nat]
    BY <1>1, <1>2, <1>3, <1>6, SlipTypes, Spent DEF Count
  <2>5. post' \in Post \union {NoPost} /\ post'.text = post.text
    <3>1. CASE post # NoPost /\ post' = [post EXCEPT !.uv = Counted(i)]
      <4>1. post \in Post /\ Counted(i) \in Nat
        BY <1>1, <3>1, RealPost DEF Counted
      <4> QED
        BY <3>1, <4>1, CountedRow
    <3>2. CASE UNCHANGED post
      BY <1>1, <3>2
    <3> QED
      BY <1>6, <3>1, <3>2 DEF Count
  <2>6. WorkflowTypeOK'
    BY <1>1, <1>6, <2>4, <2>5, RestTyped DEF Count
  <2> QED
    BY <1>1, <1>6, <2>2, <2>3, <2>6, OneVisit DEF Count, TypeOK
<1>7. CASE LeaveView(i)
  <2>1. visit[i] \in Visit /\ visit[i] # NoVisit
    BY <1>7, VisitType DEF LeaveView, NoVisit
  <2> DEFINE x == [visit[i] EXCEPT !.pc = "uv"]
  <2>2. x \in Visit
    BY <2>1 DEF Visit
  <2>3. visit' = [visit EXCEPT ![i] = x]
    BY <1>7 DEF LeaveView, TypeOK
  <2> HIDE DEF x
  <2>4. trace' \subseteq Visitors \X {"uv", "pv"} /\ past' \in Past /\ budget' \in [Kinds -> Nat]
    BY <1>1, <1>7, <2>1, LeaveRowTypes DEF LeaveView
  <2>5. WorkflowTypeOK'
    BY <1>1, <1>7, <2>4, RestTyped DEF LeaveView
  <2> QED
    BY <1>1, <1>7, <2>2, <2>3, <2>4, <2>5, OneVisit DEF LeaveView, TypeOK
<1>8. CASE LeaveVisitor(i)
  <2>1. visit[i] # NoVisit
    BY <1>8 DEF LeaveVisitor, NoVisit
  <2>2. trace' \subseteq Visitors \X {"uv", "pv"} /\ past' \in Past /\ budget' \in [Kinds -> Nat]
    BY <1>1, <1>8, <2>1, LeaveRowTypes DEF LeaveVisitor
  <2>3. WorkflowTypeOK'
    BY <1>1, <1>8, <2>2, RestTyped DEF LeaveVisitor
  <2> QED
    BY <1>1, <1>8, <2>2, <2>3, OneVisit DEF LeaveVisitor, TypeOK
<1>9. CASE BreakOff(i)
  <2>1. past' \in Past /\ budget' \in [Kinds -> Nat]
    BY <1>1, <1>2, <1>3, <1>9, SlipTypes, Spent DEF BreakOff
  <2>2. WorkflowTypeOK'
    BY <1>1, <1>9, <2>1, RestTyped DEF BreakOff
  <2> QED
    BY <1>1, <1>9, <2>2, OneVisit DEF BreakOff, TypeOK
<1> QED
  BY <1>4, <1>5, <1>6, <1>7, <1>8, <1>9 DEF VisitStep

LEMMA SyncTypes ==
  ASSUME TypeOK, SyncVisits, IsFiniteSet(VisitorRows)
  PROVE  TypeOK'
<1>1. WorkflowTypeOK /\ past \in Past /\ post \in Post \union {NoPost}
  BY DEF TypeOK, WorkflowTypeOK, RowTyped
<1>2. post \in Post
  <2>1. post # NoPost
    BY DEF SyncVisits, NoPost
  <2> QED
    BY <1>1, <2>1
<1>3. Cardinality(VisitorRows) \in Nat
  BY FS_CardinalityType
<1>4. post' \in Post /\ post'.text = post.text
  BY <1>2, <1>3, CountedRow DEF SyncVisits
<1>5. past' \in Past
  BY <1>1 DEF SyncVisits, Past
<1>6. WorkflowTypeOK'
  BY <1>1, <1>4, <1>5, RestTyped DEF SyncVisits, WorkflowTypeOK
<1> QED
  BY <1>6 DEF SyncVisits, TypeOK, visitVars

LEMMA OtherTypes ==
  ASSUME TypeOK, WorkflowStep \/ (\E v \in Visitors : Expire(v)) \/ UNCHANGED vars
  PROVE  TypeOK'
<1>1. CASE WorkflowStep
  <2>1. WorkflowTypeOK'
    BY <1>1, WorkflowTypes DEF TypeOK, WorkflowStep
  <2> QED
    BY <1>1, <2>1 DEF TypeOK, WorkflowStep
<1>2. ASSUME NEW v \in Visitors, Expire(v)
      PROVE  TypeOK'
  <2>1. budget' \in [Kinds -> Nat] /\ WorkflowTypeOK /\ past' \in Past /\ post \in Post \union {NoPost}
    BY <1>2, Spent DEF Expire, TypeOK, WorkflowTypeOK, RowTyped, Kinds
  <2>2. WorkflowTypeOK'
    BY <1>2, <2>1, RestTyped DEF Expire
  <2> QED
    BY <1>2, <2>2 DEF Expire, TypeOK
<1>3. CASE UNCHANGED vars
  <2>1. WorkflowTypeOK'
    BY <1>3 DEF vars, TypeOK, WorkflowTypeOK, RowTyped, RevisionsTyped, EventsTyped, RequestsTyped
  <2> QED
    BY <1>3, <2>1 DEF vars, TypeOK
<1> QED
  BY <1>1, <1>2, <1>3

-----------------------------------------------------------------------------
(* The visitors who are counted already: those with a row, and those whose *)
(* visit has counted them and has not left its row.                        *)

Owes(i) == visit[i].newVisitor /\ visit[i].pc \in {"pv", "uv"}
Owing == {v \in Visitors : \E i \in Visits : visit[i].who = v /\ Owes(i)}
Known == VisitorRows \union Owing

(* A step of visit i leaves the other visits alone. *)
LEMMA OtherVisits ==
  ASSUME TypeOK, NEW i \in Visits, VisitStep(i)
  PROVE  \A j \in Visits \ {i} : visit'[j] = visit[j]
<1> SUFFICES ASSUME NEW j \in Visits \ {i}
             PROVE  visit'[j] = visit[j]
  OBVIOUS
<1> USE DEF TypeOK
<1>1. ASSUME NEW v \in Visitors, OpenPost(i, v)
      PROVE  visit'[j] = visit[j]
  BY <1>1 DEF OpenPost
<1>2. CASE LookForRows(i) \/ Count(i)
  BY <1>2 DEF LookForRows, Count
<1>3. CASE LeaveView(i) \/ LeaveVisitor(i) \/ BreakOff(i)
  BY <1>3 DEF LeaveView, LeaveVisitor, BreakOff
<1> QED
  BY <1>1, <1>2, <1>3 DEF VisitStep

(* What a visit does to the counter, to the rows and to itself. *)
VisitEffect(i) ==
  \/ \* a visit begins, looks for rows, or is broken off
     /\ UNCHANGED <<post, trace>>
     /\ \/ visit[i] = NoVisit /\ visit'[i].newVisitor = FALSE /\ visit'[i].pc = "look"
           /\ visit'[i].who \in Visitors
           /\ past'.slips = past.slips \union (IF InFlight(visit'[i].who)
                                               THEN {"one visitor twice"} ELSE {})
        \/ visit[i].pc = "look" /\ visit'[i].pc = "count" /\ visit'[i].who = visit[i].who
           /\ (visit'[i].newVisitor => <<visit[i].who, "uv">> \notin trace)
           /\ past'.slips = past.slips
        \/ visit[i].pc # "idle" /\ visit'[i] = NoVisit
           /\ past'.slips = past.slips \union {"lost write"}
  \/ \* it counts
     /\ visit[i].pc = "count" /\ visit'[i].pc = "pv" /\ UNCHANGED trace
     /\ visit'[i].who = visit[i].who /\ visit'[i].newVisitor = visit[i].newVisitor
     /\ \/ past'.slips = past.slips
           /\ post' = IF visit[i].newVisitor /\ post # NoPost
                      THEN [post EXCEPT !.uv = post.uv + 1] ELSE post
        \/ past'.slips = past.slips \union {"lost write"} /\ UNCHANGED post
  \/ \* it leaves its first row
     /\ visit[i].pc = "pv" /\ visit'[i].pc = "uv"
     /\ visit'[i].who = visit[i].who /\ visit'[i].newVisitor = visit[i].newVisitor
     /\ UNCHANGED post
     /\ \/ past'.slips = past.slips /\ trace' \in {trace, trace \union {<<visit[i].who, "pv">>}}
        \/ past'.slips = past.slips \union {"lost write"} /\ UNCHANGED trace
  \/ \* it leaves its last row
     /\ visit[i].pc = "uv" /\ visit'[i] = NoVisit /\ UNCHANGED post
     /\ \/ /\ past'.slips = past.slips
           /\ trace' = IF visit[i].newVisitor /\ post # NoPost
                       THEN trace \union {<<visit[i].who, "uv">>} ELSE trace
        \/ past'.slips = past.slips \union {"lost write"} /\ UNCHANGED trace

LEMMA VisitHasEffect ==
  ASSUME TypeOK, NEW i \in Visits, VisitStep(i)
  PROVE  VisitEffect(i)
<1>1. past \in Past /\ visit \in [Visits -> Visit \union {NoVisit}]
  BY DEF TypeOK, WorkflowTypeOK
<1>2. {"one visitor twice"} \in SUBSET Slips /\ {"lost write"} \in SUBSET Slips /\ {} \in SUBSET Slips
  BY DEF Slips
<1>3. ASSUME NEW v \in Visitors, OpenPost(i, v)
      PROVE  VisitEffect(i)
  <2>1. visit'[i].newVisitor = FALSE /\ visit'[i].pc = "look" /\ visit'[i].who = v
    BY <1>1, <1>3 DEF OpenPost, NoVisit
  <2>2. past'.slips = past.slips \union (IF InFlight(v) THEN {"one visitor twice"} ELSE {})
    BY <1>1, <1>2, <1>3, SlipTypes DEF OpenPost
  <2> QED
    BY <1>3, <2>1, <2>2 DEF OpenPost, VisitEffect
<1>4. CASE LookForRows(i)
  <2>1. visit[i] \in Visit
    BY <1>1, <1>4, NothingThere DEF LookForRows
  <2>2. /\ visit'[i].pc = "count" /\ visit'[i].who = visit[i].who
        /\ visit'[i].newVisitor = \A k \in {"uv", "pv"} : <<visit[i].who, k>> \notin trace
    BY <1>1, <1>4, <2>1 DEF LookForRows, Visit
  <2>3. visit'[i].newVisitor => <<visit[i].who, "uv">> \notin trace
    BY <2>2
  <2>4. UNCHANGED <<post, past, trace>> /\ visit[i].pc = "look"
    BY <1>4 DEF LookForRows, workflowVars
  <2> QED
    BY <2>2, <2>3, <2>4 DEF VisitEffect
<1>5. CASE Count(i)
  <2>1. visit[i].pc = "count" /\ UNCHANGED trace
    BY <1>5 DEF Count
  <2>2. visit[i] \in Visit
    BY <1>1, <2>1, NothingThere
  <2>3. visit'[i].pc = "pv" /\ visit'[i].who = visit[i].who /\ visit'[i].newVisitor = visit[i].newVisitor
    BY <1>1, <1>5, <2>2 DEF Count, Visit
  <2>4. CASE visit[i].newVisitor /\ Spend("mishap") /\ Slip({"lost write"}) /\ UNCHANGED post
    BY <1>1, <1>2, <2>1, <2>3, <2>4, SlipTypes DEF VisitEffect
  <2>5. CASE /\ post' = IF visit[i].newVisitor /\ post # NoPost
                        THEN [post EXCEPT !.uv = Counted(i)] ELSE post
             /\ UNCHANGED <<past, budget>>
    BY <2>1, <2>3, <2>5 DEF VisitEffect, Counted
  <2> QED
    BY <1>5, <2>4, <2>5 DEF Count
<1>6. CASE LeaveView(i)
  <2>1. visit[i].pc = "pv" /\ UNCHANGED post
    BY <1>6 DEF LeaveView
  <2>2. visit[i] \in Visit
    BY <1>1, <2>1, NothingThere
  <2>3. visit'[i].pc = "uv" /\ visit'[i].who = visit[i].who /\ visit'[i].newVisitor = visit[i].newVisitor
    BY <1>1, <1>6, <2>2 DEF LeaveView, Visit
  <2>4. \/ past'.slips = past.slips /\ trace' \in {trace, trace \union {<<visit[i].who, "pv">>}}
        \/ past'.slips = past.slips \union {"lost write"} /\ UNCHANGED trace
    BY <1>1, <1>2, <1>6, SlipTypes DEF LeaveView, LeaveRow
  <2> QED
    BY <2>1, <2>3, <2>4 DEF VisitEffect
<1>7. CASE LeaveVisitor(i)
  <2>1. visit[i].pc = "uv" /\ UNCHANGED post /\ visit'[i] = NoVisit
    BY <1>1, <1>7 DEF LeaveVisitor
  <2>2. \/ /\ past'.slips = past.slips
           /\ trace' = IF visit[i].newVisitor /\ post # NoPost
                       THEN trace \union {<<visit[i].who, "uv">>} ELSE trace
        \/ past'.slips = past.slips \union {"lost write"} /\ UNCHANGED trace
    BY <1>1, <1>2, <1>7, SlipTypes DEF LeaveVisitor, LeaveRow
  <2> QED
    BY <2>1, <2>2 DEF VisitEffect
<1>8. CASE BreakOff(i)
  <2>1. visit[i].pc # "idle" /\ visit'[i] = NoVisit /\ UNCHANGED <<post, trace>>
    BY <1>1, <1>8 DEF BreakOff
  <2>2. past'.slips = past.slips \union {"lost write"}
    BY <1>1, <1>2, <1>8, SlipTypes DEF BreakOff
  <2> QED
    BY <2>1, <2>2 DEF VisitEffect
<1> QED
  BY <1>3, <1>4, <1>5, <1>6, <1>7, <1>8 DEF VisitStep

KnownFinite == IsFiniteSet(Known)

LEMMA KnownGrows ==
  ASSUME TypeOK, NEW i \in Visits, VisitStep(i)
  PROVE  Known' \subseteq Known \union {visit[i].who, visit'[i].who}
<1> SUFFICES ASSUME NEW v \in Visitors, v \in Known'
             PROVE  v \in Known \union {visit[i].who, visit'[i].who}
  BY DEF Known, VisitorRows, Owing
<1>1. CASE v \in Owing'
  <2>1. PICK j \in Visits : visit'[j].who = v /\ Owes(j)'
    BY <1>1 DEF Owing
  <2>2. CASE j # i
    BY <2>1, <2>2, OtherVisits DEF Owes, Owing, Known
  <2> QED
    BY <2>1, <2>2
<1>2. CASE v \in VisitorRows'
  <2>1. <<v, "uv">> \in trace'
    BY <1>2 DEF VisitorRows
  <2>2. \/ trace' \in {trace, trace \union {<<visit[i].who, "pv">>}}
        \/ trace' = trace \union {<<visit[i].who, "uv">>}
    BY VisitHasEffect DEF VisitEffect
  <2>3. <<v, "uv">> \in trace \/ v = visit[i].who
    BY <2>1, <2>2
  <2> QED
    BY <2>3 DEF VisitorRows, Known
<1> QED
  BY <1>1, <1>2 DEF Known

(* Every other step keeps the visits and adds no row. *)
LEMMA OtherSteps ==
  ASSUME TypeOK, WorkflowStep \/ (\E v \in Visitors : Expire(v)) \/ SyncVisits \/ UNCHANGED vars
  PROVE  visit' = visit /\ (trace' = trace \/ trace' = {})
BY DEF WorkflowStep, Expire, SyncVisits, vars, visitVars

LEMMA KnownStaysFinite ==
  ASSUME TypeOK, KnownFinite, Next \/ UNCHANGED vars
  PROVE  KnownFinite'
<1>1. ASSUME NEW i \in Visits, VisitStep(i)
      PROVE  KnownFinite'
  <2>1. IsFiniteSet(Known \union {visit[i].who} \union {visit'[i].who})
    BY FS_AddElement DEF KnownFinite
  <2>2. Known' \subseteq Known \union {visit[i].who} \union {visit'[i].who}
    BY <1>1, KnownGrows
  <2> QED
    BY <2>1, <2>2, FS_Subset DEF KnownFinite
<1>2. CASE WorkflowStep \/ (\E v \in Visitors : Expire(v)) \/ SyncVisits \/ UNCHANGED vars
  <2>1. Known' \subseteq Known
    BY <1>2, OtherSteps DEF Known, VisitorRows, Owing, Owes
  <2> QED
    BY <2>1, FS_Subset DEF KnownFinite
<1> QED
  BY <1>1, <1>2 DEF Next

LEMMA FiniteRows == KnownFinite => IsFiniteSet(VisitorRows)
BY FS_Subset DEF KnownFinite, Known

LEMMA Types == Spec => [](TypeOK /\ KnownFinite)
<1>1. Init => TypeOK /\ KnownFinite
  <2> SUFFICES ASSUME Init PROVE TypeOK /\ KnownFinite
    OBVIOUS
  <2>1. TypeOK
    BY InitTypes DEF Init, TypeOK
  <2>2. Known = {}
    BY DEF Init, Known, VisitorRows, Owing, Owes, NoVisit
  <2> QED
    BY <2>1, <2>2, FS_EmptySet DEF KnownFinite
<1>2. TypeOK /\ KnownFinite /\ [Next]_vars => (TypeOK /\ KnownFinite)'
  <2> SUFFICES ASSUME TypeOK, KnownFinite, Next \/ UNCHANGED vars
               PROVE  (TypeOK /\ KnownFinite)'
    OBVIOUS
  <2>1. TypeOK'
    BY VisitTypes, SyncTypes, OtherTypes, FiniteRows DEF Next
  <2> QED
    BY <2>1, KnownStaysFinite
<1> QED
  BY <1>1, <1>2, PTL DEF Spec

-----------------------------------------------------------------------------
(* The counter *)

(* Nothing has happened that makes the counter wrong. *)
Clean == post # NoPost /\ Miscounts \intersect past.slips = {}

Apart ==
  \A i, j \in Visits : i # j /\ visit[i] # NoVisit /\ visit[j] # NoVisit => visit[i].who # visit[j].who

NewHaveNoRow == \A i \in Visits : visit[i].newVisitor => <<visit[i].who, "uv">> \notin trace

Counting == Apart /\ NewHaveNoRow /\ post.uv = Cardinality(Known)

LEMMA CleanVisit ==
  ASSUME TypeOK, NEW i \in Visits, VisitEffect(i), Clean'
  PROVE  Clean /\ past'.slips = past.slips
<1>1. {"one visitor twice", "lost write"} \subseteq Miscounts
  BY DEF Miscounts
<1>2. past'.slips = past.slips
  BY <1>1 DEF VisitEffect, Clean
<1>3. post # NoPost
  BY DEF VisitEffect, Clean
<1> QED
  BY <1>2, <1>3 DEF Clean

LEMMA ApartKept ==
  ASSUME TypeOK, Apart, NEW i \in Visits, VisitEffect(i), Clean', \A j \in Visits \ {i} : visit'[j] = visit[j]
  PROVE  Apart'
<1>1. past'.slips = past.slips /\ "one visitor twice" \notin past.slips
  BY CleanVisit DEF Clean, Miscounts
<1>2. \/ visit[i] = NoVisit /\ ~InFlight(visit'[i].who)
      \/ visit'[i] = NoVisit
      \/ visit[i] # NoVisit /\ visit'[i].who = visit[i].who
  BY <1>1, NothingThere DEF VisitEffect
<1> SUFFICES ASSUME NEW j \in Visits \ {i}, visit'[i] # NoVisit, visit'[j] # NoVisit
             PROVE  visit'[i].who # visit'[j].who
  BY DEF Apart
<1> QED
  BY <1>2 DEF Apart, InFlight

LEMMA NewHaveNoRowKept ==
  ASSUME TypeOK, Apart, NewHaveNoRow, NEW i \in Visits, VisitEffect(i), Clean',
         \A j \in Visits \ {i} : visit'[j] = visit[j]
  PROVE  NewHaveNoRow'
<1>0. past'.slips = past.slips /\ "lost write" \notin past.slips
  BY CleanVisit DEF Clean, Miscounts
<1> SUFFICES ASSUME NEW j \in Visits, visit'[j].newVisitor
             PROVE  <<visit'[j].who, "uv">> \notin trace'
  BY DEF NewHaveNoRow
<1>1. CASE j = i
  <2>1. trace' \in {trace, trace \union {<<visit[i].who, "pv">>}}
    BY <1>1, NothingThere DEF VisitEffect
  <2>2. <<visit'[i].who, "uv">> \notin trace
    BY <1>1, NothingThere DEF VisitEffect, NewHaveNoRow
  <2> QED
    BY <1>1, <2>1, <2>2
<1>2. CASE j # i
  <2>1. visit'[j] = visit[j] /\ visit[j] # NoVisit /\ <<visit[j].who, "uv">> \notin trace
    BY <1>2, NothingThere DEF NewHaveNoRow
  <2>2. \/ trace' \in {trace, trace \union {<<visit[i].who, "pv">>}}
        \/ trace' = trace \union {<<visit[i].who, "uv">>} /\ visit[i].pc = "uv"
    BY DEF VisitEffect
  <2>3. visit[i].pc = "uv" => visit[i].who # visit[j].who
    BY <1>2, <2>1, NothingThere DEF Apart
  <2> QED
    BY <2>1, <2>2, <2>3
<1> QED
  BY <1>1, <1>2

LEMMA NumberKept ==
  ASSUME TypeOK, KnownFinite, Counting, NEW i \in Visits, VisitEffect(i), Clean',
         \A j \in Visits \ {i} : visit'[j] = visit[j]
  PROVE  post'.uv = Cardinality(Known')
<1>0. /\ past'.slips = past.slips /\ "lost write" \notin past.slips /\ Apart /\ NewHaveNoRow
      /\ post # NoPost /\ post \in Post
      /\ post.uv = Cardinality(Known)
  BY CleanVisit DEF Clean, Miscounts, Counting, TypeOK, WorkflowTypeOK, RowTyped
<1>1. \A j \in Visits : visit[j] # NoVisit => visit[j].who \in Visitors
  BY DEF TypeOK, Visit
<1>2. CASE visit[i].pc = "count" /\ visit[i].newVisitor
  <2>1. /\ trace' = trace /\ visit'[i].pc = "pv" /\ visit'[i].who = visit[i].who
        /\ visit'[i].newVisitor
        /\ post' = [post EXCEPT !.uv = post.uv + 1]
    BY <1>0, <1>2, NothingThere DEF VisitEffect
  <2>2. post'.uv = post.uv + 1
    BY <1>0, <2>1 DEF Post
  <2>3. visit[i] # NoVisit /\ visit[i].who \in Visitors
    BY <1>1, <1>2, NothingThere
  <2>4. visit[i].who \notin Known
    <3>1. visit[i].who \notin VisitorRows
      BY <1>0, <1>2 DEF NewHaveNoRow, VisitorRows
    <3>2. ASSUME NEW j \in Visits, visit[j].who = visit[i].who, Owes(j)
          PROVE  FALSE
      BY <1>0, <1>2, <2>3, <3>2, NothingThere DEF Owes, Apart
    <3> QED
      BY <3>1, <3>2 DEF Known, Owing
  <2>5. Known' = Known \union {visit[i].who}
    <3>1. VisitorRows' = VisitorRows
      BY <2>1 DEF VisitorRows
    <3>2. Owing' = Owing \union {visit[i].who}
      <4>1. \A j \in Visits \ {i} : Owes(j)' = Owes(j)
        BY DEF Owes
      <4>2. ~Owes(i) /\ Owes(i)'
        BY <1>2, <2>1 DEF Owes
      <4> QED
        BY <2>1, <2>3, <4>1, <4>2 DEF Owing
    <3> QED
      BY <3>1, <3>2 DEF Known
  <2>6. Cardinality(Known \union {visit[i].who}) = Cardinality(Known) + 1
    BY <2>4, FS_AddElement DEF KnownFinite
  <2> QED
    BY <1>0, <2>2, <2>5, <2>6
<1>3. CASE ~(visit[i].pc = "count" /\ visit[i].newVisitor)
  <2>1. post'.uv = post.uv
    BY <1>0, <1>3 DEF VisitEffect
  <2>2. \A j \in Visits \ {i} : Owes(j)' = Owes(j)
    BY DEF Owes
  <2>3. CASE visit[i].pc = "uv" /\ visit[i].newVisitor /\ visit'[i] = NoVisit
    <3>1. trace' = trace \union {<<visit[i].who, "uv">>}
      BY <1>0, <2>3, NothingThere DEF VisitEffect
    <3>2. Owes(i) /\ visit[i].who \in Visitors /\ ~Owes(i)'
      BY <1>1, <2>3, NothingThere DEF Owes
    <3>3. VisitorRows' = VisitorRows \union {visit[i].who}
      BY <3>1, <3>2 DEF VisitorRows
    <3>4. Owing = Owing' \union {visit[i].who}
      BY <2>2, <3>2 DEF Owing
    <3>5. Known' = Known
      BY <3>3, <3>4 DEF Known
    <3> QED
      BY <1>0, <2>1, <3>5
  <2>4. CASE ~(visit[i].pc = "uv" /\ visit[i].newVisitor /\ visit'[i] = NoVisit)
    <3>1. trace' \in {trace, trace \union {<<visit[i].who, "pv">>}}
      BY <1>0, <2>4 DEF VisitEffect
    <3>2. VisitorRows' = VisitorRows
      BY <3>1 DEF VisitorRows
    <3>3. Owes(i)' = Owes(i) /\ (Owes(i) => visit'[i].who = visit[i].who)
      BY <1>0, <1>3, <2>4, NothingThere DEF VisitEffect, Owes
    <3>4. Owing' = Owing
      BY <2>2, <3>3 DEF Owing
    <3> QED
      BY <1>0, <2>1, <3>2, <3>4 DEF Known
  <2> QED
    BY <2>3, <2>4
<1> QED
  BY <1>2, <1>3

(* Before the post is created nothing has happened. *)
Fresh ==
  /\ post = NoPost /\ trace = {}
  /\ \A i \in Visits : visit[i] = NoVisit
  /\ \A q \in Requests : request[q] = Idle

CountInv ==
  /\ budget["create"] <= 1
  /\ budget["create"] > 0 => Fresh
  /\ Clean => Counting

LEMMA OpenedWithPost ==
  ASSUME TypeOK, NEW i \in Visits, VisitStep(i), Fresh
  PROVE  FALSE
<1>1. visit[i].pc = "idle" /\ post.status = "none" /\ visit[i] = NoVisit
  BY NothingThere DEF Fresh
<1> QED
  BY <1>1, NothingThere DEF VisitStep, OpenPost, LookForRows, Count, LeaveView, LeaveVisitor, BreakOff

(* What a request does to the counter, unless it creates the post: it keeps *)
(* the number, deletes the post, or leaves a slip that says so.             *)
CounterEffect ==
  \/ UNCHANGED post /\ past'.slips \intersect Miscounts = past.slips \intersect Miscounts
  \/ post' = NoPost
  \/ post # NoPost /\ post'.uv = post.uv /\ past.slips \intersect Miscounts \subseteq past'.slips
  \/ past'.slips \intersect Miscounts # {}

BornEffect ==
  budget["create"] > 0 /\ budget'["create"] = budget["create"] - 1 /\ post'.uv = 0 /\ post' # NoPost

LaterEffect == ~Fresh /\ budget'["create"] = budget["create"] /\ CounterEffect

LEMMA BornCounts ==
  ASSUME WorkflowTypeOK, NEW u \in Users, NEW status \in Statuses, Born(u, status)
  PROVE  BornEffect
<1>1. budget["create"] > 0 /\ budget'["create"] = budget["create"] - 1
  BY DEF Born, Spend, WorkflowTypeOK, Kinds
<1>2. post'.uv = 0 /\ post'.status = status
  BY DEF Born
<1>3. post' # NoPost
  BY <1>2, NothingThere DEF Statuses
<1> QED
  BY <1>1, <1>2, <1>3 DEF BornEffect

(* What is spent on something else is not spent on creating. *)
LEMMA SpentOnOther ==
  ASSUME WorkflowTypeOK, NEW k \in {"service", "operation", "mishap"}, Spend(k)
  PROVE  budget'["create"] = budget["create"]
BY Spent DEF WorkflowTypeOK, Kinds

LEMMA ServicesCount ==
  ASSUME WorkflowTypeOK, NEW u \in Users,
         DeletePost(u) \/ SubmitPost(u) \/ ApprovePost(u) \/ RejectPost(u) \/ UnpublishPost(u)
  PROVE  LaterEffect
<1>0. past \in Past /\ post \in Post \union {NoPost}
  BY DEF WorkflowTypeOK, RowTyped
<1>1. CASE DeletePost(u)
  BY <1>1, SpentOnOther DEF DeletePost, LaterEffect, CounterEffect, Fresh
<1>2. ASSUME NEW from, NEW to, NEW allowed, Transition(from, to, allowed), past'.slips = past.slips
      PROVE  LaterEffect
  <2>1. budget'["create"] = budget["create"] /\ post # NoPost
    BY <1>2, SpentOnOther DEF Transition
  <2>2. post' = [post EXCEPT !.status = to]
    BY <1>2 DEF Transition
  <2>3. post'.uv = post.uv
    BY <1>0, <2>1, <2>2 DEF Post
  <2> QED
    BY <1>2, <2>1, <2>3 DEF LaterEffect, CounterEffect, Fresh
<1>3. ApprovePost(u) => past'.slips = past.slips
  BY <1>0 DEF ApprovePost, Past
<1> QED
  BY <1>1, <1>2, <1>3 DEF SubmitPost, ApprovePost, RejectPost, UnpublishPost

LEMMA IdleRequest == Idle.pc = "idle" /\ Idle.kind = "none"
BY DEF Idle

(* A step of a request that stores nothing. *)
LEMMA ReadingCounts ==
  ASSUME WorkflowTypeOK, NEW q \in Requests,
         \/ \E u \in Users \union {NoUser} : OpenPage(q, u) \/ OpenInAdmin(q, u) \/ ReadForWrap(q, u)
         \/ ShowForm(q) \/ ReadRow(q) \/ ReadPrior(q) \/ RefuseForm(q) \/ Abandon(q)
  PROVE  LaterEffect
<1>1. UNCHANGED <<post, past>>
  BY DEF OpenPage, OpenInAdmin, ReadForWrap, ShowForm, ReadRow, ReadPrior, RefuseForm, Abandon
<1>2. budget'["create"] = budget["create"]
  BY SpentOnOther DEF OpenPage, OpenInAdmin, ReadForWrap, ShowForm, ReadRow, ReadPrior, RefuseForm,
                      Abandon
<1>3. ~Fresh
  BY IdleRequest DEF Fresh, OpenPage, OpenInAdmin, ReadForWrap, ShowForm, ReadRow, ReadPrior,
                     RefuseForm, Abandon
<1> QED
  BY <1>1, <1>2, <1>3 DEF LaterEffect, CounterEffect

(* What a save is remembered as. *)
Noted(cleared, slips) == [past EXCEPT !.cleared = cleared, !.slips = slips]

LEMMA NotedFields ==
  ASSUME past \in Past, NEW cleared, NEW slips, past' = Noted(cleared, slips)
  PROVE  past'.cleared = cleared /\ past'.slips = slips /\ past'.born = past.born
BY DEF Past, Noted

LEMMA CommitNoted ==
  ASSUME WorkflowTypeOK, NEW q \in Requests, NEW text, NEW change, CommitForm(q, text, change)
  PROVE  /\ past'.cleared = past.cleared \union ClearedBy(request[q].user, text)
         /\ past'.slips = (past.slips \ TextSlips) \union SlipsOf(request[q])
         /\ past'.born = past.born
<1>1. past' = Noted(past.cleared \union ClearedBy(request[q].user, text),
                    (past.slips \ TextSlips) \union SlipsOf(request[q]))
  BY DEF CommitForm, Noted
<1> QED
  BY <1>1, NotedFields DEF WorkflowTypeOK

LEMMA AdminNoted ==
  ASSUME WorkflowTypeOK, NEW q \in Requests, NEW text, NEW status, SaveInAdmin(q, text, status)
  PROVE  /\ past'.cleared = past.cleared \union ClearedBy(request[q].user, text)
         /\ past'.born = past.born
         /\ \/ /\ SnapshotChanged(request[q], text)
               /\ CreateRevision(text, "minor")
               /\ past'.slips = (past.slips \ TextSlips) \union SlipsOf(request[q])
            \/ /\ ~SnapshotChanged(request[q], text)
               /\ UNCHANGED revisions
               /\ past'.slips = past.slips \union SlipsOf(request[q])
                    \union (IF request[q].prior.text # post.text
                            THEN {"text changed before admin save"} ELSE {})
<1> DEFINE slip == IF request[q].prior.text # post.text
                   THEN {"text changed before admin save"} ELSE {}
<1>1. CASE SnapshotChanged(request[q], text)
  <2>1. past' = Noted(past.cleared \union ClearedBy(request[q].user, text),
                      (past.slips \ TextSlips) \union SlipsOf(request[q]))
    BY <1>1 DEF SaveInAdmin, Noted
  <2>2. CreateRevision(text, "minor")
    BY <1>1 DEF SaveInAdmin
  <2> QED
    BY <1>1, <2>1, <2>2, NotedFields DEF WorkflowTypeOK
<1>2. CASE ~SnapshotChanged(request[q], text)
  <2>1. past' = Noted(past.cleared \union ClearedBy(request[q].user, text),
                      past.slips \union SlipsOf(request[q]) \union slip)
    BY <1>2 DEF SaveInAdmin, Noted
  <2>2. UNCHANGED revisions
    BY <1>2 DEF SaveInAdmin
  <2> QED
    BY <1>2, <2>1, <2>2, NotedFields DEF WorkflowTypeOK
<1> QED
  BY <1>1, <1>2

LEMMA SavingCounts ==
  ASSUME WorkflowTypeOK, NEW q \in Requests, NEW text, NEW choice,
         CommitForm(q, text, choice) \/ (choice \in Statuses /\ SaveInAdmin(q, text, choice))
  PROVE  LaterEffect
<1> DEFINE r == request[q]
<1>0. past \in Past /\ post \in Post \union {NoPost} /\ RequestsTyped /\ RowTyped
  BY DEF WorkflowTypeOK, RowTyped
<1>1. /\ ~Fresh /\ budget'["create"] = budget["create"] /\ r.pc = "ready"
  BY IdleRequest DEF Fresh, CommitForm, SaveInAdmin
<1>2. r.row \in Post
  BY <1>1, ReadyRequest
<1>3. post'.uv = r.row.uv
  <2>1. \E status : post' = Saved(r.row, text, status)
    BY DEF CommitForm, SaveInAdmin, Saved
  <2> QED
    BY <1>2, <2>1 DEF Saved, Post
<1>4. SlipsOf(r) \subseteq past'.slips /\ past.slips \intersect Miscounts \subseteq past'.slips
  BY MiscountsAreSlips, CommitNoted, AdminNoted
<1>5. post = NoPost => "deleted before admin save" \in SlipsOf(r)
  BY DEF SlipsOf
<1>6. r.row.uv # post.uv => "counter saved back" \in SlipsOf(r)
  BY DEF SlipsOf
<1>7. "deleted before admin save" \in Miscounts /\ "counter saved back" \in Miscounts
  BY DEF Miscounts
<1> QED
  BY <1>1, <1>3, <1>4, <1>5, <1>6, <1>7 DEF LaterEffect, CounterEffect

LEMMA WrappingCounts ==
  ASSUME WorkflowTypeOK, NEW q \in Requests, SaveWrap(q) \/ ReviseWrap(q)
  PROVE  LaterEffect
<1>0. past \in Past /\ post \in Post \union {NoPost}
  BY DEF WorkflowTypeOK, RowTyped
<1>1. ~Fresh /\ budget'["create"] = budget["create"]
  BY IdleRequest DEF Fresh, SaveWrap, ReviseWrap
<1>2. CASE SaveWrap(q)
  <2>1. CASE post = NoPost
    BY <1>1, <1>2, <2>1 DEF SaveWrap, LaterEffect, CounterEffect
  <2>2. CASE post # NoPost
    <3>1. post' = [post EXCEPT !.text = texts + 1] /\ past'.slips = past.slips \union {"wrapped"}
      BY <1>0, <1>2, <2>2 DEF SaveWrap, Past
    <3>2. post'.uv = post.uv
      BY <1>0, <2>2, <3>1 DEF Post
    <3> QED
      BY <1>1, <2>2, <3>1, <3>2 DEF LaterEffect, CounterEffect
  <2> QED
    BY <2>1, <2>2
<1>3. CASE ReviseWrap(q)
  <2>1. post' = post /\ past'.slips \in {past.slips, past.slips \ TextSlips}
    BY <1>0, <1>3 DEF ReviseWrap, Past
  <2>2. past'.slips \intersect Miscounts = past.slips \intersect Miscounts
    BY <2>1, MiscountsAreSlips
  <2> QED
    BY <1>1, <2>1, <2>2 DEF LaterEffect, CounterEffect
<1> QED
  BY <1>2, <1>3

LEMMA WorkflowCounts ==
  ASSUME WorkflowTypeOK, WorkflowNext
  PROVE  BornEffect \/ LaterEffect
<1>1. ASSUME NEW u \in Users,
             \/ CreatePost(u) \/ CreateInAdmin(u) \/ DeletePost(u)
             \/ SubmitPost(u) \/ ApprovePost(u) \/ RejectPost(u) \/ UnpublishPost(u)
      PROVE  BornEffect \/ LaterEffect
  <2>1. "draft" \in Statuses
    BY DEF Statuses
  <2> QED
    BY <1>1, <2>1, BornCounts, ServicesCount DEF CreatePost, CreateInAdmin
<1>2. ASSUME NEW q \in Requests, EditStep(q)
      PROVE  LaterEffect
  <2>1. Users \subseteq Users \union {NoUser} /\ Superusers \union {NoUser} \subseteq Users \union {NoUser}
    OBVIOUS
  <2>2. CASE \/ \E u \in Users : OpenPage(q, u) \/ OpenInAdmin(q, u)
             \/ \E u \in Superusers \union {NoUser} : ReadForWrap(q, u)
             \/ ShowForm(q) \/ ReadRow(q) \/ ReadPrior(q) \/ RefuseForm(q) \/ Abandon(q)
    BY <2>1, <2>2, ReadingCounts
  <2>3. CASE \/ \E text \in {request[q].seen, texts + 1}, change \in {"major", "minor"} :
                  CommitForm(q, text, change)
             \/ \E text \in {request[q].seen, texts + 1}, status \in Statuses :
                  SaveInAdmin(q, text, status)
    BY <2>3, SavingCounts
  <2>4. CASE SaveWrap(q) \/ ReviseWrap(q)
    BY <2>4, WrappingCounts
  <2> QED
    BY <1>2, <2>2, <2>3, <2>4 DEF EditStep
<1> QED
  BY <1>1, <1>2 DEF WorkflowNext

LEMMA CountKept ==
  ASSUME TypeOK, KnownFinite, CountInv, Next \/ UNCHANGED vars
  PROVE  CountInv'
<1>0. /\ budget["create"] \in Nat /\ "create" \in Kinds /\ past \in Past /\ WorkflowTypeOK
      /\ post \in Post \union {NoPost}
  BY DEF TypeOK, WorkflowTypeOK, RowTyped, Kinds
<1>1. ASSUME NEW i \in Visits, VisitStep(i)
      PROVE  CountInv'
  <2>1. budget["create"] = 0
    BY <1>0, <1>1, OpenedWithPost DEF CountInv
  <2>2. budget'["create"] = budget["create"]
    BY <1>0, <1>1, SpentOnOther
    DEF VisitStep, OpenPost, LookForRows, Count, LeaveView, LeaveVisitor, BreakOff, LeaveRow, workflowVars
  <2>3. ASSUME Clean'
        PROVE  Counting'
    <3>1. VisitEffect(i) /\ \A j \in Visits \ {i} : visit'[j] = visit[j]
      BY <1>1, VisitHasEffect, OtherVisits
    <3>2. Counting
      BY <2>3, <3>1, CleanVisit DEF CountInv
    <3> QED
      BY <2>3, <3>1, <3>2, ApartKept, NewHaveNoRowKept, NumberKept DEF Counting
  <2> QED
    BY <2>1, <2>2, <2>3 DEF CountInv
<1>2. CASE WorkflowStep
  <2>1. visit' = visit /\ (post' # NoPost => trace' = trace)
    BY <1>2 DEF WorkflowStep
  <2>2. CASE BornEffect
    <3>1. Fresh /\ budget["create"] = 1 /\ budget'["create"] = 0 /\ post' # NoPost /\ post'.uv = 0
      BY <1>0, <2>2 DEF BornEffect, CountInv
    <3>2. \A i \in Visits : visit'[i] = NoVisit
      BY <2>1, <3>1 DEF Fresh
    <3>3. trace' = {}
      BY <2>1, <3>1 DEF Fresh
    <3>4. Known' = {}
      BY <3>2, <3>3, NothingThere DEF Known, VisitorRows, Owing, Owes
    <3>5. Apart' /\ NewHaveNoRow'
      BY <3>2, <3>3, NothingThere DEF Apart, NewHaveNoRow
    <3> QED
      BY <3>1, <3>4, <3>5, FS_EmptySet DEF CountInv, Counting
  <2>3. CASE LaterEffect
    <3>1. budget["create"] = 0 /\ budget'["create"] = 0
      BY <1>0, <2>3 DEF LaterEffect, CountInv
    <3>2. ASSUME Clean'
          PROVE  Counting'
      <4>1. Clean /\ post'.uv = post.uv
        BY <2>3, <3>2 DEF LaterEffect, CounterEffect, Clean
      <4>2. trace' = trace /\ visit' = visit
        BY <2>1, <3>2 DEF Clean
      <4> QED
        BY <4>1, <4>2
        DEF CountInv, Counting, Apart, NewHaveNoRow, Known, VisitorRows, Owing, Owes
    <3> QED
      BY <3>1, <3>2 DEF CountInv
  <2> QED
    BY <1>0, <1>2, <2>2, <2>3, WorkflowCounts DEF WorkflowStep
<1>3. ASSUME NEW v \in Visitors, Expire(v)
      PROVE  CountInv'
  <2>1. UNCHANGED <<post, past, trace, visit, request>> /\ budget'["create"] = budget["create"]
    BY <1>0, <1>3, SpentOnOther DEF Expire
  <2> QED
    BY <2>1 DEF CountInv, Fresh, Clean, Counting, Apart, NewHaveNoRow, Known, VisitorRows, Owing, Owes
<1>4. CASE SyncVisits
  <2>1. budget' = budget /\ post # NoPost /\ trace' = trace /\ visit' = visit
        /\ \A i \in Visits : visit[i] = NoVisit
    BY <1>4, NothingThere DEF SyncVisits, visitVars
  <2>2. post'.uv = Cardinality(VisitorRows)
    BY <1>0, <1>4, <2>1 DEF SyncVisits, Post
  <2>3. Known' = VisitorRows
    BY <2>1, NothingThere DEF Known, VisitorRows, Owing, Owes
  <2>4. Apart' /\ NewHaveNoRow'
    BY <2>1, NothingThere DEF Apart, NewHaveNoRow
  <2> QED
    BY <2>1, <2>2, <2>3, <2>4 DEF CountInv, Counting, Fresh
<1>5. CASE UNCHANGED vars
  BY <1>5 DEF vars, CountInv, Fresh, Clean, Counting, Apart, NewHaveNoRow, Known, VisitorRows, Owing,
              Owes
<1> QED
  BY <1>1, <1>2, <1>3, <1>4, <1>5 DEF Next

(* models.py: uv is the number of visitors who have a row, whenever no      *)
(* visit is under way, no write was lost, no visitor opened the post twice  *)
(* at once, and no form saved an old row over it or over nothing.           *)
THEOREM CounterIsRight == Spec => []VisitorsAreCounted
<1>1. Init => CountInv
  <2> SUFFICES ASSUME Init PROVE CountInv
    OBVIOUS
  <2>1. Fresh /\ budget = Budget
    BY DEF Init, WorkflowInit, Fresh
  <2> QED
    BY <2>1 DEF CountInv, Clean, Fresh
<1>2. TypeOK /\ KnownFinite /\ CountInv /\ [Next]_vars => CountInv'
  BY CountKept
<1>3. TypeOK /\ CountInv => VisitorsAreCounted
  <2> SUFFICES ASSUME TypeOK, CountInv, Clean, \A i \in Visits : visit[i] = NoVisit
               PROVE  post.uv = Cardinality(VisitorRows)
    BY DEF VisitorsAreCounted, Clean
  <2>1. Known = VisitorRows
    BY NothingThere DEF Known, Owing, Owes
  <2> QED
    BY <2>1 DEF CountInv, Counting
<1> QED
  BY <1>1, <1>2, <1>3, Types, PTL DEF Spec

-----------------------------------------------------------------------------
(* What is published, what the revisions hold, what the events tell *)

(* The row holds what the newest event says. *)
Explained == "status changed before admin save" \notin past.slips

EventsTell ==
  /\ post = NoPost => events = <<>>
  /\ post # NoPost /\ Explained
     => /\ events = <<>> => past.born = post.status
        /\ events # <<>> => events[1].from = past.born /\ events[Len(events)].to = post.status
        /\ \A i \in 1..(Len(events) - 1) : events[i].to = events[i + 1].from

Ordered == \A i \in 1..Len(revisions) : \A j \in 1..(i - 1) : Before(revisions[j], revisions[i])

NewestFits ==
  post # NoPost /\ TextSlips \intersect past.slips = {}
    => revisions # <<>> /\ revisions[Len(revisions)].text = post.text

PostInv == PublishedIsCleared /\ Ordered /\ NewestFits /\ EventsTell

(* A step that leaves the row, its revisions and its events as they are. *)
Quiet ==
  /\ post'.status = post.status /\ post'.text = post.text /\ (post' = NoPost <=> post = NoPost)
  /\ UNCHANGED <<revisions, events>>
  /\ past'.cleared = past.cleared /\ past'.born = past.born
  /\ \A s \in Slips \ Miscounts : s \in past'.slips <=> s \in past.slips

LEMMA QuietKeeps ==
  ASSUME PostInv, Quiet
  PROVE  PostInv'
<1>1. \A s \in TextSlips \union {"status read twice", "status changed before admin save"} :
        s \in past'.slips <=> s \in past.slips
  BY DEF Quiet, Slips, Miscounts, TextSlips
<1>2. PublishedIsCleared'
  BY <1>1 DEF Quiet, PostInv, PublishedIsCleared
<1>3. Ordered'
  BY DEF Quiet, PostInv, Ordered
<1>4. NewestFits'
  BY <1>1 DEF Quiet, PostInv, NewestFits
<1>5. EventsTell'
  BY <1>1 DEF Quiet, PostInv, EventsTell, Explained
<1> QED
  BY <1>2, <1>3, <1>4, <1>5 DEF PostInv

LEMMA Later == \A r1, r2, r3 \in Revision : Before(r1, r2) /\ Before(r2, r3) => Before(r1, r3)
BY DEF Revision, Before

LEMMA OrderKept ==
  ASSUME RevisionsTyped, Ordered, NEW text \in Nat, NEW change, CreateRevision(text, change)
  PROVE  /\ Ordered' /\ revisions' # <<>>
         /\ revisions'[Len(revisions')].text = text
<1>1. /\ revisions' \in Seq(Revision) /\ revisions \in Seq(Revision)
      /\ Len(revisions') = Len(revisions) + 1
      /\ \A i \in 1..Len(revisions) : revisions'[i] = revisions[i]
      /\ revisions'[Len(revisions')].text = text
      /\ revisions # <<>> => Before(revisions[Len(revisions)], revisions'[Len(revisions')])
  BY NewRevision DEF RevisionsTyped
<1>2. Ordered'
  <2> SUFFICES ASSUME NEW i \in 1..Len(revisions'), NEW j \in 1..(i - 1)
               PROVE  Before(revisions'[j], revisions'[i])
    BY DEF Ordered
  <2>1. CASE i \in 1..Len(revisions)
    BY <1>1, <2>1 DEF Ordered
  <2>2. CASE i = Len(revisions')
    <3>1. j \in 1..Len(revisions) /\ revisions'[j] = revisions[j] /\ revisions # <<>>
      BY <1>1, <2>2
    <3>2. CASE j = Len(revisions)
      BY <1>1, <2>2, <3>1, <3>2
    <3>3. CASE j # Len(revisions)
      <4>1. Len(revisions) \in 1..Len(revisions) /\ j \in 1..(Len(revisions) - 1)
        BY <1>1, <3>1, <3>3
      <4>2. Before(revisions[j], revisions[Len(revisions)])
        BY <4>1 DEF Ordered
      <4>3. revisions[j] \in Revision /\ revisions[Len(revisions)] \in Revision
            /\ revisions'[Len(revisions')] \in Revision
        BY <1>1, <3>1, <4>1
      <4> QED
        BY <1>1, <2>2, <3>1, <4>2, <4>3, Later
    <3> QED
      BY <3>2, <3>3
  <2> QED
    BY <1>1, <2>1, <2>2
<1> QED
  BY <1>1, <1>2

(* A story of events that goes on with one more. *)
LEMMA StoryGoesOn ==
  ASSUME NEW born, NEW status, NEW old \in Seq(Event),
         NEW new \in Seq(Event),
         /\ old = <<>> => born = status
         /\ old # <<>> => old[1].from = born /\ old[Len(old)].to = status
         /\ \A i \in 1..(Len(old) - 1) : old[i].to = old[i + 1].from,
         Len(new) = Len(old) + 1, \A i \in 1..Len(old) : new[i] = old[i], new[Len(new)].from = status
  PROVE  /\ new # <<>> /\ new[1].from = born
         /\ \A i \in 1..(Len(new) - 1) : new[i].to = new[i + 1].from
<1>1. Len(old) \in Nat
  OBVIOUS
<1>2. new # <<>>
  OBVIOUS
<1>3. new[1].from = born
  <2>1. CASE old = <<>>
    BY <2>1
  <2>2. CASE old # <<>>
    BY <2>2
  <2> QED
    BY <2>1, <2>2
<1>4. ASSUME NEW i \in 1..Len(old)
      PROVE  new[i].to = new[i + 1].from
  <2>1. CASE i = Len(old)
    BY <2>1
  <2>2. CASE i # Len(old)
    BY <2>2
  <2> QED
    BY <2>1, <2>2
<1> QED
  BY <1>2, <1>3, <1>4

(* The event of a change of the status continues the story. *)
LEMMA StoryKept ==
  ASSUME EventsTyped, EventsTell, post \in Post, post' \in Post,
         RecordEvent(post.status, post'.status), past'.born = past.born, Explained' => Explained
  PROVE  EventsTell'
<1>1. post # NoPost /\ post' # NoPost /\ post.status \in Statuses /\ post'.status \in Statuses
  BY RealPost
<1>2. CASE post.status = post'.status
  BY <1>1, <1>2 DEF EventsTell, RecordEvent
<1>3. CASE post.status # post'.status
  <2> SUFFICES ASSUME Explained'
               PROVE  /\ events' # <<>> /\ events'[1].from = past.born
                      /\ events'[Len(events')].to = post'.status
                      /\ \A i \in 1..(Len(events') - 1) : events'[i].to = events'[i + 1].from
    BY <1>1 DEF EventsTell
  <2>1. /\ events \in Seq(Event) /\ events' \in Seq(Event)
        /\ Len(events') = Len(events) + 1
        /\ \A i \in 1..Len(events) : events'[i] = events[i]
        /\ events'[Len(events')].from = post.status
        /\ events'[Len(events')].to = post'.status
    BY <1>1, <1>3, NewEvent DEF EventsTyped
  <2>2. /\ events = <<>> => past.born = post.status
        /\ events # <<>> => events[1].from = past.born /\ events[Len(events)].to = post.status
        /\ \A i \in 1..(Len(events) - 1) : events[i].to = events[i + 1].from
    BY <1>1 DEF EventsTell
  <2> QED
    BY <1>1, <2>1, <2>2, StoryGoesOn
<1> QED
  BY <1>2, <1>3

LEMMA BornKeeps ==
  ASSUME TypeOK, PostInv, NEW u \in Users, NEW status \in Statuses, Born(u, status),
         u \in Superusers \/ status = "draft"
  PROVE  PostInv'
<1>0. RevisionsTyped /\ texts \in Nat
  BY DEF TypeOK, WorkflowTypeOK, RowTyped
<1>1. /\ post = NoPost /\ post'.text = texts + 1 /\ post'.status = status
      /\ past'.born = status /\ past'.slips = {}
      /\ past'.cleared = IF u \in Superusers THEN {texts + 1} ELSE {}
      /\ CreateRevision(texts + 1, "major") /\ events' = events
  BY DEF Born, NoPast
<1>2. post' # NoPost
  BY <1>1, NothingThere DEF Statuses
<1>3. PublishedIsCleared'
  BY <1>1 DEF PublishedIsCleared
<1>4. Ordered' /\ NewestFits'
  BY <1>0, <1>1, OrderKept DEF PostInv, NewestFits
<1>5. EventsTell'
  BY <1>1, <1>2 DEF PostInv, EventsTell, Explained
<1> QED
  BY <1>3, <1>4, <1>5 DEF PostInv

LEMMA DeleteKeeps ==
  ASSUME PostInv, NEW u \in Users, DeletePost(u)
  PROVE  PostInv'
<1>1. post' = NoPost /\ revisions' = <<>> /\ events' = <<>>
  BY DEF DeletePost
<1>2. PublishedIsCleared'
  BY <1>1, NothingThere DEF PublishedIsCleared
<1>3. Len(revisions') = 0
  BY <1>1
<1>4. Ordered' /\ NewestFits'
  BY <1>1, <1>3 DEF Ordered, NewestFits
<1>5. EventsTell'
  BY <1>1 DEF EventsTell
<1> QED
  BY <1>2, <1>4, <1>5 DEF PostInv

LEMMA ServiceKeeps ==
  ASSUME TypeOK, PostInv, NEW u \in Users,
         SubmitPost(u) \/ ApprovePost(u) \/ RejectPost(u) \/ UnpublishPost(u)
  PROVE  PostInv'
<1>0. EventsTyped /\ past \in Past /\ post \in Post \union {NoPost}
  BY DEF TypeOK, WorkflowTypeOK, RowTyped
<1>1. PICK from \in Statuses, to \in Statuses :
        /\ Transition(from, to, TRUE)
        /\ \/ to # "normal" /\ past' = past
           \/ past' = [past EXCEPT !.cleared = past.cleared \union {post.text}]
  <2>1. {"draft", "review", "normal", "deleted"} \subseteq Statuses
    BY DEF Statuses
  <2>2. \A from, to, allowed : Transition(from, to, allowed) => Transition(from, to, TRUE)
    BY DEF Transition
  <2>3. CASE SubmitPost(u)
    BY <2>1, <2>2, <2>3 DEF SubmitPost
  <2>4. CASE RejectPost(u)
    BY <2>1, <2>2, <2>4 DEF RejectPost
  <2>5. CASE UnpublishPost(u)
    BY <2>1, <2>2, <2>5 DEF UnpublishPost
  <2>6. CASE ApprovePost(u)
    BY <2>1, <2>2, <2>6 DEF ApprovePost
  <2> QED
    BY <2>3, <2>4, <2>5, <2>6
<1>2. post \in Post /\ post # NoPost /\ post.status = from /\ post' = [post EXCEPT !.status = to]
  BY <1>0, <1>1 DEF Transition
<1>3. post' \in Post /\ post'.status = to /\ post'.text = post.text
  BY <1>2 DEF Post
<1>4. /\ past'.born = past.born /\ past'.slips = past.slips
      /\ \/ to # "normal" /\ past'.cleared = past.cleared
         \/ past'.cleared = past.cleared \union {post.text}
  BY <1>0, <1>1 DEF Past
<1>5. revisions' = revisions /\ RecordEvent(from, to)
  BY <1>1 DEF Transition
<1>6. PublishedIsCleared'
  BY <1>3, <1>4 DEF PublishedIsCleared
<1>7. Ordered' /\ NewestFits'
  BY <1>2, <1>3, <1>4, <1>5 DEF PostInv, Ordered, NewestFits
<1>8. EventsTell'
  BY <1>0, <1>2, <1>3, <1>4, <1>5, StoryKept DEF PostInv, Explained
<1> QED
  BY <1>6, <1>7, <1>8 DEF PostInv

LEMMA StatusReadTwice ==
  ASSUME NEW r, r.row \in Post, r.prior \in Post, r.user \notin Superusers,
         StatusWritten(r) = "normal"
  PROVE  "status read twice" \in SlipsOf(r)
<1>1. r.row.status # r.prior.status
  BY DEF StatusWritten
<1> QED
  BY <1>1 DEF SlipsOf

(* Slips that concern the text are put right by a snapshot, no others are. *)
LEMMA SlipsStay ==
  /\ "status read twice" \notin TextSlips
  /\ "status changed before admin save" \notin TextSlips
BY DEF TextSlips

LEMMA ClearedGrows ==
  ASSUME PublishedIsCleared, NEW q \in Requests, NEW text, NEW change, NEW status,
         request[q].row \in Post, request[q].prior \in Post,
         past'.cleared = past.cleared \union ClearedBy(request[q].user, text),
         SlipsOf(request[q]) \subseteq past'.slips,
         post'.text = text, post'.status = status,
         request[q].user \in Superusers \/ status = StatusWritten(request[q])
  PROVE  PublishedIsCleared'
<1>1. CASE request[q].user \in Superusers
  BY <1>1 DEF PublishedIsCleared, ClearedBy
<1>2. CASE request[q].user \notin Superusers
  BY <1>2, StatusReadTwice DEF PublishedIsCleared
<1> QED
  BY <1>1, <1>2

LEMMA CommitKeeps ==
  ASSUME TypeOK, PostInv, NEW q \in Requests, NEW text, NEW change, CommitForm(q, text, change)
  PROVE  PostInv'
<1> DEFINE r == request[q]
<1>0. RowTyped /\ RevisionsTyped /\ EventsTyped /\ RequestsTyped /\ WorkflowTypeOK
  BY DEF WorkflowTypeOK, TypeOK
<1>1. r.row \in Post /\ r.prior \in Post /\ r.seen # 0 /\ StatusWritten(r) \in Statuses /\ post \in Post
  BY <1>0, ReadyRequest DEF CommitForm, RowTyped
<1>2. text \in Nat \ {0}
  BY <1>0, <1>1, EditedText DEF CommitForm
<1>3. post' \in Post /\ post'.text = text /\ post'.status = StatusWritten(r)
  <2>1. post' = Saved(r.row, text, StatusWritten(r))
    BY DEF CommitForm, Saved
  <2> QED
    BY <1>1, <1>2, <2>1, SavedRow
<1>4. /\ past'.cleared = past.cleared \union ClearedBy(r.user, text)
      /\ past'.slips = (past.slips \ TextSlips) \union SlipsOf(r)
      /\ past'.born = past.born
  BY <1>0, CommitNoted
<1>5. CreateRevision(text, change) /\ RecordEvent(post.status, post'.status)
  BY <1>3 DEF CommitForm, StatusReplaced
<1>6. PublishedIsCleared'
  BY <1>1, <1>3, <1>4, ClearedGrows DEF PostInv
<1>7. Ordered' /\ NewestFits'
  BY <1>0, <1>2, <1>3, <1>5, OrderKept DEF PostInv, NewestFits
<1>8. EventsTell'
  <2>1. Explained' => Explained
    BY <1>4, SlipsStay DEF Explained
  <2> QED
    BY <1>0, <1>1, <1>3, <1>4, <1>5, <2>1, StoryKept DEF PostInv
<1> QED
  BY <1>6, <1>7, <1>8 DEF PostInv

LEMMA AdminKeeps ==
  ASSUME TypeOK, PostInv, NEW q \in Requests, NEW text, NEW status \in Statuses,
         SaveInAdmin(q, text, status)
  PROVE  PostInv'
<1> DEFINE r == request[q]
<1>0. /\ RowTyped /\ RevisionsTyped /\ EventsTyped /\ RequestsTyped /\ WorkflowTypeOK
      /\ post \in Post \union {NoPost}
  BY DEF WorkflowTypeOK, TypeOK, RowTyped
<1>1. r.row \in Post /\ r.prior \in Post /\ r.seen # 0 /\ r.kind = "admin"
  BY <1>0, ReadyRequest DEF SaveInAdmin
<1>2. text \in Nat \ {0}
  BY <1>0, <1>1, EditedText DEF SaveInAdmin
<1>3. post' \in Post /\ post'.text = text /\ post'.status = status
  <2>1. post' = Saved(r.row, text, status)
    BY DEF SaveInAdmin, Saved
  <2> QED
    BY <1>1, <1>2, <2>1, SavedRow
<1>4. /\ past'.cleared = past.cleared \union ClearedBy(r.user, text)
      /\ past'.born = past.born
      /\ \/ /\ CreateRevision(text, "minor")
            /\ past'.slips = (past.slips \ TextSlips) \union SlipsOf(r)
         \/ /\ text = r.prior.text
            /\ UNCHANGED revisions
            /\ past'.slips = past.slips \union SlipsOf(r)
                 \union (IF r.prior.text # post.text THEN {"text changed before admin save"} ELSE {})
  BY <1>0, AdminNoted DEF SnapshotChanged
<1>5. SlipsOf(r) \subseteq past'.slips /\ past.slips \ TextSlips \subseteq past'.slips
  BY <1>4
<1>6. PublishedIsCleared'
  <2>1. r.user \in Superusers \/ status = StatusWritten(r)
    BY DEF SaveInAdmin
  <2> QED
    BY <1>1, <1>3, <1>4, <1>5, <2>1, ClearedGrows DEF PostInv
<1>7. Ordered' /\ NewestFits'
  <2>1. CASE CreateRevision(text, "minor")
    BY <1>0, <1>2, <1>3, <2>1, OrderKept DEF PostInv, NewestFits
  <2>2. CASE ~CreateRevision(text, "minor")
    <3>1. /\ text = r.prior.text /\ UNCHANGED revisions /\ past.slips \subseteq past'.slips
          /\ r.prior.text # post.text => "text changed before admin save" \in past'.slips
      BY <1>4, <2>2
    <3>2. "text changed before admin save" \in TextSlips
      BY DEF TextSlips
    <3>3. r.prior.text = post.text => post # NoPost
      BY <1>1, RealPost, NothingThere
    <3> QED
      BY <1>3, <3>1, <3>2, <3>3 DEF PostInv, Ordered, NewestFits
  <2> QED
    BY <2>1, <2>2
<1>8. EventsTell'
  <2>1. Explained' => Explained /\ r.prior.status = post.status
    <3>1. r.prior.status # post.status => "status changed before admin save" \in SlipsOf(r)
      BY <1>1 DEF SlipsOf
    <3> QED
      BY <1>5, <3>1, SlipsStay DEF Explained
  <2>2. RecordEvent(r.prior.status, post'.status)
    BY <1>3 DEF SaveInAdmin
  <2>3. CASE Explained'
    <3>1. post \in Post
      BY <1>0, <1>1, <2>1, <2>3, RealPost, NothingThere DEF Statuses
    <3>2. RecordEvent(post.status, post'.status)
      BY <2>1, <2>2, <2>3
    <3> QED
      BY <1>0, <1>3, <1>4, <2>1, <3>1, <3>2, StoryKept DEF PostInv
  <2>4. CASE ~Explained'
    <3>1. post' # NoPost
      BY <1>3, RealPost
    <3> QED
      BY <2>4, <3>1 DEF EventsTell
  <2> QED
    BY <2>3, <2>4
<1> QED
  BY <1>6, <1>7, <1>8 DEF PostInv

LEMMA WrapKeeps ==
  ASSUME TypeOK, PostInv, NEW q \in Requests, SaveWrap(q) \/ ReviseWrap(q), post # NoPost
  PROVE  PostInv'
<1>0. /\ RowTyped /\ RevisionsTyped /\ past \in Past /\ post \in Post /\ texts \in Nat
  BY DEF WorkflowTypeOK, TypeOK, RowTyped
<1>1. CASE SaveWrap(q)
  <2>1. /\ post' = [post EXCEPT !.text = texts + 1] /\ UNCHANGED <<revisions, events>>
        /\ past' = Noted(past.cleared \union {texts + 1}, past.slips \union {"wrapped"})
    BY <1>1 DEF SaveWrap, Noted
  <2>2. post' \in Post /\ post'.text = texts + 1 /\ post'.status = post.status
    BY <1>0, <2>1 DEF Post
  <2>3. /\ past'.cleared = past.cleared \union {texts + 1}
        /\ past'.slips = past.slips \union {"wrapped"} /\ past'.born = past.born
    BY <1>0, <2>1, NotedFields
  <2>4. PublishedIsCleared'
    BY <2>2, <2>3 DEF PublishedIsCleared
  <2>5. Ordered' /\ NewestFits'
    BY <2>1, <2>3 DEF PostInv, Ordered, NewestFits, TextSlips
  <2>6. EventsTell'
    <3>1. Explained' = Explained
      BY <2>3 DEF Explained
    <3>2. post' # NoPost
      BY <2>2, RealPost
    <3> QED
      BY <2>1, <2>2, <2>3, <3>1, <3>2 DEF PostInv, EventsTell
  <2> QED
    BY <2>4, <2>5, <2>6 DEF PostInv
<1>2. CASE ReviseWrap(q)
  <2>1. /\ UNCHANGED <<post, events>> /\ CreateRevision(post.text, "minor")
        /\ past' = [past EXCEPT !.slips = past.slips \ TextSlips]
    BY <1>2 DEF ReviseWrap
  <2>2. /\ past'.cleared = past.cleared /\ past'.born = past.born
        /\ past'.slips = past.slips \ TextSlips
    BY <1>0, <2>1 DEF Past
  <2>3. PublishedIsCleared'
    BY <2>1, <2>2, SlipsStay DEF PostInv, PublishedIsCleared
  <2>4. Ordered' /\ NewestFits'
    BY <1>0, <2>1, RealPost, OrderKept DEF PostInv, NewestFits
  <2>5. EventsTell'
    <3>1. Explained' = Explained
      BY <2>2, SlipsStay DEF Explained
    <3> QED
      BY <2>1, <2>2, <3>1 DEF PostInv, EventsTell
  <2> QED
    BY <2>3, <2>4, <2>5 DEF PostInv
<1> QED
  BY <1>1, <1>2

LEMMA QuietSlip ==
  ASSUME past \in Past, past' = past \/ Slip({}) \/ Slip({"lost write"}) \/ Slip({"one visitor twice"})
  PROVE  /\ past'.cleared = past.cleared /\ past'.born = past.born
         /\ \A s \in Slips \ Miscounts : s \in past'.slips <=> s \in past.slips
<1>1. {"lost write", "one visitor twice"} \subseteq Slips /\ {"lost write", "one visitor twice"} \subseteq Miscounts
  BY DEF Slips, Miscounts
<1>2. {} \in SUBSET Slips /\ {"lost write"} \in SUBSET Slips /\ {"one visitor twice"} \in SUBSET Slips
  BY <1>1
<1>3. CASE past' = past
  BY <1>3
<1>4. CASE Slip({})
  BY <1>2, <1>4, SlipTypes
<1>5. CASE Slip({"lost write"})
  BY <1>1, <1>2, <1>5, SlipTypes
<1>6. CASE Slip({"one visitor twice"})
  BY <1>1, <1>2, <1>6, SlipTypes
<1> QED
  BY <1>3, <1>4, <1>5, <1>6

LEMMA QuietRow ==
  ASSUME post \in Post, NEW n, post' = [post EXCEPT !.uv = n]
  PROVE  /\ post'.status = post.status /\ post'.text = post.text
         /\ post' # NoPost /\ post # NoPost
<1>1. post'.status = post.status /\ post'.text = post.text
  BY DEF Post
<1>2. post.text # 0
  BY RealPost
<1> QED
  BY <1>1, <1>2, NothingThere

LEMMA VisitIsQuiet ==
  ASSUME TypeOK, NEW i \in Visits, VisitStep(i)
  PROVE  Quiet
<1>1. past \in Past /\ post \in Post \union {NoPost}
  BY DEF TypeOK, WorkflowTypeOK, RowTyped
<1>2. UNCHANGED <<revisions, events>>
  BY DEF VisitStep, OpenPost, LookForRows, Count, LeaveView, LeaveVisitor, BreakOff, workflowVars
<1>3. past' = past \/ Slip({}) \/ Slip({"lost write"}) \/ Slip({"one visitor twice"})
  BY DEF VisitStep, OpenPost, LookForRows, Count, LeaveView, LeaveVisitor, BreakOff, LeaveRow, workflowVars
<1>4. post' = post \/ (post # NoPost /\ post' = [post EXCEPT !.uv = Counted(i)])
  BY DEF VisitStep, OpenPost, LookForRows, Count, LeaveView, LeaveVisitor, BreakOff, workflowVars
<1>5. /\ post'.status = post.status /\ post'.text = post.text
      /\ post' = NoPost <=> post = NoPost
  BY <1>1, <1>4, QuietRow
<1> QED
  BY <1>1, <1>2, <1>3, <1>5, QuietSlip DEF Quiet

LEMMA SyncIsQuiet ==
  ASSUME TypeOK, SyncVisits
  PROVE  Quiet
<1>1. past \in Past /\ post \in Post
  BY NothingThere DEF TypeOK, WorkflowTypeOK, RowTyped, SyncVisits
<1>2. /\ post'.status = post.status /\ post'.text = post.text /\ post' # NoPost /\ post # NoPost
  BY <1>1, QuietRow DEF SyncVisits
<1>3. past'.cleared = past.cleared /\ past'.born = past.born /\ past'.slips = past.slips \ Miscounts
  BY <1>1 DEF SyncVisits, Past
<1> QED
  BY <1>2, <1>3 DEF SyncVisits, Quiet

LEMMA WorkflowKeeps ==
  ASSUME TypeOK, PostInv, WorkflowNext
  PROVE  PostInv'
<1>1. ASSUME NEW u \in Users,
             \/ CreatePost(u) \/ CreateInAdmin(u) \/ DeletePost(u)
             \/ SubmitPost(u) \/ ApprovePost(u) \/ RejectPost(u) \/ UnpublishPost(u)
      PROVE  PostInv'
  <2>1. "draft" \in Statuses
    BY DEF Statuses
  <2>2. CASE CreatePost(u) \/ CreateInAdmin(u)
    BY <2>1, <2>2, BornKeeps DEF CreatePost, CreateInAdmin
  <2> QED
    BY <1>1, <2>2, DeleteKeeps, ServiceKeeps
<1>2. ASSUME NEW q \in Requests, EditStep(q)
      PROVE  PostInv'
  <2>1. CASE \/ \E u \in Users : OpenPage(q, u) \/ OpenInAdmin(q, u)
             \/ \E u \in Superusers \union {NoUser} : ReadForWrap(q, u)
             \/ ShowForm(q) \/ ReadRow(q) \/ ReadPrior(q) \/ RefuseForm(q) \/ Abandon(q)
             \/ (SaveWrap(q) \/ ReviseWrap(q)) /\ post = NoPost
    <3>1. UNCHANGED <<post, revisions, events, past>>
      BY <2>1 DEF OpenPage, OpenInAdmin, ReadForWrap, ShowForm, ReadRow, ReadPrior, RefuseForm,
                  Abandon, SaveWrap, ReviseWrap
    <3> QED
      BY <3>1, QuietKeeps DEF Quiet
  <2>2. CASE \E text \in {request[q].seen, texts + 1}, change \in {"major", "minor"} :
               CommitForm(q, text, change)
    BY <2>2, CommitKeeps
  <2>3. CASE \E text \in {request[q].seen, texts + 1}, status \in Statuses : SaveInAdmin(q, text, status)
    BY <2>3, AdminKeeps
  <2>4. CASE (SaveWrap(q) \/ ReviseWrap(q)) /\ post # NoPost
    BY <2>4, WrapKeeps
  <2> QED
    BY <1>2, <2>1, <2>2, <2>3, <2>4 DEF EditStep
<1> QED
  BY <1>1, <1>2 DEF WorkflowNext

LEMMA PostKept == TypeOK /\ PostInv /\ [Next]_vars => PostInv'
<1> SUFFICES ASSUME TypeOK, PostInv, Next \/ UNCHANGED vars
             PROVE  PostInv'
  OBVIOUS
<1>1. CASE WorkflowStep
  BY <1>1, WorkflowKeeps DEF WorkflowStep
<1>2. CASE \E i \in Visits : VisitStep(i)
  BY <1>2, VisitIsQuiet, QuietKeeps
<1>3. CASE SyncVisits
  BY <1>3, SyncIsQuiet, QuietKeeps
<1>4. CASE (\E v \in Visitors : Expire(v)) \/ UNCHANGED vars
  BY <1>4, QuietKeeps DEF Expire, vars, Quiet
<1> QED
  BY <1>1, <1>2, <1>3, <1>4 DEF Next

LEMMA PostIsRight == Spec => [](TypeOK /\ PostInv)
<1>1. Init => PostInv
  <2> SUFFICES ASSUME Init PROVE PostInv
    OBVIOUS
  <2>1. post = NoPost /\ revisions = <<>> /\ events = <<>>
    BY DEF Init, WorkflowInit
  <2>2. Ordered
    BY <2>1 DEF Ordered
  <2> QED
    BY <2>1, <2>2, NothingThere DEF PostInv, PublishedIsCleared, NewestFits, EventsTell
<1> QED
  BY <1>1, PostKept, Types, PTL DEF Spec

(* PERMISSIONS_GUIDE.md: a published text was approved, or written by a     *)
(* superuser, unless the status changed between the two reads of one edit.  *)
THEOREM PublishedTextsAreCleared == Spec => []PublishedIsCleared
BY PostIsRight, PTL DEF PostInv

(* DEVELOPMENT.md: versions only grow, and the newest revision holds what   *)
(* the row holds, outside a rewrap and an overtaken save in the admin.      *)
THEOREM RevisionsFollowTheRow == Spec => []NewestIsCurrent
<1>1. PostInv => NewestIsCurrent
  BY DEF PostInv, Ordered, NewestFits, NewestIsCurrent, Newest
<1> QED
  BY <1>1, PostIsRight, PTL

(* The workflow events lead, one from the status the last one led to, from  *)
(* the first status of the post to the one it has, unless the status        *)
(* changed under an edit in the admin.                                      *)
THEOREM EventsExplainTheStatus == Spec => []StatusIsExplained
<1>1. ASSUME TypeOK, PostInv
      PROVE  StatusIsExplained
  <2> DEFINE first == [from |-> "none", to |-> past.born]
  <2> DEFINE told == <<first>> \o events
  <2> SUFFICES ASSUME post # NoPost, Explained
               PROVE  /\ told[Len(told)].to = post.status
                      /\ \A i \in 1..(Len(told) - 1) : told[i].to = told[i + 1].from
    BY DEF StatusIsExplained, Explained
  <2>1. first.to = past.born /\ events \in Seq(Event)
    BY <1>1 DEF TypeOK, WorkflowTypeOK, EventsTyped
  <2> HIDE DEF first
  <2>2. /\ Len(told) = Len(events) + 1 /\ told[1] = first
        /\ \A i \in 1..Len(events) : told[i + 1] = events[i]
    BY <2>1
  <2> HIDE DEF told
  <2>3. /\ events = <<>> => past.born = post.status
        /\ events # <<>> => events[1].from = past.born /\ events[Len(events)].to = post.status
        /\ \A i \in 1..(Len(events) - 1) : events[i].to = events[i + 1].from
    BY <1>1 DEF PostInv, EventsTell
  <2>4. told[Len(told)].to = post.status
    BY <2>1, <2>2, <2>3
  <2>5. ASSUME NEW i \in 1..Len(events)
        PROVE  told[i].to = told[i + 1].from
    <3>1. CASE i = 1
      BY <2>1, <2>2, <2>3, <3>1
    <3>2. CASE i # 1
      <4>1. i - 1 \in 1..(Len(events) - 1) /\ i - 1 \in 1..Len(events)
        BY <2>1, <3>2
      <4>2. (i - 1) + 1 = i
        OBVIOUS
      <4>3. told[i] = events[i - 1] /\ told[i + 1] = events[i]
        BY <2>2, <4>1, <4>2
      <4>4. events[i - 1].to = events[i].from
        BY <2>3, <4>1, <4>2
      <4> QED
        BY <4>3, <4>4
    <3> QED
      BY <3>1, <3>2
  <2> QED
    BY <2>1, <2>2, <2>4, <2>5
<1> QED
  BY <1>1, PostIsRight, PTL

-----------------------------------------------------------------------------
(* DEVELOPMENT.md: a form replaces the text its page showed, never a newer  *)
(* one, except where the page or the row differs from its own revision.     *)
THEOREM FormsReplaceWhatTheyShowed == Spec => ReplacesWhatWasShown
<1> DEFINE Replaces ==
      \A q \in Requests :
        LET r == request[q] IN
        r.kind = "web" /\ r.pc = "ready" /\ Len(revisions') > Len(revisions) /\ request'[q] = Idle
          => \/ r.seen = post.text
             \/ r.seen # revisions[r.base].text
             \/ post.text # revisions[Newest].text
<1>1. TypeOK /\ [Next]_vars => [Replaces]_workflowVars
  <2> SUFFICES ASSUME TypeOK, Next \/ UNCHANGED vars,
                      NEW q \in Requests,
                      request[q].kind = "web", request[q].pc = "ready",
                      Len(revisions') > Len(revisions), request'[q] = Idle
               PROVE  \/ request[q].seen = post.text
                      \/ request[q].seen # revisions[request[q].base].text
                      \/ post.text # revisions[Newest].text
    BY Zenon
  <2>0. revisions \in Seq(Revision) /\ request \in [Requests -> Request \union {Idle}] /\ request[q] # Idle
    BY IdleRequest DEF TypeOK, WorkflowTypeOK, RevisionsTyped, RequestsTyped
  <2>1. revisions' # revisions
    BY <2>0
  <2>2. WorkflowNext
    BY <2>1, VisitIsQuiet, SyncIsQuiet DEF Next, WorkflowStep, Expire, vars, Quiet
  <2>3. request' # request
    BY <2>0
  <2>4. ASSUME NEW p \in Requests, EditStep(p)
        PROVE  p = q /\ request[p].base = Newest
    <3>1. \A x : request' = [request EXCEPT ![p] = x] => p = q
      BY <2>0
    <3>2. End(p) => p = q
      BY <3>1 DEF End
    <3>3. \/ \E text, change : CommitForm(p, text, change)
          \/ \E text, status : SaveInAdmin(p, text, status)
          \/ ReviseWrap(p)
      BY <2>1, <2>4 DEF EditStep, OpenPage, OpenInAdmin, ReadForWrap, ShowForm, ReadRow, ReadPrior,
                        RefuseForm, Abandon, SaveWrap
    <3>4. p = q
      BY <3>2, <3>3 DEF CommitForm, SaveInAdmin, ReviseWrap
    <3>5. \E text, change : CommitForm(p, text, change)
      BY <3>3, <3>4 DEF SaveInAdmin, ReviseWrap
    <3> QED
      BY <3>4, <3>5 DEF CommitForm, BaseIsNewest
  <2>5. \E p \in Requests : EditStep(p)
    BY <2>1, <2>2, <2>3 DEF WorkflowNext, CreatePost, CreateInAdmin, Born, DeletePost, SubmitPost, ApprovePost,
                     RejectPost, UnpublishPost, Transition
  <2> QED
    BY <2>4, <2>5
<1> QED
  BY <1>1, Types, PTL DEF Spec, ReplacesWhatWasShown
=============================================================================
