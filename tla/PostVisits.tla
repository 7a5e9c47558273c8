----------------------------- MODULE PostVisits -----------------------------
(***************************************************************************)
(* Visitors of the post, beside the requests of PostWorkflow.  A visit     *)
(* looks for traces of the visitor, counts, and leaves its own traces, one *)
(* statement after the other: a cache entry for a minute, and a row of     *)
(* each kind for ever.  The number of views is left out (it is counted     *)
(* with the visitors and nothing refers to it), its rows are not: any row  *)
(* makes a visitor a known one.                                            *)
(***************************************************************************)
EXTENDS PostWorkflow

CONSTANTS
  Visitors,    \* the identities of the visitor_id cookie
  Visits       \* slots of the visits in progress

VARIABLES
  trace,   \* PostVisit rows: <<visitor, "uv" or "pv">>
  recent,  \* visitors with a cache entry
  visit    \* visit[i]: a visit in progress

visitVars == <<trace, recent, visit>>
vars == <<post, revisions, events, request, texts, past, budget, trace, recent, visit>>

(* newView, newVisitor: increase_pv and increase_uv. *)
Visit ==
  [pc : {"look", "count", "pv", "uv"}, who : Visitors, newView : BOOLEAN, newVisitor : BOOLEAN,
   uv : Nat]

NoVisit == [pc |-> "idle", who |-> "nobody", newView |-> FALSE, newVisitor |-> FALSE, uv |-> 0]

TypeOK ==
  /\ WorkflowTypeOK
  /\ trace \subseteq Visitors \X {"uv", "pv"}
  /\ recent \subseteq Visitors
  /\ visit \in [Visits -> Visit \union {NoVisit}]

Init ==
  /\ WorkflowInit
  /\ trace = {}
  /\ recent = {}
  /\ visit = [i \in Visits |-> NoVisit]

Slip(s) == past' = [past EXCEPT !.slips = @ \union s]

InFlight(v) == \E i \in Visits : visit[i].who = v

(* A reader gets the published page, and the visit is recorded afterwards: *)
(* a view counts when the visitor has no cache entry.                      *)
OpenPost(i, v) ==
  /\ visit[i] = NoVisit
  /\ post.status = "normal"
  /\ Spend("operation")
  /\ visit' = [visit EXCEPT ![i] = [NoVisit EXCEPT !.pc = "look", !.who = v, !.uv = post.uv,
                                                  !.newView = v \notin recent]]
  /\ recent' = recent \union {v}
  /\ Slip(IF InFlight(v) THEN {"one visitor twice"} ELSE {})
  /\ UNCHANGED <<post, revisions, events, request, texts, trace>>

Expire(v) ==
  /\ v \in recent
  /\ Spend("mishap")
  /\ recent' = recent \ {v}
  /\ UNCHANGED <<post, revisions, events, request, texts, past, trace, visit>>

(* A row of either kind makes the visitor a known one. *)
LookForRows(i) ==
  /\ visit[i].pc = "look"
  /\ visit' = [visit EXCEPT ![i].pc = "count",
                            ![i].newVisitor = \A k \in {"uv", "pv"} : <<visit[i].who, k>> \notin trace]
  /\ UNCHANGED <<trace, recent>> /\ UNCHANGED workflowVars

(* Seeded fault: the number read with the page is written back plus one. *)
CountedFromPage(i) == visit[i].uv + 1

(* One UPDATE that reads the number itself. *)
Counted(i) == post.uv + 1

(* It changes nothing when the post is gone; a failure is logged and the *)
(* visit goes on.                                                        *)
Count(i) ==
  /\ visit[i].pc = "count"
  /\ visit' = [visit EXCEPT ![i].pc = "pv"]
  /\ \/ /\ post' = IF visit[i].newVisitor /\ post # NoPost
                   THEN [post EXCEPT !.uv = Counted(i)] ELSE post
        /\ UNCHANGED <<past, budget>>
     \/ visit[i].newVisitor /\ Spend("mishap") /\ Slip({"lost write"}) /\ UNCHANGED post
  /\ UNCHANGED <<revisions, events, request, texts, trace, recent>>

(* get_or_create; a row cannot refer to a post that is gone. *)
LeaveRow(i, k) ==
  \/ /\ trace' = IF post = NoPost THEN trace ELSE trace \union {<<visit[i].who, k>>}
     /\ UNCHANGED <<past, budget>>
  \/ Spend("mishap") /\ Slip({"lost write"}) /\ UNCHANGED trace

LeaveView(i) ==
  /\ visit[i].pc = "pv"
  /\ visit' = [visit EXCEPT ![i].pc = "uv"]
  /\ IF visit[i].newView THEN LeaveRow(i, "pv") ELSE UNCHANGED <<trace, past, budget>>
  /\ UNCHANGED <<post, revisions, events, request, texts, recent>>

LeaveVisitor(i) ==
  /\ visit[i].pc = "uv"
  /\ visit' = [visit EXCEPT ![i] = NoVisit]
  /\ IF visit[i].newVisitor THEN LeaveRow(i, "uv") ELSE UNCHANGED <<trace, past, budget>>
  /\ UNCHANGED <<post, revisions, events, request, texts, recent>>

(* The process is killed. *)
BreakOff(i) ==
  /\ visit[i].pc \in {"count", "pv", "uv"}
  /\ Spend("mishap")
  /\ visit' = [visit EXCEPT ![i] = NoVisit]
  /\ Slip({"lost write"})
  /\ UNCHANGED <<post, revisions, events, request, texts, trace, recent>>

Miscounts ==
  {"one visitor twice", "lost write", "counter saved back", "deleted before admin save"}

VisitorRows == {v \in Visitors : <<v, "uv">> \in trace}

(* sync_uv_from_visits, called by hand while nobody visits or edits. *)
SyncVisits ==
  /\ post.status = "normal"
  /\ post.uv # Cardinality(VisitorRows)
  /\ \A i \in Visits : visit[i] = NoVisit
  /\ \A q \in Requests : request[q] = Idle
  /\ post' = [post EXCEPT !.uv = Cardinality(VisitorRows)]
  /\ past' = [past EXCEPT !.slips = @ \ Miscounts]
  /\ UNCHANGED <<revisions, events, request, texts, budget>> /\ UNCHANGED visitVars

(* The rows of visits go with the post; its cache entries stay. *)
WorkflowStep ==
  /\ WorkflowNext
  /\ trace' = IF post' = NoPost THEN {} ELSE trace
  /\ UNCHANGED <<recent, visit>>

VisitStep(i) ==
  \/ \E v \in Visitors : OpenPost(i, v)
  \/ LookForRows(i) \/ Count(i) \/ LeaveView(i) \/ LeaveVisitor(i)
  \/ BreakOff(i)

Next ==
  \/ WorkflowStep
  \/ \E i \in Visits : VisitStep(i)
  \/ \E v \in Visitors : Expire(v)
  \/ SyncVisits

Spec == Init /\ [][Next]_vars

-----------------------------------------------------------------------------
(* models.py: uv caches the number of visitors who have a row.  It is right  *)
(* whenever no visit is under way, as long as no write was lost, no visitor  *)
(* opened the post twice at once and no form saved an old row over it, or    *)
(* over nothing.  The first conjunct gives the types of both modules.        *)
VisitorsAreCounted ==
  /\ TypeOK
  /\ /\ post # NoPost
     /\ \A i \in Visits : visit[i] = NoVisit
     /\ Miscounts \intersect past.slips = {}
     => post.uv = Cardinality(VisitorRows)
=============================================================================
