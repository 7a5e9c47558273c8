------------------------ MODULE AuditDeliveryProofs ------------------------
(***************************************************************************)
(* The delivery of audit events keeps its inductive invariant, counts      *)
(* attempts and implements the audit trail, for any number of events,      *)
(* partitions and workers, and however many leases run out or workers die. *)
(***************************************************************************)
EXTENDS AuditDeliveryInv, FiniteSetTheorems, TLAPS

USE AuditAssumption

(* Events may be infinite in number; those with a row never are.           *)
RowsFinite == IsFiniteSet(Rows)

LEMMA AnyEventIsEvent == AnyEvent \in Events
BY DEF AnyEvent

LEMMA IdleIsWorker == IdleWorker \in Worker /\ IdleWorker.pc = "idle"
BY AnyEventIsEvent DEF IdleWorker, Worker, NoToken, NoHead, ChainHead, NoMac

LEMMA PartitionType == \A e \in Events : PartitionOf[e] \in Partitions
OBVIOUS

LEMMA SpendType ==
  ASSUME NEW d \in Disturbances, TypeOK, Spend(d)
  PROVE  budget' \in [Disturbances -> Nat]
BY DEF TypeOK, Spend

(* Records that have been changed have still their type.                   *)
LEMMA RowEnqueued ==
  ASSUME NEW r \in Row, NEW n \in Nat
  PROVE  [r EXCEPT !.status = "pending", !.due = TRUE, !.rank = n] \in Row
BY DEF Row

LEMMA RowClaimed ==
  ASSUME NEW r \in Row, NEW n \in Nat
  PROVE  [r EXCEPT !.status = "processing", !.stale = FALSE, !.token = n, !.claims = n] \in Row
BY DEF Row

LEMMA WorkerClaims ==
  ASSUME NEW e \in Events, NEW n \in Nat, NEW k \in Nat
  PROVE  [IdleWorker EXCEPT !.pc = "append", !.event = e, !.token = n, !.attempts = k] \in Worker
BY IdleIsWorker DEF Worker

LEMMA WorkerMoves ==
  ASSUME NEW x \in Worker, NEW pc \in {"idle", "append", "commit", "acknowledge", "report"}
  PROVE  [x EXCEPT !.pc = pc] \in Worker
BY DEF Worker

LEMMA WorkerReads ==
  ASSUME NEW x \in Worker, NEW h \in ChainHead, NEW pc \in {"append", "commit"}
  PROVE  [x EXCEPT !.pc = pc, !.head = h] \in Worker
BY DEF Worker

LEMMA WorkerAcknowledges ==
  ASSUME NEW x \in Worker, NEW n \in Nat, NEW m \in Nat
  PROVE  [x EXCEPT !.pc = "acknowledge", !.sequence = n, !.mac = m] \in Worker
BY DEF Worker

(* The row r with the outcome that worker x writes under its lease.         *)
Receipted(r, x) ==
  [r EXCEPT !.status = "delivered", !.attempts = x.attempts + 1, !.token = NoToken,
            !.stale = FALSE, !.sequence = x.sequence, !.mac = x.mac]

Failed(r, x) ==
  [r EXCEPT !.status = IF x.attempts + 1 >= MaxAttempts THEN "dead" ELSE "pending",
            !.attempts = x.attempts + 1, !.due = FALSE, !.token = NoToken, !.stale = FALSE]

LEMMA RowClosed ==
  ASSUME NEW r \in Row, NEW n \in Nat, NEW st \in {"delivered", "dead", "pending"}
  PROVE  /\ [r EXCEPT !.status = st, !.attempts = n, !.due = FALSE, !.token = 0,
                      !.stale = FALSE] \in Row
         /\ \A i, m \in Nat : [r EXCEPT !.status = st, !.attempts = n, !.token = 0,
                                       !.stale = FALSE, !.sequence = i, !.mac = m] \in Row
BY DEF Row

LEMMA RowReceipted == ASSUME NEW r \in Row, NEW x \in Worker PROVE Receipted(r, x) \in Row
<1>1. x.attempts + 1 \in Nat /\ x.sequence \in Nat /\ x.mac \in Nat
  BY DEF Worker
<1>. QED  BY <1>1, RowClosed DEF Receipted, NoToken

LEMMA RowFailed == ASSUME NEW r \in Row, NEW x \in Worker PROVE Failed(r, x) \in Row
<1>1. x.attempts + 1 \in Nat
  BY DEF Worker
<1>2. (IF x.attempts + 1 >= MaxAttempts THEN "dead" ELSE "pending") \in {"dead", "pending"}
  OBVIOUS
<1>3. PICK st \in {"dead", "pending"} :
        st = IF x.attempts + 1 >= MaxAttempts THEN "dead" ELSE "pending"
  BY <1>2
<1>4. Failed(r, x) = [r EXCEPT !.status = st, !.attempts = x.attempts + 1, !.due = FALSE,
                               !.token = 0, !.stale = FALSE]
  BY <1>3 DEF Failed, NoToken
<1>5. PICK n \in Nat : n = x.attempts + 1
  BY <1>1
<1>6. [r EXCEPT !.status = st, !.attempts = n, !.due = FALSE, !.token = 0, !.stale = FALSE] \in Row
  BY RowClosed
<1>. QED  BY <1>4, <1>5, <1>6

(* What a claim makes of a row, and what the worker takes along.            *)
Leased(r) == [r EXCEPT !.status = "processing", !.stale = FALSE,
                       !.token = r.claims + 1, !.claims = r.claims + 1]

Taken(e, r) == [IdleWorker EXCEPT !.pc = "append", !.event = e, !.token = r.claims + 1,
                                  !.attempts = r.attempts]

LEMMA ClaimsNumbered ==
  ASSUME NEW r \in Row
  PROVE  r.claims + 1 \in Nat /\ r.attempts \in Nat
BY DEF Row

(***************************************************************************)
(* Types                                                                   *)
(***************************************************************************)

LEMMA InitTypes == Init => TypeOK /\ RowsFinite
<1>. SUFFICES ASSUME Init PROVE TypeOK /\ RowsFinite
  OBVIOUS
<1>1. NoRow \in Row
  BY DEF NoRow, Row, NoToken, NoMac
<1>2. NoHead \in ChainHead
  BY DEF NoHead, ChainHead, NoMac
<1>3. TypeOK
  BY <1>1, <1>2, IdleIsWorker DEF Init, TypeOK
<1>4. Rows = {}
  BY DEF Init, Rows, NoRow
<1>. QED  BY <1>3, <1>4, FS_EmptySet DEF RowsFinite

LEMMA EnqueueTypes ==
  ASSUME TypeOK, RowsFinite, NEW e \in Events, Enqueue(e)
  PROVE  TypeOK' /\ RowsFinite'
<1>1. Cardinality(Rows) + 1 \in Nat
  BY FS_CardinalityType DEF RowsFinite
<1>2. outbox[e] \in Row
  BY DEF TypeOK
<1>3. [outbox[e] EXCEPT !.status = "pending", !.due = TRUE, !.rank = Cardinality(Rows) + 1] \in Row
  BY <1>1, <1>2, RowEnqueued
<1>4. outbox' = [outbox EXCEPT ![e] =
        [outbox[e] EXCEPT !.status = "pending", !.due = TRUE, !.rank = Cardinality(Rows) + 1]]
  BY DEF Enqueue, TypeOK
<1>5. TypeOK'
  BY <1>3, <1>4 DEF Enqueue, TypeOK
<1>6. Rows' = Rows \union {e}
  BY <1>2, <1>4 DEF Rows, TypeOK, Row
<1>. QED  BY <1>5, <1>6, FS_AddElement DEF RowsFinite

(* No other action changes which events have a row. *)
LEMMA RowsKept ==
  ASSUME RowsFinite, \A e \in Events : outbox'[e].status = "none" <=> outbox[e].status = "none"
  PROVE  RowsFinite'
<1>1. Rows' = Rows
  BY DEF Rows
<1>. QED  BY <1>1 DEF RowsFinite

LEMMA TimeTypes ==
  ASSUME TypeOK, RowsFinite, NEW e \in Events, BackoffEnds(e) \/ LeaseExpires(e)
  PROVE  TypeOK' /\ RowsFinite'
<1>1. outbox[e] \in Row
  BY DEF TypeOK
<1>2. CASE BackoffEnds(e)
  <2>1. [outbox[e] EXCEPT !.due = TRUE] \in Row
    BY <1>1 DEF Row
  <2>2. outbox' = [outbox EXCEPT ![e] = [outbox[e] EXCEPT !.due = TRUE]]
    BY <1>2 DEF BackoffEnds, TypeOK
  <2>3. TypeOK'
    BY <1>2, <2>1, <2>2 DEF BackoffEnds, TypeOK
  <2>4. \A f \in Events : outbox'[f].status = outbox[f].status
    BY <1>1, <2>2 DEF TypeOK, Row
  <2>. QED  BY <2>3, <2>4, RowsKept
<1>3. CASE LeaseExpires(e)
  <2>1. [outbox[e] EXCEPT !.stale = TRUE] \in Row
    BY <1>1 DEF Row
  <2>2. outbox' = [outbox EXCEPT ![e] = [outbox[e] EXCEPT !.stale = TRUE]]
    BY <1>3 DEF LeaseExpires, TypeOK
  <2>3. budget' \in [Disturbances -> Nat]
    BY <1>3, SpendType DEF LeaseExpires, Disturbances, TypeOK
  <2>4. TypeOK'
    BY <1>3, <2>1, <2>2, <2>3 DEF LeaseExpires, TypeOK
  <2>5. \A f \in Events : outbox'[f].status = outbox[f].status
    BY <1>1, <2>2 DEF TypeOK, Row
  <2>. QED  BY <2>4, <2>5, RowsKept
<1>. QED  BY <1>2, <1>3

(* What a claim writes: the row under a token that was never used, and the *)
(* worker's copy of it.                                                    *)
LEMMA ClaimShape ==
  ASSUME TypeOK, NEW w \in Workers, NEW e \in Events, Claim(w, e)
  PROVE  /\ outbox' = [outbox EXCEPT ![e] = Leased(outbox[e])]
         /\ worker' = [worker EXCEPT ![w] = Taken(e, outbox[e])]
         /\ outbox[e] \in Row /\ Leased(outbox[e]) \in Row /\ Taken(e, outbox[e]) \in Worker
<1>1. outbox[e] \in Row
  BY DEF TypeOK
<1>2. outbox' = [outbox EXCEPT ![e] = Leased(outbox[e])]
  BY DEF Claim, TokenOf, Leased, TypeOK
<1>3. worker' = [worker EXCEPT ![w] = Taken(e, outbox[e])]
  BY DEF Claim, TokenOf, Taken
<1>4. PICK n \in Nat, k \in Nat : n = outbox[e].claims + 1 /\ k = outbox[e].attempts
  BY <1>1, ClaimsNumbered
<1>5. Leased(outbox[e]) \in Row
  BY <1>1, <1>4, RowClaimed DEF Leased
<1>6. Taken(e, outbox[e]) \in Worker
  BY <1>4, WorkerClaims DEF Taken
<1>. QED  BY <1>1, <1>2, <1>3, <1>5, <1>6

(* The same, field by field.                                               *)
LEMMA ClaimEffect ==
  ASSUME TypeOK, NEW w \in Workers, NEW e \in Events, Claim(w, e)
  PROVE  /\ outbox'[e].status = "processing" /\ outbox'[e].attempts = outbox[e].attempts
         /\ outbox'[e].token = outbox[e].claims + 1 /\ outbox'[e].claims = outbox[e].claims + 1
         /\ worker'[w].event = e /\ worker'[w].token = outbox[e].claims + 1
         /\ worker'[w].attempts = outbox[e].attempts /\ worker'[w].pc = "append"
         /\ \A f \in Events \ {e} : outbox'[f] = outbox[f]
         /\ \A v \in Workers \ {w} : worker'[v] = worker[v]
<1>1. /\ outbox'[e] = Leased(outbox[e]) /\ worker'[w] = Taken(e, outbox[e])
      /\ \A f \in Events \ {e} : outbox'[f] = outbox[f]
      /\ \A v \in Workers \ {w} : worker'[v] = worker[v]
  BY ClaimShape DEF TypeOK
<1>2. outbox[e] \in Row
  BY DEF TypeOK
<1>3. /\ outbox'[e].status = "processing" /\ outbox'[e].attempts = outbox[e].attempts
      /\ outbox'[e].token = outbox[e].claims + 1 /\ outbox'[e].claims = outbox[e].claims + 1
  BY <1>1, <1>2 DEF Leased, Row
<1>4. /\ worker'[w].event = e /\ worker'[w].token = outbox[e].claims + 1
      /\ worker'[w].attempts = outbox[e].attempts /\ worker'[w].pc = "append"
  BY <1>1 DEF Taken, IdleWorker
<1>. QED  BY <1>1, <1>3, <1>4

LEMMA ClaimTypes ==
  ASSUME TypeOK, RowsFinite, NEW w \in Workers, NEW e \in Events, Claim(w, e)
  PROVE  TypeOK' /\ RowsFinite'
<1>1. outbox' \in [Events -> Row] /\ worker' \in [Workers -> Worker]
  BY ClaimShape DEF TypeOK
<1>2. TypeOK'
  BY <1>1 DEF Claim, TypeOK
<1>3. \A f \in Events : outbox'[f].status = "none" <=> outbox[f].status = "none"
  <2>1. outbox[e].status # "none" /\ outbox'[e].status # "none"
    BY ClaimEffect DEF Claim, Claimable
  <2>2. \A f \in Events \ {e} : outbox'[f] = outbox[f]
    BY ClaimEffect
  <2>. QED  BY <2>1, <2>2
<1>. QED  BY <1>2, <1>3, RowsKept

(* A transaction on the chain moves one worker, which keeps its claim.     *)
LEMMA AppendMoves ==
  ASSUME TypeOK, NEW w \in Workers,
         BeginAppend(w) \/ CommitAppend(w) \/ RetryAppend(w) \/ AppendFails(w)
  PROVE  /\ \A v \in Workers \ {w} : worker'[v] = worker[v]
         /\ worker'[w].event = worker[w].event
         /\ worker'[w].token = worker[w].token
         /\ worker'[w].attempts = worker[w].attempts
<1>1. worker[w] \in Worker
  BY DEF TypeOK
<1>2. ASSUME NEW n, NEW m, worker' = [worker EXCEPT ![w].pc = "acknowledge",
                                                  ![w].sequence = n, ![w].mac = m]
      PROVE  /\ \A v \in Workers \ {w} : worker'[v] = worker[v]
             /\ worker'[w].event = worker[w].event
             /\ worker'[w].token = worker[w].token
             /\ worker'[w].attempts = worker[w].attempts
  BY <1>1, <1>2 DEF TypeOK, Worker
<1>3. ASSUME NEW pc, NEW h, \/ worker' = [worker EXCEPT ![w].pc = pc]
                            \/ worker' = [worker EXCEPT ![w].pc = pc, ![w].head = h]
      PROVE  /\ \A v \in Workers \ {w} : worker'[v] = worker[v]
             /\ worker'[w].event = worker[w].event
             /\ worker'[w].token = worker[w].token
             /\ worker'[w].attempts = worker[w].attempts
  BY <1>1, <1>3 DEF TypeOK, Worker
<1>4. CASE BeginAppend(w)
  BY <1>2, <1>3, <1>4 DEF BeginAppend
<1>5. CASE CommitAppend(w)
  BY <1>2, <1>3, <1>5 DEF CommitAppend
<1>6. CASE RetryAppend(w) \/ AppendFails(w)
  BY <1>3, <1>6 DEF RetryAppend, AppendFails
<1>. QED  BY <1>4, <1>5, <1>6

(* A transaction on the chain touches no row of the outbox.                *)
LEMMA AppendTypes ==
  ASSUME TypeOK, RowsFinite, NEW w \in Workers,
         BeginAppend(w) \/ CommitAppend(w) \/ RetryAppend(w) \/ AppendFails(w)
  PROVE  TypeOK' /\ RowsFinite'
<1>1. worker[w] \in Worker /\ PartitionOf[worker[w].event] \in Partitions
  BY DEF TypeOK, Worker
<1>2. heads[PartitionOf[worker[w].event]] \in ChainHead /\ NoHead \in ChainHead
  BY <1>1 DEF TypeOK, NoHead, ChainHead, NoMac
<1>3. NewDocument(w) \in Document
  BY <1>1 DEF NewDocument, Document, TypeOK, Worker, ChainHead
<1>4. RowsFinite'
  BY RowsKept DEF BeginAppend, CommitAppend, RetryAppend, AppendFails
<1>5. CASE BeginAppend(w)
  <2>. UNCHANGED <<outbox, docs, heads, macs, budget>>
    BY <1>5 DEF BeginAppend
  <2>1. CASE \E d \in docs : worker' = [worker EXCEPT ![w].pc = "acknowledge",
                                      ![w].sequence = d.sequence, ![w].mac = d.mac]
    <3>1. PICK d \in docs : worker' = [worker EXCEPT ![w].pc = "acknowledge",
                                      ![w].sequence = d.sequence, ![w].mac = d.mac]
      BY <2>1
    <3>2. d.sequence \in Nat /\ d.mac \in Nat
      BY DEF TypeOK, Document
    <3>3. worker' \in [Workers -> Worker]
      BY <1>1, <3>1, <3>2, WorkerAcknowledges DEF TypeOK
    <3>. QED  BY <1>4, <3>3 DEF TypeOK
  <2>2. CASE worker' = [worker EXCEPT ![w].pc = "commit",
                                      ![w].head = heads[PartitionOf[worker[w].event]]]
    <3>1. worker' \in [Workers -> Worker]
      BY <1>1, <1>2, <2>2, WorkerReads DEF TypeOK
    <3>. QED  BY <1>4, <3>1 DEF TypeOK
  <2>. QED  BY <1>5, <2>1, <2>2 DEF BeginAppend
<1>6. CASE CommitAppend(w)
  <2>1. docs' \in SUBSET Document /\ macs' \in Nat
    BY <1>3, <1>6 DEF CommitAppend, TypeOK
  <2>2. [sequence |-> NewDocument(w).sequence, mac |-> NewDocument(w).mac] \in ChainHead
    BY <1>3 DEF Document, ChainHead
  <2>3. heads' \in [Partitions -> ChainHead]
    BY <1>3, <1>6, <2>2 DEF CommitAppend, TypeOK
  <2>4. NewDocument(w).sequence \in Nat /\ NewDocument(w).mac \in Nat
    BY <1>3 DEF Document
  <2>5. worker' \in [Workers -> Worker]
    <3>1. CASE worker' = [worker EXCEPT ![w].pc = "report"]
      BY <1>1, <3>1, WorkerMoves DEF TypeOK
    <3>2. CASE worker' = [worker EXCEPT ![w].pc = "acknowledge",
                            ![w].sequence = NewDocument(w).sequence, ![w].mac = NewDocument(w).mac]
      BY <1>1, <2>4, <3>2, WorkerAcknowledges DEF TypeOK
    <3>. QED  BY <1>6, <3>1, <3>2 DEF CommitAppend
  <2>. QED  BY <1>4, <1>6, <2>1, <2>3, <2>5 DEF CommitAppend, TypeOK
<1>7. CASE RetryAppend(w)
  <2>1. worker' \in [Workers -> Worker]
    BY <1>1, <1>2, <1>7, WorkerReads DEF RetryAppend, TypeOK
  <2>. QED  BY <1>4, <1>7, <2>1 DEF RetryAppend, TypeOK
<1>8. CASE AppendFails(w)
  <2>1. worker' \in [Workers -> Worker]
    BY <1>1, <1>8, WorkerMoves DEF AppendFails, TypeOK
  <2>. QED  BY <1>4, <1>8, <2>1 DEF AppendFails, TypeOK
<1>. QED  BY <1>4, <1>5, <1>6, <1>7, <1>8

(* What the end of an attempt writes.                                      *)
LEMMA OutcomeShape ==
  ASSUME TypeOK, NEW w \in Workers,
         Acknowledge(w) \/ ReportFailure(w) \/ CrashWorker(w)
  PROVE  /\ worker' = [worker EXCEPT ![w] = IdleWorker]
         /\ \/ outbox' = outbox
            \/ /\ Acknowledge(w) /\ HoldsLease(w)
               /\ outbox' = [outbox EXCEPT ![worker[w].event] =
                               Receipted(outbox[worker[w].event], worker[w])]
            \/ /\ ReportFailure(w) /\ HoldsLease(w)
               /\ outbox' = [outbox EXCEPT ![worker[w].event] =
                               Failed(outbox[worker[w].event], worker[w])]
<1>1. worker[w].event \in Events
  BY DEF TypeOK, Worker
<1>2. CASE Acknowledge(w)
  BY <1>1, <1>2 DEF Acknowledge, Receipted, TypeOK
<1>3. CASE ReportFailure(w)
  BY <1>1, <1>3 DEF ReportFailure, AttemptsAfter, Failed, TypeOK
<1>4. CASE CrashWorker(w)
  BY <1>4 DEF CrashWorker
<1>. QED  BY <1>2, <1>3, <1>4

LEMMA OutcomeTypes ==
  ASSUME TypeOK, RowsFinite, NEW w \in Workers, NEW e, e = worker[w].event,
         Acknowledge(w) \/ ReportFailure(w) \/ CrashWorker(w)
  PROVE  TypeOK' /\ RowsFinite'
<1>1. worker[w] \in Worker /\ e \in Events /\ outbox[e] \in Row
  BY DEF TypeOK, Worker
<1>2. worker' = [worker EXCEPT ![w] = IdleWorker]
  BY DEF Acknowledge, ReportFailure, CrashWorker
<1>3. worker' \in [Workers -> Worker]
  BY <1>2, IdleIsWorker DEF TypeOK
<1>4. CASE outbox' = outbox
  <2>1. budget' \in [Disturbances -> Nat]
    BY SpendType DEF Acknowledge, ReportFailure, CrashWorker, Disturbances, TypeOK
  <2>2. TypeOK'
    BY <1>3, <1>4, <2>1 DEF Acknowledge, ReportFailure, CrashWorker, TypeOK
  <2>. QED  BY <1>4, <2>2, RowsKept
<1>5. CASE /\ Acknowledge(w) /\ HoldsLease(w)
           /\ outbox' = [outbox EXCEPT ![e] = Receipted(outbox[e], worker[w])]
  <2>1. outbox' = [outbox EXCEPT ![e] = Receipted(outbox[e], worker[w])]
    BY <1>5
  <2>2. Receipted(outbox[e], worker[w]) \in Row
    BY <1>1, RowReceipted
  <2>3. TypeOK'
    <3>1. outbox' \in [Events -> Row]
      BY <1>1, <2>1, <2>2 DEF TypeOK
    <3>. QED  BY <1>3, <1>5, <3>1 DEF Acknowledge, TypeOK
  <2>4. \A f \in Events : outbox'[f].status = "none" <=> outbox[f].status = "none"
    BY <1>1, <1>5, <2>1 DEF Receipted, HoldsLease, TypeOK, Row
  <2>. QED  BY <2>3, <2>4, RowsKept
<1>6. CASE /\ ReportFailure(w) /\ HoldsLease(w)
           /\ outbox' = [outbox EXCEPT ![e] = Failed(outbox[e], worker[w])]
  <2>1. outbox' = [outbox EXCEPT ![e] = Failed(outbox[e], worker[w])]
    BY <1>6
  <2>2. Failed(outbox[e], worker[w]) \in Row
    BY <1>1, RowFailed
  <2>3. TypeOK'
    <3>1. outbox' \in [Events -> Row]
      BY <1>1, <2>1, <2>2 DEF TypeOK
    <3>. QED  BY <1>3, <1>6, <3>1 DEF ReportFailure, TypeOK
  <2>4. \A f \in Events : outbox'[f].status = "none" <=> outbox[f].status = "none"
    BY <1>1, <1>6, <2>1 DEF Failed, HoldsLease, TypeOK, Row
  <2>. QED  BY <2>3, <2>4, RowsKept
<1>. QED  BY <1>4, <1>5, <1>6, OutcomeShape

LEMMA NextTypes ==
  ASSUME TypeOK, RowsFinite, [Next]_vars
  PROVE  TypeOK' /\ RowsFinite'
<1>1. CASE UNCHANGED vars
  BY <1>1, RowsKept DEF vars, TypeOK
<1>2. ASSUME NEW e \in Events, Enqueue(e) \/ BackoffEnds(e) \/ LeaseExpires(e)
      PROVE  TypeOK' /\ RowsFinite'
  BY <1>2, EnqueueTypes, TimeTypes
<1>3. ASSUME NEW w \in Workers, WorkerStep(w) \/ CrashWorker(w)
      PROVE  TypeOK' /\ RowsFinite'
  BY <1>3, AppendTypes, OutcomeTypes DEF WorkerStep
<1>4. ASSUME NEW w \in Workers, NEW e \in Events, Claim(w, e)
      PROVE  TypeOK' /\ RowsFinite'
  BY <1>4, ClaimTypes
<1>. QED  BY <1>1, <1>2, <1>3, <1>4 DEF Next

(***************************************************************************)
(* Leases                                                                  *)
(***************************************************************************)

LEMMA LeasesExclude == TypeOK /\ LeaseInv => OneLeasePerEvent
BY DEF LeaseInv, OneLeasePerEvent, HoldsLease

(* Rows stay as they are, workers keep what they know of their rows.       *)
LEMMA LeaseKeptByWorkers ==
  ASSUME TypeOK, LeaseInv, outbox' = outbox,
         \A w \in Workers : worker'[w].pc # "idle" =>
           /\ worker[w].pc # "idle"
           /\ worker'[w].event = worker[w].event
           /\ worker'[w].token = worker[w].token
           /\ worker'[w].attempts = worker[w].attempts
  PROVE  LeaseInv'
BY DEF LeaseInv, HoldsLease

LEMMA LeaseKeptByRows ==
  ASSUME TypeOK, LeaseInv, worker' = worker,
         \A e \in Events :
           /\ outbox'[e].token = outbox[e].token
           /\ outbox'[e].claims = outbox[e].claims
           /\ outbox'[e].attempts = outbox[e].attempts
           /\ \/ outbox'[e].status = outbox[e].status
              \/ outbox[e].status = "none" /\ outbox'[e].status = "pending"
  PROVE  LeaseInv'
<1>1. \A w \in Workers : worker[w].event \in Events
  BY DEF TypeOK, Worker
<1>. QED  BY <1>1 DEF LeaseInv, HoldsLease

LEMMA RowStepKeepsLease ==
  ASSUME TypeOK, LeaseInv, NEW e \in Events, Enqueue(e) \/ BackoffEnds(e) \/ LeaseExpires(e)
  PROVE  LeaseInv'
<1>1. \A f \in Events :
        /\ outbox'[f].token = outbox[f].token
        /\ outbox'[f].claims = outbox[f].claims
        /\ outbox'[f].attempts = outbox[f].attempts
        /\ \/ outbox'[f].status = outbox[f].status
           \/ outbox[f].status = "none" /\ outbox'[f].status = "pending"
  BY DEF Enqueue, BackoffEnds, LeaseExpires, TypeOK, Row
<1>. QED  BY <1>1, LeaseKeptByRows DEF Enqueue, BackoffEnds, LeaseExpires

LEMMA AppendKeepsLease ==
  ASSUME TypeOK, LeaseInv, NEW w \in Workers,
         BeginAppend(w) \/ CommitAppend(w) \/ RetryAppend(w) \/ AppendFails(w)
  PROVE  LeaseInv'
<1>1. worker[w].pc # "idle" /\ outbox' = outbox
  BY DEF BeginAppend, CommitAppend, RetryAppend, AppendFails
<1>2. \A v \in Workers \ {w} : worker'[v] = worker[v]
  BY AppendMoves
<1>3. /\ worker'[w].event = worker[w].event
      /\ worker'[w].token = worker[w].token
      /\ worker'[w].attempts = worker[w].attempts
  BY AppendMoves
<1>. QED  BY <1>1, <1>2, <1>3, LeaseKeptByWorkers

(* The token of a claim is larger than every token there is: whoever held  *)
(* the row before holds it no longer.                                      *)
LEMMA ClaimKeepsLease ==
  ASSUME TypeOK, LeaseInv, NEW w \in Workers, NEW e \in Events, Claim(w, e)
  PROVE  LeaseInv'
<1>1. /\ outbox'[e].status = "processing" /\ outbox'[e].attempts = outbox[e].attempts
      /\ outbox'[e].token = outbox[e].claims + 1 /\ outbox'[e].claims = outbox[e].claims + 1
  BY ClaimEffect
<1>2. /\ worker'[w].event = e /\ worker'[w].token = outbox[e].claims + 1
      /\ worker'[w].attempts = outbox[e].attempts /\ worker'[w].pc = "append"
  BY ClaimEffect
<1>3. /\ \A f \in Events \ {e} : outbox'[f] = outbox[f]
      /\ \A v \in Workers \ {w} : worker'[v] = worker[v]
  BY ClaimEffect
<1>4. outbox[e].claims \in Nat /\ outbox[e].status \in {"pending", "processing"}
  BY DEF TypeOK, Row, Claim, Claimable
<1>5. \A f \in Events :
        /\ outbox'[f].token <= outbox'[f].claims
        /\ outbox'[f].status = "processing" <=> outbox'[f].token # NoToken
        /\ outbox'[f].status \in {"none", "pending", "processing"} =>
             outbox'[f].attempts < MaxAttempts
  <2>1. outbox[e].attempts < MaxAttempts
    BY <1>4 DEF LeaseInv
  <2>. QED  BY <1>1, <1>3, <1>4, <2>1 DEF LeaseInv, NoToken
<1>6. \A v \in Workers : worker'[v].pc # "idle" =>
        /\ worker'[v].token # NoToken
        /\ worker'[v].token <= outbox'[worker'[v].event].claims
        /\ outbox'[worker'[v].event].status # "none"
        /\ HoldsLease(v)' => worker'[v].attempts = outbox'[worker'[v].event].attempts
  <2>. SUFFICES ASSUME NEW v \in Workers, worker'[v].pc # "idle"
                PROVE  /\ worker'[v].token # NoToken
                       /\ worker'[v].token <= outbox'[worker'[v].event].claims
                       /\ outbox'[worker'[v].event].status # "none"
                       /\ HoldsLease(v)' => worker'[v].attempts = outbox'[worker'[v].event].attempts
    OBVIOUS
  <2>1. CASE v = w
    BY <1>1, <1>2, <1>4, <2>1 DEF NoToken
  <2>2. CASE v # w
    <3>1. worker'[v] = worker[v] /\ worker[v].event \in Events /\ worker[v].token \in Nat
      BY <1>3, <2>2 DEF TypeOK, Worker
    <3>2. worker[v].token # NoToken /\ worker[v].token <= outbox[worker[v].event].claims
      BY <3>1 DEF LeaseInv
    <3>3. CASE worker[v].event = e
      BY <1>1, <1>4, <3>1, <3>2, <3>3 DEF HoldsLease
    <3>4. CASE worker[v].event # e
      BY <1>3, <3>1, <3>4 DEF LeaseInv, HoldsLease
    <3>. QED  BY <3>3, <3>4
  <2>. QED  BY <2>1, <2>2
<1>7. \A u, v \in Workers :
        /\ u # v /\ worker'[u].event = worker'[v].event
        /\ worker'[u].pc # "idle" /\ worker'[v].pc # "idle"
        => worker'[u].token # worker'[v].token
  <2>1. \A v \in Workers \ {w} : worker[v].pc # "idle" /\ worker[v].event = e =>
          worker[v].token # outbox[e].claims + 1
    BY <1>4 DEF LeaseInv, TypeOK, Worker
  <2>. QED  BY <1>2, <1>3, <2>1 DEF LeaseInv
<1>. QED  BY <1>5, <1>6, <1>7 DEF LeaseInv

(* A row that is closed has no token: no worker holds it any more.         *)
LEMMA OutcomeKeepsLease ==
  ASSUME TypeOK, LeaseInv, NEW w \in Workers,
         Acknowledge(w) \/ ReportFailure(w) \/ CrashWorker(w)
  PROVE  LeaseInv'
<1>. DEFINE e == worker[w].event
<1>1. worker[w].pc # "idle" /\ e \in Events /\ outbox[e] \in Row /\ worker[w] \in Worker
  BY DEF Acknowledge, ReportFailure, CrashWorker, TypeOK, Worker
<1>2. worker'[w].pc = "idle" /\ \A v \in Workers \ {w} : worker'[v] = worker[v]
  BY IdleIsWorker DEF Acknowledge, ReportFailure, CrashWorker, TypeOK
<1>3. CASE outbox' = outbox
  BY <1>2, <1>3, LeaseKeptByWorkers
<1>4. CASE HoldsLease(w) /\ (\/ outbox' = [outbox EXCEPT ![e] = Receipted(outbox[e], worker[w])]
                             \/ outbox' = [outbox EXCEPT ![e] = Failed(outbox[e], worker[w])])
  <2>1. /\ outbox'[e].token = NoToken /\ outbox'[e].claims = outbox[e].claims
        /\ outbox'[e].status \in {"delivered", "dead", "pending"}
        /\ outbox'[e].status = "pending" => outbox'[e].attempts < MaxAttempts
    <3>1. worker[w].attempts + 1 \in Nat
      BY <1>1 DEF Worker
    <3>2. CASE outbox' = [outbox EXCEPT ![e] = Receipted(outbox[e], worker[w])]
      BY <1>1, <3>2 DEF TypeOK, Row, Receipted
    <3>3. CASE outbox' = [outbox EXCEPT ![e] = Failed(outbox[e], worker[w])]
      <4>1. outbox'[e] = Failed(outbox[e], worker[w])
        BY <1>1, <3>3 DEF TypeOK
      <4>. QED  BY <1>1, <3>1, <4>1 DEF Row, Failed
    <3>. QED  BY <1>4, <3>2, <3>3
  <2>2. \A f \in Events \ {e} : outbox'[f] = outbox[f]
    BY <1>4 DEF TypeOK
  <2>3. outbox'[e].status # "processing" /\ outbox'[e].status # "none"
    BY <2>1
  <2>4. \A f \in Events :
          /\ outbox'[f].token <= outbox'[f].claims
          /\ outbox'[f].status = "processing" <=> outbox'[f].token # NoToken
          /\ outbox'[f].status \in {"none", "pending", "processing"} =>
               outbox'[f].attempts < MaxAttempts
    <3>1. NoToken <= outbox[e].claims
      BY <1>1 DEF Row, NoToken
    <3>. QED  BY <2>1, <2>2, <2>3, <3>1 DEF LeaseInv
  <2>5. \A v \in Workers : worker'[v].pc # "idle" =>
          /\ worker'[v].token # NoToken
          /\ worker'[v].token <= outbox'[worker'[v].event].claims
          /\ outbox'[worker'[v].event].status # "none"
          /\ HoldsLease(v)' => worker'[v].attempts = outbox'[worker'[v].event].attempts
    <3>. SUFFICES ASSUME NEW v \in Workers \ {w}, worker[v].pc # "idle"
                  PROVE  /\ worker[v].token # NoToken
                         /\ worker[v].token <= outbox'[worker[v].event].claims
                         /\ outbox'[worker[v].event].status # "none"
                         /\ HoldsLease(v)' => worker[v].attempts = outbox'[worker[v].event].attempts
      BY <1>2
    <3>1. worker[v].event \in Events /\ worker'[v] = worker[v]
      BY <1>2 DEF TypeOK, Worker
    <3>2. CASE worker[v].event = e
      BY <2>1, <2>3, <3>1, <3>2 DEF LeaseInv, HoldsLease
    <3>3. CASE worker[v].event # e
      BY <2>2, <3>1, <3>3 DEF LeaseInv, HoldsLease
    <3>. QED  BY <3>2, <3>3
  <2>6. \A u, v \in Workers :
          /\ u # v /\ worker'[u].event = worker'[v].event
          /\ worker'[u].pc # "idle" /\ worker'[v].pc # "idle"
          => worker'[u].token # worker'[v].token
    BY <1>2 DEF LeaseInv
  <2>. QED  BY <2>4, <2>5, <2>6 DEF LeaseInv
<1>. QED  BY <1>3, <1>4, OutcomeShape

LEMMA NextLeases ==
  ASSUME TypeOK, LeaseInv, [Next]_vars
  PROVE  LeaseInv'
<1>1. CASE UNCHANGED vars
  BY <1>1, LeaseKeptByWorkers DEF vars
<1>2. ASSUME NEW e \in Events, Enqueue(e) \/ BackoffEnds(e) \/ LeaseExpires(e)
      PROVE  LeaseInv'
  BY <1>2, RowStepKeepsLease
<1>3. ASSUME NEW w \in Workers, WorkerStep(w) \/ CrashWorker(w)
      PROVE  LeaseInv'
  BY <1>3, AppendKeepsLease, OutcomeKeepsLease DEF WorkerStep
<1>4. ASSUME NEW w \in Workers, NEW e \in Events, Claim(w, e)
      PROVE  LeaseInv'
  BY <1>4, ClaimKeepsLease
<1>. QED  BY <1>1, <1>2, <1>3, <1>4 DEF Next

(***************************************************************************)
(* The chain                                                               *)
(***************************************************************************)

(* Whoever is at work on the chain after the step was so before, with the  *)
(* same snapshot and the same receipt.                                     *)
LEMMA ChainKept ==
  ASSUME TypeOK, ChainInv, docs' = docs, heads' = heads,
         \A e \in Events : outbox[e].status # "none" => outbox'[e].status # "none",
         \A w \in Workers : worker'[w].pc \in {"commit", "acknowledge"} =>
           /\ worker'[w].pc = worker[w].pc /\ worker'[w].event = worker[w].event
           /\ worker'[w].head = worker[w].head /\ worker'[w].sequence = worker[w].sequence
           /\ worker'[w].mac = worker[w].mac
  PROVE  ChainInv'
<1>1. ChainIntact' /\ EventOnce'
  BY DEF ChainInv, ChainIntact, EventOnce, Before
<1>2. \A d \in docs : d.event \in Events
  BY DEF TypeOK, Document
<1>3. \A w \in Workers : worker'[w].pc = "commit" =>
        /\ worker'[w].head.sequence <= heads'[PartitionOf[worker'[w].event]].sequence
        /\ \A d \in docs' : d.event = worker'[w].event => d.sequence > worker'[w].head.sequence
  BY DEF ChainInv
<1>4. \A w \in Workers : worker'[w].pc = "acknowledge" =>
        \E d \in docs' : /\ d.event = worker'[w].event
                         /\ d.sequence = worker'[w].sequence /\ d.mac = worker'[w].mac
  BY DEF ChainInv
<1>. QED  BY <1>1, <1>2, <1>3, <1>4 DEF ChainInv

LEMMA RowStepKeepsChain ==
  ASSUME TypeOK, ChainInv, NEW e \in Events, Enqueue(e) \/ BackoffEnds(e) \/ LeaseExpires(e)
  PROVE  ChainInv'
<1>1. \A f \in Events : outbox[f].status # "none" => outbox'[f].status # "none"
  BY DEF Enqueue, BackoffEnds, LeaseExpires, TypeOK, Row
<1>. QED  BY <1>1, ChainKept DEF Enqueue, BackoffEnds, LeaseExpires

LEMMA ClaimKeepsChain ==
  ASSUME TypeOK, ChainInv, NEW w \in Workers, NEW e \in Events, Claim(w, e)
  PROVE  ChainInv'
<1>1. \A f \in Events : outbox[f].status # "none" => outbox'[f].status # "none"
  BY ClaimEffect
<1>2. \A v \in Workers : worker'[v].pc \in {"commit", "acknowledge"} => worker'[v] = worker[v]
  BY ClaimEffect
<1>. QED  BY <1>1, <1>2, ChainKept DEF Claim

LEMMA OutcomeKeepsChain ==
  ASSUME TypeOK, LeaseInv, ChainInv, NEW w \in Workers,
         Acknowledge(w) \/ ReportFailure(w) \/ CrashWorker(w)
  PROVE  ChainInv'
<1>1. worker'[w].pc = "idle" /\ \A v \in Workers \ {w} : worker'[v] = worker[v]
  BY IdleIsWorker, OutcomeShape DEF TypeOK
<1>2. worker[w].event \in Events /\ outbox[worker[w].event] \in Row
  BY DEF TypeOK, Worker
<1>3. Receipted(outbox[worker[w].event], worker[w]).status # "none"
  BY <1>2 DEF Receipted, Row
<1>4. Failed(outbox[worker[w].event], worker[w]).status # "none"
  BY <1>2 DEF Failed, Row
<1>5. \A f \in Events : outbox[f].status # "none" => outbox'[f].status # "none"
  BY <1>2, <1>3, <1>4, OutcomeShape DEF TypeOK
<1>6. docs' = docs /\ heads' = heads
  BY DEF Acknowledge, ReportFailure, CrashWorker
<1>. QED  BY <1>1, <1>5, <1>6, ChainKept

(* The snapshot shows the event, then its document is the receipt; or it   *)
(* does not, and whatever document the event gets lies behind the head.    *)
LEMMA BeginKeepsChain ==
  ASSUME TypeOK, ChainInv, NEW w \in Workers, BeginAppend(w)
  PROVE  ChainInv'
<1>. DEFINE e == worker[w].event
<1>1. worker[w] \in Worker /\ UNCHANGED <<outbox, docs, heads, macs>>
  BY DEF BeginAppend, TypeOK
<1>2. \A v \in Workers \ {w} : worker'[v] = worker[v]
  BY AppendMoves
<1>3. ChainIntact' /\ EventOnce'
  BY <1>1 DEF ChainInv, ChainIntact, EventOnce, Before
<1>4. CASE \E d \in docs : /\ d.event = e
                           /\ worker' = [worker EXCEPT ![w].pc = "acknowledge",
                                            ![w].sequence = d.sequence, ![w].mac = d.mac]
  <2>1. PICK d \in docs : /\ d.event = e
                          /\ worker' = [worker EXCEPT ![w].pc = "acknowledge",
                                             ![w].sequence = d.sequence, ![w].mac = d.mac]
    BY <1>4
  <2>2. /\ worker'[w].pc = "acknowledge" /\ worker'[w].event = d.event
        /\ worker'[w].sequence = d.sequence /\ worker'[w].mac = d.mac
    BY <1>1, <2>1 DEF TypeOK, Worker
  <2>. QED  BY <1>1, <1>2, <1>3, <2>2 DEF ChainInv
<1>5. CASE /\ {d \in docs : d.event = e} = {}
           /\ worker' = [worker EXCEPT ![w].pc = "commit", ![w].head = heads[PartitionOf[e]]]
  <2>1. worker'[w].pc = "commit" /\ worker'[w].event = e /\ worker'[w].head = heads[PartitionOf[e]]
    BY <1>1, <1>5 DEF TypeOK, Worker
  <2>2. heads[PartitionOf[e]].sequence \in Nat /\ e \in Events
    BY <1>1 DEF TypeOK, ChainHead, Worker
  <2>3. \A d \in docs : d.event # worker'[w].event
    BY <1>5, <2>1
  <2>4. \A v \in Workers : worker'[v].pc = "commit" =>
          /\ worker'[v].head.sequence <= heads'[PartitionOf[worker'[v].event]].sequence
          /\ \A d \in docs' : d.event = worker'[v].event => d.sequence > worker'[v].head.sequence
    BY <1>1, <1>2, <2>1, <2>2, <2>3 DEF ChainInv
  <2>5. \A v \in Workers : worker'[v].pc = "acknowledge" =>
          \E d \in docs' : /\ d.event = worker'[v].event
                           /\ d.sequence = worker'[v].sequence /\ d.mac = worker'[v].mac
    BY <1>1, <1>2, <2>1 DEF ChainInv
  <2>. QED  BY <1>1, <1>3, <2>4, <2>5 DEF ChainInv
<1>. QED  BY <1>4, <1>5 DEF BeginAppend

LEMMA GiveUpKeepsChain ==
  ASSUME TypeOK, ChainInv, NEW w \in Workers, RetryAppend(w) \/ AppendFails(w)
  PROVE  ChainInv'
<1>1. worker'[w].pc \in {"append", "report"}
  <2>1. worker[w] \in Worker
    BY DEF TypeOK
  <2>. QED  BY <2>1 DEF RetryAppend, AppendFails, TypeOK, Worker
<1>2. \A v \in Workers \ {w} : worker'[v] = worker[v]
  BY AppendMoves
<1>. QED  BY <1>1, <1>2, ChainKept DEF RetryAppend, AppendFails

(* What a commit finds: the head is the one of its snapshot, so the event  *)
(* is not in the chain, and the new document is the next of its partition. *)
LEMMA CommitFinds ==
  ASSUME TypeOK, ChainInv, NEW w \in Workers, CommitAppend(w), NEW p, NEW n,
         p = PartitionOf[worker[w].event], n = NewDocument(w)
  PROVE  /\ n \in Document /\ p \in Partitions
         /\ n.partition = p /\ n.event = worker[w].event
         /\ n.sequence = heads[p].sequence + 1 /\ n.previous = heads[p].mac
         /\ heads[p].sequence \in Nat
         /\ docs' = docs \union {n}
         /\ heads' = [heads EXCEPT ![p] = [sequence |-> n.sequence, mac |-> n.mac]]
         /\ \A d \in docs : d.event # n.event
         /\ \A d \in docs : d.partition = p => d.sequence < n.sequence
<1>1. worker[w] \in Worker /\ p \in Partitions /\ worker[w].event \in Events
  BY DEF TypeOK, Worker
<1>2. heads[p] \in ChainHead /\ worker[w].head = heads[p]
  BY <1>1 DEF CommitAppend, HeadUnchanged, TypeOK
<1>3. /\ n.partition = p /\ n.event = worker[w].event
      /\ n.sequence = heads[p].sequence + 1 /\ n.previous = heads[p].mac /\ n.mac = macs + 1
  BY <1>2 DEF NewDocument
<1>4. heads[p].sequence \in Nat /\ heads[p].mac \in Nat /\ macs \in Nat
  BY <1>2 DEF ChainHead, TypeOK
<1>5. n \in Document
  BY <1>1, <1>2, <1>4 DEF NewDocument, Document
<1>6. \A d \in docs : d.partition = p => d.sequence <= heads[p].sequence /\ d.sequence \in Nat
  BY DEF ChainInv, ChainIntact, TypeOK, Document
<1>7. \A d \in docs : d.event # n.event
  <2>. SUFFICES ASSUME NEW d \in docs, d.event = worker[w].event
                PROVE  FALSE
    BY <1>3
  <2>1. d.partition = p
    BY DEF ChainInv, EventOnce
  <2>2. d.sequence > heads[p].sequence
    BY <1>2 DEF ChainInv, CommitAppend
  <2>. QED  BY <1>4, <1>6, <2>1, <2>2
<1>8. \A d \in docs : d.partition = p => d.sequence < n.sequence
  BY <1>3, <1>4, <1>6
<1>9. /\ docs' = docs \union {n}
      /\ heads' = [heads EXCEPT ![p] = [sequence |-> n.sequence, mac |-> n.mac]]
  BY <1>3 DEF CommitAppend
<1>. QED  BY <1>1, <1>3, <1>4, <1>5, <1>7, <1>8, <1>9

(* The worker goes on to acknowledge its document, or takes a lost reply   *)
(* for a failure.                                                          *)
LEMMA CommitMoves ==
  ASSUME TypeOK, NEW w \in Workers, CommitAppend(w)
  PROVE  \/ worker'[w].pc = "report"
         \/ /\ worker'[w].pc = "acknowledge"
            /\ worker'[w].sequence = NewDocument(w).sequence
            /\ worker'[w].mac = NewDocument(w).mac
<1>1. worker[w] \in Worker
  BY DEF TypeOK
<1>2. CASE worker' = [worker EXCEPT ![w].pc = "report"]
  BY <1>1, <1>2 DEF TypeOK, Worker
<1>3. CASE worker' = [worker EXCEPT ![w].pc = "acknowledge",
                        ![w].sequence = NewDocument(w).sequence, ![w].mac = NewDocument(w).mac]
  <2>1. PICK i, m : i = NewDocument(w).sequence /\ m = NewDocument(w).mac
    OBVIOUS
  <2>2. worker' = [worker EXCEPT ![w].pc = "acknowledge", ![w].sequence = i, ![w].mac = m]
    BY <1>3, <2>1
  <2>3. worker'[w].pc = "acknowledge" /\ worker'[w].sequence = i /\ worker'[w].mac = m
    BY <1>1, <2>2 DEF TypeOK, Worker
  <2>. QED  BY <2>1, <2>3
<1>. QED  BY <1>2, <1>3 DEF CommitAppend

LEMMA CommitKeepsChain ==
  ASSUME TypeOK, LeaseInv, ChainInv, NEW w \in Workers, CommitAppend(w)
  PROVE  ChainInv'
<1>. DEFINE p == PartitionOf[worker[w].event]
<1>0. PICK n : n = NewDocument(w)
  OBVIOUS
<1>1. /\ n \in Document /\ p \in Partitions
      /\ n.partition = p /\ n.event = worker[w].event
      /\ n.sequence = heads[p].sequence + 1 /\ n.previous = heads[p].mac
      /\ heads[p].sequence \in Nat
      /\ docs' = docs \union {n}
      /\ heads' = [heads EXCEPT ![p] = [sequence |-> n.sequence, mac |-> n.mac]]
      /\ \A d \in docs : d.event # n.event
      /\ \A d \in docs : d.partition = p => d.sequence < n.sequence
  BY <1>0, CommitFinds
<1>2. /\ heads'[p].sequence = n.sequence /\ heads'[p].mac = n.mac
      /\ \A q \in Partitions \ {p} : heads'[q] = heads[q]
      /\ n.sequence \in Nat \ {0}
      /\ \A d \in docs : d.sequence \in Nat \ {0} /\ d.partition \in Partitions
  BY <1>1 DEF TypeOK, Document
<1>20. \A q \in Partitions : \A i \in 1..heads[q].sequence :
         \E d \in docs : d.partition = q /\ d.sequence = i
  BY DEF ChainInv, ChainIntact
<1>22. \A d \in docs : /\ d.sequence <= heads[d.partition].sequence
                       /\ d.sequence = heads[d.partition].sequence =>
                            d.mac = heads[d.partition].mac
  BY DEF ChainInv, ChainIntact
<1>24. \A d \in docs : d.sequence = 1 => d.previous = NoMac
  BY DEF ChainInv, ChainIntact
<1>23. \A c, d \in docs : c.partition = d.partition /\ c.sequence = d.sequence => c = d
  BY DEF ChainInv, ChainIntact
<1>21. /\ \A q \in Partitions : heads[q].sequence = 0 => heads[q].mac = NoMac
       /\ \A d \in docs : outbox[d.event].status # "none"
  BY DEF ChainInv
<1>3. \A q \in Partitions : \A i \in 1..heads'[q].sequence :
        \E d \in docs' : d.partition = q /\ d.sequence = i
  <2>. SUFFICES ASSUME NEW q \in Partitions, NEW i \in 1..heads'[q].sequence
                PROVE  \E d \in docs' : d.partition = q /\ d.sequence = i
    OBVIOUS
  <2>1. CASE q = p /\ i = n.sequence
    BY <1>1, <2>1
  <2>2. CASE q = p /\ i # n.sequence
    <3>1. i \in 1..heads[p].sequence
      BY <1>1, <1>2, <2>2
    <3>. QED  BY <1>1, <1>20, <2>2, <3>1
  <2>3. CASE q # p
    <3>1. heads'[q] = heads[q] /\ docs \subseteq docs'
      BY <1>1, <1>2, <2>3
    <3>. QED  BY <1>20, <3>1
  <2>. QED  BY <2>1, <2>2, <2>3
<1>4. \A d \in docs' :
        /\ d.sequence <= heads'[d.partition].sequence
        /\ d.sequence = heads'[d.partition].sequence => d.mac = heads'[d.partition].mac
  <2>. SUFFICES ASSUME NEW d \in docs'
                PROVE  /\ d.sequence <= heads'[d.partition].sequence
                       /\ d.sequence = heads'[d.partition].sequence => d.mac = heads'[d.partition].mac
    OBVIOUS
  <2>1. CASE d = n
    BY <1>1, <1>2, <2>1
  <2>2. CASE d # n /\ d.partition = p
    BY <1>1, <1>2, <2>2
  <2>3. CASE d # n /\ d.partition # p
    <3>1. d \in docs
      BY <1>1, <2>3
    <3>2. heads'[d.partition] = heads[d.partition]
      BY <1>2, <2>3, <3>1
    <3>. QED  BY <1>22, <3>1, <3>2
  <2>. QED  BY <2>1, <2>2, <2>3
<1>5. \A d \in docs' : d.sequence = 1 => d.previous = NoMac
  <2>1. n.sequence = 1 => n.previous = NoMac
    BY <1>1, <1>2, <1>21
  <2>2. docs' = docs \union {n}
    BY <1>1
  <2>. QED  BY <1>24, <2>1, <2>2
<1>6. \A d \in docs' : \A c \in docs' :
        c.partition = d.partition /\ c.sequence = d.sequence - 1 => d.previous = c.mac
  <2>. SUFFICES ASSUME NEW d \in docs', NEW c \in docs', c.partition = d.partition,
                       c.sequence = d.sequence - 1
                PROVE  d.previous = c.mac
    OBVIOUS
  <2>1. CASE d = n
    <3>1. c \in docs /\ c.sequence = heads[p].sequence
      BY <1>1, <1>2, <2>1
    <3>. QED  BY <1>1, <2>1, <3>1 DEF ChainInv, ChainIntact
  <2>2. CASE d # n
    <3>1. c \in docs /\ d \in docs
      BY <1>1, <1>2, <2>2
    <3>. QED  BY <3>1 DEF ChainInv, ChainIntact, Before
  <2>. QED  BY <2>1, <2>2
<1>7. \A c, d \in docs' : c.partition = d.partition /\ c.sequence = d.sequence => c = d
  <2>. SUFFICES ASSUME NEW c \in docs', NEW d \in docs', c.partition = d.partition,
                       c.sequence = d.sequence
                PROVE  c = d
    OBVIOUS
  <2>1. CASE c = n \/ d = n
    BY <1>1, <1>2, <2>1
  <2>2. CASE c # n /\ d # n
    BY <1>1, <1>23, <2>2
  <2>. QED  BY <2>1, <2>2
<1>8. EventOnce'
  BY <1>1 DEF ChainInv, EventOnce
<1>9. \A q \in Partitions : heads'[q].sequence = 0 => heads'[q].mac = NoMac
  BY <1>1, <1>2, <1>21
<1>10. \A d \in docs' : outbox'[d.event].status # "none"
  <2>1. outbox' = outbox /\ outbox[n.event].status # "none"
    BY <1>1 DEF LeaseInv, CommitAppend
  <2>. QED  BY <1>1, <1>21, <2>1
<1>11. \A v \in Workers : worker'[v].pc = "commit" =>
         /\ worker'[v].head.sequence <= heads'[PartitionOf[worker'[v].event]].sequence
         /\ \A d \in docs' : d.event = worker'[v].event => d.sequence > worker'[v].head.sequence
  <2>. SUFFICES ASSUME NEW v \in Workers, worker'[v].pc = "commit"
                PROVE  /\ worker'[v].head.sequence <= heads'[PartitionOf[worker'[v].event]].sequence
                       /\ \A d \in docs' : d.event = worker'[v].event =>
                            d.sequence > worker'[v].head.sequence
    OBVIOUS
  <2>1. v # w
    BY CommitMoves
  <2>2. worker'[v] = worker[v] /\ worker[v] \in Worker
    BY <2>1, AppendMoves DEF TypeOK
  <2>3. /\ worker[v].event \in Events /\ PartitionOf[worker[v].event] \in Partitions
        /\ worker[v].head.sequence \in Nat
    BY <2>2 DEF Worker, ChainHead
  <2>4. worker[v].head.sequence <= heads[PartitionOf[worker[v].event]].sequence
    BY <2>2 DEF ChainInv
  <2>5. worker[v].head.sequence <= heads'[PartitionOf[worker[v].event]].sequence
    <3>1. CASE PartitionOf[worker[v].event] = p
      BY <1>1, <1>2, <2>3, <2>4, <3>1
    <3>2. CASE PartitionOf[worker[v].event] # p
      <4>1. heads'[PartitionOf[worker[v].event]] = heads[PartitionOf[worker[v].event]]
        BY <1>2, <2>3, <3>2
      <4>. QED  BY <2>4, <4>1
    <3>. QED  BY <3>1, <3>2
  <2>6. ASSUME NEW d \in docs', d.event = worker[v].event
        PROVE  d.sequence > worker[v].head.sequence
    <3>1. CASE d \in docs
      BY <2>2, <2>6, <3>1 DEF ChainInv
    <3>2. CASE d = n
      BY <1>1, <2>3, <2>4, <2>6, <3>2
    <3>. QED  BY <1>1, <2>6, <3>1, <3>2
  <2>. QED  BY <2>2, <2>5, <2>6
<1>12. \A v \in Workers : worker'[v].pc = "acknowledge" =>
         \E d \in docs' : /\ d.event = worker'[v].event
                          /\ d.sequence = worker'[v].sequence /\ d.mac = worker'[v].mac
  <2>. SUFFICES ASSUME NEW v \in Workers, worker'[v].pc = "acknowledge"
                PROVE  \E d \in docs' : /\ d.event = worker'[v].event
                                        /\ d.sequence = worker'[v].sequence
                                        /\ d.mac = worker'[v].mac
    OBVIOUS
  <2>1. CASE v = w
    <3>1. worker'[w].sequence = n.sequence /\ worker'[w].mac = n.mac
      BY <1>0, <2>1, CommitMoves
    <3>. QED  BY <1>1, <2>1, <3>1, AppendMoves
  <2>2. CASE v # w
    BY <1>1, <2>2, AppendMoves DEF ChainInv
  <2>. QED  BY <2>1, <2>2
<1>. QED
  BY <1>3, <1>4, <1>5, <1>6, <1>7, <1>8, <1>9, <1>10, <1>11, <1>12
     DEF ChainInv, ChainIntact, Before

LEMMA NextChain ==
  ASSUME TypeOK, LeaseInv, ChainInv, [Next]_vars
  PROVE  ChainInv'
<1>1. CASE UNCHANGED vars
  BY <1>1, ChainKept DEF vars
<1>2. ASSUME NEW e \in Events, Enqueue(e) \/ BackoffEnds(e) \/ LeaseExpires(e)
      PROVE  ChainInv'
  BY <1>2, RowStepKeepsChain
<1>3. ASSUME NEW w \in Workers, WorkerStep(w) \/ CrashWorker(w)
      PROVE  ChainInv'
  BY <1>3, BeginKeepsChain, CommitKeepsChain, GiveUpKeepsChain, OutcomeKeepsChain DEF WorkerStep
<1>4. ASSUME NEW w \in Workers, NEW e \in Events, Claim(w, e)
      PROVE  ChainInv'
  BY <1>4, ClaimKeepsChain
<1>. QED  BY <1>1, <1>2, <1>3, <1>4 DEF Next

(***************************************************************************)
(* Receipts                                                                *)
(***************************************************************************)

(* What a step does to the row of one event.                               *)
RowStep(e) ==
  \/ /\ outbox[e].status = "none" /\ outbox'[e].status = "pending"
     /\ outbox'[e].attempts = outbox[e].attempts /\ outbox'[e].sequence = outbox[e].sequence
  \/ /\ outbox'[e].status = outbox[e].status /\ outbox'[e].attempts = outbox[e].attempts
     /\ outbox'[e].sequence = outbox[e].sequence /\ outbox'[e].mac = outbox[e].mac
  \/ /\ outbox[e].status \in {"pending", "processing"} /\ outbox'[e].status = "processing"
     /\ outbox'[e].attempts = outbox[e].attempts /\ outbox'[e].sequence = outbox[e].sequence

(* What the end of an attempt under its lease does to it.                  *)
Closes(w, e) ==
  /\ worker[w].event = e /\ HoldsLease(w) /\ worker[w].pc \in {"acknowledge", "report"}
  /\ outbox'[e].attempts = worker[w].attempts + 1
  /\ \/ /\ worker[w].pc = "acknowledge" /\ outbox'[e].status = "delivered"
        /\ outbox'[e].sequence = worker[w].sequence /\ outbox'[e].mac = worker[w].mac
     \/ /\ worker[w].pc = "report" /\ outbox'[e].sequence = outbox[e].sequence
        /\ outbox'[e].status =
             IF worker[w].attempts + 1 >= MaxAttempts THEN "dead" ELSE "pending"

LEMMA OutcomeCloses ==
  ASSUME TypeOK, NEW w \in Workers,
         Acknowledge(w) \/ ReportFailure(w) \/ CrashWorker(w)
  PROVE  \/ outbox' = outbox
         \/ /\ Closes(w, worker[w].event) /\ worker[w].event \in Events
            /\ \A f \in Events \ {worker[w].event} : outbox'[f] = outbox[f]
<1>. DEFINE e == worker[w].event
<1>1. e \in Events /\ outbox[e] \in Row
  BY DEF TypeOK, Worker
<1>2. CASE /\ Acknowledge(w) /\ HoldsLease(w)
           /\ outbox' = [outbox EXCEPT ![e] = Receipted(outbox[e], worker[w])]
  <2>1. outbox'[e] = Receipted(outbox[e], worker[w]) /\ \A f \in Events \ {e} : outbox'[f] = outbox[f]
    BY <1>1, <1>2 DEF TypeOK
  <2>2. /\ outbox'[e].attempts = worker[w].attempts + 1 /\ outbox'[e].status = "delivered"
        /\ outbox'[e].sequence = worker[w].sequence /\ outbox'[e].mac = worker[w].mac
    BY <1>1, <2>1 DEF Receipted, Row
  <2>. QED  BY <1>1, <1>2, <2>1, <2>2 DEF Closes, Acknowledge
<1>3. CASE /\ ReportFailure(w) /\ HoldsLease(w)
           /\ outbox' = [outbox EXCEPT ![e] = Failed(outbox[e], worker[w])]
  <2>1. outbox'[e] = Failed(outbox[e], worker[w]) /\ \A f \in Events \ {e} : outbox'[f] = outbox[f]
    BY <1>1, <1>3 DEF TypeOK
  <2>2. /\ outbox'[e].attempts = worker[w].attempts + 1 /\ outbox'[e].sequence = outbox[e].sequence
        /\ outbox'[e].status = IF worker[w].attempts + 1 >= MaxAttempts THEN "dead" ELSE "pending"
    BY <1>1, <2>1 DEF Failed, Row
  <2>. QED  BY <1>1, <1>3, <2>1, <2>2 DEF Closes, ReportFailure
<1>. QED  BY <1>2, <1>3, OutcomeShape

LEMMA EveryRowStep ==
  ASSUME TypeOK, [Next]_vars, NEW e \in Events
  PROVE  RowStep(e) \/ \E w \in Workers : Closes(w, e) /\ docs' = docs
<1>1. CASE outbox' = outbox
  BY <1>1 DEF RowStep
<1>2. ASSUME NEW f \in Events, Enqueue(f)
      PROVE  RowStep(e)
  <2>1. outbox[f] \in Row
    BY DEF TypeOK
  <2>2. /\ outbox[f].status = "none" /\ outbox'[f].status = "pending"
        /\ outbox'[f].attempts = outbox[f].attempts /\ outbox'[f].sequence = outbox[f].sequence
        /\ \A g \in Events \ {f} : outbox'[g] = outbox[g]
    BY <1>2, <2>1 DEF Enqueue, TypeOK, Row
  <2>. QED  BY <2>2 DEF RowStep
<1>3. ASSUME NEW f \in Events, BackoffEnds(f) \/ LeaseExpires(f)
      PROVE  RowStep(e)
  <2>1. outbox[f] \in Row
    BY DEF TypeOK
  <2>2. /\ outbox'[f].status = outbox[f].status /\ outbox'[f].attempts = outbox[f].attempts
        /\ outbox'[f].sequence = outbox[f].sequence /\ outbox'[f].mac = outbox[f].mac
        /\ \A g \in Events \ {f} : outbox'[g] = outbox[g]
    BY <1>3, <2>1 DEF BackoffEnds, LeaseExpires, TypeOK, Row
  <2>. QED  BY <2>2 DEF RowStep
<1>4. ASSUME NEW w \in Workers, NEW f \in Events, Claim(w, f)
      PROVE  RowStep(e)
  <2>0. outbox[f].status \in {"pending", "processing"}
    BY <1>4 DEF Claim, Claimable
  <2>1. /\ outbox'[f].status = "processing"
        /\ outbox'[f].attempts = outbox[f].attempts
        /\ \A g \in Events \ {f} : outbox'[g] = outbox[g]
    BY <1>4, ClaimEffect
  <2>2. outbox'[f].sequence = outbox[f].sequence
    <3>1. outbox[f] \in Row /\ outbox'[f] = Leased(outbox[f])
      BY <1>4, ClaimShape DEF TypeOK
    <3>. QED  BY <3>1 DEF Leased, Row
  <2>. QED  BY <2>0, <2>1, <2>2 DEF RowStep
<1>5. ASSUME NEW w \in Workers, Acknowledge(w) \/ ReportFailure(w) \/ CrashWorker(w)
      PROVE  RowStep(e) \/ (Closes(w, e) /\ docs' = docs)
  <2>1. docs' = docs
    BY <1>5 DEF Acknowledge, ReportFailure, CrashWorker
  <2>2. CASE e = worker[w].event
    <3>1. outbox' = outbox \/ Closes(w, worker[w].event)
      BY <1>5, OutcomeCloses
    <3>2. CASE Closes(w, worker[w].event)
      <4>1. /\ HoldsLease(w) /\ worker[w].pc \in {"acknowledge", "report"}
            /\ outbox'[e].attempts = worker[w].attempts + 1
        BY <2>2, <3>2 DEF Closes
      <4>2. \/ /\ worker[w].pc = "acknowledge" /\ outbox'[e].status = "delivered"
               /\ outbox'[e].sequence = worker[w].sequence /\ outbox'[e].mac = worker[w].mac
            \/ /\ worker[w].pc = "report" /\ outbox'[e].sequence = outbox[e].sequence
               /\ outbox'[e].status =
                    IF worker[w].attempts + 1 >= MaxAttempts THEN "dead" ELSE "pending"
        BY <2>2, <3>2 DEF Closes
      <4>. QED  BY <2>1, <2>2, <4>1, <4>2 DEF Closes
    <3>. QED  BY <3>1, <3>2 DEF RowStep
  <2>3. CASE e # worker[w].event
    BY <1>5, <2>3, OutcomeCloses DEF RowStep
  <2>. QED  BY <2>2, <2>3
<1>6. ASSUME NEW w \in Workers,
             BeginAppend(w) \/ CommitAppend(w) \/ RetryAppend(w) \/ AppendFails(w)
      PROVE  outbox' = outbox
  BY <1>6 DEF BeginAppend, CommitAppend, RetryAppend, AppendFails
<1>. QED  BY <1>1, <1>2, <1>3, <1>4, <1>5, <1>6 DEF Next, WorkerStep, vars

LEMMA DocumentsStay ==
  ASSUME [Next]_vars
  PROVE  docs \subseteq docs'
<1>1. CASE docs' = docs
  BY <1>1
<1>2. ASSUME NEW w \in Workers, CommitAppend(w)
      PROVE  docs \subseteq docs'
  <2>1. PICK n : docs' = docs \union {n}
    BY <1>2 DEF CommitAppend
  <2>. QED  BY <2>1
<1>3. ASSUME NEW w \in Workers, WorkerStep(w) \/ CrashWorker(w), ~CommitAppend(w)
      PROVE  docs' = docs
  BY <1>3 DEF WorkerStep, BeginAppend, RetryAppend, AppendFails, Acknowledge, ReportFailure,
              CrashWorker
<1>4. ASSUME NEW e \in Events,
             \/ Enqueue(e) \/ BackoffEnds(e) \/ LeaseExpires(e)
             \/ \E w \in Workers : Claim(w, e)
      PROVE  docs' = docs
  BY <1>4 DEF Enqueue, BackoffEnds, LeaseExpires, Claim
<1>. QED  BY <1>1, <1>2, <1>3, <1>4 DEF Next, vars

LEMMA NextReceipts ==
  ASSUME TypeOK, ChainInv, DeliveredIsRecorded, [Next]_vars
  PROVE  DeliveredIsRecorded'
<1>. SUFFICES ASSUME NEW e \in Events, outbox'[e].status = "delivered"
              PROVE  \E d \in docs' : /\ d.event = e /\ d.sequence = outbox'[e].sequence
                                      /\ d.mac = outbox'[e].mac
  BY DEF DeliveredIsRecorded
<1>1. CASE RowStep(e)
  BY <1>1, DocumentsStay DEF RowStep, DeliveredIsRecorded
<1>2. CASE \E w \in Workers : Closes(w, e) /\ docs' = docs
  <2>1. PICK w \in Workers : Closes(w, e) /\ docs' = docs
    BY <1>2
  <2>2. /\ worker[w].pc = "acknowledge" /\ worker[w].event = e
        /\ outbox'[e].sequence = worker[w].sequence /\ outbox'[e].mac = worker[w].mac
    BY <2>1 DEF Closes
  <2>. QED  BY <2>1, <2>2 DEF ChainInv
<1>. QED  BY <1>1, <1>2, EveryRowStep

LEMMA InitDelivery == Init => DeliveryInv
<1>. SUFFICES ASSUME Init PROVE DeliveryInv
  OBVIOUS
<1>1. TypeOK
  BY InitTypes
<1>2. LeaseInv
  <2>1. \A e \in Events : /\ outbox[e].token = 0 /\ outbox[e].claims = 0
                          /\ outbox[e].status = "none" /\ outbox[e].attempts = 0
    BY DEF Init, NoRow, NoToken
  <2>2. \A w \in Workers : worker[w].pc = "idle"
    BY IdleIsWorker DEF Init
  <2>. QED  BY <2>1, <2>2 DEF LeaseInv, NoToken
<1>3. ChainInv
  BY DEF Init, ChainInv, ChainIntact, EventOnce, Before, IdleWorker, NoHead
<1>4. DeliveredIsRecorded
  BY DEF Init, DeliveredIsRecorded, NoRow
<1>. QED  BY <1>1, <1>2, <1>3, <1>4, LeasesExclude DEF DeliveryInv

LEMMA DeliveryWithFinitelyManyRows == Spec => [](DeliveryInv /\ RowsFinite)
<1>1. DeliveryInv /\ RowsFinite /\ [Next]_vars => DeliveryInv' /\ RowsFinite'
  <2>. SUFFICES ASSUME DeliveryInv, RowsFinite, [Next]_vars
                PROVE  DeliveryInv' /\ RowsFinite'
    OBVIOUS
  <2>1. TypeOK' /\ RowsFinite'
    BY NextTypes DEF DeliveryInv
  <2>2. LeaseInv'
    BY NextLeases DEF DeliveryInv
  <2>3. ChainInv'
    BY NextChain DEF DeliveryInv
  <2>4. DeliveredIsRecorded'
    BY NextReceipts DEF DeliveryInv
  <2>5. OneLeasePerEvent'
    BY <2>1, <2>2, LeasesExclude, PTL
  <2>. QED  BY <2>1, <2>2, <2>3, <2>4, <2>5 DEF DeliveryInv
<1>. QED  BY <1>1, InitDelivery, InitTypes, PTL DEF Spec

(* security/outbox.py and security/mongo_client.py together: the chain of    *)
(* every partition is whole and holds an event at most once, leases exclude  *)
(* one another, and every receipt points at its document.                    *)
THEOREM DeliveryIsCorrect == Spec => []DeliveryInv
BY DeliveryWithFinitelyManyRows, PTL

(* security/outbox.py, deliver_outbox_batch: an attempt that ends under its  *)
(* lease is counted once, one that lost it not at all, and the limit is met  *)
(* exactly.                                                                  *)
THEOREM AttemptsAreCounted == Spec => AttemptsCounted
<1>1. DeliveryInv /\ [Next]_vars =>
        \A e \in Events :
          IF outbox[e].status = "processing" /\ outbox'[e].status # "processing"
          THEN /\ outbox'[e].attempts = outbox[e].attempts + 1
               /\ outbox'[e].status = "pending" => outbox'[e].attempts < MaxAttempts
               /\ outbox'[e].status = "dead" => outbox'[e].attempts = MaxAttempts
          ELSE outbox'[e].attempts = outbox[e].attempts
  <2>. SUFFICES ASSUME DeliveryInv, [Next]_vars, NEW e \in Events
                PROVE  IF outbox[e].status = "processing" /\ outbox'[e].status # "processing"
                       THEN /\ outbox'[e].attempts = outbox[e].attempts + 1
                            /\ outbox'[e].status = "pending" => outbox'[e].attempts < MaxAttempts
                            /\ outbox'[e].status = "dead" => outbox'[e].attempts = MaxAttempts
                       ELSE outbox'[e].attempts = outbox[e].attempts
    OBVIOUS
  <2>1. CASE RowStep(e)
    BY <2>1 DEF RowStep
  <2>2. CASE \E w \in Workers : Closes(w, e)
    <3>1. PICK w \in Workers : Closes(w, e)
      BY <2>2
    <3>2. outbox[e].status = "processing" /\ worker[w].attempts = outbox[e].attempts
      BY <3>1 DEF Closes, HoldsLease, DeliveryInv, LeaseInv
    <3>3. outbox[e].attempts \in Nat /\ outbox[e].attempts < MaxAttempts
      BY <3>2 DEF DeliveryInv, LeaseInv, TypeOK, Row
    <3>4. outbox'[e].status # "processing" /\ outbox'[e].attempts = outbox[e].attempts + 1
      BY <3>1, <3>2 DEF Closes
    <3>5. outbox'[e].status = "pending" => outbox'[e].attempts < MaxAttempts
      BY <3>1, <3>2, <3>3 DEF Closes
    <3>6. outbox'[e].status = "dead" => outbox'[e].attempts = MaxAttempts
      BY <3>1, <3>2, <3>3 DEF Closes
    <3>. QED  BY <3>2, <3>4, <3>5, <3>6
  <2>. QED  BY <2>1, <2>2, EveryRowStep DEF DeliveryInv
<1>. QED  BY <1>1, DeliveryIsCorrect, PTL DEF Spec, AttemptsCounted

(***************************************************************************)
(* Refinement: AuditTrail                                                  *)
(***************************************************************************)

(* The trail of a partition, read off its documents.                       *)
TrailShows ==
  \A p \in Partitions :
    /\ Trail(p) \in Seq(Events)
    /\ Len(Trail(p)) = heads[p].sequence
    /\ \A d \in docs : d.partition = p => Trail(p)[d.sequence] = d.event

LEMMA TrailIsShown == TypeOK /\ ChainInv => TrailShows
<1>. SUFFICES ASSUME TypeOK, ChainInv, NEW p \in Partitions
              PROVE  /\ Trail(p) \in Seq(Events)
                     /\ Len(Trail(p)) = heads[p].sequence
                     /\ \A d \in docs : d.partition = p => Trail(p)[d.sequence] = d.event
  BY DEF TrailShows
<1>. DEFINE Doc(i) == CHOOSE d \in docs : d.partition = p /\ d.sequence = i
            n == heads[p].sequence
<1>1. n \in Nat
  BY DEF TypeOK, ChainHead
<1>2. \A i \in 1..n : Doc(i) \in docs /\ Doc(i).partition = p /\ Doc(i).sequence = i
  BY DEF ChainInv, ChainIntact
<1>3. \A d \in docs : d.event \in Events /\ d.sequence \in Nat \ {0}
  BY DEF TypeOK, Document
<1>4. Trail(p) = [i \in 1..n |-> Doc(i).event]
  BY DEF Trail
<1>. HIDE DEF Doc, n
<1>5. Trail(p) \in Seq(Events) /\ Len(Trail(p)) = n
  BY <1>1, <1>2, <1>3, <1>4
<1>6. \A d \in docs : d.partition = p => d.sequence \in 1..n /\ d = Doc(d.sequence)
  <2>. SUFFICES ASSUME NEW d \in docs, d.partition = p
                PROVE  d.sequence \in 1..n /\ d = Doc(d.sequence)
    OBVIOUS
  <2>1. d.sequence \in 1..n
    BY <1>1, <1>3 DEF ChainInv, ChainIntact, n
  <2>. QED  BY <1>2, <2>1 DEF ChainInv, ChainIntact
<1>7. \A d \in docs : d.partition = p => Trail(p)[d.sequence] = d.event
  BY <1>4, <1>6
<1>. QED  BY <1>5, <1>7 DEF n

LEMMA TrailIsShownNext == TypeOK' /\ ChainInv' => TrailShows'
BY TrailIsShown, PTL

LEMMA TrailKept ==
  ASSUME docs' = docs, heads' = heads
  PROVE  \A p \in Partitions : Trail(p)' = Trail(p)
BY DEF Trail

LEMMA FateKept ==
  ASSUME NEW e \in Events, outbox'[e].status = outbox[e].status
  PROVE  Fate(e)' = Fate(e)
BY DEF Fate

LEMMA TrailInit == Init => Trails!Init
<1>. SUFFICES ASSUME Init PROVE Trails!Init
  OBVIOUS
<1>1. \A p \in Partitions : Trail(p) = << >>
  <2>. SUFFICES ASSUME NEW p \in Partitions PROVE Trail(p) = << >>
    OBVIOUS
  <2>1. heads[p].sequence = 0
    BY DEF Init, NoHead
  <2>2. 1..heads[p].sequence = {}
    BY <2>1
  <2>. QED  BY <2>2 DEF Trail
<1>2. \A e \in Events : Fate(e) = "none" /\ outbox[e].sequence = 0
  BY DEF Init, NoRow, Fate
<1>. QED  BY <1>1, <1>2 DEF Trails!Init

LEMMA TrailStutters ==
  ASSUME docs' = docs, heads' = heads,
         \A e \in Events : outbox'[e].status = outbox[e].status \/ Fate(e)' = Fate(e),
         \A e \in Events : outbox'[e].sequence = outbox[e].sequence
  PROVE  UNCHANGED Trails!vars
<1>1. \A p \in Partitions : Trail(p)' = Trail(p)
  BY TrailKept
<1>2. \A e \in Events : Fate(e)' = Fate(e)
  BY FateKept
<1>. QED  BY <1>1, <1>2 DEF Trails!vars

LEMMA EnqueueIsAccept ==
  ASSUME TypeOK, NEW e \in Events, Enqueue(e)
  PROVE  Trails!Next
<1>1. outbox[e] \in Row
  BY DEF TypeOK
<1>2. /\ outbox[e].status = "none" /\ outbox'[e].status = "pending"
      /\ outbox'[e].sequence = outbox[e].sequence
      /\ \A g \in Events \ {e} : outbox'[g] = outbox[g]
  BY <1>1 DEF Enqueue, TypeOK, Row
<1>3. Fate(e) = "none" /\ Fate(e)' = "accepted"
  BY <1>2 DEF Fate
<1>4. \A g \in Events \ {e} : Fate(g)' = Fate(g)
  BY <1>2, FateKept
<1>5. \A p \in Partitions : Trail(p)' = Trail(p)
  BY TrailKept DEF Enqueue
<1>6. \A g \in Events : outbox'[g].sequence = outbox[g].sequence
  BY <1>2
<1>7. Trails!Accept(e)
  BY <1>3, <1>4, <1>5, <1>6 DEF Trails!Accept
<1>. QED  BY <1>7 DEF Trails!Next

(* The document of a commit is the next entry of its partition's trail.    *)
LEMMA CommitIsRecord ==
  ASSUME DeliveryInv, TypeOK', ChainInv', NEW w \in Workers, CommitAppend(w)
  PROVE  Trails!Next
<1>0. PICK n, e, p : n = NewDocument(w) /\ e = worker[w].event /\ p = PartitionOf[e]
  OBVIOUS
<1>1. TypeOK /\ LeaseInv /\ ChainInv /\ e \in Events /\ TrailShows /\ TrailShows'
  BY <1>0, TrailIsShown, TrailIsShownNext DEF DeliveryInv, TypeOK, Worker
<1>2. /\ n \in Document /\ p \in Partitions
      /\ n.partition = p /\ n.event = e
      /\ n.sequence = heads[p].sequence + 1
      /\ heads[p].sequence \in Nat
      /\ docs' = docs \union {n}
      /\ heads' = [heads EXCEPT ![p] = [sequence |-> n.sequence, mac |-> n.mac]]
      /\ \A d \in docs : d.event # n.event
  BY <1>0, <1>1, CommitFinds
<1>3. heads'[p].sequence = heads[p].sequence + 1 /\ \A q \in Partitions \ {p} : heads'[q] = heads[q]
  BY <1>1, <1>2 DEF TypeOK
<1>4. \A q \in Partitions : \A i \in 1..heads[q].sequence :
        \E d \in docs : d.partition = q /\ d.sequence = i /\ Trail(q)[i] = d.event /\ Trail(q)'[i] = d.event
  <2>. SUFFICES ASSUME NEW q \in Partitions, NEW i \in 1..heads[q].sequence
                PROVE  \E d \in docs : /\ d.partition = q /\ d.sequence = i
                                       /\ Trail(q)[i] = d.event /\ Trail(q)'[i] = d.event
    OBVIOUS
  <2>1. PICK d \in docs : d.partition = q /\ d.sequence = i
    BY <1>1 DEF ChainInv, ChainIntact
  <2>2. Trail(q)[i] = d.event
    BY <1>1, <2>1 DEF TrailShows
  <2>3. Trail(q)'[i] = d.event
    BY <1>1, <1>2, <2>1 DEF TrailShows
  <2>. QED  BY <2>1, <2>2, <2>3
<1>5. \A q \in Partitions \ {p} : Trail(q)' = Trail(q)
  <2>. SUFFICES ASSUME NEW q \in Partitions \ {p} PROVE Trail(q)' = Trail(q)
    OBVIOUS
  <2>1. /\ Trail(q) \in Seq(Events) /\ Len(Trail(q)) = heads[q].sequence
        /\ Trail(q)' \in Seq(Events) /\ Len(Trail(q)') = heads[q].sequence
    BY <1>1, <1>3 DEF TrailShows
  <2>2. \A i \in 1..heads[q].sequence : Trail(q)'[i] = Trail(q)[i]
    BY <1>4
  <2>. QED  BY <2>1, <2>2
<1>6. Trail(p)' = Append(Trail(p), e)
  <2>1. /\ Trail(p) \in Seq(Events) /\ Len(Trail(p)) = heads[p].sequence
        /\ Trail(p)' \in Seq(Events) /\ Len(Trail(p)') = heads[p].sequence + 1
    BY <1>1, <1>2, <1>3 DEF TrailShows
  <2>2. \A i \in 1..heads[p].sequence : Trail(p)'[i] = Trail(p)[i]
    BY <1>2, <1>4
  <2>3. Trail(p)'[heads[p].sequence + 1] = e
    <3>1. n \in docs'
      BY <1>2
    <3>2. Trail(p)'[n.sequence] = n.event
      BY <1>1, <1>2, <3>1 DEF TrailShows
    <3>. QED  BY <1>2, <3>2
  <2>. QED  BY <1>1, <1>2, <2>1, <2>2, <2>3
<1>7. \A i \in 1..Len(Trail(p)) : Trail(p)[i] # e
  <2>1. Len(Trail(p)) = heads[p].sequence
    BY <1>1, <1>2 DEF TrailShows
  <2>. QED  BY <1>2, <1>4, <2>1
<1>8. Fate(e) \in {"accepted", "dead"}
  <2>1. outbox[e].status \notin {"none", "delivered"}
    <3>1. outbox[e].status # "none"
      BY <1>0, <1>1 DEF LeaseInv, CommitAppend
    <3>2. outbox[e].status # "delivered"
      BY <1>1, <1>2 DEF DeliveryInv, DeliveredIsRecorded
    <3>. QED  BY <3>1, <3>2
  <2>2. outbox[e].status \in {"pending", "processing", "dead"}
    BY <1>1, <2>1 DEF TypeOK, Row
  <2>. QED  BY <2>2 DEF Fate
<1>9. \A g \in Events : Fate(g)' = Fate(g) /\ outbox'[g].sequence = outbox[g].sequence
  BY FateKept DEF CommitAppend
<1>10. Trails!Record(e)
  <2>1. ~Trails!Recorded(e)
    BY <1>0, <1>2, <1>7 DEF Trails!Recorded
  <2>2. [q \in Partitions |-> Trail(q)]' =
          [[q \in Partitions |-> Trail(q)] EXCEPT ![p] = Append(Trail(p), e)]
    BY <1>2, <1>5, <1>6
  <2>. QED  BY <1>0, <1>1, <1>2, <1>8, <1>9, <2>1, <2>2 DEF Trails!Record
<1>. QED  BY <1>1, <1>10 DEF Trails!Next

LEMMA OutcomeIsDeliverOrGiveUp ==
  ASSUME DeliveryInv, NEW w \in Workers,
         Acknowledge(w) \/ ReportFailure(w) \/ CrashWorker(w)
  PROVE  Trails!Next \/ UNCHANGED Trails!vars
<1>0. PICK e : e = worker[w].event
  OBVIOUS
<1>1. TypeOK /\ LeaseInv /\ ChainInv /\ e \in Events /\ TrailShows /\ PartitionOf[e] \in Partitions
  BY <1>0, TrailIsShown DEF DeliveryInv, TypeOK, Worker
<1>2. docs' = docs /\ heads' = heads
  BY DEF Acknowledge, ReportFailure, CrashWorker
<1>3. \A p \in Partitions : Trail(p)' = Trail(p)
  BY <1>2, TrailKept
<1>4. CASE outbox' = outbox
  BY <1>2, <1>4, TrailStutters
<1>5. CASE /\ Closes(w, e)
           /\ \A f \in Events \ {e} : outbox'[f] = outbox[f]
  <2>1. Fate(e) = "accepted"
    BY <1>5 DEF Fate, Closes, HoldsLease
  <2>2. \A f \in Events \ {e} : Fate(f)' = Fate(f) /\ outbox'[f].sequence = outbox[f].sequence
    BY <1>5, FateKept
  <2>3. CASE outbox'[e].status = "delivered"
    <3>1. PICK d \in docs : d.event = e /\ d.sequence = worker[w].sequence
      BY <1>1, <1>5, <2>3 DEF ChainInv, Closes
    <3>2. /\ d.partition = PartitionOf[e] /\ d.sequence \in Nat \ {0}
          /\ d.sequence <= heads[PartitionOf[e]].sequence
      BY <1>1, <3>1 DEF ChainInv, ChainIntact, EventOnce, TypeOK, Document
    <3>3. d.sequence \in 1..Len(Trail(PartitionOf[e])) /\ Trail(PartitionOf[e])[d.sequence] = e
      <4>1. heads[PartitionOf[e]].sequence \in Nat
        BY <1>1 DEF TypeOK, ChainHead
      <4>. QED  BY <1>1, <3>1, <3>2, <4>1 DEF TrailShows
    <3>4. Fate(e)' = "delivered" /\ outbox'[e].sequence = d.sequence
      BY <1>5, <2>3, <3>1 DEF Fate, Closes
    <3>5. Trails!Deliver(e, d.sequence)
      BY <1>1, <1>3, <2>1, <2>2, <3>3, <3>4 DEF Trails!Deliver
    <3>. QED  BY <1>1, <3>3, <3>5 DEF Trails!Next
  <2>4. CASE outbox'[e].status = "dead"
    <3>1. Fate(e)' = "dead" /\ outbox'[e].sequence = outbox[e].sequence
      BY <1>5, <2>4 DEF Fate, Closes
    <3>2. Trails!GiveUp(e)
      BY <1>1, <1>3, <2>1, <2>2, <3>1 DEF Trails!GiveUp
    <3>. QED  BY <1>1, <3>2 DEF Trails!Next
  <2>5. CASE outbox'[e].status = "pending"
    <3>1. Fate(e)' = Fate(e) /\ outbox'[e].sequence = outbox[e].sequence
      BY <1>5, <2>1, <2>5 DEF Fate, Closes
    <3>. QED  BY <1>2, <2>2, <3>1, TrailStutters
  <2>6. outbox'[e].status \in {"delivered", "dead", "pending"}
    BY <1>5 DEF Closes
  <2>. QED  BY <2>3, <2>4, <2>5, <2>6
<1>6. /\ worker[w].event = e /\ Closes(w, worker[w].event)
      => Closes(w, e)
  BY DEF Closes
<1>. QED  BY <1>0, <1>1, <1>4, <1>5, <1>6, OutcomeCloses

LEMMA RowStepStutters ==
  ASSUME TypeOK, NEW e \in Events,
         BackoffEnds(e) \/ LeaseExpires(e) \/ \E w \in Workers : Claim(w, e)
  PROVE  UNCHANGED Trails!vars
<1>1. outbox[e] \in Row /\ docs' = docs /\ heads' = heads
  BY DEF TypeOK, BackoffEnds, LeaseExpires, Claim
<1>2. CASE BackoffEnds(e) \/ LeaseExpires(e)
  <2>1. \A f \in Events : /\ outbox'[f].status = outbox[f].status
                          /\ outbox'[f].sequence = outbox[f].sequence
    BY <1>1, <1>2 DEF BackoffEnds, LeaseExpires, TypeOK, Row
  <2>. QED  BY <1>1, <2>1, TrailStutters
<1>3. CASE \E w \in Workers : Claim(w, e)
  <2>1. PICK w \in Workers : Claim(w, e)
    BY <1>3
  <2>2. outbox'[e] = Leased(outbox[e]) /\ \A f \in Events \ {e} : outbox'[f] = outbox[f]
    BY <1>1, <2>1, ClaimShape DEF TypeOK
  <2>3. outbox'[e].status = "processing" /\ outbox'[e].sequence = outbox[e].sequence
    BY <1>1, <2>2 DEF Leased, Row
  <2>4. Fate(e)' = Fate(e)
    BY <2>1, <2>3 DEF Fate, Claim, Claimable
  <2>. QED  BY <1>1, <2>2, <2>3, <2>4, TrailStutters
<1>. QED  BY <1>2, <1>3

(* The audit pipeline implements AuditTrail: an append-only trail without    *)
(* repetitions, and receipts that say where in it an event is.               *)
THEOREM DeliveryImplementsTrail == Spec => ImplementsTrail
<1>1. DeliveryInv /\ DeliveryInv' /\ [Next]_vars => [Trails!Next]_(Trails!vars)
  <2>. SUFFICES ASSUME DeliveryInv, DeliveryInv', [Next]_vars
                PROVE  Trails!Next \/ UNCHANGED Trails!vars
    OBVIOUS
  <2>1. TypeOK /\ TypeOK' /\ ChainInv'
    BY DEF DeliveryInv
  <2>2. CASE UNCHANGED vars
    BY <2>2, TrailStutters DEF vars
  <2>3. ASSUME NEW e \in Events, Enqueue(e) \/ BackoffEnds(e) \/ LeaseExpires(e)
        PROVE  Trails!Next \/ UNCHANGED Trails!vars
    BY <2>1, <2>3, EnqueueIsAccept, RowStepStutters
  <2>4. ASSUME NEW w \in Workers, NEW e \in Events, Claim(w, e)
        PROVE  UNCHANGED Trails!vars
    BY <2>1, <2>4, RowStepStutters
  <2>5. ASSUME NEW w \in Workers, BeginAppend(w) \/ RetryAppend(w) \/ AppendFails(w)
        PROVE  UNCHANGED Trails!vars
    BY <2>5, TrailStutters DEF BeginAppend, RetryAppend, AppendFails
  <2>6. ASSUME NEW w \in Workers, WorkerStep(w) \/ CrashWorker(w)
        PROVE  Trails!Next \/ UNCHANGED Trails!vars
    BY <2>1, <2>5, <2>6, CommitIsRecord, OutcomeIsDeliverOrGiveUp DEF WorkerStep
  <2>. QED  BY <2>2, <2>3, <2>4, <2>6 DEF Next
<1>. QED
  BY <1>1, TrailInit, DeliveryIsCorrect, PTL DEF Spec, ImplementsTrail, Trails!Spec
=============================================================================
