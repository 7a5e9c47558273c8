---------------------------- MODULE AuditDelivery ----------------------------
(***************************************************************************)
(* Delivery of audit events.  A business transaction inserts an AuditOutbox*)
(* row; worker processes claim a row under a lease, append its event to    *)
(* the signed chain of its partition in a MongoDB transaction, and write   *)
(* the receipt back with an UPDATE that the lease token guards.            *)
(*                                                                         *)
(* PostgreSQL statements and the commit of the MongoDB transaction are one *)
(* action each; everything between them interleaves, and a lease may run   *)
(* out under a worker that is still alive.                                 *)
(*                                                                         *)
(* Abstractions.  lock_token is a fresh UUID at every claim: the number of *)
(* claims stands for it.  A MAC covers ingested_at and is fresh with every *)
(* document: a counter stands for it.  locked_at is the flag "stale",      *)
(* next_attempt_at the flag "due", created_at the rank.                    *)
(***************************************************************************)
EXTENDS Naturals, FiniteSets

CONSTANTS
  Events,       \* event identities
  Partitions,   \* partitions of the chain
  PartitionOf,  \* PartitionOf[e]: business domain and month of event e
  Workers,      \* process_audit_outbox processes
  MaxAttempts,  \* --max-attempts
  Budget        \* Budget[d]: how many disturbances of kind d may happen

(* "restore" and "rotate" are what AuditVerification adds. *)
Disturbances == {"slow", "crash", "restore", "rotate"}

ASSUME AuditAssumption ==
  /\ Events # {}
  /\ PartitionOf \in [Events -> Partitions]
  /\ MaxAttempts \in Nat \ {0}
  /\ Budget \in [Disturbances -> Nat]

VARIABLES
  outbox,    \* outbox[e]: the AuditOutbox row of event e
  docs,      \* the documents of the collection audit_events
  heads,     \* heads[p]: the audit_chain_heads document of partition p
  macs,      \* how many MACs have been computed
  worker,    \* worker[w]: what worker w has read and where it is
  budget     \* what is left of Budget

vars == <<outbox, docs, heads, macs, worker, budget>>

-----------------------------------------------------------------------------
NoMac == 0
NoToken == 0

(* A partition without a head document behaves like one at sequence 0. *)
ChainHead == [sequence : Nat, mac : Nat]
NoHead == [sequence |-> 0, mac |-> NoMac]

Row == [status : {"none", "pending", "processing", "delivered", "dead"},
        attempts : Nat, due : BOOLEAN, stale : BOOLEAN, token : Nat, claims : Nat,
        rank : Nat, sequence : Nat, mac : Nat]

Document == [event : Events, partition : Partitions, sequence : Nat \ {0},
             previous : Nat, mac : Nat]

Worker == [pc : {"idle", "append", "commit", "acknowledge", "report"}, event : Events,
           token : Nat, attempts : Nat, head : ChainHead, sequence : Nat, mac : Nat]

TypeOK ==
  /\ outbox \in [Events -> Row]
  /\ docs \in SUBSET Document
  /\ heads \in [Partitions -> ChainHead]
  /\ macs \in Nat
  /\ worker \in [Workers -> Worker]
  /\ budget \in [Disturbances -> Nat]

NoRow == [status |-> "none", attempts |-> 0, due |-> FALSE, stale |-> FALSE,
          token |-> NoToken, claims |-> 0, rank |-> 0, sequence |-> 0, mac |-> NoMac]

AnyEvent == CHOOSE e \in Events : TRUE

IdleWorker == [pc |-> "idle", event |-> AnyEvent, token |-> NoToken, attempts |-> 0,
               head |-> NoHead, sequence |-> 0, mac |-> NoMac]

Init ==
  /\ outbox = [e \in Events |-> NoRow]
  /\ docs = {}
  /\ heads = [p \in Partitions |-> NoHead]
  /\ macs = 0
  /\ worker = [w \in Workers |-> IdleWorker]
  /\ budget = Budget

Spend(d) ==
  /\ budget[d] > 0
  /\ budget' = [budget EXCEPT ![d] = @ - 1]

-----------------------------------------------------------------------------
(* The outbox *)

Rows == {e \in Events : outbox[e].status # "none"}

(* The transaction that changed the business data commits.  Enqueuing the  *)
(* same event again finds the row and changes nothing.                     *)
Enqueue(e) ==
  /\ outbox[e].status = "none"
  /\ outbox' = [outbox EXCEPT ![e].status = "pending", ![e].due = TRUE,
                              ![e].rank = Cardinality(Rows) + 1]
  /\ UNCHANGED <<docs, heads, macs, worker, budget>>

(* next_attempt_at passes. *)
BackoffEnds(e) ==
  /\ outbox[e].status = "pending"
  /\ ~outbox[e].due
  /\ outbox' = [outbox EXCEPT ![e].due = TRUE]
  /\ UNCHANGED <<docs, heads, macs, worker, budget>>

(* Seeded fault: a row in processing is never taken over. *)
ClaimablePendingOnly(e) == outbox[e].status = "pending" /\ outbox[e].due

Claimable(e) ==
  \/ outbox[e].status = "pending" /\ outbox[e].due
  \/ outbox[e].status = "processing" /\ outbox[e].stale

(* Seeded fault: a stale lease is taken over under its old token. *)
TokenOfKept(e) ==
  IF outbox[e].token = NoToken THEN outbox[e].claims + 1 ELSE outbox[e].token

TokenOf(e) == outbox[e].claims + 1

(* SELECT ... FOR UPDATE of the oldest claimable row and its UPDATE. *)
Claim(w, e) ==
  /\ worker[w].pc = "idle"
  /\ Claimable(e)
  /\ \A f \in Events : Claimable(f) => outbox[e].rank <= outbox[f].rank
  /\ outbox' = [outbox EXCEPT ![e].status = "processing", ![e].stale = FALSE,
                              ![e].token = TokenOf(e), ![e].claims = @ + 1]
  /\ worker' = [worker EXCEPT ![w] = [IdleWorker EXCEPT
                  !.pc = "append", !.event = e, !.token = TokenOf(e),
                  !.attempts = outbox[e].attempts]]
  /\ UNCHANGED <<docs, heads, macs, budget>>

(* Seeded fault: the row is updated by primary key and status alone. *)
HoldsLeaseByStatus(w) == outbox[worker[w].event].status = "processing"

(* The UPDATE of worker w would change its row. *)
HoldsLease(w) ==
  /\ outbox[worker[w].event].status = "processing"
  /\ outbox[worker[w].event].token = worker[w].token

(* The lease runs out: under a worker that will not report any more, or    *)
(* under one that is merely slow.                                          *)
LeaseExpires(e) ==
  /\ outbox[e].status = "processing"
  /\ ~outbox[e].stale
  /\ outbox' = [outbox EXCEPT ![e].stale = TRUE]
  /\ IF \E w \in Workers : worker[w].pc # "idle" /\ worker[w].event = e /\ HoldsLease(w)
     THEN Spend("slow") ELSE UNCHANGED budget
  /\ UNCHANGED <<docs, heads, macs, worker>>

-----------------------------------------------------------------------------
(* MongoLogger.insert_event: one transaction, retried on a write conflict *)

PartitionDocs(p) == {d \in docs : d.partition = p}

(* The transaction takes its snapshot.  If the event is already there its  *)
(* document is the receipt; otherwise the head of the partition is read.   *)
BeginAppend(w) ==
  LET e == worker[w].event
      Existing == {d \in docs : d.event = e}
  IN
  /\ worker[w].pc = "append"
  /\ \/ \E d \in Existing :
          worker' = [worker EXCEPT ![w].pc = "acknowledge", ![w].sequence = d.sequence,
                                   ![w].mac = d.mac]
     \/ /\ Existing = {}
        /\ worker' = [worker EXCEPT ![w].pc = "commit", ![w].head = heads[PartitionOf[e]]]
  /\ UNCHANGED <<outbox, docs, heads, macs, budget>>

(* Seeded fault: the head is advanced without a write conflict. *)
HeadUnchangedIgnored(w) == worker[w].pc = "commit"

(* No other transaction has advanced the head since the snapshot. *)
HeadUnchanged(w) == heads[PartitionOf[worker[w].event]] = worker[w].head

(* Seeded fault: the sequence from before the increment is used. *)
NewDocumentAsRead(w) ==
  [event |-> worker[w].event, partition |-> PartitionOf[worker[w].event],
   sequence |-> worker[w].head.sequence, previous |-> worker[w].head.mac,
   mac |-> macs + 1]

NewDocument(w) ==
  [event |-> worker[w].event, partition |-> PartitionOf[worker[w].event],
   sequence |-> worker[w].head.sequence + 1, previous |-> worker[w].head.mac,
   mac |-> macs + 1]

(* The new document and the advanced head become visible together.  The    *)
(* reply may be lost: the worker then sees an exception although the event *)
(* is recorded.                                                            *)
CommitAppend(w) ==
  LET d == NewDocument(w) IN
  /\ worker[w].pc = "commit"
  /\ HeadUnchanged(w)
  /\ docs' = docs \union {d}
  /\ heads' = [heads EXCEPT ![d.partition] = [sequence |-> d.sequence, mac |-> d.mac]]
  /\ macs' = macs + 1
  /\ \/ worker' = [worker EXCEPT ![w].pc = "acknowledge", ![w].sequence = d.sequence,
                                 ![w].mac = d.mac]
     \/ worker' = [worker EXCEPT ![w].pc = "report"]
  /\ UNCHANGED <<outbox, budget>>

(* with_transaction runs the callback again on a fresh snapshot. *)
RetryAppend(w) ==
  /\ worker[w].pc = "commit"
  /\ ~HeadUnchanged(w)
  /\ worker' = [worker EXCEPT ![w].pc = "append", ![w].head = NoHead]
  /\ UNCHANGED <<outbox, docs, heads, macs, budget>>

(* MongoDB cannot be reached, or the transaction is given up. *)
AppendFails(w) ==
  /\ worker[w].pc \in {"append", "commit"}
  /\ worker' = [worker EXCEPT ![w].pc = "report"]
  /\ UNCHANGED <<outbox, docs, heads, macs, budget>>

-----------------------------------------------------------------------------
(* The guarded UPDATEs at the end of an attempt *)

Acknowledge(w) ==
  LET e == worker[w].event IN
  /\ worker[w].pc = "acknowledge"
  /\ IF HoldsLease(w)
     THEN outbox' = [outbox EXCEPT
            ![e].status = "delivered", ![e].attempts = worker[w].attempts + 1,
            ![e].token = NoToken, ![e].stale = FALSE,
            ![e].sequence = worker[w].sequence, ![e].mac = worker[w].mac]
     ELSE UNCHANGED outbox
  /\ worker' = [worker EXCEPT ![w] = IdleWorker]
  /\ UNCHANGED <<docs, heads, macs, budget>>

AttemptsAfter(w) == worker[w].attempts + 1

ReportFailure(w) ==
  LET e == worker[w].event IN
  /\ worker[w].pc = "report"
  /\ IF HoldsLease(w)
     THEN outbox' = [outbox EXCEPT
            ![e].status = IF AttemptsAfter(w) >= MaxAttempts THEN "dead" ELSE "pending",
            ![e].attempts = AttemptsAfter(w), ![e].due = FALSE,
            ![e].token = NoToken, ![e].stale = FALSE]
     ELSE UNCHANGED outbox
  /\ worker' = [worker EXCEPT ![w] = IdleWorker]
  /\ UNCHANGED <<docs, heads, macs, budget>>

(* The process is killed; the container starts another one. *)
CrashWorker(w) ==
  /\ worker[w].pc # "idle"
  /\ Spend("crash")
  /\ worker' = [worker EXCEPT ![w] = IdleWorker]
  /\ UNCHANGED <<outbox, docs, heads, macs>>

-----------------------------------------------------------------------------
WorkerStep(w) ==
  \/ BeginAppend(w) \/ CommitAppend(w) \/ RetryAppend(w) \/ AppendFails(w)
  \/ Acknowledge(w) \/ ReportFailure(w)

Next ==
  \/ \E e \in Events : Enqueue(e) \/ BackoffEnds(e) \/ LeaseExpires(e)
  \/ \E w \in Workers : WorkerStep(w) \/ CrashWorker(w) \/ \E e \in Events : Claim(w, e)

Spec == Init /\ [][Next]_vars

(* The worker loop runs the command again and again, and time passes.  The *)
(* lease of a row is only promised to run out once nobody works on it.     *)
FairSpec ==
  /\ Spec
  /\ \A w \in Workers : WF_vars(WorkerStep(w))
  /\ WF_vars(\E w \in Workers, e \in Events : Claim(w, e))
  /\ \A e \in Events :
       /\ WF_vars(BackoffEnds(e))
       /\ WF_vars(LeaseExpires(e) /\ UNCHANGED budget)
=============================================================================
