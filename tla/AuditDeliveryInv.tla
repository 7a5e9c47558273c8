-------------------------- MODULE AuditDeliveryInv --------------------------
(* Properties of AuditDelivery, the invariants that make them inductive, and *)
(* the promise of AuditTrail that it implements.                             *)
EXTENDS AuditDelivery, Sequences

Before(d) == {c \in docs : c.partition = d.partition /\ c.sequence = d.sequence - 1}

(* security/audit.py, verify_chain: within a partition the sequence numbers  *)
(* are 1, 2, ... without a gap or a repetition, every document carries the   *)
(* MAC of its predecessor, and the head is the last document.                *)
ChainIntact ==
  /\ \A p \in Partitions : \A i \in 1..heads[p].sequence :
       \E d \in docs : d.partition = p /\ d.sequence = i
  /\ \A d \in docs :
       /\ d.sequence <= heads[d.partition].sequence
       /\ d.sequence = heads[d.partition].sequence => d.mac = heads[d.partition].mac
       /\ d.sequence = 1 => d.previous = NoMac
       /\ \A c \in Before(d) : d.previous = c.mac
  /\ \A c, d \in docs :
       (c.partition = d.partition /\ c.sequence = d.sequence) => c = d

(* security/mongo_client.py, insert_event: however often an event is         *)
(* delivered, by however many workers, it is in the chain at most once, in   *)
(* its own partition.                                                        *)
EventOnce ==
  /\ \A c, d \in docs : c.event = d.event => c = d
  /\ \A d \in docs : d.partition = PartitionOf[d.event]

(* security/outbox.py, reconcile_delivered_outbox: a delivered row has its   *)
(* document, at the sequence and with the MAC of its receipt.                *)
DeliveredIsRecorded ==
  \A e \in Events : outbox[e].status = "delivered" =>
    \E d \in docs : d.event = e /\ d.sequence = outbox[e].sequence /\ d.mac = outbox[e].mac

(* security/outbox.py, deliver_outbox_batch: "stale workers cannot overwrite *)
(* a newer lease"; at most one worker's outcome counts.                      *)
OneLeasePerEvent ==
  \A v, w \in Workers :
    /\ v # w /\ worker[v].event = worker[w].event
    /\ worker[v].pc # "idle" /\ worker[w].pc # "idle"
    => ~(HoldsLease(v) /\ HoldsLease(w))

-----------------------------------------------------------------------------
(* Strengthenings *)

(* Tokens are handed out once; only a row in processing has one, and the     *)
(* worker it belongs to knows the row's number of attempts.                  *)
LeaseInv ==
  /\ \A e \in Events :
       /\ outbox[e].token <= outbox[e].claims
       /\ outbox[e].status = "processing" <=> outbox[e].token # NoToken
       /\ outbox[e].status \in {"none", "pending", "processing"} =>
            outbox[e].attempts < MaxAttempts
  /\ \A w \in Workers : worker[w].pc # "idle" =>
       /\ worker[w].token # NoToken
       /\ worker[w].token <= outbox[worker[w].event].claims
       /\ outbox[worker[w].event].status # "none"
       /\ HoldsLease(w) => worker[w].attempts = outbox[worker[w].event].attempts
  /\ \A v, w \in Workers :
       /\ v # w /\ worker[v].event = worker[w].event
       /\ worker[v].pc # "idle" /\ worker[w].pc # "idle"
       => worker[v].token # worker[w].token

(* A head never goes back; an event that is in the chain came there after    *)
(* every snapshot that did not show it; a receipt is the document's.         *)
ChainInv ==
  /\ ChainIntact
  /\ EventOnce
  /\ \A p \in Partitions : heads[p].sequence = 0 => heads[p].mac = NoMac
  /\ \A d \in docs : outbox[d.event].status # "none"
  /\ \A w \in Workers : worker[w].pc = "commit" =>
       /\ worker[w].head.sequence <= heads[PartitionOf[worker[w].event]].sequence
       /\ \A d \in docs : d.event = worker[w].event =>
            d.sequence > worker[w].head.sequence
  /\ \A w \in Workers : worker[w].pc = "acknowledge" =>
       \E d \in docs : /\ d.event = worker[w].event
                       /\ d.sequence = worker[w].sequence
                       /\ d.mac = worker[w].mac

(* The inductive invariant of the delivery, checked as one: it contains that *)
(* leases exclude one another and that receipts point at their documents.    *)
DeliveryInv ==
  /\ TypeOK
  /\ LeaseInv
  /\ ChainInv
  /\ OneLeasePerEvent
  /\ DeliveredIsRecorded

-----------------------------------------------------------------------------
(* Promises *)

(* security/outbox.py, deliver_outbox_batch: every attempt that ends under   *)
(* its lease is counted exactly once, an attempt that lost it not at all,    *)
(* and the event is given up with the attempt that reaches the limit and     *)
(* with no earlier one.                                                      *)
AttemptsCounted ==
  [][\A e \in Events :
       IF outbox[e].status = "processing" /\ outbox'[e].status # "processing"
       THEN /\ outbox'[e].attempts = outbox[e].attempts + 1
            /\ outbox'[e].status = "pending" => outbox'[e].attempts < MaxAttempts
            /\ outbox'[e].status = "dead" => outbox'[e].attempts = MaxAttempts
       ELSE outbox'[e].attempts = outbox[e].attempts]_vars

Trail(p) ==
  [i \in 1..heads[p].sequence |->
     (CHOOSE d \in docs : d.partition = p /\ d.sequence = i).event]

Fate(e) ==
  CASE outbox[e].status = "none" -> "none"
    [] outbox[e].status \in {"pending", "processing"} -> "accepted"
    [] OTHER -> outbox[e].status

Trails == INSTANCE AuditTrail WITH
  trail <- [p \in Partitions |-> Trail(p)],
  fate <- [e \in Events |-> Fate(e)],
  receipt <- [e \in Events |-> outbox[e].sequence]

(* The outbox, its workers and the chain together keep what the audit trail  *)
(* promises.                                                                 *)
ImplementsTrail == Trails!Spec

(* security/DEVELOPMENT.md, lease, retry and event_id idempotence: an event  *)
(* that was committed with its business data is delivered or given up.       *)
EveryEventSettles ==
  \A e \in Events :
    outbox[e].status = "pending" ~> outbox[e].status \in {"delivered", "dead"}
=============================================================================
