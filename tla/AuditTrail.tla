----------------------------- MODULE AuditTrail -----------------------------
(***************************************************************************)
(* What the audit pipeline promises to an auditor.  Every partition is an  *)
(* append-only sequence of events in which no event occurs twice; an event *)
(* a business transaction has committed is either still on its way, or     *)
(* delivered, and then it is in the trail at the position of its receipt,  *)
(* or given up for an operator to look at.  Delivered and given up are     *)
(* final.  Leases, retries, workers and transactions are invisible here.   *)
(***************************************************************************)
EXTENDS Naturals, Sequences

CONSTANTS
  Events,      \* event identities
  Partitions,  \* partitions of the trail
  PartitionOf  \* PartitionOf[e]: the partition of event e

VARIABLES
  trail,       \* trail[p]: the events of partition p, in order
  fate,        \* fate[e]: what has become of event e
  receipt      \* receipt[e]: the position a delivered event was acknowledged at

vars == <<trail, fate, receipt>>

Recorded(e) == \E i \in 1..Len(trail[PartitionOf[e]]) : trail[PartitionOf[e]][i] = e

Init ==
  /\ trail = [p \in Partitions |-> <<>>]
  /\ fate = [e \in Events |-> "none"]
  /\ receipt = [e \in Events |-> 0]

Accept(e) ==
  /\ fate[e] = "none"
  /\ fate' = [fate EXCEPT ![e] = "accepted"]
  /\ UNCHANGED <<trail, receipt>>

(* An event may still reach the trail after it was given up: the attempt   *)
(* that gives up is not the only one there was.                            *)
Record(e) ==
  /\ fate[e] \in {"accepted", "dead"}
  /\ ~Recorded(e)
  /\ trail' = [trail EXCEPT ![PartitionOf[e]] = Append(@, e)]
  /\ UNCHANGED <<fate, receipt>>

Deliver(e, i) ==
  /\ fate[e] = "accepted"
  /\ trail[PartitionOf[e]][i] = e
  /\ fate' = [fate EXCEPT ![e] = "delivered"]
  /\ receipt' = [receipt EXCEPT ![e] = i]
  /\ UNCHANGED trail

GiveUp(e) ==
  /\ fate[e] = "accepted"
  /\ fate' = [fate EXCEPT ![e] = "dead"]
  /\ UNCHANGED <<trail, receipt>>

Next ==
  \E e \in Events :
    \/ Accept(e) \/ Record(e) \/ GiveUp(e)
    \/ \E i \in 1..Len(trail[PartitionOf[e]]) : Deliver(e, i)

Spec == Init /\ [][Next]_vars
=============================================================================
