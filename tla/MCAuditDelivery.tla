--------------------------- MODULE MCAuditDelivery ---------------------------
(* AuditDelivery on small instances: two events share a partition. *)
EXTENDS AuditDeliveryInv, TLC

CONSTANTS e1, e2, e3, p1, p2, MaxSlow, MaxCrashes

MCPartitionOf == [e \in Events |-> IF e = e3 THEN p2 ELSE p1]

MCBudget == [d \in Disturbances |-> CASE d = "slow" -> MaxSlow
                                   [] d = "crash" -> MaxCrashes
                                   [] OTHER -> 0]

(* Workers are interchangeable: no definition of AuditDelivery singles one out. *)
WorkerSymmetry == Permutations(Workers)
=============================================================================
