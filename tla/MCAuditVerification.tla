------------------------- MODULE MCAuditVerification -------------------------
(* AuditVerification on small instances. *)
EXTENDS AuditVerification, TLC

CONSTANTS MaxSlow, MaxCrashes, MaxRestores, MaxRotations, p1

MCPartitionOf == [e \in Events |-> p1]

MCBudget == [d \in Disturbances |-> CASE d = "slow" -> MaxSlow
                                      [] d = "crash" -> MaxCrashes
                                      [] d = "restore" -> MaxRestores
                                      [] d = "rotate" -> MaxRotations]

WorkerSymmetry == Permutations(Workers)
=============================================================================
