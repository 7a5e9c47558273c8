---------------------------- MODULE MCSkateMedia ----------------------------
(* SkateMedia on small instances; each budget bounds one kind of disturbance. *)
EXTENDS SkateMediaInv, TLC

CONSTANTS MaxRequests, MaxSlow, MaxFaults

MCBudget == [d \in Disturbances |->
  CASE d = "request" -> MaxRequests
    [] d = "slow" -> MaxSlow
    [] d = "fault" -> MaxFaults]

(* Workers, and uploads, are interchangeable. *)
MCSymmetry == Permutations(Workers) \union Permutations(Uploaders)
=============================================================================
