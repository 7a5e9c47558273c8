--------------------------- MODULE MCSkateMediaGC ---------------------------
(* SkateMediaGC on small instances; each budget bounds one kind of disturbance. *)
EXTENDS SkateMediaGC

CONSTANTS MaxRequests, MaxSlow, MaxFaults

MCBudget == [d \in Disturbances |->
  CASE d = "request" -> MaxRequests
    [] d = "slow" -> MaxSlow
    [] d = "fault" -> MaxFaults]
=============================================================================
