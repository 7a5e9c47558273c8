---------------------------- MODULE MCMfaAccess -----------------------------
(* MfaAccess on a small instance. *)
EXTENDS MfaAccess, TLC

CONSTANTS MaxRequests, MaxMishaps

MCBudget == [d \in {"request", "mishap"} |-> IF d = "request" THEN MaxRequests ELSE MaxMishaps]

(* No definition of MfaAccess singles a browser out. *)
BrowserSymmetry == Permutations(Browsers)
=============================================================================
