---------------------------- MODULE MCPostVisits ----------------------------
(* PostVisits, and with it PostWorkflow, on small instances. *)
EXTENDS PostVisits, TLC

CONSTANTS author, manager, root, MaxServices, MaxOperations, MaxMishaps

MCRole == [u \in Users |-> IF u = manager THEN "manager" ELSE "editor"]

MCBudget == [k \in Kinds |->
  CASE k = "create" -> 1 [] k = "service" -> MaxServices
    [] k = "operation" -> MaxOperations [] k = "mishap" -> MaxMishaps]

(* Slots are interchangeable: no definition singles one out. *)
Slots == Permutations(Requests) \union Permutations(Visits)
=============================================================================
