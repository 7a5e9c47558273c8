-------------------------- MODULE MCAccountAccess --------------------------
(* AccountAccess on a small instance. *)
EXTENDS AccountAccess, TLC

(* Requests, visitors and operators of one kind are told apart nowhere.    *)
SlotSymmetry == Permutations(Requests) \union Permutations(Desks) \union Permutations(Visitors)
=============================================================================
