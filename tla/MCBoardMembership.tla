-------------------------- MODULE MCBoardMembership --------------------------
(* BoardMembership on small instances. *)
EXTENDS BoardMembership, TLC

CONSTANTS u1, u2, MaxOperations, MaxAsides

MCOrder == <<u1, u2>>
MCListed == [S \in SUBSET Users |-> LET In(u) == u \in S IN SelectSeq(MCOrder, In)]

(* One manager beside a stranger, an editor or a second manager. *)
MCFoundings ==
  {[u \in Users |-> IF u = u1 THEN ActiveManager ELSE m] :
     m \in {NoMember, Membership("editor", TRUE), ActiveManager}}

MCBudget == [k \in Kinds |-> IF k = "operation" THEN MaxOperations ELSE MaxAsides]

(* Connections are interchangeable: no definition of BoardMembership singles one out. *)
TxSymmetry == Permutations(Txs)
=============================================================================
