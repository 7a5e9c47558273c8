----------------------------- MODULE BoardRoster -----------------------------
(***************************************************************************)
(* What the membership services of a board promise: every change of the    *)
(* members of a board is one legal step of the state machine that          *)
(* accounts/PERMISSIONS_GUIDE.md draws, whatever runs beside it.  Rows,    *)
(* locks and transactions are invisible here.                              *)
(***************************************************************************)
EXTENDS Naturals

CONSTANTS
  Users,      \* the accounts that may become members
  Roles,      \* the roles of a board, "manager" among them
  RequestIds, \* the identities of access requests
  Foundings   \* the memberships a board may start with

VARIABLES
  member,     \* member[u]: the membership of u on the board
  request,    \* request[u]: the pending access request of u
  enabled,    \* enabled[u]: whether the account of u is active
  open        \* whether the board is active

vars == <<member, request, enabled, open>>

(* No row: no role, and no rights. *)
NoMember == [role |-> "", active |-> FALSE]
NoRequest == [id |-> 0, role |-> ""]

Membership(r, a) == [role |-> r, active |-> a]
ActiveManager == Membership("manager", TRUE)

Managers == {u \in Users : member[u] = ActiveManager}
Pending(u) == request[u] # NoRequest

(* Rights are given only to an active account on an active board. *)
Eligible(u) == enabled[u] /\ open

(* A change of u to m leaves a manager where there was one. *)
Continues(u, m) == u \in Managers /\ m # ActiveManager => Managers \ {u} # {}

Init ==
  /\ member \in Foundings
  /\ request = [u \in Users |-> NoRequest]
  /\ enabled = [u \in Users |-> TRUE]
  /\ open = TRUE

Become(u, m) ==
  /\ member' = [member EXCEPT ![u] = m]
  /\ UNCHANGED <<request, enabled, open>>

Grant(u, r) ==
  /\ ~Pending(u) /\ Eligible(u)
  /\ member[u] = NoMember
  /\ Become(u, Membership(r, TRUE))

ChangeRole(u, r) ==
  /\ ~Pending(u) /\ Eligible(u)
  /\ member[u].active /\ member[u].role # r
  /\ Continues(u, Membership(r, TRUE))
  /\ Become(u, Membership(r, TRUE))

Reactivate(u, r) ==
  /\ ~Pending(u) /\ Eligible(u)
  /\ member[u] # NoMember /\ ~member[u].active
  /\ Become(u, Membership(r, TRUE))

(* By the dashboard, or by a member who is not a manager and leaves. *)
Deactivate(u) ==
  /\ ~Pending(u)
  /\ member[u].active
  /\ Continues(u, Membership(member[u].role, FALSE))
  /\ Become(u, Membership(member[u].role, FALSE))

(* The only way to a board without a manager, open to superusers. *)
BreakGlass(u) ==
  /\ ~Pending(u)
  /\ Managers = {u}
  /\ Become(u, Membership("manager", FALSE))

(* v becomes manager in the same step in which u stops being one. *)
Transfer(u, v, m) ==
  /\ ~Pending(u) /\ ~Pending(v) /\ Eligible(v)
  /\ u \in Managers /\ v \notin Managers
  /\ m = Membership("manager", FALSE) \/ (m.active /\ m.role # "manager" /\ enabled[u])
  /\ member' = [member EXCEPT ![u] = m, ![v] = ActiveManager]
  /\ UNCHANGED <<request, enabled, open>>

Submit(u, i, r) ==
  /\ ~Pending(u)
  /\ \A v \in Users : request[v].id # i
  /\ request' = [request EXCEPT ![u] = [id |-> i, role |-> r]]
  /\ UNCHANGED <<member, enabled, open>>

(* The applicant becomes what was asked for, which is a change. *)
Approve(u) ==
  LET m == Membership(request[u].role, TRUE) IN
  /\ Pending(u) /\ Eligible(u)
  /\ member[u] # m
  /\ Continues(u, m)
  /\ member' = [member EXCEPT ![u] = m]
  /\ request' = [request EXCEPT ![u] = NoRequest]
  /\ UNCHANGED <<enabled, open>>

Reject(u) ==
  /\ Pending(u)
  /\ request' = [request EXCEPT ![u] = NoRequest]
  /\ UNCHANGED <<member, enabled, open>>

SetActive(u, b) ==
  /\ enabled' = [enabled EXCEPT ![u] = b]
  /\ UNCHANGED <<member, request, open>>

SetOpen(b) ==
  /\ open' = b
  /\ UNCHANGED <<member, request, enabled>>

Next ==
  \/ \E b \in BOOLEAN : SetOpen(b)
  \/ \E u \in Users, b \in BOOLEAN : SetActive(u, b)
  \/ \E u \in Users : Deactivate(u) \/ BreakGlass(u) \/ Approve(u) \/ Reject(u)
  \/ \E u \in Users, r \in Roles :
       Grant(u, r) \/ ChangeRole(u, r) \/ Reactivate(u, r)
  \/ \E u, v \in Users, r \in Roles, a \in BOOLEAN : Transfer(u, v, Membership(r, a))
  \/ \E u \in Users, i \in RequestIds, r \in Roles : Submit(u, i, r)

Spec == Init /\ [][Next]_vars
=============================================================================
