--------------------------- MODULE BoardMembership ---------------------------
(***************************************************************************)
(* The membership services of one board (boards/services.py) as concurrent *)
(* PostgreSQL transactions.  An operation is a program of SELECT ... FOR   *)
(* UPDATE statements, each of which locks rows one after the other, checks *)
(* what it locked, and may refuse; the last step writes everything and     *)
(* commits.                                                                *)
(*                                                                         *)
(* A statement finds its rows in the snapshot of its start and sees their  *)
(* current versions once it holds them (READ COMMITTED).  A foreign key is *)
(* checked at commit with FOR KEY SHARE, which FOR UPDATE blocks.          *)
(*                                                                         *)
(* Abstractions.  Boards do not interact: one is modelled.  Dashboard      *)
(* operators and superusers are Root, who is no member.  A step-up that is *)
(* refused, a killed process and a deadlock victim are the action Fail.    *)
(* Checks that the code repeats under the same locks are made once.        *)
(***************************************************************************)
EXTENDS Naturals, Sequences, FiniteSets

CONSTANTS
  Users,      \* the accounts that may become members
  Root,       \* a dashboard operator or superuser
  Listed,     \* Listed[S]: the members in S in the order in which a statement locks their rows
  Roles,      \* the roles of a board, "manager" among them
  Foundings,  \* the memberships the board may start with
  Txs,        \* database connections of the web processes
  NoTx,       \* holder of a row that is not locked
  Budget      \* Budget[d]: how many things of kind d may happen

(* "aside": submissions, and switches of an account or of the board. *)
Kinds == {"operation", "aside"}

ASSUME BoardAssumption ==
  /\ Users # {}
  /\ Root \notin Users
  /\ Listed \in [SUBSET Users -> Seq(Users)]
  /\ \A S \in SUBSET Users : S = {Listed[S][i] : i \in 1..Len(Listed[S])}
  /\ "manager" \in Roles /\ "" \notin Roles
  /\ NoTx \notin Txs
  /\ Budget \in [Kinds -> Nat]

VARIABLES
  member,     \* member[u]: the BoardMembership row of u
  request,    \* request[u]: the pending BoardAccessRequest row of u
  enabled,    \* enabled[u]: User.is_active
  open,       \* Board.is_active
  event,      \* event[u]: the newest BoardMembershipEvent of u
  draft,      \* draft[u]: a request of u that is checked but not inserted
  holder,     \* holder[x]: the transaction that holds row x FOR UPDATE
  tx,         \* tx[t]: what transaction t does, where it is, what it read
  budget      \* what is left of Budget

rosterVars == <<member, request, enabled, open>>
vars == <<member, request, enabled, open, event, draft, holder, tx, budget>>

-----------------------------------------------------------------------------
(* Rows *)

Membership(r, a) == [role |-> r, active |-> a]
NoMember == Membership("", FALSE)
ActiveManager == Membership("manager", TRUE)
Memberships == {NoMember} \cup {Membership(r, a) : r \in Roles, a \in BOOLEAN}

ASSUME FoundingsAssumption == Foundings \subseteq [Users -> Memberships]

RequestIds == 1..Budget["aside"]
NoRequest == [id |-> 0, role |-> ""]
Requests == {NoRequest} \cup [id : RequestIds, role : Roles]

Board == <<"board">>
Account(u) == <<"account", u>>
Member(u) == <<"member", u>>
Request(i) == <<"request", i>>

Rows == {Board} \cup {Account(u) : u \in Users} \cup {Member(u) : u \in Users}
          \cup {Request(i) : i \in RequestIds}

Managers == {u \in Users : member[u] = ActiveManager}
Pending(u) == request[u] # NoRequest

-----------------------------------------------------------------------------
(* Transactions: the statements of each operation, in order *)

(* Seeded fault: pending requests are looked for before anything is locked. *)
GrantPendingFirst == <<"pending", "board", "account", "membership">>
Grant == <<"board", "account", "pending", "membership">>

Change == <<"target", "pending", "managers">>
Deactivate == <<"target", "pending", "managers">>
Reactivate == <<"target", "pending">>
Transfer == <<"target", "account", "pending", "membership", "managers">>
BreakGlass == <<"target", "pending", "managers">>
Withdraw == <<"target", "pending">>

(* Seeded fault: the managers are counted by the dashboard only. *)
ApproveUncounted == <<"request", "membership">>
Approve == <<"request", "membership", "managers">>
Reject == <<"request", "membership">>

Program ==
  [grant |-> Grant, change |-> Change, deactivate |-> Deactivate, reactivate |-> Reactivate,
   transfer |-> Transfer, breakglass |-> BreakGlass, withdraw |-> Withdraw,
   approve |-> Approve, reject |-> Reject]

Operations == DOMAIN Program
Decisions == {"approve", "reject"}

(* The form names a role; a transfer without one deactivates the old manager. *)
RolesOf(o) ==
  CASE o \in {"grant", "change", "reactivate"} -> Roles
    [] o = "transfer" -> (Roles \ {"manager"}) \cup {""}
    [] OTHER -> {""}

Transaction ==
  [op : Operations \cup {"none"}, actor : Users \cup {Root}, user : Users, other : Users,
   role : Roles \cup {""}, request : Nat, at : Nat, want : Seq(Rows), seen : SUBSET Rows,
   read : [Users -> Memberships]]

AnyUser == CHOOSE u \in Users : TRUE

Idle == [op |-> "none", actor |-> Root, user |-> AnyUser, other |-> AnyUser, role |-> "",
         request |-> 0, at |-> 0, want |-> << >>, seen |-> {},
         read |-> [u \in Users |-> NoMember]]

TypeOK ==
  /\ member \in [Users -> Memberships]
  /\ request \in [Users -> Requests]
  /\ enabled \in [Users -> BOOLEAN]
  /\ open \in BOOLEAN
  /\ event \in [Users -> [from : Memberships, to : Memberships]]
  /\ draft \in [Users -> Requests]
  /\ holder \in [Rows -> Txs \cup {NoTx}]
  /\ tx \in [Txs -> Transaction]
  /\ budget \in [Kinds -> Nat]

Init ==
  /\ member \in Foundings
  /\ request = [u \in Users |-> NoRequest]
  /\ enabled = [u \in Users |-> TRUE]
  /\ open = TRUE
  /\ event = [u \in Users |-> [from |-> NoMember, to |-> member[u]]]
  /\ draft = [u \in Users |-> NoRequest]
  /\ holder = [x \in Rows |-> NoTx]
  /\ tx = [t \in Txs |-> Idle]
  /\ budget = Budget

Spend(k) ==
  /\ budget[k] > 0
  /\ budget' = [budget EXCEPT ![k] = @ - 1]

(* Who gets rights. *)
Recipient(x) == IF x.op = "transfer" THEN x.other ELSE x.user

Deactivates(x) ==
  x.op \in {"deactivate", "breakglass", "withdraw"} \/ (x.op = "transfer" /\ x.role = "")

(* What x.user becomes: a deactivation keeps the role that was read. *)
Target(x) == IF Deactivates(x) THEN Membership(x.read[x.user].role, FALSE)
                               ELSE Membership(x.role, TRUE)

Written(x) ==
  CASE x.op = "reject" -> {}
    [] x.op = "transfer" -> {x.user, x.other}
    [] OTHER -> {x.user}

To(x, u) == IF x.op = "transfer" /\ u = x.other THEN ActiveManager ELSE Target(x)

RemovesManager(x) == x.read[x.user] = ActiveManager /\ Target(x) # ActiveManager

(* Seeded fault: a plain get. *)
TargetRowsUnlocked(x) == << >>

(* select_related joins the row with its board and its user: all are locked. *)
TargetRows(x) == <<Member(x.user), Board, Account(x.user)>>

(* Seeded fault: select_for_update(of=("self",)). *)
RequestRowsAlone(x) == <<Request(x.request)>>
RequestRows(x) == <<Request(x.request), Board, Account(x.user)>>

(* The rows of the pending request of u, and of all active managers. *)
PendingRow(u) == IF Pending(u) THEN <<Request(request[u].id)>> ELSE << >>
ManagerRows == [i \in 1..Len(Listed[Managers]) |-> Member(Listed[Managers][i])]

(* The rows a statement reads for update, in the order it locks them. *)
RowsOf(x, s) ==
  CASE s = "board" -> <<Board>>
    [] s = "account" -> <<Account(Recipient(x))>>
    [] s = "target" -> TargetRows(x)
    [] s = "request" -> RequestRows(x)
    [] s = "pending" ->
         IF x.op = "transfer" THEN PendingRow(x.user) \o PendingRow(x.other)
                              ELSE PendingRow(x.user)
    [] s = "membership" ->
         IF member[Recipient(x)] = NoMember THEN << >> ELSE <<Member(Recipient(x))>>
    [] s = "managers" ->
         IF RemovesManager(x) THEN ManagerRows ELSE << >>

(* The manager rows that are still active managers once they are locked;   *)
(* a transfer has written its new manager before it counts.                *)
Counted(x) == {u \in Managers : Member(u) \in x.seen}
                \cup (IF x.op = "transfer" THEN {x.other} ELSE {})

-----------------------------------------------------------------------------
(* What a statement demands of the rows it has locked *)

Eligible(u) == enabled[u] /\ open

TargetAllows(x) ==
  LET m == member[x.user] IN
  CASE x.op = "change" -> m.active /\ m.role # x.role /\ Eligible(x.user)
    [] x.op = "deactivate" -> m.active
    [] x.op = "reactivate" -> ~m.active /\ Eligible(x.user)
    [] x.op = "transfer" -> m = ActiveManager /\ open /\ (x.role # "" => enabled[x.user])
    [] x.op = "breakglass" -> m = ActiveManager
    [] x.op = "withdraw" -> m.active /\ m.role # "manager"

(* A reviewer is a superuser, or a manager of the board, and never the applicant. *)
MayReview(x) ==
  \/ x.actor = Root
  \/ x.actor \in Managers \ {x.user} /\ open /\ request[x.user].role # "manager"

RequestAllows(x) ==
  /\ request[x.user].id = x.request
  /\ MayReview(x)
  /\ x.op = "approve" => Eligible(x.user)

(* The membership row found in the snapshot, in its current version. *)
Found(x) == IF Member(Recipient(x)) \in x.seen THEN member[Recipient(x)] ELSE NoMember

(* Only a superuser decides on an inactive member or on a manager. *)
MayTouch(x) == x.actor = Root \/ Found(x) = NoMember
                              \/ (Found(x).active /\ Found(x).role # "manager")

MembershipAllows(x) ==
  CASE x.op = "grant" -> Found(x) = NoMember
    [] x.op = "transfer" -> Found(x) # ActiveManager
    [] x.op = "approve" -> MayTouch(x) /\ Found(x) # Target(x)
    [] x.op = "reject" -> MayTouch(x)

NonePending(x) ==
  \A u \in {x.user, Recipient(x)} : Pending(u) => Request(request[u].id) \notin x.seen

ManagersAllow(x) ==
  RemovesManager(x) => IF x.op = "breakglass" THEN Counted(x) = {x.user}
                                              ELSE Cardinality(Counted(x)) > 1

Passes(x, s) ==
  CASE s = "board" -> open
    [] s = "account" -> enabled[Recipient(x)] /\ (x.op = "transfer" => x.other # x.user)
    [] s = "target" -> TargetAllows(x)
    [] s = "request" -> RequestAllows(x)
    [] s = "pending" -> NonePending(x)
    [] s = "membership" -> MembershipAllows(x)
    [] s = "managers" -> ManagersAllow(x)

(* What the transaction keeps of the rows it has read. *)
Learned(x, s) ==
  CASE s = "target" -> [x.read EXCEPT ![x.user] = member[x.user]]
    [] s = "membership" -> [x.read EXCEPT ![Recipient(x)] = Found(x)]
    [] OTHER -> x.read

-----------------------------------------------------------------------------
(* Steps of a transaction *)

Busy(t) == tx[t].op # "none"
Statements(x) == Program[x.op]
Finished(x) == x.want = << >> /\ x.at > Len(Statements(x))

(* x with its statement number i started. *)
Started(x, i) ==
  [x EXCEPT !.at = i, !.seen = {},
            !.want = IF i > Len(Statements(x)) THEN << >> ELSE RowsOf(x, Statements(x)[i])]

Begin(t, x) ==
  /\ ~Busy(t)
  /\ Spend("operation")
  /\ tx' = [tx EXCEPT ![t] = Started(x, 1)]
  /\ UNCHANGED <<rosterVars, event, draft, holder>>

(* The dashboard and the break-glass page; all but the grant name a row that exists. *)
BeginDashboard(t, o, u, v, r) ==
  /\ o \notin Decisions \cup {"withdraw"}
  /\ r \in RolesOf(o)
  /\ o # "transfer" => v = u
  /\ o # "grant" => member[u] # NoMember
  /\ Begin(t, [Idle EXCEPT !.op = o, !.user = u, !.other = v, !.role = r])

(* An account that is active when its web request starts. *)
BeginWithdraw(t, u) ==
  /\ enabled[u]
  /\ member[u] # NoMember
  /\ Begin(t, [Idle EXCEPT !.op = "withdraw", !.actor = u, !.user = u, !.other = u])

BeginDecision(t, o, a, u) ==
  /\ Pending(u)
  /\ a # Root => enabled[a]
  /\ Begin(t, [Idle EXCEPT !.op = o, !.actor = a, !.user = u, !.other = u,
                           !.role = request[u].role, !.request = request[u].id])

(* The next row of the statement is free. *)
Acquire(t) ==
  LET x == tx[t] IN
  /\ x.want # << >>
  /\ holder[Head(x.want)] \in {NoTx, t}
  /\ holder' = [holder EXCEPT ![Head(x.want)] = t]
  /\ tx' = [tx EXCEPT ![t].want = Tail(@), ![t].seen = @ \cup {Head(x.want)}]
  /\ UNCHANGED <<rosterVars, event, draft, budget>>

AtCheck(t) == Busy(t) /\ tx[t].want = << >> /\ ~Finished(tx[t])

Advance(t) ==
  LET x == tx[t]
      s == Statements(x)[x.at]
  IN
  /\ AtCheck(t)
  /\ Passes(x, s)
  /\ tx' = [tx EXCEPT ![t] = Started([x EXCEPT !.read = Learned(x, s)], x.at + 1)]
  /\ UNCHANGED <<rosterVars, event, draft, holder, budget>>

(* The transaction is over: its row locks are gone. *)
Finish(t) ==
  /\ holder' = [x \in Rows |-> IF holder[x] = t THEN NoTx ELSE holder[x]]
  /\ tx' = [tx EXCEPT ![t] = Idle]

Abort(t) ==
  /\ Finish(t)
  /\ UNCHANGED <<rosterVars, event, draft, budget>>

Refuse(t) ==
  /\ AtCheck(t)
  /\ ~Passes(tx[t], Statements(tx[t])[tx[t].at])
  /\ Abort(t)

(* The account of the actor, whose key the inserted rows refer to. *)
ActorRow(x) == IF x.actor = Root THEN {} ELSE {Account(x.actor)}

Commit(t) ==
  LET x == tx[t] IN
  /\ Busy(t) /\ Finished(x)
  /\ \A k \in ActorRow(x) : holder[k] \in {NoTx, t}
  /\ member' = [u \in Users |-> IF u \in Written(x) THEN To(x, u) ELSE member[u]]
  /\ event' = [u \in Users |-> IF u \in Written(x) THEN [from |-> x.read[u], to |-> To(x, u)]
                                                   ELSE event[u]]
  /\ request' = IF x.op \in Decisions THEN [request EXCEPT ![x.user] = NoRequest] ELSE request
  /\ Finish(t)
  /\ UNCHANGED <<enabled, open, draft, budget>>

(* The step-up is refused, the process is killed, or PostgreSQL picks the  *)
(* transaction to end a circle of transactions that wait for each other.   *)
Fail(t) ==
  /\ Busy(t)
  /\ Abort(t)

-----------------------------------------------------------------------------
(* What happens beside them *)

NewRequestId == Budget["aside"] - budget["aside"] + 1

(* submit_board_access_request reads board and membership without a lock, ... *)
CheckSubmission(u, r) ==
  /\ Spend("aside")
  /\ draft[u] = NoRequest
  /\ Eligible(u)
  /\ member[u] # Membership(r, TRUE)
  /\ draft' = [draft EXCEPT ![u] = [id |-> NewRequestId, role |-> r]]
  /\ UNCHANGED <<rosterVars, event, holder, tx>>

(* ... and inserts the row, unless one is pending.  The row becomes visible *)
(* at commit, which checks its keys to the board and to the applicant.      *)
InsertSubmission(u) ==
  /\ draft[u] # NoRequest
  /\ ~Pending(u)
  /\ holder[Board] = NoTx /\ holder[Account(u)] = NoTx
  /\ request' = [request EXCEPT ![u] = draft[u]]
  /\ draft' = [draft EXCEPT ![u] = NoRequest]
  /\ UNCHANGED <<member, enabled, open, event, holder, tx, budget>>

(* unique_pending_board_access_request, or the form is given up. *)
DropSubmission(u) ==
  /\ draft[u] # NoRequest
  /\ draft' = [draft EXCEPT ![u] = NoRequest]
  /\ UNCHANGED <<rosterVars, event, holder, tx, budget>>

(* set_account_active_state, under the lock of the account. *)
SwitchAccount(u) ==
  /\ holder[Account(u)] = NoTx
  /\ Spend("aside")
  /\ enabled' = [enabled EXCEPT ![u] = ~@]
  /\ UNCHANGED <<member, request, open, event, draft, holder, tx>>

(* A superuser saves the board in the admin. *)
SwitchBoard ==
  /\ holder[Board] = NoTx
  /\ Spend("aside")
  /\ open' = ~open
  /\ UNCHANGED <<member, request, enabled, event, draft, holder, tx>>

-----------------------------------------------------------------------------
Step(t) == Acquire(t) \/ Advance(t) \/ Refuse(t) \/ Commit(t)

Start(t) ==
  \/ \E o \in Operations, u, v \in Users, r \in Roles \cup {""} : BeginDashboard(t, o, u, v, r)
  \/ \E u \in Users : BeginWithdraw(t, u)
  \/ \E o \in Decisions, a \in Users \cup {Root}, u \in Users : BeginDecision(t, o, a, u)

Submission(u) ==
  \/ \E r \in Roles : CheckSubmission(u, r)
  \/ InsertSubmission(u)
  \/ DropSubmission(u)

Next ==
  \/ \E t \in Txs : Start(t) \/ Step(t) \/ Fail(t)
  \/ \E u \in Users : Submission(u) \/ SwitchAccount(u)
  \/ SwitchBoard

Spec == Init /\ [][Next]_vars

-----------------------------------------------------------------------------
(* Properties *)

Ends(t) == Busy(t) /\ tx'[t].op = "none"

(* A board that has an active manager keeps one, whatever runs at the same  *)
(* time: only a break-glass deactivation may leave it without.              *)
ManagerContinuity ==
  [][Managers # {} /\ Managers' = {} => \E t \in Txs : Ends(t) /\ tx[t].op = "breakglass"]_vars

(* An access request is decided by a transaction that was opened for that   *)
(* very request, and at that moment its reviewer is a superuser or manages  *)
(* the open board, and is not the applicant: a manager who is demoted while *)
(* a decision is under way decides nothing.                                 *)
DecisionAuthorized ==
  [][\A u \in Users :
       Pending(u) /\ request'[u] # request[u] =>
         \E t \in Txs :
           /\ Ends(t) /\ tx[t].op \in Decisions
           /\ tx[t].user = u /\ tx[t].request = request[u].id
           /\ MayReview(tx[t])]_vars

(* The events of a member are a gapless history: each one starts from where *)
(* the one before ended, and the newest ends at the membership in force.    *)
(* The first conjunct gives the types.                                      *)
HistoryChain ==
  /\ []TypeOK
  /\ [][\A u \in Users :
          event'[u] # event[u] \/ member'[u] # member[u] =>
            /\ event'[u].from = event[u].to
            /\ event'[u].to = member'[u]]_vars

(* Every commit, however interleaved, is one legal step of the roster: no   *)
(* operation overtakes a pending request, gives rights to a disabled        *)
(* account or on a closed board, or changes a membership it did not read.   *)
Roster == INSTANCE BoardRoster
ImplementsRoster == Roster!Spec
=============================================================================
