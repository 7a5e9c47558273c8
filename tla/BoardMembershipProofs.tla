------------------------ MODULE BoardMembershipProofs ------------------------
(* Proofs about BoardMembership, for every set of users, roles, founding     *)
(* memberships and connections.                                              *)
EXTENDS BoardMembership, FiniteSetTheorems, TLAPS

-----------------------------------------------------------------------------
(* The inductive invariant *)

(* The statement that x is in, and those it has behind it. *)
Doing(x, s) == x.at <= Len(Statements(x)) /\ Statements(x)[x.at] = s
Done(x, s) == \E i \in 1..(x.at - 1) : Statements(x)[i] = s

(* Operations that begin with an existing membership. *)
Targets == Operations \ (Decisions \cup {"grant"})

(* The rows of the first statement; the board is always one of them. *)
FirstRows(x) ==
  {Board} \cup (IF x.op \in Targets THEN {Member(x.user), Account(x.user)} ELSE {})
          \cup (IF x.op \in Decisions THEN {Request(x.request), Account(x.user)} ELSE {})

(* x has locked row r in its statement, or is going to. *)
Covered(x, r) == r \in x.seen \/ \E i \in 1..Len(x.want) : x.want[i] = r

(* A request that is decided is the one it was when the decision began. *)
Tied(x) ==
  /\ x.request < NewRequestId
  /\ \A u \in Users : /\ request[u].id = x.request => u = x.user /\ request[u].role = x.role
                      /\ draft[u].id # x.request

(* What the page that began x has made sure of. *)
Legal(x) ==
  /\ x.op \in Operations
  /\ x.op # "transfer" => x.other = x.user
  /\ x.op \notin Decisions => x.role \in RolesOf(x.op)
  /\ x.op \in Targets => member[x.user] # NoMember
  /\ x.op \in Decisions => x.role \in Roles /\ x.request \in RequestIds /\ Tied(x)

(* What the first statement has checked. *)
FirstHolds(x) ==
  /\ x.op = "grant" => open
  /\ x.op \in Targets => TargetAllows(x) /\ x.read[x.user] = member[x.user]
  /\ x.op \in Decisions => RequestAllows(x)

AccountSeen(x) == Covered(x, Account(Recipient(x)))

AccountHolds(t, x) ==
  /\ holder[Account(Recipient(x))] = t
  /\ enabled[Recipient(x)]
  /\ x.op = "transfer" => x.other # x.user

PendingSeen(x) ==
  \A u \in {x.user, Recipient(x)} : Pending(u) => Covered(x, Request(request[u].id))

PendingHolds(x) == ~Pending(x.user) /\ ~Pending(Recipient(x))

MembershipSeen(x) == member[Recipient(x)] # NoMember => Covered(x, Member(Recipient(x)))

MembershipHolds(x) ==
  /\ x.read[Recipient(x)] = member[Recipient(x)]
  /\ x.op = "grant" => member[x.user] = NoMember
  /\ x.op = "transfer" => member[x.other] # ActiveManager
  /\ x.op = "approve" => member[x.user] # Target(x)

ManagersSeen(x) == RemovesManager(x) => \A u \in Managers : Covered(x, Member(u))

ManagersHold(x) ==
  RemovesManager(x) => IF x.op = "breakglass" THEN Managers = {x.user}
                       ELSE x.op = "transfer" \/ Managers \ {x.user} # {}

(* From its second statement on a transaction holds the board, and what its *)
(* statements have checked is still so.                                     *)
Settled(t, x) ==
  /\ \A r \in FirstRows(x) : holder[r] = t
  /\ FirstHolds(x)
  /\ Doing(x, "account") => AccountSeen(x)
  /\ Done(x, "account") => AccountHolds(t, x)
  /\ Doing(x, "pending") => PendingSeen(x)
  /\ Done(x, "pending") => PendingHolds(x)
  /\ Doing(x, "membership") => MembershipSeen(x)
  /\ Done(x, "membership") => MembershipHolds(x)
  /\ Doing(x, "managers") => ManagersSeen(x)
  /\ Done(x, "managers") => ManagersHold(x)

TxInv(t) ==
  LET x == tx[t] IN
  Busy(t) =>
    /\ Legal(x) /\ x.at \in 1..(Len(Statements(x)) + 1)
    /\ \A r \in x.seen : holder[r] = t
    /\ x.at = 1 => \A r \in FirstRows(x) : Covered(x, r)
    /\ x.at > 1 => Settled(t, x)

(* The identity of a request is used once. *)
IdsFresh ==
  /\ budget["aside"] <= Budget["aside"]
  /\ \A u \in Users : request[u].id < NewRequestId /\ draft[u].id < NewRequestId
  /\ \A u, v \in Users :
       /\ u # v /\ Pending(u) => request[u].id # request[v].id
       /\ draft[u] # NoRequest => request[v].id # draft[u].id
       /\ u # v /\ draft[u] # NoRequest => draft[v].id # draft[u].id

HistoryCurrent == \A u \in Users : event[u].to = member[u]

BoardInv == IdsFresh /\ HistoryCurrent /\ \A t \in Txs : TxInv(t)

-----------------------------------------------------------------------------
(* Rows, memberships and programs *)

Names == {"board", "account", "target", "request", "pending", "membership", "managers"}

LEMMA RowTypes ==
  /\ Board \in Rows
  /\ \A u \in Users : Account(u) \in Rows /\ Member(u) \in Rows
  /\ \A i \in RequestIds : Request(i) \in Rows
BY DEF Rows

LEMMA NoTxIsNone == \A t \in Txs : t # NoTx
BY BoardAssumption

(* A membership is its role and whether it is active. *)
LEMMA MembershipTypes ==
  /\ \A r \in Roles : \A a \in BOOLEAN : Membership(r, a) \in Memberships
  /\ \A r \in Roles : \A a \in BOOLEAN : Membership(r, a) # NoMember
  /\ NoMember \in Memberships /\ ActiveManager \in Memberships /\ ActiveManager # NoMember
  /\ \A r, a : Membership(r, a).role = r /\ Membership(r, a).active = a
<1>1. \A r, a : Membership(r, a).role = r /\ Membership(r, a).active = a
  BY DEF Membership
<1>2. \A r \in Roles : \A a \in BOOLEAN : Membership(r, a) \in Memberships
  BY DEF Memberships
<1>3. NoMember.role = ""
  BY DEF NoMember, Membership
<1>4. \A r \in Roles : \A a \in BOOLEAN : Membership(r, a) # NoMember
  <2> SUFFICES ASSUME NEW r \in Roles, NEW a \in BOOLEAN
               PROVE  Membership(r, a) # NoMember
    OBVIOUS
  <2>1. Membership(r, a).role = r /\ r # ""
    BY <1>1, BoardAssumption
  <2> QED
    BY <1>3, <2>1
<1>5. NoMember \in Memberships
  BY DEF Memberships
<1>6. "manager" \in Roles /\ TRUE \in BOOLEAN
  BY BoardAssumption
<1>7. ActiveManager \in Memberships /\ ActiveManager # NoMember
  BY <1>2, <1>4, <1>6 DEF ActiveManager
<1> QED
  BY <1>1, <1>2, <1>4, <1>5, <1>7

LEMMA MembershipParts ==
  ASSUME NEW m \in Memberships
  PROVE  /\ m.active \in BOOLEAN
         /\ m = Membership(m.role, m.active)
         /\ m = NoMember \/ m.role \in Roles
         /\ m # NoMember => m.role \in Roles
         /\ Membership(m.role, FALSE) \in Memberships
         /\ m # NoMember => Membership(m.role, FALSE) # NoMember
<1>1. CASE m = NoMember
  <2>1. m.role = "" /\ m.active = FALSE
    BY <1>1 DEF NoMember, Membership
  <2>2. Membership(m.role, FALSE) = NoMember /\ Membership(m.role, m.active) = NoMember
    BY <2>1 DEF NoMember
  <2>3. NoMember \in Memberships
    BY DEF Memberships
  <2> QED
    BY <1>1, <2>1, <2>2, <2>3
<1>2. CASE m # NoMember
  <2>1. PICK r \in Roles, a \in BOOLEAN : m = Membership(r, a)
    BY <1>2 DEF Memberships
  <2>2. m.role = r /\ m.active = a
    BY <2>1 DEF Membership
  <2> QED
    BY <1>2, <2>1, <2>2, MembershipTypes
<1> QED
  BY <1>1, <1>2

LEMMA RequestParts ==
  /\ Budget["aside"] \in Nat
  /\ NoRequest \in Requests /\ NoRequest.id = 0
  /\ \A q \in Requests : q.id \in Nat /\ (q = NoRequest <=> q.id = 0)
                         /\ (q # NoRequest => q.id \in RequestIds /\ q.role \in Roles)
<1>1. Budget["aside"] \in Nat
  BY BoardAssumption DEF Kinds
<1>2. \A i \in RequestIds : i \in Nat /\ i # 0
  BY <1>1 DEF RequestIds
<1>3. NoRequest \in Requests /\ NoRequest.id = 0
  BY DEF Requests, NoRequest
<1>4. ASSUME NEW q \in Requests
      PROVE  /\ q.id \in Nat /\ (q = NoRequest <=> q.id = 0)
             /\ (q # NoRequest => q.id \in RequestIds /\ q.role \in Roles)
  <2>1. CASE q = NoRequest
    BY <1>3, <2>1
  <2>2. CASE q # NoRequest
    <3>1. q \in [id : RequestIds, role : Roles]
      BY <2>2 DEF Requests
    <3> QED
      BY <1>2, <2>2, <3>1
  <2> QED
    BY <2>1, <2>2
<1> QED
  BY <1>1, <1>3, <1>4

LEMMA Programs ==
  /\ Operations = {"grant", "change", "deactivate", "reactivate", "transfer", "breakglass",
                   "withdraw", "approve", "reject"}
  /\ Program["grant"] = <<"board", "account", "pending", "membership">>
  /\ Program["change"] = <<"target", "pending", "managers">>
  /\ Program["deactivate"] = <<"target", "pending", "managers">>
  /\ Program["reactivate"] = <<"target", "pending">>
  /\ Program["transfer"] = <<"target", "account", "pending", "membership", "managers">>
  /\ Program["breakglass"] = <<"target", "pending", "managers">>
  /\ Program["withdraw"] = <<"target", "pending">>
  /\ Program["approve"] = <<"request", "membership", "managers">>
  /\ Program["reject"] = <<"request", "membership">>
BY DEF Operations, Program, Grant, Change, Deactivate, Reactivate, Transfer, BreakGlass, Withdraw,
       Approve, Reject

LEMMA TargetOps == Targets = {"change", "deactivate", "reactivate", "transfer", "breakglass", "withdraw"}
BY Programs DEF Targets, Decisions

(* Every program has a first statement that locks the board, and others. *)
LEMMA ProgramShape ==
  ASSUME NEW o \in Operations
  PROVE  /\ Program[o] \in Seq(Names)
         /\ Len(Program[o]) \in Nat /\ Len(Program[o]) > 1
         /\ Program[o][1] = IF o = "grant" THEN "board" ELSE IF o \in Decisions THEN "request" ELSE "target"
<1>1. CASE o = "grant"
  BY <1>1, Programs DEF Names, Decisions
<1>2. CASE o = "change"
  BY <1>2, Programs DEF Names, Decisions
<1>3. CASE o = "deactivate"
  BY <1>3, Programs DEF Names, Decisions
<1>4. CASE o = "breakglass"
  BY <1>4, Programs DEF Names, Decisions
<1>5. CASE o = "reactivate"
  BY <1>5, Programs DEF Names, Decisions
<1>6. CASE o = "withdraw"
  BY <1>6, Programs DEF Names, Decisions
<1>7. CASE o = "transfer"
  BY <1>7, Programs DEF Names, Decisions
<1>8. CASE o = "approve"
  BY <1>8, Programs DEF Names, Decisions
<1>9. CASE o = "reject"
  BY <1>9, Programs DEF Names, Decisions
<1> QED
  BY <1>1, <1>2, <1>3, <1>4, <1>5, <1>6, <1>7, <1>8, <1>9, Programs

(* What comes after the first statement, and in which order. *)
LEMMA LaterStatements ==
  ASSUME NEW o \in Operations, NEW i \in 2..Len(Program[o])
  PROVE  /\ Program[o][i] \in {"account", "pending", "membership", "managers"}
         /\ Program[o][i] = "account" => o \in {"grant", "transfer"}
         /\ Program[o][i] = "membership" => o \in {"grant", "transfer", "approve", "reject"}
         /\ o = "transfer" /\ Program[o][i] = "membership" => Program[o][2] = "account" /\ i > 2
         /\ Program[o][i] = "managers" =>
              /\ o \in {"change", "deactivate", "breakglass", "transfer", "approve"}
              /\ o = "approve" => Program[o][2] = "membership" /\ i > 2
              /\ i = Len(Program[o])
<1>1. CASE o = "grant"
  BY <1>1, Programs
<1>2. CASE o = "change"
  BY <1>2, Programs
<1>3. CASE o = "deactivate"
  BY <1>3, Programs
<1>4. CASE o = "breakglass"
  BY <1>4, Programs
<1>5. CASE o \in {"reactivate", "withdraw"}
  BY <1>5, Programs
<1>6. CASE o = "transfer"
  BY <1>6, Programs
<1>7. CASE o = "approve"
  BY <1>7, Programs
<1>8. CASE o = "reject"
  BY <1>8, Programs
<1> QED
  BY <1>1, <1>2, <1>3, <1>4, <1>5, <1>6, <1>7, <1>8, Programs

(* What a finished transaction has behind it. *)
LEMMA AllDone ==
  ASSUME NEW x \in Transaction, x.op \in Operations, x.at = Len(Statements(x)) + 1
  PROVE  /\ x.at > 1
         /\ x.op \in {"grant", "transfer"} => Done(x, "account")
         /\ x.op \in Targets \cup {"grant"} => Done(x, "pending")
         /\ x.op \in {"grant", "transfer", "approve", "reject"} => Done(x, "membership")
         /\ x.op \in {"change", "deactivate", "breakglass", "transfer", "approve"} => Done(x, "managers")
<1> USE DEF Statements, Done
<1>1. CASE x.op = "grant"
  <2>1. x.at = 5 /\ 2 \in 1..4 /\ 3 \in 1..4 /\ 4 \in 1..4
    BY <1>1, Programs
  <2> QED
    BY <1>1, <2>1, Programs
<1>2. CASE x.op \in {"change", "deactivate", "breakglass"}
  <2>1. Len(Program[x.op]) = 3
    <3>1. CASE x.op = "change"
      BY <3>1, Programs
    <3>2. CASE x.op = "deactivate"
      BY <3>2, Programs
    <3>3. CASE x.op = "breakglass"
      BY <3>3, Programs
    <3> QED
      BY <1>2, <3>1, <3>2, <3>3
  <2>2. Program[x.op][2] = "pending" /\ Program[x.op][3] = "managers"
    BY <1>2, Programs
  <2>3. x.at = 4 /\ 2 \in 1..3 /\ 3 \in 1..3
    BY <2>1
  <2> QED
    BY <1>2, <2>2, <2>3
<1>3. CASE x.op \in {"reactivate", "withdraw"}
  <2>1. Len(Program[x.op]) = 2
    <3>1. CASE x.op = "reactivate"
      BY <3>1, Programs
    <3>2. CASE x.op = "withdraw"
      BY <3>2, Programs
    <3> QED
      BY <1>3, <3>1, <3>2
  <2>2. Program[x.op][2] = "pending"
    BY <1>3, Programs
  <2>3. x.at = 3 /\ 2 \in 1..2
    BY <2>1
  <2> QED
    BY <1>3, <2>2, <2>3
<1>4. CASE x.op = "transfer"
  <2>1. x.at = 6 /\ 2 \in 1..5 /\ 3 \in 1..5 /\ 4 \in 1..5 /\ 5 \in 1..5
    BY <1>4, Programs
  <2> QED
    BY <1>4, <2>1, Programs
<1>5. CASE x.op = "approve"
  <2>1. x.at = 4 /\ 2 \in 1..3 /\ 3 \in 1..3
    BY <1>5, Programs
  <2> QED
    BY <1>5, <2>1, Programs, TargetOps
<1>6. CASE x.op = "reject"
  <2>1. x.at = 3 /\ 2 \in 1..2
    BY <1>6, Programs
  <2> QED
    BY <1>6, <2>1, Programs, TargetOps
<1> QED
  BY <1>1, <1>2, <1>3, <1>4, <1>5, <1>6, Programs

-----------------------------------------------------------------------------
(* The rows of a statement *)

LEMMA RowsAre ==
  ASSUME NEW x
  PROVE  /\ RowsOf(x, "board") = <<Board>>
         /\ RowsOf(x, "account") = <<Account(Recipient(x))>>
         /\ RowsOf(x, "target") = <<Member(x.user), Board, Account(x.user)>>
         /\ RowsOf(x, "request") = <<Request(x.request), Board, Account(x.user)>>
         /\ RowsOf(x, "pending") = IF x.op = "transfer" THEN PendingRow(x.user) \o PendingRow(x.other)
                                                        ELSE PendingRow(x.user)
         /\ RowsOf(x, "membership") = IF member[Recipient(x)] = NoMember THEN << >>
                                      ELSE <<Member(Recipient(x))>>
         /\ RowsOf(x, "managers") = IF RemovesManager(x) THEN ManagerRows ELSE << >>
BY DEF RowsOf, TargetRows, RequestRows

LEMMA HeadAndTail ==
  ASSUME NEW S, NEW q \in Seq(S), q # << >>
  PROVE  /\ Head(q) \in S /\ Tail(q) \in Seq(S)
         /\ \A i \in 1..Len(q) : q[i] = Head(q) \/ \E j \in 1..Len(Tail(q)) : Tail(q)[j] = q[i]
<1>1. Len(q) \in Nat /\ Len(q) > 0 /\ Head(q) = q[1] /\ Tail(q) \in Seq(S) /\ Len(Tail(q)) = Len(q) - 1
  OBVIOUS
<1>2. \A j \in 1..Len(Tail(q)) : Tail(q)[j] = q[j + 1]
  OBVIOUS
<1>3. ASSUME NEW i \in 1..Len(q), i # 1
      PROVE  \E j \in 1..Len(Tail(q)) : Tail(q)[j] = q[i]
  <2>1. i - 1 \in 1..Len(Tail(q)) /\ (i - 1) + 1 = i
    BY <1>1, <1>3
  <2>2. Tail(q)[i - 1] = q[i]
    BY <1>2, <2>1
  <2> QED
    BY <2>1, <2>2
<1> QED
  BY <1>1, <1>3

LEMMA Joined ==
  ASSUME NEW S, NEW p \in Seq(S), NEW q \in Seq(S)
  PROVE  /\ p \o q \in Seq(S)
         /\ \A i \in 1..Len(p) : \E j \in 1..Len(p \o q) : (p \o q)[j] = p[i]
         /\ \A i \in 1..Len(q) : \E j \in 1..Len(p \o q) : (p \o q)[j] = q[i]
<1>1. Len(p) \in Nat /\ Len(q) \in Nat /\ p \o q \in Seq(S) /\ Len(p \o q) = Len(p) + Len(q)
  OBVIOUS
<1>2. ASSUME NEW i \in 1..Len(p)
      PROVE  i \in 1..Len(p \o q) /\ (p \o q)[i] = p[i]
  BY <1>1
<1>3. ASSUME NEW i \in 1..Len(q)
      PROVE  Len(p) + i \in 1..Len(p \o q) /\ (p \o q)[Len(p) + i] = q[i]
  <2>1. Len(p) + i \in 1..Len(p \o q) /\ ~(Len(p) + i <= Len(p)) /\ (Len(p) + i) - Len(p) = i
    BY <1>1
  <2>2. (p \o q)[Len(p) + i] = q[(Len(p) + i) - Len(p)]
    BY <1>1, <2>1
  <2> QED
    BY <2>1, <2>2
<1> QED
  BY <1>1, <1>2, <1>3

LEMMA PendingRowIs ==
  ASSUME TypeOK, NEW u \in Users
  PROVE  /\ PendingRow(u) \in Seq(Rows)
         /\ Pending(u) => \E i \in 1..Len(PendingRow(u)) : PendingRow(u)[i] = Request(request[u].id)
<1>1. CASE Pending(u)
  <2>1. Request(request[u].id) \in Rows
    BY <1>1, RequestParts, RowTypes DEF TypeOK, Pending
  <2>2. PendingRow(u) = <<Request(request[u].id)>>
    BY <1>1 DEF PendingRow
  <2>3. \A r \in Rows : <<r>> \in Seq(Rows) /\ 1 \in 1..Len(<<r>>) /\ <<r>>[1] = r
    OBVIOUS
  <2> QED
    BY <2>1, <2>2, <2>3
<1>2. CASE ~Pending(u)
  <2>1. PendingRow(u) = << >>
    BY <1>2 DEF PendingRow
  <2>2. << >> \in Seq(Rows)
    OBVIOUS
  <2> QED
    BY <1>2, <2>1, <2>2
<1> QED
  BY <1>1, <1>2

LEMMA ManagerRowsAre ==
  /\ ManagerRows \in Seq(Rows)
  /\ \A u \in Managers : \E i \in 1..Len(ManagerRows) : ManagerRows[i] = Member(u)
<1> DEFINE q == Listed[Managers]
<1>1. Managers \in SUBSET Users
  BY DEF Managers
<1>2. q \in Seq(Users) /\ Managers = {q[i] : i \in 1..Len(q)}
  BY <1>1, BoardAssumption
<1>3. Len(q) \in Nat /\ \A i \in 1..Len(q) : q[i] \in Users
  BY <1>2
<1>4. \A i \in 1..Len(q) : Member(q[i]) \in Rows
  BY <1>3, RowTypes
<1>5. ManagerRows = [i \in 1..Len(q) |-> Member(q[i])]
  BY DEF ManagerRows
<1>6. ManagerRows \in Seq(Rows) /\ Len(ManagerRows) = Len(q)
  <2> HIDE DEF q
  <2> QED
    BY <1>3, <1>4, <1>5
<1> QED
  BY <1>2, <1>5, <1>6

LEMMA RecipientType ==
  ASSUME NEW x \in Transaction
  PROVE  Recipient(x) \in Users /\ x.user \in Users /\ x.other \in Users
BY DEF Recipient, Transaction

LEMMA RowsOfTypes ==
  ASSUME TypeOK, NEW x \in Transaction, NEW s \in Names, s = "request" => x.request \in RequestIds
  PROVE  RowsOf(x, s) \in Seq(Rows)
<1>0. \A a, b, c \in Rows : << >> \in Seq(Rows) /\ <<a>> \in Seq(Rows) /\ <<a, b, c>> \in Seq(Rows)
  OBVIOUS
<1>1. CASE s = "board"
  BY <1>0, <1>1, RowsAre, RowTypes
<1>2. CASE s = "account"
  BY <1>0, <1>2, RowsAre, RowTypes, RecipientType
<1>3. CASE s = "target"
  <2>1. Member(x.user) \in Rows /\ Account(x.user) \in Rows /\ Board \in Rows
    BY RowTypes, RecipientType
  <2> QED
    BY <1>0, <1>3, <2>1, RowsAre
<1>4. CASE s = "request"
  <2>1. Request(x.request) \in Rows /\ Account(x.user) \in Rows /\ Board \in Rows
    BY <1>4, RowTypes, RecipientType
  <2> QED
    BY <1>0, <1>4, <2>1, RowsAre
<1>5. CASE s = "pending"
  <2>1. PendingRow(x.user) \in Seq(Rows) /\ PendingRow(x.other) \in Seq(Rows)
    BY PendingRowIs, RecipientType
  <2>2. PendingRow(x.user) \o PendingRow(x.other) \in Seq(Rows)
    BY <2>1, Joined
  <2> QED
    BY <1>5, <2>1, <2>2, RowsAre
<1>6. CASE s = "membership"
  <2>1. Member(Recipient(x)) \in Rows /\ Board \in Rows
    BY RowTypes, RecipientType
  <2>2. << >> \in Seq(Rows) /\ <<Member(Recipient(x))>> \in Seq(Rows)
    BY <1>0, <2>1
  <2> QED
    BY <1>6, <2>2, RowsAre
<1>7. CASE s = "managers"
  <2>1. << >> \in Seq(Rows)
    OBVIOUS
  <2> QED
    BY <1>7, <2>1, RowsAre, ManagerRowsAre
<1> QED
  BY <1>1, <1>2, <1>3, <1>4, <1>5, <1>6, <1>7 DEF Names

(* A statement reads every row that its check is about. *)
LEMMA PendingCovered ==
  ASSUME TypeOK, NEW x \in Transaction, NEW u \in {x.user, Recipient(x)}, Pending(u)
  PROVE  \E i \in 1..Len(RowsOf(x, "pending")) : RowsOf(x, "pending")[i] = Request(request[u].id)
<1>1. x.user \in Users /\ x.other \in Users /\ (x.op # "transfer" => u = x.user)
      /\ (x.op = "transfer" => u \in {x.user, x.other})
  BY RecipientType DEF Recipient
<1>2. /\ PendingRow(x.user) \in Seq(Rows) /\ PendingRow(x.other) \in Seq(Rows)
      /\ \E i \in 1..Len(PendingRow(u)) : PendingRow(u)[i] = Request(request[u].id)
  BY <1>1, PendingRowIs
<1>3. CASE x.op # "transfer"
  <2>1. RowsOf(x, "pending") = PendingRow(u)
    BY <1>1, <1>3, RowsAre
  <2> QED
    BY <1>2, <2>1
<1>4. CASE x.op = "transfer"
  <2>1. RowsOf(x, "pending") = PendingRow(x.user) \o PendingRow(x.other)
    BY <1>4, RowsAre
  <2>2. CASE u = x.user
    BY <1>2, <2>1, <2>2, Joined
  <2>3. CASE u = x.other
    BY <1>2, <2>1, <2>3, Joined
  <2> QED
    BY <1>1, <1>4, <2>2, <2>3
<1> QED
  BY <1>3, <1>4

LEMMA MembershipCovered ==
  ASSUME NEW x, member[Recipient(x)] # NoMember
  PROVE  \E i \in 1..Len(RowsOf(x, "membership")) : RowsOf(x, "membership")[i] = Member(Recipient(x))
<1>1. RowsOf(x, "membership") = <<Member(Recipient(x))>>
  BY RowsAre
<1>2. 1 \in 1..Len(RowsOf(x, "membership")) /\ RowsOf(x, "membership")[1] = Member(Recipient(x))
  BY <1>1
<1> QED
  BY <1>2

LEMMA ManagersCovered ==
  ASSUME NEW x, RemovesManager(x), NEW u \in Managers
  PROVE  \E i \in 1..Len(RowsOf(x, "managers")) : RowsOf(x, "managers")[i] = Member(u)
BY RowsAre, ManagerRowsAre

-----------------------------------------------------------------------------
(* Transactions *)

(* y is about what x is about. *)
SameTask(x, y) ==
  /\ y.op = x.op /\ y.actor = x.actor /\ y.user = x.user /\ y.other = x.other
  /\ y.role = x.role /\ y.request = x.request

LEMMA IdleType == Idle \in Transaction
<1>1. AnyUser \in Users
  BY BoardAssumption DEF AnyUser
<1>2. [u \in Users |-> NoMember] \in [Users -> Memberships]
  BY MembershipTypes
<1>3. << >> \in Seq(Rows)
  OBVIOUS
<1> QED
  BY <1>1, <1>2, <1>3 DEF Idle, Transaction

LEMMA StartedIs ==
  ASSUME TypeOK, NEW x \in Transaction, x.op \in Operations,
         x.op \in Decisions => x.request \in RequestIds,
         NEW i \in 1..(Len(Statements(x)) + 1)
  PROVE  /\ Started(x, i) \in Transaction /\ SameTask(x, Started(x, i))
         /\ Started(x, i).read = x.read /\ Started(x, i).at = i /\ Started(x, i).seen = {}
         /\ i > Len(Statements(x)) => Started(x, i).want = << >>
         /\ i <= Len(Statements(x)) => Started(x, i).want = RowsOf(x, Statements(x)[i])
<1> DEFINE q == IF i > Len(Statements(x)) THEN << >> ELSE RowsOf(x, Statements(x)[i])
<1>1. q \in Seq(Rows)
  <2>1. << >> \in Seq(Rows)
    OBVIOUS
  <2>2. CASE i <= Len(Statements(x))
    <3>1. Len(Statements(x)) \in Nat /\ Statements(x) \in Seq(Names)
      BY ProgramShape DEF Statements
    <3>2. Statements(x)[i] \in Names
      BY <2>2, <3>1
    <3>3. Statements(x)[i] = "request" => x.op \in Decisions
      <4>1. CASE i = 1
        BY <4>1, ProgramShape DEF Statements
      <4>2. CASE i # 1
        <5>1. i \in 2..Len(Program[x.op])
          BY <2>2, <3>1, <4>2 DEF Statements
        <5> QED
          BY <5>1, LaterStatements DEF Statements
      <4> QED
        BY <4>1, <4>2
    <3> QED
      BY <2>2, <3>2, <3>3, RowsOfTypes
  <2>3. Len(Statements(x)) \in Nat
    BY ProgramShape DEF Statements
  <2> QED
    BY <2>1, <2>2, <2>3
<1>2. Started(x, i) = [x EXCEPT !.at = i, !.seen = {}, !.want = q]
  BY DEF Started
<1>3. i \in Nat /\ Len(Statements(x)) \in Nat
  BY ProgramShape DEF Statements
<1>4. Started(x, i).want = q /\ Started(x, i) \in Transaction
  <2> HIDE DEF q
  <2> QED
    BY <1>1, <1>2, <1>3 DEF Transaction
<1>5. /\ SameTask(x, Started(x, i))
      /\ Started(x, i).read = x.read /\ Started(x, i).at = i /\ Started(x, i).seen = {}
  <2> HIDE DEF q
  <2> QED
    BY <1>2 DEF Transaction, SameTask
<1> QED
  BY <1>3, <1>4, <1>5

LEMMA ReadType ==
  ASSUME TypeOK, NEW x \in Transaction, NEW s
  PROVE  /\ Found(x) \in Memberships
         /\ Learned(x, s) \in [Users -> Memberships]
         /\ [x EXCEPT !.read = Learned(x, s)] \in Transaction
         /\ SameTask(x, [x EXCEPT !.read = Learned(x, s)])
         /\ [x EXCEPT !.read = Learned(x, s)].read = Learned(x, s)
<1>1. Found(x) \in Memberships
  BY RecipientType, MembershipTypes DEF Found, TypeOK
<1>2. Learned(x, s) \in [Users -> Memberships]
  BY <1>1, RecipientType DEF Learned, TypeOK, Transaction
<1> QED
  BY <1>1, <1>2 DEF Transaction, SameTask

LEMMA RoleTypes ==
  ASSUME NEW o \in Operations, NEW r \in RolesOf(o)
  PROVE  /\ r \in Roles \cup {""}
         /\ o \in {"grant", "change", "reactivate"} => r \in Roles
         /\ o = "transfer" => r = "" \/ (r \in Roles /\ r # "manager")
         /\ o \in {"deactivate", "breakglass", "withdraw"} => r = ""
BY DEF RolesOf

(* What a transaction writes is a membership. *)
LEMMA TargetType ==
  ASSUME NEW x \in Transaction, Legal(x), x.op # "reject"
  PROVE  /\ Target(x) \in Memberships
         /\ \A u \in Users : To(x, u) \in Memberships
<1>1. x.user \in Users /\ x.read[x.user] \in Memberships
  BY DEF Transaction
<1>2. Deactivates(x) => Target(x) \in Memberships
  BY <1>1, MembershipParts DEF Target
<1>3. ASSUME ~Deactivates(x) PROVE Target(x) \in Memberships
  <2>1. x.role \in Roles
    <3>1. CASE x.op \in Decisions
      BY <3>1 DEF Legal
    <3>2. CASE x.op \notin Decisions
      BY <1>3, <3>2, RoleTypes, Programs DEF Legal, Deactivates, Decisions
    <3> QED
      BY <3>1, <3>2
  <2> QED
    BY <1>3, <2>1, MembershipTypes DEF Target
<1>4. Target(x) \in Memberships
  BY <1>2, <1>3
<1> QED
  BY <1>4, MembershipTypes DEF To

LEMMA WhatBegins ==
  ASSUME TypeOK, IdsFresh, NEW t \in Txs, Start(t)
  PROVE  \E x \in Transaction : Begin(t, x) /\ Legal(x)
<1> USE IdleType
<1>1. CASE \E o \in Operations, u, v \in Users, r \in Roles \cup {""} : BeginDashboard(t, o, u, v, r)
  <2> PICK o \in Operations, u \in Users, v \in Users, r \in Roles \cup {""} : BeginDashboard(t, o, u, v, r)
    BY <1>1
  <2> DEFINE x == [Idle EXCEPT !.op = o, !.user = u, !.other = v, !.role = r]
  <2>1. /\ x \in Transaction
        /\ x.op = o /\ x.user = u /\ x.other = v /\ x.role = r
    BY DEF Transaction
  <2>2. /\ Begin(t, x) /\ o \notin Decisions \cup {"withdraw"} /\ r \in RolesOf(o)
        /\ o # "transfer" => v = u
        /\ o # "grant" => member[u] # NoMember
    BY DEF BeginDashboard
  <2>3. Legal(x)
    <3> HIDE DEF x
    <3> QED
      BY <2>1, <2>2 DEF Legal, Targets
  <2> QED
    BY <2>1, <2>2, <2>3
<1>2. CASE \E u \in Users : BeginWithdraw(t, u)
  <2> PICK u \in Users : BeginWithdraw(t, u)
    BY <1>2
  <2> DEFINE x == [Idle EXCEPT !.op = "withdraw", !.actor = u, !.user = u, !.other = u]
  <2>1. /\ x \in Transaction
        /\ x.op = "withdraw" /\ x.user = u /\ x.other = u /\ x.role = ""
    BY Programs DEF Transaction, Idle
  <2>2. Begin(t, x) /\ member[u] # NoMember
    BY DEF BeginWithdraw
  <2>3. Legal(x)
    <3>1. "" \in RolesOf("withdraw") /\ "withdraw" \notin Decisions
      BY DEF RolesOf, Decisions
    <3> HIDE DEF x
    <3> QED
      BY <2>1, <2>2, <3>1, Programs DEF Legal
  <2> QED
    BY <2>1, <2>2, <2>3
<1>3. CASE \E o \in Decisions, a \in Users \cup {Root}, u \in Users : BeginDecision(t, o, a, u)
  <2> PICK o \in Decisions, a \in Users \cup {Root}, u \in Users : BeginDecision(t, o, a, u)
    BY <1>3
  <2> DEFINE x == [Idle EXCEPT !.op = o, !.actor = a, !.user = u, !.other = u,
                               !.role = request[u].role, !.request = request[u].id]
  <2>1. request[u] # NoRequest /\ request[u].id \in RequestIds /\ request[u].role \in Roles
        /\ request[u].id # 0 /\ request[u].id \in Nat
    BY RequestParts DEF BeginDecision, Pending, TypeOK
  <2>2. /\ x \in Transaction
        /\ x.op = o /\ x.user = u /\ x.other = u /\ x.role = request[u].role /\ x.request = request[u].id
    BY <2>1, Programs DEF Transaction, Decisions
  <2>3. Begin(t, x)
    BY DEF BeginDecision
  <2>4. Tied(x)
    <3> HIDE DEF x
    <3>1. ASSUME NEW v \in Users
          PROVE  /\ request[v].id = x.request => v = x.user /\ request[v].role = x.role
                 /\ draft[v].id # x.request
      <4>1. request[v].id = request[u].id => v = u
        BY <2>1 DEF IdsFresh, Pending
      <4>2. draft[v].id # request[u].id
        <5>1. draft[v] \in Requests
          BY DEF TypeOK
        <5>2. CASE draft[v] = NoRequest
          BY <2>1, <5>2, RequestParts
        <5>3. CASE draft[v] # NoRequest
          BY <5>3 DEF IdsFresh
        <5> QED
          BY <5>2, <5>3
      <4> QED
        BY <2>2, <4>1, <4>2
    <3> QED
      BY <2>2, <3>1 DEF Tied, IdsFresh
  <2>5. Legal(x)
    <3>1. o \in Operations /\ o \notin Targets /\ o # "transfer"
      BY Programs DEF Decisions, Targets
    <3> HIDE DEF x
    <3> QED
      BY <2>1, <2>2, <2>4, <3>1 DEF Legal
  <2> QED
    BY <2>2, <2>3, <2>5
<1> QED
  BY <1>1, <1>2, <1>3 DEF Start

-----------------------------------------------------------------------------
(* Steps and types *)

LEMMA SpendIs ==
  ASSUME TypeOK, NEW k \in Kinds, Spend(k)
  PROVE  /\ budget' \in [Kinds -> Nat]
         /\ budget'[k] = budget[k] - 1 /\ budget[k] > 0
         /\ \A j \in Kinds \ {k} : budget'[j] = budget[j]
BY DEF TypeOK, Spend

LEMMA AcquireIs ==
  ASSUME TypeOK, NEW t \in Txs, Acquire(t)
  PROVE  /\ tx'[t] \in Transaction /\ SameTask(tx[t], tx'[t])
         /\ tx'[t].read = tx[t].read /\ tx'[t].at = tx[t].at
         /\ \A r : Covered(tx[t], r) => Covered(tx'[t], r)
         /\ \A r \in tx'[t].seen : r \in tx[t].seen \/ holder'[r] = t
         /\ tx' = [tx EXCEPT ![t] = tx'[t]]
         /\ holder' \in [Rows -> Txs \cup {NoTx}]
         /\ \A v \in Txs : \A r \in Rows : holder[r] = v => holder'[r] = v
<1> PICK x \in Transaction : x = tx[t]
  BY DEF TypeOK
<1>1. /\ x.want \in Seq(Rows) /\ x.want # << >>
      /\ holder[Head(x.want)] \in {NoTx, t}
      /\ holder' = [holder EXCEPT ![Head(x.want)] = t]
      /\ tx' = [tx EXCEPT ![t].want = Tail(@), ![t].seen = @ \cup {Head(x.want)}]
  BY DEF Acquire, Transaction
<1>2. /\ Head(x.want) \in Rows /\ Tail(x.want) \in Seq(Rows)
      /\ \A i \in 1..Len(x.want) :
           x.want[i] = Head(x.want) \/ \E j \in 1..Len(Tail(x.want)) : Tail(x.want)[j] = x.want[i]
  BY <1>1, HeadAndTail
<1> DEFINE y == [x EXCEPT !.want = Tail(x.want), !.seen = x.seen \cup {Head(x.want)}]
<1>3. y \in Transaction /\ SameTask(x, y) /\ y.read = x.read /\ y.at = x.at
      /\ y.want = Tail(x.want) /\ y.seen = x.seen \cup {Head(x.want)}
  BY <1>2 DEF Transaction, SameTask
<1>4. tx'[t] = y /\ tx' = [tx EXCEPT ![t] = y]
  BY <1>1 DEF TypeOK
<1>5. \A r : Covered(x, r) => Covered(y, r)
  <2> HIDE DEF y
  <2> QED
    BY <1>2, <1>3 DEF Covered
<1>6. holder' \in [Rows -> Txs \cup {NoTx}] /\ holder'[Head(x.want)] = t
      /\ \A v \in Txs : \A r \in Rows : holder[r] = v => holder'[r] = v
  BY <1>1, <1>2, NoTxIsNone DEF TypeOK
<1> HIDE DEF y
<1> QED
  BY <1>3, <1>4, <1>5, <1>6

LEMMA AdvanceIs ==
  ASSUME TypeOK, NEW t \in Txs, TxInv(t), Advance(t)
  PROVE  \E i, s, z :
           /\ i = tx[t].at /\ i \in 1..Len(Statements(tx[t])) /\ s = Statements(tx[t])[i]
           /\ Passes(tx[t], s) /\ tx[t].want = << >>
           /\ z \in Transaction /\ SameTask(tx[t], z) /\ z.read = Learned(tx[t], s)
           /\ tx'[t] \in Transaction /\ SameTask(tx[t], tx'[t]) /\ tx'[t].read = Learned(tx[t], s)
           /\ tx'[t].at = i + 1 /\ tx'[t].seen = {}
           /\ i < Len(Statements(tx[t])) => tx'[t].want = RowsOf(z, Statements(tx[t])[i + 1])
           /\ tx' = [tx EXCEPT ![t] = tx'[t]]
<1> PICK x \in Transaction : x = tx[t]
  BY DEF TypeOK
<1> DEFINE i == x.at
           s == Statements(x)[i]
           z == [x EXCEPT !.read = Learned(x, s)]
<1>1. /\ Busy(t) /\ x.want = << >> /\ ~Finished(x) /\ Passes(x, s)
      /\ tx' = [tx EXCEPT ![t] = Started(z, x.at + 1)]
  BY DEF Advance, AtCheck
<1>2. Legal(x) /\ i \in 1..(Len(Statements(x)) + 1)
  BY <1>1 DEF TxInv
<1>3. Len(Statements(x)) \in Nat /\ i \in 1..Len(Statements(x))
  BY <1>1, <1>2, ProgramShape DEF Finished, Legal, Statements
<1>4. z \in Transaction /\ SameTask(x, z) /\ z.read = Learned(x, s)
  BY ReadType
<1>5. Statements(z) = Statements(x) /\ z.op \in Operations /\ (z.op \in Decisions => z.request \in RequestIds)
  <2> HIDE DEF z
  <2> QED
    BY <1>2, <1>4 DEF Statements, SameTask, Legal
<1>6. i + 1 \in 1..(Len(Statements(z)) + 1)
  BY <1>3, <1>5
<1> PICK y : y = Started(z, i + 1)
  OBVIOUS
<1>7. /\ y \in Transaction /\ SameTask(z, y) /\ y.read = z.read /\ y.at = i + 1 /\ y.seen = {}
      /\ i + 1 <= Len(Statements(z)) => y.want = RowsOf(z, Statements(z)[i + 1])
  <2> HIDE DEF z, i
  <2> QED
    BY <1>4, <1>5, <1>6, StartedIs
<1>8. SameTask(x, y)
  <2> HIDE DEF z
  <2> QED
    BY <1>4, <1>7 DEF SameTask
<1>9. tx'[t] = y /\ tx' = [tx EXCEPT ![t] = y]
  BY <1>1 DEF TypeOK
<1>10. i < Len(Statements(x)) => y.want = RowsOf(z, Statements(x)[i + 1])
  <2> HIDE DEF z
  <2> QED
    BY <1>3, <1>5, <1>7
<1>11. y.read = Learned(x, s)
  <2> HIDE DEF z, s
  <2> QED
    BY <1>4, <1>7
<1> HIDE DEF z
<1> WITNESS i, s, z
<1> QED
  <2>1. i = tx[t].at /\ s = Statements(tx[t])[i]
    OBVIOUS
  <2> HIDE DEF i, s
  <2> QED
    BY <1>1, <1>3, <1>4, <1>7, <1>8, <1>9, <1>10, <1>11, <2>1

LEMMA FinishIs ==
  ASSUME TypeOK, NEW t \in Txs, Finish(t)
  PROVE  /\ tx' \in [Txs -> Transaction] /\ tx'[t] = Idle
         /\ \A v \in Txs \ {t} : tx'[v] = tx[v]
         /\ holder' \in [Rows -> Txs \cup {NoTx}]
         /\ \A v \in Txs \ {t} : \A r \in Rows : holder[r] = v => holder'[r] = v
BY IdleType DEF TypeOK, Finish

LEMMA StepTypes ==
  ASSUME TypeOK, NEW t \in Txs, TxInv(t), Step(t) \/ Fail(t)
  PROVE  TypeOK'
<1>1. CASE Acquire(t)
  <2>1. tx' \in [Txs -> Transaction] /\ holder' \in [Rows -> Txs \cup {NoTx}]
    BY <1>1, AcquireIs DEF TypeOK
  <2> QED
    BY <1>1, <2>1 DEF Acquire, TypeOK, rosterVars
<1>2. CASE Advance(t)
  <2>1. tx' \in [Txs -> Transaction]
    BY <1>2, AdvanceIs DEF TypeOK
  <2> QED
    BY <1>2, <2>1 DEF Advance, TypeOK, rosterVars
<1>3. CASE Refuse(t) \/ Fail(t)
  <2>1. Abort(t)
    BY <1>3 DEF Refuse, Fail
  <2>2. tx' \in [Txs -> Transaction] /\ holder' \in [Rows -> Txs \cup {NoTx}]
    BY <2>1, FinishIs DEF Abort
  <2> QED
    BY <2>1, <2>2 DEF Abort, TypeOK, rosterVars
<1>4. CASE Commit(t)
  <2> PICK x \in Transaction : x = tx[t]
    BY DEF TypeOK
  <2>1. Legal(x)
    BY <1>4 DEF Commit, TxInv
  <2>2. tx' \in [Txs -> Transaction] /\ holder' \in [Rows -> Txs \cup {NoTx}]
    BY <1>4, FinishIs DEF Commit
  <2>3. /\ member' = [u \in Users |-> IF u \in Written(x) THEN To(x, u) ELSE member[u]]
        /\ event' = [u \in Users |-> IF u \in Written(x) THEN [from |-> x.read[u], to |-> To(x, u)]
                                                         ELSE event[u]]
        /\ request' = IF x.op \in Decisions THEN [request EXCEPT ![x.user] = NoRequest] ELSE request
        /\ UNCHANGED <<enabled, open, draft, budget>>
    BY <1>4 DEF Commit
  <2>4. ASSUME NEW u \in Users, u \in Written(x)
        PROVE  To(x, u) \in Memberships /\ x.read[u] \in Memberships
    <3>1. x.op # "reject"
      BY <2>4 DEF Written
    <3> QED
      BY <2>1, <3>1, TargetType DEF Transaction
  <2>5. member' \in [Users -> Memberships]
    BY <2>3, <2>4 DEF TypeOK
  <2>6. event' \in [Users -> [from : Memberships, to : Memberships]]
    BY <2>3, <2>4 DEF TypeOK
  <2>7. request' \in [Users -> Requests]
    BY <2>3, RequestParts DEF TypeOK
  <2> QED
    BY <2>2, <2>3, <2>5, <2>6, <2>7 DEF TypeOK
<1> QED
  BY <1>1, <1>2, <1>3, <1>4 DEF Step

LEMMA NewId ==
  ASSUME TypeOK, IdsFresh
  PROVE  /\ NewRequestId \in Nat /\ NewRequestId > 0
         /\ budget["aside"] > 0 => NewRequestId \in RequestIds
         /\ Spend("aside") => NewRequestId' = NewRequestId + 1
         /\ UNCHANGED budget => NewRequestId' = NewRequestId
<1>1. Budget["aside"] \in Nat /\ budget["aside"] \in Nat /\ budget["aside"] <= Budget["aside"]
  BY RequestParts DEF TypeOK, IdsFresh, Kinds
<1>2. Spend("aside") => budget'["aside"] = budget["aside"] - 1
  BY SpendIs DEF Kinds
<1> QED
  BY <1>1, <1>2 DEF NewRequestId, RequestIds

LEMMA StartTypes ==
  ASSUME TypeOK, IdsFresh, NEW t \in Txs, Start(t)
  PROVE  TypeOK'
<1> PICK x \in Transaction : Begin(t, x) /\ Legal(x)
  BY WhatBegins
<1>1. 1 \in 1..(Len(Statements(x)) + 1)
  BY ProgramShape DEF Legal, Statements
<1>2. Started(x, 1) \in Transaction
  BY <1>1, StartedIs DEF Legal
<1>3. tx' \in [Txs -> Transaction]
  BY <1>2 DEF Begin, TypeOK
<1>4. budget' \in [Kinds -> Nat]
  BY SpendIs DEF Begin, Kinds
<1> QED
  BY <1>3, <1>4 DEF Begin, TypeOK, rosterVars

LEMMA AsideTypes ==
  ASSUME TypeOK, IdsFresh, (\E u \in Users : Submission(u) \/ SwitchAccount(u)) \/ SwitchBoard
  PROVE  TypeOK'
<1>1. Spend("aside") => budget' \in [Kinds -> Nat]
  BY SpendIs DEF Kinds
<1>2. CASE \E u \in Users, r \in Roles : CheckSubmission(u, r)
  <2> PICK u \in Users, r \in Roles : CheckSubmission(u, r)
    BY <1>2
  <2>1. NewRequestId \in RequestIds
    BY NewId DEF CheckSubmission, Spend
  <2>2. [id |-> NewRequestId, role |-> r] \in Requests
    BY <2>1 DEF Requests
  <2>3. draft' \in [Users -> Requests]
    BY <2>2 DEF CheckSubmission, TypeOK
  <2> QED
    BY <1>1, <2>3 DEF CheckSubmission, TypeOK, rosterVars
<1>3. CASE \E u \in Users : InsertSubmission(u) \/ DropSubmission(u)
  BY <1>3, RequestParts DEF InsertSubmission, DropSubmission, TypeOK, rosterVars
<1>4. CASE \E u \in Users : SwitchAccount(u)
  BY <1>1, <1>4 DEF SwitchAccount, TypeOK
<1>5. CASE SwitchBoard
  BY <1>1, <1>5 DEF SwitchBoard, TypeOK
<1> QED
  BY <1>2, <1>3, <1>4, <1>5 DEF Submission

-----------------------------------------------------------------------------
(* What stays true of a transaction *)

LEMMA SameTaskSame ==
  ASSUME NEW x, NEW y, SameTask(x, y)
  PROVE  /\ Statements(y) = Statements(x) /\ Recipient(y) = Recipient(x)
         /\ FirstRows(y) = FirstRows(x)
         /\ TargetAllows(y) <=> TargetAllows(x)
         /\ RequestAllows(y) <=> RequestAllows(x)
         /\ y.at = x.at => \A s : (Doing(y, s) <=> Doing(x, s)) /\ (Done(y, s) <=> Done(x, s))
         /\ y.read[x.user] = x.read[x.user] =>
              Target(y) = Target(x) /\ (RemovesManager(y) <=> RemovesManager(x))
<1>1. Statements(y) = Statements(x) /\ Recipient(y) = Recipient(x) /\ FirstRows(y) = FirstRows(x)
  BY DEF SameTask, Statements, Recipient, FirstRows
<1>2. TargetAllows(y) <=> TargetAllows(x)
  BY DEF SameTask, TargetAllows
<1>3. RequestAllows(y) <=> RequestAllows(x)
  BY DEF SameTask, RequestAllows, MayReview
<1>4. y.at = x.at => \A s : (Doing(y, s) <=> Doing(x, s)) /\ (Done(y, s) <=> Done(x, s))
  BY <1>1 DEF Doing, Done
<1>5. ASSUME y.read[x.user] = x.read[x.user]
      PROVE  Target(y) = Target(x) /\ (RemovesManager(y) <=> RemovesManager(x))
  <2>1. Target(y) = Target(x)
    BY <1>5 DEF SameTask, Target, Deactivates
  <2> QED
    BY <1>5, <2>1 DEF SameTask, RemovesManager
<1> QED
  BY <1>1, <1>2, <1>3, <1>4, <1>5

LEMMA HoldsBoard ==
  ASSUME NEW t \in Txs, TxInv(t), Busy(t), tx[t].at > 1
  PROVE  holder[Board] = t
BY DEF TxInv, Settled, FirstRows

(* A settled transaction stays settled while the rows it has checked stay   *)
(* as they are.                                                             *)
LEMMA StaysSettled ==
  ASSUME TypeOK, NEW t \in Txs, NEW x \in Transaction, NEW y \in Transaction,
         Settled(t, x), Legal(x), SameTask(x, y), y.read = x.read, y.at = x.at,
         \A r : Covered(x, r) => Covered(y, r),
         \A r \in Rows : holder[r] = t => holder'[r] = t,
         UNCHANGED <<member, request, open>>,
         \A u \in Users : holder[Account(u)] = t => enabled'[u] = enabled[u]
  PROVE  Settled(t, y)'
<1>1. /\ Statements(y) = Statements(x) /\ Recipient(y) = Recipient(x) /\ FirstRows(y) = FirstRows(x)
      /\ \A s : (Doing(y, s) <=> Doing(x, s)) /\ (Done(y, s) <=> Done(x, s))
      /\ Target(y) = Target(x) /\ (RemovesManager(y) <=> RemovesManager(x))
  BY SameTaskSame
<1>2. y.op = x.op /\ y.user = x.user /\ y.other = x.other /\ y.role = x.role
      /\ y.request = x.request /\ y.actor = x.actor
  BY DEF SameTask
<1>3. x.user \in Users /\ x.other \in Users /\ Recipient(x) \in Users
  BY RecipientType
<1>4. FirstRows(x) \subseteq Rows
  BY <1>3, RowTypes DEF FirstRows, Legal
<1>5. \A r \in FirstRows(y) : holder'[r] = t
  BY <1>1, <1>4 DEF Settled
<1>6. x.op \in Targets \cup Decisions => enabled'[x.user] = enabled[x.user]
  BY <1>3 DEF Settled, FirstRows
<1>7. FirstHolds(y)'
  <2>1. x.op = "grant" => open'
    BY DEF Settled, FirstHolds
  <2>2. x.op \in Targets => TargetAllows(y)' /\ y.read[x.user] = member'[x.user]
    <3> SUFFICES ASSUME x.op \in Targets
                 PROVE  TargetAllows(y)' /\ y.read[x.user] = member'[x.user]
      OBVIOUS
    <3>1. TargetAllows(x) /\ x.read[x.user] = member[x.user] /\ enabled'[x.user] = enabled[x.user]
      BY <1>6 DEF Settled, FirstHolds
    <3> QED
      BY <1>2, <3>1 DEF TargetAllows, Eligible
  <2>3. x.op \in Decisions => RequestAllows(y)'
    <3> SUFFICES ASSUME x.op \in Decisions
                 PROVE  RequestAllows(y)'
      OBVIOUS
    <3>1. RequestAllows(x) /\ enabled'[x.user] = enabled[x.user]
      BY <1>6 DEF Settled, FirstHolds
    <3> QED
      BY <1>2, <3>1 DEF RequestAllows, MayReview, Eligible, Managers
  <2> QED
    BY <1>2, <2>1, <2>2, <2>3 DEF FirstHolds
<1>8. /\ Doing(y, "account") => AccountSeen(y)'
      /\ Done(y, "account") => AccountHolds(t, y)'
  BY <1>1, <1>2, <1>3, RowTypes DEF Settled, AccountSeen, AccountHolds
<1>9. Doing(y, "pending") => PendingSeen(y)'
  BY <1>1, <1>2 DEF Settled, PendingSeen, Pending
<1>10. Done(y, "pending") => PendingHolds(y)'
  BY <1>1, <1>2 DEF Settled, PendingHolds, Pending
<1>11. Doing(y, "membership") => MembershipSeen(y)'
  BY <1>1, <1>2 DEF Settled, MembershipSeen
<1>12. Done(y, "membership") => MembershipHolds(y)'
  BY <1>1, <1>2 DEF Settled, MembershipHolds
<1>13. Doing(y, "managers") => ManagersSeen(y)'
  BY <1>1, <1>2 DEF Settled, ManagersSeen, Managers
<1>14. Done(y, "managers") => ManagersHold(y)'
  BY <1>1, <1>2 DEF Settled, ManagersHold, Managers
<1> QED
  BY <1>5, <1>7, <1>8, <1>9, <1>10, <1>11, <1>12, <1>13, <1>14 DEF Settled

LEMMA Undisturbed ==
  ASSUME TypeOK, NEW t \in Txs, TxInv(t),
         NEW x \in Transaction, NEW y \in Transaction, x = tx[t], y = tx'[t],
         SameTask(x, y), y.read = x.read, y.at = x.at,
         \A r : Covered(x, r) => Covered(y, r),
         \A r \in y.seen : r \in x.seen \/ holder'[r] = t,
         \A r \in Rows : holder[r] = t => holder'[r] = t,
         \A u \in Users : member[u] # NoMember => member'[u] # NoMember,
         Busy(t) /\ x.op \in Decisions => Tied(x)',
         Busy(t) /\ x.at > 1 => UNCHANGED <<member, request, open>>,
         \A u \in Users : holder[Account(u)] = t => enabled'[u] = enabled[u]
  PROVE  TxInv(t)'
<1> SUFFICES ASSUME Busy(t)'
             PROVE  /\ Legal(y)' /\ y.at \in 1..(Len(Statements(y)) + 1)
                    /\ \A r \in y.seen : holder'[r] = t
                    /\ y.at = 1 => \A r \in FirstRows(y) : Covered(y, r)
                    /\ y.at > 1 => Settled(t, y)'
  BY DEF TxInv
<1>1. Busy(t)
  BY DEF Busy, SameTask
<1>2. /\ Legal(x) /\ x.at \in 1..(Len(Statements(x)) + 1)
      /\ \A r \in x.seen : holder[r] = t
      /\ x.at = 1 => \A r \in FirstRows(x) : Covered(x, r)
      /\ x.at > 1 => Settled(t, x)
  BY <1>1 DEF TxInv
<1>3. Statements(y) = Statements(x) /\ FirstRows(y) = FirstRows(x)
  BY SameTaskSame
<1>4. y.op = x.op /\ y.user = x.user /\ y.other = x.other /\ y.role = x.role /\ y.request = x.request
  BY DEF SameTask
<1>5. Legal(y)'
  <2>1. x.user \in Users
    BY RecipientType
  <2>2. x.op \in Decisions => Tied(y)'
    BY <1>1, <1>4 DEF Tied
  <2> QED
    BY <1>2, <1>4, <2>1, <2>2 DEF Legal
<1>6. \A r \in y.seen : holder'[r] = t
  BY <1>2 DEF Transaction
<1>7. y.at > 1 => Settled(t, y)'
  BY <1>1, <1>2, StaysSettled
<1> QED
  BY <1>2, <1>3, <1>5, <1>6, <1>7

(* A statement has checked what it locked. *)
LEMMA AdvanceOwn ==
  ASSUME TypeOK, NEW t \in Txs, TxInv(t), Advance(t)
  PROVE  TxInv(t)'
<1> PICK x \in Transaction : x = tx[t]
  BY DEF TypeOK
<1> PICK y : y = tx'[t]
  OBVIOUS
<1> PICK i, s, z :
      /\ i = x.at /\ i \in 1..Len(Statements(x)) /\ s = Statements(x)[i]
      /\ Passes(x, s) /\ x.want = << >>
      /\ z \in Transaction /\ SameTask(x, z) /\ z.read = Learned(x, s)
      /\ y \in Transaction /\ SameTask(x, y) /\ y.read = Learned(x, s)
      /\ y.at = i + 1 /\ y.seen = {}
      /\ i < Len(Statements(x)) => y.want = RowsOf(z, Statements(x)[i + 1])
  BY AdvanceIs
<1>1. Busy(t) /\ UNCHANGED <<member, request, enabled, open, draft, holder, budget>>
  BY DEF Advance, AtCheck, rosterVars
<1>2. /\ Legal(x) /\ \A r \in x.seen : holder[r] = t
      /\ x.at = 1 => \A r \in FirstRows(x) : Covered(x, r)
      /\ x.at > 1 => Settled(t, x)
  BY <1>1 DEF TxInv
<1>3. \A r : Covered(x, r) => r \in x.seen /\ holder[r] = t
  BY <1>2 DEF Covered
<1>4. /\ Statements(y) = Statements(x) /\ Recipient(y) = Recipient(x) /\ FirstRows(y) = FirstRows(x)
      /\ TargetAllows(y) <=> TargetAllows(x)
      /\ RequestAllows(y) <=> RequestAllows(x)
      /\ y.read[x.user] = x.read[x.user] =>
              Target(y) = Target(x) /\ (RemovesManager(y) <=> RemovesManager(x))
      /\ Recipient(z) = Recipient(x)
  BY SameTaskSame
<1>5. /\ y.op = x.op /\ y.user = x.user /\ y.other = x.other /\ y.role = x.role /\ y.request = x.request
      /\ z.op = x.op /\ z.user = x.user /\ z.other = x.other
  BY DEF SameTask
<1>6. x.op \in Operations /\ Statements(x) = Program[x.op] /\ Len(Statements(x)) \in Nat
      /\ i \in Nat /\ i >= 1
  BY <1>2, ProgramShape DEF Legal, Statements
<1>7. \A q : Done(y, q) <=> Done(x, q) \/ q = s
  <2>1. 1..(y.at - 1) = 1..(x.at - 1) \cup {i}
    BY <1>6
  <2> QED
    BY <1>4, <2>1 DEF Done
<1>8. i > 1 => i \in 2..Len(Program[x.op])
  BY <1>6
<1>9. i = 1 => s = IF x.op = "grant" THEN "board" ELSE IF x.op \in Decisions THEN "request" ELSE "target"
  BY <1>6, ProgramShape
<1>10. i > 1 => s \in {"account", "pending", "membership", "managers"}
  BY <1>6, <1>8, LaterStatements
<1>11. Doing(x, s)
  BY <1>6 DEF Doing
<1>12. x.user \in Users /\ x.other \in Users /\ Recipient(x) \in Users
       /\ x.read \in [Users -> Memberships]
  BY RecipientType DEF Transaction
<1>13. s \notin {"target", "membership"} => y.read = x.read
  BY DEF Learned
<1>14. ASSUME s = "membership", x.op \in Targets
       PROVE  x.other # x.user /\ Recipient(x) = x.other
  <2>1. i > 1
    BY <1>6, <1>9, <1>14
  <2>2. x.op = "transfer"
    BY <1>6, <1>8, <1>14, <2>1, LaterStatements, TargetOps
  <2>3. Program[x.op][2] = "account" /\ i > 2
    BY <1>6, <1>8, <1>14, <2>1, <2>2, LaterStatements
  <2>4. Done(x, "account")
    BY <1>6, <2>3 DEF Done
  <2> QED
    BY <1>2, <2>1, <2>2, <2>4 DEF Settled, AccountHolds, Recipient
<1>15. x.op \in Targets /\ s # "target" => y.read[x.user] = x.read[x.user]
  BY <1>12, <1>13, <1>14 DEF Learned
<1>16. \A r \in FirstRows(y) : holder[r] = t
  <2>1. CASE i = 1
    BY <1>2, <1>3, <1>4, <2>1
  <2>2. CASE i > 1
    BY <1>2, <1>4, <2>2 DEF Settled
  <2> QED
    BY <1>6, <2>1, <2>2
<1>17. FirstHolds(y)
  <2>1. x.op = "grant" => open
    <3>1. CASE i = 1
      BY <1>9, <3>1 DEF Passes
    <3>2. CASE i > 1
      BY <1>2, <3>2 DEF Settled, FirstHolds
    <3> QED
      BY <1>6, <3>1, <3>2
  <2>2. ASSUME x.op \in Targets
        PROVE  TargetAllows(x) /\ y.read[x.user] = member[x.user]
    <3>1. CASE i = 1
      <4>1. s = "target"
        BY <1>9, <2>2, <3>1 DEF Targets
      <4> QED
        BY <1>12, <4>1 DEF Passes, Learned
    <3>2. CASE i > 1
      BY <1>2, <1>10, <1>15, <2>2, <3>2 DEF Settled, FirstHolds
    <3> QED
      BY <1>6, <3>1, <3>2
  <2>3. ASSUME x.op \in Decisions
        PROVE  RequestAllows(x)
    <3>1. CASE i = 1
      BY <1>9, <2>3, <3>1 DEF Passes, Decisions
    <3>2. CASE i > 1
      BY <1>2, <2>3, <3>2 DEF Settled, FirstHolds
    <3> QED
      BY <1>6, <3>1, <3>2
  <2> QED
    BY <1>4, <1>5, <2>1, <2>2, <2>3 DEF FirstHolds
<1>18. Done(y, "account") => AccountHolds(t, y)
  <2>1. CASE s = "account"
    <3>1. i > 1
      BY <1>6, <1>9, <2>1
    <3>2. holder[Account(Recipient(x))] = t
      BY <1>2, <1>3, <1>11, <2>1, <3>1 DEF Settled, AccountSeen
    <3> QED
      BY <1>4, <1>5, <2>1, <3>2 DEF Passes, AccountHolds
  <2>2. CASE s # "account" /\ Done(x, "account")
    <3>1. i > 1
      BY <1>6, <2>2 DEF Done
    <3> QED
      BY <1>2, <1>4, <1>5, <2>2, <3>1 DEF Settled, AccountHolds
  <2> QED
    BY <1>7, <2>1, <2>2
<1>19. Done(y, "pending") => PendingHolds(y)
  <2>1. CASE s = "pending"
    <3>1. i > 1
      BY <1>6, <1>9, <2>1
    <3>2. PendingSeen(x)
      BY <1>2, <1>11, <2>1, <3>1 DEF Settled
    <3>3. NonePending(x)
      BY <2>1 DEF Passes
    <3> QED
      BY <1>3, <1>4, <1>5, <3>2, <3>3 DEF PendingSeen, NonePending, PendingHolds
  <2>2. CASE s # "pending" /\ Done(x, "pending")
    <3>1. i > 1
      BY <1>6, <2>2 DEF Done
    <3> QED
      BY <1>2, <1>4, <1>5, <2>2, <3>1 DEF Settled, PendingHolds
  <2> QED
    BY <1>7, <2>1, <2>2
<1>20. Done(y, "membership") => MembershipHolds(y)
  <2>1. CASE s = "membership"
    <3>1. i > 1 /\ x.op \in {"grant", "transfer", "approve", "reject"}
      BY <1>6, <1>8, <1>9, <2>1, LaterStatements
    <3>2. MembershipSeen(x)
      BY <1>2, <1>11, <2>1, <3>1 DEF Settled
    <3>3. Found(x) = member[Recipient(x)]
      BY <1>3, <3>2 DEF MembershipSeen, Found
    <3>4. y.read[Recipient(x)] = member[Recipient(x)]
      BY <1>12, <2>1, <3>3 DEF Learned
    <3>5. MembershipAllows(x)
      BY <2>1 DEF Passes
    <3>6. x.op # "transfer" => Recipient(x) = x.user
      BY DEF Recipient
    <3>7. x.op = "transfer" => Recipient(x) = x.other
      BY DEF Recipient
    <3>8. x.op = "approve" => Target(y) = Target(x)
      BY <1>5 DEF Target, Deactivates
    <3>9. /\ x.op = "grant" => Found(x) = NoMember
          /\ x.op = "transfer" => Found(x) # ActiveManager
          /\ x.op = "approve" => Found(x) # Target(x)
      BY <3>5 DEF MembershipAllows
    <3> QED
      BY <1>4, <1>5, <3>3, <3>4, <3>6, <3>7, <3>8, <3>9 DEF MembershipHolds
  <2>2. CASE s # "membership" /\ Done(x, "membership")
    <3>1. i > 1
      BY <1>6, <2>2 DEF Done
    <3>2. y.read = x.read
      BY <1>10, <1>13, <2>2, <3>1
    <3> QED
      BY <1>2, <1>4, <1>5, <2>2, <3>1, <3>2 DEF Settled, MembershipHolds
  <2> QED
    BY <1>7, <2>1, <2>2
<1>21. ~Done(x, "managers")
  <2> SUFFICES ASSUME NEW j \in 1..(x.at - 1), Statements(x)[j] = "managers"
               PROVE  FALSE
    BY DEF Done
  <2>1. j # 1
    BY <1>6, ProgramShape
  <2>2. j \in 2..Len(Program[x.op]) /\ j < Len(Program[x.op])
    BY <1>6, <2>1
  <2> QED
    BY <1>6, <2>2, LaterStatements
<1>22. Done(y, "managers") => ManagersHold(y)
  <2> SUFFICES ASSUME s = "managers", RemovesManager(y)
               PROVE  ManagersHold(y)
    BY <1>7, <1>21 DEF ManagersHold
  <2>1. i > 1
    BY <1>6, <1>9
  <2>2. RemovesManager(x) /\ ManagersSeen(x)
    BY <1>2, <1>4, <1>11, <1>13, <2>1 DEF Settled
  <2>3. Managers = {u \in Managers : Member(u) \in x.seen}
    BY <1>3, <2>2 DEF ManagersSeen
  <2>4. IF x.op = "breakglass" THEN Counted(x) = {x.user} ELSE Cardinality(Counted(x)) > 1
    BY <2>2 DEF Passes, ManagersAllow
  <2>5. x.op # "transfer" => Counted(x) = Managers
    BY <2>3 DEF Counted
  <2>6. ASSUME x.op \notin {"breakglass", "transfer"}, Managers \ {x.user} = {}
        PROVE  FALSE
    <3>1. Managers = {} \/ Managers = {x.user}
      BY <2>6
    <3>2. Cardinality({}) = 0 /\ Cardinality({x.user}) = 1
      BY FS_EmptySet, FS_Singleton
    <3>3. Cardinality(Managers) > 1
      BY <2>4, <2>5, <2>6
    <3>4. Cardinality(Managers) = 0 \/ Cardinality(Managers) = 1
      BY <3>1, <3>2
    <3> QED
      BY <3>3, <3>4
  <2> QED
    BY <1>5, <2>4, <2>5, <2>6 DEF ManagersHold
<1>23. ASSUME NEW q, Doing(y, q)
       PROVE  y.want = RowsOf(z, q)
  BY <1>4, <1>6, <1>23 DEF Doing
<1>24. Doing(y, "account") => AccountSeen(y)
  <2> SUFFICES ASSUME Doing(y, "account")
               PROVE  AccountSeen(y)
    OBVIOUS
  <2>1. y.want = <<Account(Recipient(x))>>
    <3>1. y.want = RowsOf(z, "account")
      BY <1>23
    <3>2. RowsOf(z, "account") = <<Account(Recipient(z))>>
      BY RowsAre
    <3> QED
      BY <1>4, <3>1, <3>2
  <2>2. 1 \in 1..Len(y.want) /\ y.want[1] = Account(Recipient(x))
    BY <2>1
  <2> QED
    BY <1>4, <2>2 DEF AccountSeen, Covered
<1>25. Doing(y, "pending") => PendingSeen(y)
  <2> SUFFICES ASSUME Doing(y, "pending"), NEW u \in {y.user, Recipient(y)}, Pending(u)
               PROVE  Covered(y, Request(request[u].id))
    BY DEF PendingSeen
  <2>1. u \in {z.user, Recipient(z)}
    BY <1>4, <1>5
  <2>2. \E j \in 1..Len(RowsOf(z, "pending")) : RowsOf(z, "pending")[j] = Request(request[u].id)
    BY <2>1, PendingCovered
  <2>3. y.want = RowsOf(z, "pending")
    BY <1>23
  <2> QED
    BY <2>2, <2>3 DEF Covered
<1>26. Doing(y, "membership") => MembershipSeen(y)
  BY <1>4, <1>5, <1>23, MembershipCovered DEF MembershipSeen, Covered
<1>27. Doing(y, "managers") => ManagersSeen(y)
  <2>1. RemovesManager(y) => RemovesManager(z)
    <3>1. SameTask(y, z) /\ z.read = y.read
      BY DEF SameTask
    <3> QED
      BY <3>1, SameTaskSame
  <2> QED
    BY <1>23, <2>1, ManagersCovered DEF ManagersSeen, Covered
<1>28. Settled(t, y)
  BY <1>16, <1>17, <1>18, <1>19, <1>20, <1>22, <1>24, <1>25, <1>26, <1>27 DEF Settled
<1>29. Legal(y)
  <2>1. x.op \in Decisions => Tied(y)
    BY <1>2, <1>5 DEF Legal, Tied
  <2> QED
    BY <1>2, <1>5, <2>1 DEF Legal
<1>30. SameTask(y, y)
  BY DEF SameTask
<1>31. Settled(t, y)'
  BY <1>1, <1>28, <1>29, <1>30, StaysSettled
<1>32. Legal(y)'
  <2>1. x.op \in Decisions => Tied(y)'
    BY <1>1, <1>5, <1>29 DEF Legal, Tied, NewRequestId
  <2> QED
    BY <1>1, <1>5, <1>29, <2>1 DEF Legal
<1>33. y.at \in 1..(Len(Statements(y)) + 1) /\ y.at > 1
  BY <1>4, <1>6
<1> QED
  BY <1>31, <1>32, <1>33 DEF TxInv

-----------------------------------------------------------------------------
(* Every step keeps what is known of every transaction *)

LEMMA Untouched ==
  ASSUME TypeOK, NEW t \in Txs, TxInv(t), tx'[t] = tx[t],
         \A r \in Rows : holder[r] = t => holder'[r] = t,
         \A u \in Users : member[u] # NoMember => member'[u] # NoMember,
         Busy(t) /\ tx[t].op \in Decisions =>
           \A x \in Transaction : x = tx[t] => Tied(x)',
         Busy(t) /\ tx[t].at > 1 => UNCHANGED <<member, request, open>>,
         \A u \in Users : holder[Account(u)] = t => enabled'[u] = enabled[u]
  PROVE  TxInv(t)'
<1> PICK x \in Transaction : x = tx[t]
  BY DEF TypeOK
<1>1. SameTask(x, x)
  BY DEF SameTask
<1>2. \A r \in x.seen : r \in x.seen
  OBVIOUS
<1>3. x = tx'[t]
  OBVIOUS
<1>4. Busy(t) /\ x.op \in Decisions => Tied(x)'
  OBVIOUS
<1> QED
  BY <1>1, <1>2, <1>3, <1>4, Undisturbed

LEMMA TiedStays ==
  ASSUME NEW x, Tied(x), NewRequestId' = NewRequestId, UNCHANGED <<request, draft>>
  PROVE  Tied(x)'
BY DEF Tied

LEMMA LegalTied ==
  ASSUME NEW t \in Txs, TxInv(t), Busy(t), NEW x, x = tx[t], x.op \in Decisions
  PROVE  Tied(x) /\ x.request \in RequestIds
BY DEF TxInv, Legal

LEMMA AcquireKeeps ==
  ASSUME TypeOK, IdsFresh, \A v \in Txs : TxInv(v), NEW t \in Txs, Acquire(t), NEW v \in Txs
  PROVE  TxInv(v)'
<1>1. UNCHANGED <<member, request, enabled, open, draft, budget>>
  BY DEF Acquire, rosterVars
<1>2. NewRequestId' = NewRequestId
  BY <1>1, NewId
<1>3. ASSUME NEW x, Busy(v) /\ x.op \in Decisions, x = tx[v]
      PROVE  Tied(x)'
  BY <1>1, <1>2, <1>3, LegalTied, TiedStays
<1>4. \A r \in Rows : holder[r] = v => holder'[r] = v
  BY AcquireIs
<1>5. CASE v = t
  <2> PICK x \in Transaction : x = tx[t]
    BY DEF TypeOK
  <2> PICK y \in Transaction : y = tx'[t]
    BY AcquireIs
  <2>1. /\ SameTask(x, y) /\ y.read = x.read /\ y.at = x.at
        /\ \A r : Covered(x, r) => Covered(y, r)
        /\ \A r \in y.seen : r \in x.seen \/ holder'[r] = t
    BY AcquireIs
  <2> QED
    BY <1>1, <1>3, <1>4, <1>5, <2>1, Undisturbed
<1>6. CASE v # t
  <2>1. tx'[v] = tx[v]
    <3>1. tx' = [tx EXCEPT ![t] = tx'[t]]
      BY AcquireIs
    <3> QED
      BY <1>6, <3>1 DEF TypeOK
  <2> QED
    BY <1>1, <1>3, <1>4, <2>1, Untouched
<1> QED
  BY <1>5, <1>6

LEMMA AdvanceKeeps ==
  ASSUME TypeOK, IdsFresh, \A v \in Txs : TxInv(v), NEW t \in Txs, Advance(t), NEW v \in Txs
  PROVE  TxInv(v)'
<1>1. UNCHANGED <<member, request, enabled, open, draft, holder, budget>>
  BY DEF Advance, rosterVars
<1>2. NewRequestId' = NewRequestId
  BY <1>1, NewId
<1>3. ASSUME NEW x, Busy(v) /\ x.op \in Decisions, x = tx[v]
      PROVE  Tied(x)'
  BY <1>1, <1>2, <1>3, LegalTied, TiedStays
<1>4. CASE v = t
  BY <1>4, AdvanceOwn
<1>5. CASE v # t
  <2>1. tx'[v] = tx[v]
    <3>1. tx' = [tx EXCEPT ![t] = tx'[t]]
      BY AdvanceIs
    <3> QED
      BY <1>5, <3>1 DEF TypeOK
  <2> QED
    BY <1>1, <1>3, <2>1, Untouched
<1> QED
  BY <1>4, <1>5

LEMMA AbortKeeps ==
  ASSUME TypeOK, IdsFresh, \A v \in Txs : TxInv(v), NEW t \in Txs, Abort(t), NEW v \in Txs
  PROVE  TxInv(v)'
<1>1. Finish(t) /\ UNCHANGED <<member, request, enabled, open, draft, budget>>
  BY DEF Abort, rosterVars
<1>2. NewRequestId' = NewRequestId
  BY <1>1, NewId
<1>3. ASSUME NEW x, Busy(v) /\ x.op \in Decisions, x = tx[v]
      PROVE  Tied(x)'
  BY <1>1, <1>2, <1>3, LegalTied, TiedStays
<1>4. CASE v = t
  <2>1. tx'[v] = Idle /\ Idle.op = "none"
    <3>1. tx'[t] = Idle
      BY <1>1, FinishIs
    <3> QED
      BY <1>4, <3>1 DEF Idle
  <2> QED
    BY <2>1 DEF TxInv, Busy
<1>5. CASE v # t
  BY <1>1, <1>3, <1>5, FinishIs, Untouched
<1> QED
  BY <1>4, <1>5

(* A transaction that commits has made all its statements. *)
LEMMA CommitIs ==
  ASSUME TypeOK, NEW t \in Txs, TxInv(t), Commit(t), NEW x, x = tx[t]
  PROVE  /\ x \in Transaction /\ Legal(x) /\ x.op \in Operations
         /\ x.at = Len(Statements(x)) + 1 /\ x.at > 1
         /\ Settled(t, x) /\ holder[Board] = t
<1>1. x \in Transaction /\ Busy(t) /\ Finished(x)
  BY DEF Commit, TypeOK
<1>2. Legal(x) /\ x.at \in 1..(Len(Statements(x)) + 1) /\ (x.at > 1 => Settled(t, x))
  BY <1>1 DEF TxInv
<1>3. x.op \in Operations /\ Len(Statements(x)) \in Nat /\ Len(Statements(x)) > 1
  BY <1>2, ProgramShape DEF Legal, Statements
<1>4. x.at = Len(Statements(x)) + 1 /\ x.at > 1
  BY <1>1, <1>2, <1>3 DEF Finished
<1>5. holder[Board] = t
  BY <1>1, <1>4, HoldsBoard
<1> QED
  BY <1>1, <1>2, <1>3, <1>4, <1>5

LEMMA WrittenIsMember ==
  ASSUME NEW t \in Txs, NEW x \in Transaction, Legal(x), Settled(t, x), NEW u \in Written(x)
  PROVE  To(x, u) # NoMember
<1>1. x.op \in Operations /\ x.op # "reject"
  BY DEF Written, Legal
<1>2. x.read[x.user] \in Memberships
  BY DEF Transaction
<1>3. ASSUME Deactivates(x) PROVE Target(x) # NoMember
  <2>1. x.op \in Targets
    BY <1>3, TargetOps DEF Deactivates
  <2>2. x.read[x.user] # NoMember
    BY <2>1 DEF Legal, Settled, FirstHolds
  <2> QED
    BY <1>2, <1>3, <2>2, MembershipParts DEF Target
<1>4. ASSUME ~Deactivates(x) PROVE Target(x) # NoMember
  <2>1. x.role \in Roles
    <3>1. CASE x.op \in Decisions
      BY <3>1 DEF Legal
    <3>2. CASE x.op \notin Decisions
      BY <1>4, <3>2, RoleTypes, Programs DEF Legal, Deactivates, Decisions
    <3> QED
      BY <3>1, <3>2
  <2> QED
    BY <1>4, <2>1, MembershipTypes DEF Target
<1> QED
  BY <1>3, <1>4, MembershipTypes DEF To

LEMMA CommitKeeps ==
  ASSUME TypeOK, IdsFresh, \A v \in Txs : TxInv(v), NEW t \in Txs, Commit(t), NEW v \in Txs
  PROVE  TxInv(v)'
<1> PICK x : x = tx[t]
  OBVIOUS
<1>1. /\ Finish(t) /\ UNCHANGED <<enabled, open, draft, budget>>
      /\ member' = [u \in Users |-> IF u \in Written(x) THEN To(x, u) ELSE member[u]]
      /\ request' = IF x.op \in Decisions THEN [request EXCEPT ![x.user] = NoRequest] ELSE request
  BY DEF Commit
<1>2. x \in Transaction /\ Legal(x) /\ Settled(t, x) /\ holder[Board] = t
  BY CommitIs
<1>3. CASE v = t
  <2>1. tx'[v] = Idle /\ Idle.op = "none"
    <3>1. tx'[t] = Idle
      BY <1>1, FinishIs
    <3> QED
      BY <1>3, <3>1 DEF Idle
  <2> QED
    BY <2>1 DEF TxInv, Busy
<1>4. CASE v # t
  <2>1. tx'[v] = tx[v] /\ \A r \in Rows : holder[r] = v => holder'[r] = v
    BY <1>1, <1>4, FinishIs
  <2>2. \A u \in Users : member[u] # NoMember => member'[u] # NoMember
    BY <1>1, <1>2, WrittenIsMember
  <2>3. ASSUME NEW y, Busy(v) /\ y.op \in Decisions, y = tx[v]
        PROVE  Tied(y)'
    <3>1. Tied(y) /\ y.request # NoRequest.id
      BY <2>3, LegalTied, RequestParts DEF RequestIds
    <3>2. \A u \in Users : request'[u] = request[u] \/ request'[u] = NoRequest
      BY <1>1 DEF TypeOK
    <3>3. NewRequestId' = NewRequestId
      BY <1>1, NewId
    <3> QED
      BY <1>1, <3>1, <3>2, <3>3 DEF Tied
  <2>4. ~(Busy(v) /\ tx[v].at > 1)
    BY <1>2, <1>4, HoldsBoard
  <2> QED
    BY <1>1, <2>1, <2>2, <2>3, <2>4, Untouched
<1> QED
  BY <1>3, <1>4

(* The first statement of a transaction is about to lock its first rows. *)
LEMMA FirstStatement ==
  ASSUME NEW x \in Transaction, Legal(x), NEW r \in FirstRows(x)
  PROVE  \E i \in 1..Len(RowsOf(x, Statements(x)[1])) : RowsOf(x, Statements(x)[1])[i] = r
<1> DEFINE s == Statements(x)[1]
<1>1. x.op \in Operations /\ s = IF x.op = "grant" THEN "board" ELSE IF x.op \in Decisions THEN "request" ELSE "target"
  BY ProgramShape DEF Legal, Statements
<1> HIDE DEF s
<1>2. CASE x.op = "grant"
  <2>1. r = Board
    BY <1>2, TargetOps DEF FirstRows, Decisions
  <2>2. RowsOf(x, s) = <<Board>>
    BY <1>1, <1>2, RowsAre
  <2>3. 1 \in 1..Len(<<Board>>) /\ <<Board>>[1] = Board
    OBVIOUS
  <2> QED
    BY <2>1, <2>2, <2>3 DEF s
<1>3. CASE x.op \in Decisions
  <2>1. r \in {Request(x.request), Board, Account(x.user)}
    BY <1>3 DEF FirstRows, Targets
  <2>2. s = "request"
    BY <1>1, <1>3 DEF Decisions
  <2>3. RowsOf(x, s) = <<Request(x.request), Board, Account(x.user)>>
    BY <2>2, RowsAre
  <2>4. \A a, b, c : /\ 1 \in 1..Len(<<a, b, c>>) /\ <<a, b, c>>[1] = a
                     /\ 2 \in 1..Len(<<a, b, c>>) /\ <<a, b, c>>[2] = b
                     /\ 3 \in 1..Len(<<a, b, c>>) /\ <<a, b, c>>[3] = c
    OBVIOUS
  <2> QED
    BY <2>1, <2>3, <2>4 DEF s
<1>4. CASE x.op \in Targets
  <2>1. r \in {Member(x.user), Board, Account(x.user)}
    BY <1>4 DEF FirstRows, Targets
  <2>2. s = "target"
    BY <1>1, <1>4 DEF Targets
  <2>3. RowsOf(x, s) = <<Member(x.user), Board, Account(x.user)>>
    BY <2>2, RowsAre
  <2>4. \A a, b, c : /\ 1 \in 1..Len(<<a, b, c>>) /\ <<a, b, c>>[1] = a
                     /\ 2 \in 1..Len(<<a, b, c>>) /\ <<a, b, c>>[2] = b
                     /\ 3 \in 1..Len(<<a, b, c>>) /\ <<a, b, c>>[3] = c
    OBVIOUS
  <2> QED
    BY <2>1, <2>3, <2>4 DEF s
<1> QED
  BY <1>1, <1>2, <1>3, <1>4 DEF Targets

LEMMA StartKeeps ==
  ASSUME TypeOK, IdsFresh, \A v \in Txs : TxInv(v), NEW t \in Txs, Start(t), NEW v \in Txs
  PROVE  TxInv(v)'
<1> PICK x \in Transaction : Begin(t, x) /\ Legal(x)
  BY WhatBegins
<1>1. /\ UNCHANGED <<member, request, enabled, open, draft, holder>> /\ Spend("operation")
      /\ tx' = [tx EXCEPT ![t] = Started(x, 1)]
  BY DEF Begin, rosterVars
<1>2. NewRequestId' = NewRequestId
  <2>1. budget'["aside"] = budget["aside"]
    BY <1>1, SpendIs DEF Kinds
  <2> QED
    BY <2>1 DEF NewRequestId
<1>3. CASE v = t
  <2> PICK y : y = Started(x, 1)
    OBVIOUS
  <2>1. x.op \in Operations /\ Len(Statements(x)) \in Nat /\ Len(Statements(x)) > 1
    BY ProgramShape DEF Legal, Statements
  <2>2. /\ y \in Transaction /\ SameTask(x, y) /\ y.read = x.read /\ y.at = 1 /\ y.seen = {}
        /\ y.want = RowsOf(x, Statements(x)[1])
    BY <2>1, StartedIs DEF Legal
  <2>3. tx'[v] = y
    BY <1>1, <1>3 DEF TypeOK
  <2>4. FirstRows(y) = FirstRows(x) /\ Statements(y) = Statements(x)
    BY <2>2, SameTaskSame
  <2>5. \A r \in FirstRows(y) : Covered(y, r)
    BY <2>2, <2>4, FirstStatement DEF Covered
  <2>6. Legal(y)'
    <3>1. x.op \in Decisions => Tied(x)'
      BY <1>1, <1>2, TiedStays DEF Legal
    <3>2. y.op = x.op /\ y.user = x.user /\ y.other = x.other /\ y.role = x.role /\ y.request = x.request
      BY <2>2 DEF SameTask
    <3>3. x.op \in Decisions => Tied(y)'
      BY <3>1, <3>2 DEF Tied
    <3> QED
      BY <1>1, <3>2, <3>3 DEF Legal
  <2>7. y.at \in 1..(Len(Statements(y)) + 1) /\ ~(y.at > 1)
    BY <2>1, <2>2, <2>4
  <2> QED
    BY <2>2, <2>3, <2>5, <2>6, <2>7 DEF TxInv
<1>4. CASE v # t
  <2>1. tx'[v] = tx[v]
    BY <1>1, <1>4 DEF TypeOK
  <2>2. ASSUME NEW y, Busy(v) /\ y.op \in Decisions, y = tx[v]
        PROVE  Tied(y)'
    BY <1>1, <1>2, <2>2, LegalTied, TiedStays
  <2> QED
    BY <1>1, <2>1, <2>2, Untouched
<1> QED
  BY <1>3, <1>4

LEMMA AsideKeeps ==
  ASSUME TypeOK, IdsFresh, \A v \in Txs : TxInv(v), NEW v \in Txs,
         (\E u \in Users : Submission(u) \/ SwitchAccount(u)) \/ SwitchBoard
  PROVE  TxInv(v)'
<1>1. tx'[v] = tx[v] /\ member' = member /\ holder' = holder
  BY DEF Submission, CheckSubmission, InsertSubmission, DropSubmission, SwitchAccount, SwitchBoard,
         rosterVars
<1>2. \A y : Busy(v) /\ y.op \in Decisions /\ y = tx[v] =>
        Tied(y) /\ y.request \in Nat /\ y.request # 0 /\ NoRequest.id = 0
  BY LegalTied, RequestParts DEF RequestIds
<1>3. /\ Spend("aside") => NewRequestId' = NewRequestId + 1
      /\ UNCHANGED budget => NewRequestId' = NewRequestId
      /\ NewRequestId \in Nat
  BY NewId
<1>4. CASE \E u \in Users, r \in Roles : CheckSubmission(u, r)
  <2> PICK u \in Users, r \in Roles : CheckSubmission(u, r)
    BY <1>4
  <2>1. /\ UNCHANGED <<request, enabled, open>> /\ NewRequestId' = NewRequestId + 1
        /\ draft' = [draft EXCEPT ![u] = [id |-> NewRequestId, role |-> r]]
    BY <1>3 DEF CheckSubmission, rosterVars
  <2>2. \A w \in Users : draft'[w] = draft[w] \/ draft'[w].id = NewRequestId
    BY <2>1 DEF TypeOK
  <2>3. ASSUME NEW y, Busy(v) /\ y.op \in Decisions, y = tx[v]
        PROVE  Tied(y)'
    BY <1>2, <1>3, <2>1, <2>2, <2>3 DEF Tied
  <2> QED
    BY <1>1, <2>1, <2>3, Untouched
<1>5. CASE \E u \in Users : InsertSubmission(u)
  <2> PICK u \in Users : InsertSubmission(u)
    BY <1>5
  <2>1. /\ UNCHANGED <<enabled, open>> /\ NewRequestId' = NewRequestId /\ holder[Board] = NoTx
        /\ request' = [request EXCEPT ![u] = draft[u]]
        /\ draft' = [draft EXCEPT ![u] = NoRequest]
    BY <1>3 DEF InsertSubmission
  <2>2. \A w \in Users : /\ request'[w] = request[w] \/ request'[w] = draft[w]
                         /\ draft'[w] = draft[w] \/ draft'[w] = NoRequest
    BY <2>1 DEF TypeOK
  <2>3. ASSUME NEW y, Busy(v) /\ y.op \in Decisions, y = tx[v]
        PROVE  Tied(y)'
    BY <1>2, <2>1, <2>2, <2>3 DEF Tied
  <2>4. ~(Busy(v) /\ tx[v].at > 1)
    BY <2>1, HoldsBoard, NoTxIsNone
  <2> QED
    BY <1>1, <2>1, <2>3, <2>4, Untouched
<1>6. CASE \E u \in Users : DropSubmission(u)
  <2> PICK u \in Users : DropSubmission(u)
    BY <1>6
  <2>1. /\ UNCHANGED <<request, enabled, open>> /\ NewRequestId' = NewRequestId
        /\ draft' = [draft EXCEPT ![u] = NoRequest]
    BY <1>3 DEF DropSubmission, rosterVars
  <2>2. \A w \in Users : draft'[w] = draft[w] \/ draft'[w] = NoRequest
    BY <2>1 DEF TypeOK
  <2>3. ASSUME NEW y, Busy(v) /\ y.op \in Decisions, y = tx[v]
        PROVE  Tied(y)'
    BY <1>2, <2>1, <2>2, <2>3 DEF Tied
  <2> QED
    BY <1>1, <2>1, <2>3, Untouched
<1>7. CASE \E u \in Users : SwitchAccount(u)
  <2> PICK u \in Users : SwitchAccount(u)
    BY <1>7
  <2>1. /\ UNCHANGED <<request, open, draft>> /\ NewRequestId' = NewRequestId + 1
        /\ holder[Account(u)] = NoTx /\ enabled' = [enabled EXCEPT ![u] = ~@]
    BY <1>3 DEF SwitchAccount
  <2>2. \A w \in Users : holder[Account(w)] = v => enabled'[w] = enabled[w]
    <3>1. \A w \in Users : w = u \/ enabled'[w] = enabled[w]
      BY <2>1 DEF TypeOK
    <3> QED
      BY <2>1, <3>1, NoTxIsNone
  <2>3. ASSUME NEW y, Busy(v) /\ y.op \in Decisions, y = tx[v]
        PROVE  Tied(y)'
    BY <1>2, <1>3, <2>1, <2>3 DEF Tied
  <2> QED
    BY <1>1, <2>1, <2>2, <2>3, Untouched
<1>8. CASE SwitchBoard
  <2>1. /\ UNCHANGED <<request, enabled, draft>> /\ NewRequestId' = NewRequestId + 1
        /\ holder[Board] = NoTx
    BY <1>3, <1>8 DEF SwitchBoard
  <2>2. ASSUME NEW y, Busy(v) /\ y.op \in Decisions, y = tx[v]
        PROVE  Tied(y)'
    BY <1>2, <1>3, <2>1, <2>2 DEF Tied
  <2>3. ~(Busy(v) /\ tx[v].at > 1)
    BY <2>1, HoldsBoard, NoTxIsNone
  <2> QED
    BY <1>1, <2>1, <2>2, <2>3, Untouched
<1> QED
  BY <1>4, <1>5, <1>6, <1>7, <1>8 DEF Submission

-----------------------------------------------------------------------------
(* The invariant *)

(* A step that inserts no request and draws no identity. *)
LEMMA IdsFewer ==
  ASSUME TypeOK, IdsFresh, budget'["aside"] = budget["aside"],
         \A u \in Users : request'[u] = request[u] \/ request'[u] = NoRequest,
         \A u \in Users : draft'[u] = draft[u] \/ draft'[u] = NoRequest
  PROVE  IdsFresh'
<1>1. NewRequestId' = NewRequestId /\ NewRequestId \in Nat /\ NewRequestId > 0
  BY NewId DEF NewRequestId
<1>2. \A q \in Requests : q # NoRequest <=> q.id # 0
  BY RequestParts
<1>3. NoRequest.id = 0 /\ \A u \in Users : request[u] \in Requests /\ draft[u] \in Requests
  BY RequestParts DEF TypeOK
<1>4. \A u \in Users : request'[u].id < NewRequestId' /\ draft'[u].id < NewRequestId'
  BY <1>1, <1>3 DEF IdsFresh
<1>5. ASSUME NEW u \in Users, NEW v \in Users
      PROVE  /\ u # v /\ request'[u] # NoRequest => request'[u].id # request'[v].id
             /\ draft'[u] # NoRequest => request'[v].id # draft'[u].id
             /\ u # v /\ draft'[u] # NoRequest => draft'[v].id # draft'[u].id
  BY <1>2, <1>3 DEF IdsFresh, Pending
<1> QED
  BY <1>4, <1>5 DEF IdsFresh, Pending

LEMMA IdsStayFresh ==
  ASSUME TypeOK, IdsFresh, Next
  PROVE  IdsFresh'
<1>1. ASSUME NEW t \in Txs, Start(t) PROVE IdsFresh'
  <2> PICK x \in Transaction : Begin(t, x)
    BY <1>1, WhatBegins
  <2>1. budget'["aside"] = budget["aside"]
    BY SpendIs DEF Begin, Kinds
  <2> QED
    BY <2>1, IdsFewer DEF Begin, rosterVars
<1>2. ASSUME NEW t \in Txs, Acquire(t) \/ Advance(t) \/ Refuse(t) \/ Fail(t) PROVE IdsFresh'
  BY <1>2, IdsFewer DEF Acquire, Advance, Refuse, Fail, Abort, rosterVars
<1>3. ASSUME NEW t \in Txs, Commit(t) PROVE IdsFresh'
  <2>1. \A u \in Users : request'[u] = request[u] \/ request'[u] = NoRequest
    BY <1>3 DEF Commit, TypeOK
  <2> QED
    BY <1>3, <2>1, IdsFewer DEF Commit
<1>4. ASSUME NEW u \in Users, NEW r \in Roles, CheckSubmission(u, r) PROVE IdsFresh'
  <2>1. /\ request' = request /\ NewRequestId' = NewRequestId + 1 /\ NewRequestId \in Nat
        /\ NewRequestId > 0
        /\ draft' = [draft EXCEPT ![u] = [id |-> NewRequestId, role |-> r]]
    BY <1>4, NewId DEF CheckSubmission, rosterVars
  <2>2. budget'["aside"] <= Budget["aside"]
    <3>1. budget["aside"] \in Nat /\ budget'["aside"] = budget["aside"] - 1 /\ Budget["aside"] \in Nat
      BY <1>4, SpendIs, RequestParts DEF CheckSubmission, Kinds, TypeOK
    <3> QED
      BY <3>1 DEF IdsFresh
  <2>3. draft'[u].id = NewRequestId /\ \A w \in Users \ {u} : draft'[w] = draft[w]
    BY <2>1 DEF TypeOK
  <2>4. \A w \in Users : request[w].id \in Nat /\ draft[w].id \in Nat
    BY RequestParts DEF TypeOK
  <2>5. \A w \in Users : request'[w].id < NewRequestId' /\ draft'[w].id < NewRequestId'
    <3> SUFFICES ASSUME NEW w \in Users
                 PROVE  request'[w].id < NewRequestId' /\ draft'[w].id < NewRequestId'
      OBVIOUS
    <3>1. request[w].id < NewRequestId /\ draft[w].id < NewRequestId
      BY DEF IdsFresh
    <3>2. CASE w = u
      BY <2>1, <2>3, <2>4, <3>1, <3>2
    <3>3. CASE w # u
      BY <2>1, <2>3, <2>4, <3>1, <3>3
    <3> QED
      BY <3>2, <3>3
  <2>6. ASSUME NEW w \in Users, NEW v \in Users
        PROVE  /\ w # v /\ request'[w] # NoRequest => request'[w].id # request'[v].id
               /\ draft'[w] # NoRequest => request'[v].id # draft'[w].id
               /\ w # v /\ draft'[w] # NoRequest => draft'[v].id # draft'[w].id
    <3>1. /\ request[v].id < NewRequestId /\ draft[v].id < NewRequestId /\ draft[w].id < NewRequestId
          /\ w # v /\ Pending(w) => request[w].id # request[v].id
          /\ draft[w] # NoRequest => request[v].id # draft[w].id
          /\ w # v /\ draft[w] # NoRequest => draft[v].id # draft[w].id
      BY DEF IdsFresh
    <3>2. request[v].id # NewRequestId /\ draft[v].id # NewRequestId /\ draft[w].id # NewRequestId
      BY <2>1, <2>4, <3>1
    <3>3. CASE w = u
      BY <2>1, <2>3, <3>1, <3>2, <3>3 DEF Pending
    <3>4. CASE w # u /\ v = u
      BY <2>1, <2>3, <3>1, <3>2, <3>4 DEF Pending
    <3>5. CASE w # u /\ v # u
      BY <2>1, <2>3, <3>1, <3>2, <3>5 DEF Pending
    <3> QED
      BY <3>3, <3>4, <3>5
  <2> QED
    BY <2>2, <2>5, <2>6 DEF IdsFresh, Pending
<1>5. ASSUME NEW u \in Users, InsertSubmission(u) PROVE IdsFresh'
  <2>1. /\ NewRequestId' = NewRequestId /\ budget' = budget /\ draft[u] # NoRequest
        /\ request' = [request EXCEPT ![u] = draft[u]]
        /\ draft' = [draft EXCEPT ![u] = NoRequest]
    BY <1>5, NewId DEF InsertSubmission
  <2>2. /\ request'[u] = draft[u] /\ draft'[u] = NoRequest
        /\ \A w \in Users \ {u} : request'[w] = request[w] /\ draft'[w] = draft[w]
    BY <2>1 DEF TypeOK
  <2>3. NoRequest.id = 0 /\ NewRequestId > 0
        /\ \A w \in Users : /\ request[w] # NoRequest <=> request[w].id # 0
                            /\ draft[w] # NoRequest <=> draft[w].id # 0
    BY NewId, RequestParts DEF TypeOK
  <2>4. \A w \in Users : request'[w].id < NewRequestId' /\ draft'[w].id < NewRequestId'
    BY <2>1, <2>2, <2>3 DEF IdsFresh
  <2>5. ASSUME NEW w \in Users, NEW v \in Users
        PROVE  /\ w # v /\ request'[w] # NoRequest => request'[w].id # request'[v].id
               /\ draft'[w] # NoRequest => request'[v].id # draft'[w].id
               /\ w # v /\ draft'[w] # NoRequest => draft'[v].id # draft'[w].id
    <3>1. /\ w # v /\ Pending(w) => request[w].id # request[v].id
          /\ draft[w] # NoRequest => request[v].id # draft[w].id
          /\ w # v /\ draft[w] # NoRequest => draft[v].id # draft[w].id
          /\ request[v].id # draft[u].id /\ request[w].id # draft[u].id
          /\ w # u => draft[w].id # draft[u].id
          /\ v # u => draft[v].id # draft[u].id
      BY <2>1 DEF IdsFresh
    <3>2. CASE w = u
      BY <2>2, <2>3, <3>1, <3>2 DEF Pending
    <3>3. CASE w # u /\ v = u
      BY <2>2, <2>3, <3>1, <3>3 DEF Pending
    <3>4. CASE w # u /\ v # u
      BY <2>2, <2>3, <3>1, <3>4 DEF Pending
    <3> QED
      BY <3>2, <3>3, <3>4
  <2> QED
    BY <2>1, <2>4, <2>5 DEF IdsFresh, Pending
<1>6. ASSUME NEW u \in Users, DropSubmission(u) PROVE IdsFresh'
  <2>1. \A w \in Users : draft'[w] = draft[w] \/ draft'[w] = NoRequest
    BY <1>6 DEF DropSubmission, TypeOK
  <2> QED
    BY <1>6, <2>1, IdsFewer DEF DropSubmission, rosterVars
<1>7. ASSUME (\E u \in Users : SwitchAccount(u)) \/ SwitchBoard PROVE IdsFresh'
  <2>1. UNCHANGED <<request, draft>> /\ Spend("aside")
    BY <1>7 DEF SwitchAccount, SwitchBoard
  <2>2. NewRequestId' = NewRequestId + 1 /\ NewRequestId \in Nat
    BY <2>1, NewId
  <2>3. budget'["aside"] <= Budget["aside"]
    <3>1. budget["aside"] \in Nat /\ budget'["aside"] = budget["aside"] - 1 /\ Budget["aside"] \in Nat
      BY <2>1, SpendIs, RequestParts DEF Kinds, TypeOK
    <3> QED
      BY <3>1 DEF IdsFresh
  <2>4. \A w \in Users : request[w].id \in Nat /\ draft[w].id \in Nat
    BY RequestParts DEF TypeOK
  <2> QED
    BY <2>1, <2>2, <2>3, <2>4 DEF IdsFresh, Pending
<1> QED
  BY <1>1, <1>2, <1>3, <1>4, <1>5, <1>6, <1>7 DEF Next, Step, Submission

(* Only a commit changes members. *)
LEMMA OnlyCommits ==
  ASSUME [Next]_vars
  PROVE  \/ UNCHANGED <<member, event>>
         \/ \E t \in Txs : Commit(t)
BY DEF Next, Start, Step, Begin, BeginDashboard, BeginWithdraw, BeginDecision, Acquire, Advance,
       Refuse, Fail, Abort, Submission, CheckSubmission, InsertSubmission, DropSubmission,
       SwitchAccount, SwitchBoard, rosterVars, vars

LEMMA HistoryStaysCurrent ==
  ASSUME TypeOK, HistoryCurrent, [Next]_vars
  PROVE  HistoryCurrent'
<1>1. CASE UNCHANGED <<member, event>>
  BY <1>1 DEF HistoryCurrent
<1>2. ASSUME NEW t \in Txs, Commit(t) PROVE HistoryCurrent'
  BY <1>2 DEF HistoryCurrent, Commit, TypeOK
<1> QED
  BY <1>1, <1>2, OnlyCommits

LEMMA InitHolds == Init => TypeOK /\ BoardInv
<1> SUFFICES ASSUME Init
             PROVE  TypeOK /\ BoardInv
  OBVIOUS
<1>1. member \in [Users -> Memberships]
  BY FoundingsAssumption DEF Init
<1>2. TypeOK
  BY <1>1, IdleType, RequestParts, MembershipTypes, BoardAssumption DEF Init, TypeOK
<1>3. IdsFresh
  BY RequestParts DEF Init, IdsFresh, NewRequestId, Pending
<1>4. HistoryCurrent
  BY DEF Init, HistoryCurrent
<1>5. \A t \in Txs : TxInv(t)
  <2>1. \A t \in Txs : tx[t] = Idle /\ Idle.op = "none"
    BY DEF Init, Idle
  <2> QED
    BY <2>1 DEF TxInv, Busy
<1> QED
  BY <1>2, <1>3, <1>4, <1>5 DEF BoardInv

LEMMA NextKeeps ==
  ASSUME TypeOK, BoardInv, [Next]_vars
  PROVE  TypeOK' /\ BoardInv'
<1> USE DEF BoardInv
<1>1. ASSUME NEW t \in Txs, Start(t)
      PROVE  TypeOK' /\ \A v \in Txs : TxInv(v)'
  BY <1>1, StartTypes, StartKeeps
<1>2. ASSUME NEW t \in Txs, Step(t) \/ Fail(t)
      PROVE  TypeOK' /\ \A v \in Txs : TxInv(v)'
  <2>1. TypeOK'
    BY <1>2, StepTypes
  <2>2. CASE Acquire(t)
    BY <2>1, <2>2, AcquireKeeps
  <2>3. CASE Advance(t)
    BY <2>1, <2>3, AdvanceKeeps
  <2>4. CASE Refuse(t) \/ Fail(t)
    <3>1. Abort(t)
      BY <2>4 DEF Refuse, Fail
    <3> QED
      BY <2>1, <3>1, AbortKeeps
  <2>5. CASE Commit(t)
    BY <2>1, <2>5, CommitKeeps
  <2> QED
    BY <1>2, <2>2, <2>3, <2>4, <2>5 DEF Step
<1>3. ASSUME (\E u \in Users : Submission(u) \/ SwitchAccount(u)) \/ SwitchBoard
      PROVE  TypeOK' /\ \A v \in Txs : TxInv(v)'
  BY <1>3, AsideTypes, AsideKeeps
<1>4. CASE UNCHANGED vars
  <2> USE <1>4 DEF vars
  <2>1. TypeOK'
    BY DEF TypeOK
  <2>2. IdsFresh' /\ HistoryCurrent'
    BY DEF IdsFresh, HistoryCurrent, NewRequestId, Pending
  <2>3. ASSUME NEW v \in Txs PROVE TxInv(v)'
    <3>1. NewRequestId' = NewRequestId
      BY DEF NewRequestId
    <3>2. ASSUME NEW y, Busy(v) /\ y.op \in Decisions, y = tx[v]
          PROVE  Tied(y)'
      BY <3>1, <3>2, LegalTied, TiedStays
    <3> QED
      BY <3>2, Untouched
  <2> QED
    BY <2>1, <2>2, <2>3
<1>5. CASE Next
  <2>1. IdsFresh' /\ HistoryCurrent'
    BY <1>5, IdsStayFresh, HistoryStaysCurrent
  <2> QED
    BY <1>1, <1>2, <1>3, <1>5, <2>1 DEF Next
<1> QED
  BY <1>4, <1>5

LEMMA Invariance == Spec => [](TypeOK /\ BoardInv)
BY InitHolds, NextKeeps, PTL DEF Spec

-----------------------------------------------------------------------------
(* What is known when a transaction commits *)

(* The membership a transaction replaces is the one it has read. *)
LEMMA ReadIsCurrent ==
  ASSUME TypeOK, BoardInv, NEW t \in Txs, Commit(t), NEW x, x = tx[t], NEW u \in Written(x)
  PROVE  x.read[u] = member[u]
<1>1. x \in Transaction /\ Legal(x) /\ Settled(t, x) /\ x.op \in Operations
      /\ x.at = Len(Statements(x)) + 1
  BY CommitIs DEF BoardInv
<1>2. x.op # "reject" /\ (x.op # "transfer" => u = x.user) /\ (x.op = "transfer" => u \in {x.user, x.other})
  BY DEF Written
<1>3. CASE u = x.user /\ x.op \in Targets
  BY <1>1, <1>3 DEF Settled, FirstHolds
<1>4. CASE u = x.user /\ x.op \in {"grant", "approve"}
  <2>1. Done(x, "membership")
    BY <1>1, <1>4, AllDone
  <2> QED
    BY <1>1, <1>4, <2>1 DEF Settled, MembershipHolds, Recipient
<1>5. CASE x.op = "transfer" /\ u = x.other
  <2>1. Done(x, "membership")
    BY <1>1, <1>5, AllDone
  <2> QED
    BY <1>1, <1>5, <2>1 DEF Settled, MembershipHolds, Recipient
<1> QED
  BY <1>1, <1>2, <1>3, <1>4, <1>5, TargetOps, Programs

(* Whoever stops being a manager leaves another one behind. *)
LEMMA LeavesAManager ==
  ASSUME TypeOK, BoardInv, NEW t \in Txs, Commit(t), NEW x, x = tx[t],
         x.op \notin {"reject", "transfer"}, member[x.user] = ActiveManager,
         Target(x) # ActiveManager
  PROVE  /\ x.op = "breakglass" => Managers = {x.user}
         /\ x.op # "breakglass" => Managers \ {x.user} # {}
<1>1. x \in Transaction /\ Legal(x) /\ Settled(t, x) /\ x.op \in Operations
      /\ x.at = Len(Statements(x)) + 1
  BY CommitIs DEF BoardInv
<1>2. x.read[x.user] = member[x.user]
  <2>1. x.user \in Written(x)
    BY DEF Written
  <2> QED
    BY <2>1, ReadIsCurrent
<1>3. ActiveManager.active = TRUE /\ ActiveManager.role = "manager"
  BY DEF ActiveManager, Membership
<1>4. x.op # "grant"
  <2>1. ASSUME x.op = "grant" PROVE FALSE
    <3>1. Done(x, "membership")
      BY <1>1, <2>1, AllDone
    <3> QED
      BY <1>1, <2>1, <3>1, MembershipTypes DEF Settled, MembershipHolds
  <2> QED
    BY <2>1
<1>5. x.op \notin {"reactivate", "withdraw"}
  <2>1. ASSUME x.op \in {"reactivate", "withdraw"} PROVE FALSE
    <3>1. TargetAllows(x)
      BY <1>1, <2>1, TargetOps DEF Settled, FirstHolds
    <3> QED
      BY <1>3, <2>1, <3>1 DEF TargetAllows
  <2> QED
    BY <2>1
<1>6. Done(x, "managers")
  BY <1>1, <1>4, <1>5, AllDone, Programs
<1>7. RemovesManager(x)
  BY <1>2 DEF RemovesManager
<1> QED
  BY <1>1, <1>6, <1>7 DEF Settled, ManagersHold

-----------------------------------------------------------------------------
(* Theorems *)

(* The events of a member are a gapless history of what its membership was, *)
(* however the operations on the board interleave; with it goes the type of *)
(* every variable.                                                          *)
THEOREM HistoryIsGapless == Spec => HistoryChain
<1>1. ASSUME TypeOK, BoardInv, [Next]_vars, NEW u \in Users,
             event'[u] # event[u] \/ member'[u] # member[u]
      PROVE  event'[u].from = event[u].to /\ event'[u].to = member'[u]
  <2> PICK t \in Txs : Commit(t)
    BY <1>1, OnlyCommits
  <2> PICK x : x = tx[t]
    OBVIOUS
  <2>1. /\ member' = [v \in Users |-> IF v \in Written(x) THEN To(x, v) ELSE member[v]]
        /\ event' = [v \in Users |-> IF v \in Written(x) THEN [from |-> x.read[v], to |-> To(x, v)]
                                                         ELSE event[v]]
    BY DEF Commit
  <2>2. u \in Written(x)
    BY <1>1, <2>1
  <2>3. event'[u].from = x.read[u] /\ event'[u].to = member'[u]
    BY <2>1, <2>2
  <2>4. x.read[u] = member[u] /\ member[u] = event[u].to
    BY <1>1, <2>2, ReadIsCurrent DEF BoardInv, HistoryCurrent
  <2> QED
    BY <2>3, <2>4
<1>2. TypeOK /\ BoardInv /\ [Next]_vars =>
        [\A u \in Users :
           event'[u] # event[u] \/ member'[u] # member[u] =>
             /\ event'[u].from = event[u].to
             /\ event'[u].to = member'[u]]_vars
  BY <1>1
<1> QED
  BY <1>2, Invariance, PTL DEF Spec, HistoryChain

(* A board that has an active manager keeps one, whatever transactions and  *)
(* switches interleave: a step that takes the last one away is the commit   *)
(* of a break-glass deactivation.                                           *)
THEOREM ManagersContinue == Spec => ManagerContinuity
<1>1. ASSUME TypeOK, BoardInv, [Next]_vars, Managers # {}, Managers' = {}
      PROVE  \E t \in Txs : Ends(t) /\ tx[t].op = "breakglass"
  <2>1. PICK w \in Users : w \in Managers /\ member[w] = ActiveManager
    BY <1>1 DEF Managers
  <2>2. \A u \in Users : member'[u] # ActiveManager
    BY <1>1 DEF Managers
  <2> PICK t \in Txs : Commit(t)
    BY <1>1, <2>1, <2>2, OnlyCommits
  <2> PICK x : x = tx[t]
    OBVIOUS
  <2>3. x \in Transaction /\ Legal(x)
    BY <1>1, CommitIs DEF BoardInv
  <2>4. member' = [v \in Users |-> IF v \in Written(x) THEN To(x, v) ELSE member[v]]
    BY DEF Commit
  <2>5. w \in Written(x) /\ To(x, w) # ActiveManager
    BY <2>1, <2>2, <2>4
  <2>6. x.op # "transfer"
    <3>1. ASSUME x.op = "transfer" PROVE member'[x.other] = ActiveManager /\ x.other \in Users
      <4>1. x.other \in Written(x) /\ To(x, x.other) = ActiveManager /\ x.other \in Users
        BY <2>3, <3>1, RecipientType DEF Written, To
      <4> QED
        BY <2>4, <4>1
    <3> QED
      BY <2>2, <3>1
  <2>7. x.op # "reject" /\ w = x.user /\ Target(x) # ActiveManager
    BY <2>5, <2>6 DEF Written, To
  <2>8. x.op = "breakglass"
    <3>1. ASSUME x.op # "breakglass" PROVE FALSE
      <4>1. PICK v \in Managers : v # x.user
        BY <1>1, <2>1, <2>6, <2>7, <3>1, LeavesAManager
      <4>2. v \in Users /\ v \notin Written(x) /\ member[v] = ActiveManager
        BY <2>6, <2>7, <4>1 DEF Written, Managers
      <4> QED
        BY <2>2, <2>4, <4>2
    <3> QED
      BY <3>1
  <2>9. Ends(t)
    <3>1. tx'[t] = Idle /\ Busy(t)
      BY <1>1, FinishIs DEF Commit
    <3>2. Idle.op = "none"
      BY DEF Idle
    <3> QED
      BY <3>1, <3>2 DEF Ends
  <2> QED
    BY <2>8, <2>9
<1>2. TypeOK /\ BoardInv /\ [Next]_vars =>
        [Managers # {} /\ Managers' = {} => \E t \in Txs : Ends(t) /\ tx[t].op = "breakglass"]_vars
  BY <1>1
<1> QED
  BY <1>2, Invariance, PTL DEF Spec, ManagerContinuity

(* An access request is decided by a transaction opened for that request,   *)
(* by a reviewer who has the right to decide it when the decision commits.  *)
THEOREM DecisionsAreAuthorized == Spec => DecisionAuthorized
<1>1. ASSUME TypeOK, BoardInv, [Next]_vars, NEW u \in Users, Pending(u), request'[u] # request[u]
      PROVE  \E t \in Txs : /\ Ends(t) /\ tx[t].op \in Decisions
                            /\ tx[t].user = u /\ tx[t].request = request[u].id
                            /\ MayReview(tx[t])
  <2>1. \A v \in Users : InsertSubmission(v) => request'[u] = request[u]
    BY <1>1 DEF InsertSubmission, TypeOK
  <2>2. \E t \in Txs : Commit(t)
    BY <1>1, <2>1 DEF Next, Start, Step, Begin, BeginDashboard, BeginWithdraw, BeginDecision, Acquire,
       Advance, Refuse, Fail, Abort, Submission, CheckSubmission, DropSubmission,
       SwitchAccount, SwitchBoard, rosterVars, vars
  <2> PICK t \in Txs : Commit(t)
    BY <2>2
  <2> PICK x : x = tx[t]
    OBVIOUS
  <2>3. Settled(t, x) /\ x \in Transaction
    BY <1>1, CommitIs DEF BoardInv
  <2>4. request' = IF x.op \in Decisions THEN [request EXCEPT ![x.user] = NoRequest] ELSE request
    BY DEF Commit
  <2>5. x.op \in Decisions /\ x.user = u
    BY <1>1, <2>4 DEF TypeOK
  <2>6. RequestAllows(x)
    BY <2>3, <2>5 DEF Settled, FirstHolds
  <2>7. request[u].id = x.request /\ MayReview(x)
    BY <2>5, <2>6 DEF RequestAllows
  <2>8. Ends(t)
    <3>1. tx'[t] = Idle /\ Busy(t)
      BY <1>1, FinishIs DEF Commit
    <3>2. Idle.op = "none"
      BY DEF Idle
    <3> QED
      BY <3>1, <3>2 DEF Ends
  <2> QED
    BY <2>5, <2>7, <2>8
<1>2. TypeOK /\ BoardInv /\ [Next]_vars =>
        [\A u \in Users :
           Pending(u) /\ request'[u] # request[u] =>
             \E t \in Txs :
               /\ Ends(t) /\ tx[t].op \in Decisions
               /\ tx[t].user = u /\ tx[t].request = request[u].id
               /\ MayReview(tx[t])]_vars
  BY <1>1
<1> QED
  BY <1>2, Invariance, PTL DEF Spec, DecisionAuthorized

-----------------------------------------------------------------------------
(* Refinement: every commit is one step of the roster *)

(* What every commit but a rejection knows of pending requests. *)
LEMMA NothingOvertaken ==
  ASSUME TypeOK, BoardInv, NEW t \in Txs, Commit(t), NEW x, x = tx[t],
         x.op \in Targets \cup {"grant"}
  PROVE  ~Pending(x.user) /\ ~Pending(Recipient(x))
<1>1. x \in Transaction /\ Settled(t, x) /\ x.op \in Operations /\ x.at = Len(Statements(x)) + 1
  BY CommitIs DEF BoardInv
<1>2. Done(x, "pending")
  BY <1>1, AllDone
<1> QED
  BY <1>1, <1>2 DEF Settled, PendingHolds

(* What the commit of an operation on one member writes. *)
LEMMA CommitWrites ==
  ASSUME TypeOK, BoardInv, NEW t \in Txs, Commit(t), NEW x, x = tx[t],
         x.op \notin {"reject", "transfer"}
  PROVE  /\ member' = [member EXCEPT ![x.user] = Target(x)]
         /\ x.op \notin Decisions => UNCHANGED request
         /\ x.op \in Decisions => request' = [request EXCEPT ![x.user] = NoRequest]
         /\ UNCHANGED <<enabled, open>>
         /\ x.user \in Users /\ x.read[x.user] = member[x.user]
         /\ member[x.user] \in Memberships
<1>1. x.user \in Users /\ x.user \in Written(x) /\ member[x.user] \in Memberships
  BY RecipientType DEF Written, TypeOK
<1>2. /\ member' = [v \in Users |-> IF v \in Written(x) THEN To(x, v) ELSE member[v]]
      /\ request' = IF x.op \in Decisions THEN [request EXCEPT ![x.user] = NoRequest] ELSE request
      /\ UNCHANGED <<enabled, open>>
  BY DEF Commit
<1>3. Written(x) = {x.user} /\ \A v : To(x, v) = Target(x)
  BY DEF Written, To
<1>4. member' = [member EXCEPT ![x.user] = Target(x)]
  BY <1>2, <1>3 DEF TypeOK
<1>5. x.read[x.user] = member[x.user]
  BY <1>1, ReadIsCurrent
<1> QED
  BY <1>1, <1>2, <1>4, <1>5

LEMMA SameWords ==
  /\ Roster!NoMember = NoMember /\ Roster!NoRequest = NoRequest
  /\ \A r, a : Roster!Membership(r, a) = Membership(r, a)
  /\ Roster!ActiveManager = ActiveManager
  /\ Roster!Managers = Managers
  /\ \A u : Roster!Pending(u) <=> Pending(u)
  /\ \A u : Roster!Eligible(u) <=> Eligible(u)
BY DEF Roster!NoMember, NoMember, Roster!NoRequest, NoRequest, Roster!Membership, Membership,
       Roster!ActiveManager, ActiveManager, Roster!Managers, Managers, Roster!Pending, Pending,
       Roster!Eligible, Eligible

LEMMA ContinuesIs ==
  ASSUME TypeOK, BoardInv, NEW t \in Txs, Commit(t), NEW x, x = tx[t],
         x.op \notin {"reject", "transfer", "breakglass"}
  PROVE  Roster!Continues(x.user, Target(x))
BY LeavesAManager, SameWords DEF Roster!Continues, Managers

LEMMA CommitIsStep ==
  ASSUME TypeOK, BoardInv, NEW t \in Txs, Commit(t)
  PROVE  [Roster!Next]_rosterVars
<1> PICK x : x = tx[t]
  OBVIOUS
<1>1. x \in Transaction /\ Legal(x) /\ Settled(t, x) /\ x.op \in Operations
      /\ x.at = Len(Statements(x)) + 1
  BY CommitIs DEF BoardInv
<1>2. x.user \in Users /\ x.other \in Users
  BY RecipientType, <1>1
<1>3. CASE x.op = "grant"
  <2>1. Done(x, "account") /\ Done(x, "membership")
    BY <1>1, <1>3, AllDone
  <2>2. enabled[x.user] /\ member[x.user] = NoMember
    BY <1>1, <1>3, <2>1 DEF Settled, AccountHolds, MembershipHolds, Recipient
  <2>3. open /\ ~Pending(x.user)
    BY <1>1, <1>3, NothingOvertaken DEF Settled, FirstHolds
  <2>4. x.role \in Roles /\ Target(x) = Membership(x.role, TRUE)
    <3>1. x.role \in RolesOf("grant")
      BY <1>1, <1>3 DEF Legal, Decisions
    <3> QED
      BY <1>3, <3>1 DEF RolesOf, Target, Deactivates
  <2>5. member' = [member EXCEPT ![x.user] = Membership(x.role, TRUE)] /\ UNCHANGED <<request, enabled, open>>
    BY <1>3, <2>4, CommitWrites DEF Decisions
  <2>6. Roster!Grant(x.user, x.role)
    BY <2>2, <2>3, <2>5, SameWords DEF Roster!Grant, Roster!Become, Eligible
  <2> QED
    BY <1>2, <2>4, <2>6 DEF Roster!Next
<1>4. CASE x.op = "change"
  <2>1. TargetAllows(x) /\ ~Pending(x.user)
    BY <1>1, <1>4, TargetOps, NothingOvertaken DEF Settled, FirstHolds
  <2>2. member[x.user].active /\ member[x.user].role # x.role /\ Eligible(x.user)
    BY <1>4, <2>1 DEF TargetAllows
  <2>3. x.role \in Roles /\ Target(x) = Membership(x.role, TRUE)
    <3>1. x.role \in RolesOf("change")
      BY <1>1, <1>4 DEF Legal, Decisions
    <3> QED
      BY <1>4, <3>1 DEF RolesOf, Target, Deactivates
  <2>4. member' = [member EXCEPT ![x.user] = Membership(x.role, TRUE)] /\ UNCHANGED <<request, enabled, open>>
    BY <1>4, <2>3, CommitWrites DEF Decisions
  <2>5. Roster!Continues(x.user, Membership(x.role, TRUE))
    BY <1>4, <2>3, ContinuesIs
  <2>6. Roster!ChangeRole(x.user, x.role)
    BY <2>1, <2>2, <2>4, <2>5, SameWords DEF Roster!ChangeRole, Roster!Become
  <2> QED
    BY <1>2, <2>3, <2>6 DEF Roster!Next
<1>5. CASE x.op \in {"deactivate", "withdraw"}
  <2>1. TargetAllows(x) /\ ~Pending(x.user)
    BY <1>1, <1>5, TargetOps, NothingOvertaken DEF Settled, FirstHolds
  <2>2. member[x.user].active
    BY <1>5, <2>1 DEF TargetAllows
  <2>3. x.op \notin Decisions /\ x.op \notin {"reject", "transfer", "breakglass"}
    BY <1>5 DEF Decisions
  <2>4. Target(x) = Membership(member[x.user].role, FALSE)
    BY <1>5, <2>3, CommitWrites DEF Target, Deactivates
  <2>5. member' = [member EXCEPT ![x.user] = Membership(member[x.user].role, FALSE)]
        /\ UNCHANGED <<request, enabled, open>>
    BY <2>3, <2>4, CommitWrites
  <2>6. Roster!Continues(x.user, Membership(member[x.user].role, FALSE))
    BY <2>3, <2>4, ContinuesIs
  <2>7. Roster!Deactivate(x.user)
    BY <2>1, <2>2, <2>5, <2>6, SameWords DEF Roster!Deactivate, Roster!Become
  <2> QED
    BY <1>2, <2>7 DEF Roster!Next
<1>6. CASE x.op = "reactivate"
  <2>1. TargetAllows(x) /\ ~Pending(x.user) /\ member[x.user] # NoMember
    BY <1>1, <1>6, TargetOps, NothingOvertaken DEF Settled, FirstHolds, Legal
  <2>2. ~member[x.user].active /\ Eligible(x.user)
    BY <1>6, <2>1 DEF TargetAllows
  <2>3. x.role \in Roles /\ Target(x) = Membership(x.role, TRUE)
    <3>1. x.role \in RolesOf("reactivate")
      BY <1>1, <1>6 DEF Legal, Decisions
    <3> QED
      BY <1>6, <3>1 DEF RolesOf, Target, Deactivates
  <2>4. member' = [member EXCEPT ![x.user] = Membership(x.role, TRUE)] /\ UNCHANGED <<request, enabled, open>>
    BY <1>6, <2>3, CommitWrites DEF Decisions
  <2>5. Roster!Reactivate(x.user, x.role)
    BY <2>1, <2>2, <2>4, SameWords DEF Roster!Reactivate, Roster!Become
  <2> QED
    BY <1>2, <2>3, <2>5 DEF Roster!Next
<1>7. CASE x.op = "breakglass"
  <2>1. TargetAllows(x) /\ ~Pending(x.user)
    BY <1>1, <1>7, TargetOps, NothingOvertaken DEF Settled, FirstHolds
  <2>2. member[x.user] = ActiveManager
    BY <1>7, <2>1 DEF TargetAllows
  <2>3. ActiveManager.role = "manager" /\ ActiveManager.active = TRUE
    BY DEF ActiveManager, Membership
  <2>4. Target(x) = Membership("manager", FALSE) /\ Target(x) # ActiveManager
    <3>1. Target(x) = Membership("manager", FALSE)
      BY <1>7, <2>2, <2>3, CommitWrites DEF Target, Deactivates
    <3> QED
      BY <2>3, <3>1, MembershipTypes
  <2>5. Managers = {x.user}
    BY <1>7, <2>2, <2>4, LeavesAManager
  <2>6. member' = [member EXCEPT ![x.user] = Membership("manager", FALSE)]
        /\ UNCHANGED <<request, enabled, open>>
    BY <1>7, <2>4, CommitWrites DEF Decisions
  <2>7. Roster!BreakGlass(x.user)
    BY <2>1, <2>5, <2>6, SameWords DEF Roster!BreakGlass, Roster!Become
  <2> QED
    BY <1>2, <2>7 DEF Roster!Next
<1>8. CASE x.op = "approve"
  <2>1. RequestAllows(x) /\ Tied(x) /\ x.role \in Roles /\ x.request \in RequestIds
    BY <1>1, <1>8 DEF Settled, FirstHolds, Legal, Decisions
  <2>2. request[x.user].id = x.request /\ Eligible(x.user)
    BY <1>8, <2>1 DEF RequestAllows
  <2>3. request[x.user].role = x.role /\ Pending(x.user)
    BY <1>2, <2>1, <2>2, RequestParts DEF Tied, Pending, RequestIds
  <2>4. Target(x) = Membership(x.role, TRUE)
    BY <1>8 DEF Target, Deactivates
  <2>5. member[x.user] # Target(x)
    <3>1. Done(x, "membership")
      BY <1>1, <1>8, AllDone
    <3> QED
      BY <1>1, <1>8, <3>1 DEF Settled, MembershipHolds
  <2>6. Roster!Continues(x.user, Target(x))
    BY <1>8, ContinuesIs
  <2>7. /\ member' = [member EXCEPT ![x.user] = Target(x)]
        /\ request' = [request EXCEPT ![x.user] = NoRequest]
        /\ UNCHANGED <<enabled, open>>
    BY <1>8, CommitWrites DEF Decisions
  <2>8. Roster!Approve(x.user)
    BY <2>2, <2>3, <2>4, <2>5, <2>6, <2>7, SameWords DEF Roster!Approve
  <2> QED
    BY <1>2, <2>8 DEF Roster!Next
<1>9. CASE x.op = "reject"
  <2>1. RequestAllows(x) /\ x.request \in RequestIds
    BY <1>1, <1>9 DEF Settled, FirstHolds, Legal, Decisions
  <2>2. Pending(x.user)
    BY <1>2, <2>1, RequestParts DEF RequestAllows, Pending, RequestIds
  <2>3. Written(x) = {}
    BY <1>9 DEF Written
  <2>4. /\ member' = [v \in Users |-> IF v \in Written(x) THEN To(x, v) ELSE member[v]]
        /\ request' = IF x.op \in Decisions THEN [request EXCEPT ![x.user] = NoRequest] ELSE request
        /\ UNCHANGED <<enabled, open>>
    BY DEF Commit
  <2>5. member' = member
    BY <2>3, <2>4 DEF TypeOK
  <2>6. request' = [request EXCEPT ![x.user] = NoRequest]
    BY <1>9, <2>4 DEF Decisions
  <2>7. Roster!Reject(x.user)
    BY <2>2, <2>4, <2>5, <2>6, SameWords DEF Roster!Reject
  <2> QED
    BY <1>2, <2>7 DEF Roster!Next
<1>10. CASE x.op = "transfer"
  <2>1. TargetAllows(x) /\ ~Pending(x.user) /\ ~Pending(x.other) /\ x.read[x.user] = member[x.user]
    BY <1>1, <1>10, TargetOps, NothingOvertaken DEF Settled, FirstHolds, Recipient
  <2>2. member[x.user] = ActiveManager /\ open /\ (x.role # "" => enabled[x.user])
    BY <1>10, <2>1 DEF TargetAllows
  <2>3. Done(x, "account") /\ Done(x, "membership")
    BY <1>1, <1>10, AllDone
  <2>4. enabled[x.other] /\ x.other # x.user /\ member[x.other] # ActiveManager
    BY <1>1, <1>10, <2>3 DEF Settled, AccountHolds, MembershipHolds, Recipient
  <2>5. ActiveManager.role = "manager"
    BY DEF ActiveManager, Membership
  <2>6. \E r \in Roles, a \in BOOLEAN :
          /\ Target(x) = Membership(r, a)
          /\ Membership(r, a) = Membership("manager", FALSE)
               \/ (Membership(r, a).active /\ Membership(r, a).role # "manager" /\ enabled[x.user])
    <3>1. x.role \in RolesOf("transfer")
      BY <1>1, <1>10 DEF Legal, Decisions
    <3>2. x.role = "" \/ (x.role \in Roles /\ x.role # "manager")
      BY <3>1 DEF RolesOf
    <3>3. CASE x.role = ""
      <4>1. Target(x) = Membership("manager", FALSE)
        BY <1>10, <2>1, <2>2, <2>5, <3>3 DEF Target, Deactivates
      <4> QED
        BY <4>1, BoardAssumption
    <3>4. CASE x.role # ""
      <4>1. Target(x) = Membership(x.role, TRUE)
        BY <1>10, <3>4 DEF Target, Deactivates
      <4> QED
        BY <2>2, <3>2, <3>4, <4>1, MembershipTypes
    <3> QED
      BY <3>3, <3>4
  <2> PICK r \in Roles, a \in BOOLEAN :
          /\ Target(x) = Membership(r, a)
          /\ Membership(r, a) = Membership("manager", FALSE)
               \/ (Membership(r, a).active /\ Membership(r, a).role # "manager" /\ enabled[x.user])
    BY <2>6
  <2>7. /\ member' = [v \in Users |-> IF v \in Written(x) THEN To(x, v) ELSE member[v]]
        /\ request' = IF x.op \in Decisions THEN [request EXCEPT ![x.user] = NoRequest] ELSE request
        /\ UNCHANGED <<enabled, open>>
    BY DEF Commit
  <2>8. /\ Written(x) = {x.user, x.other} /\ To(x, x.other) = ActiveManager
        /\ To(x, x.user) = Membership(r, a)
    BY <1>10, <2>4 DEF Written, To
  <2>9. member' = [member EXCEPT ![x.user] = Membership(r, a), ![x.other] = ActiveManager]
    BY <1>2, <2>4, <2>7, <2>8 DEF TypeOK
  <2>10. request' = request
    BY <1>10, <2>7 DEF Decisions
  <2>11. x.user \in Managers /\ x.other \notin Managers
    BY <1>2, <2>2, <2>4 DEF Managers
  <2>12. Roster!Transfer(x.user, x.other, Membership(r, a))
    BY <2>1, <2>2, <2>4, <2>6, <2>7, <2>9, <2>10, <2>11, SameWords DEF Roster!Transfer, Eligible
  <2>13. Roster!Transfer(x.user, x.other, Roster!Membership(r, a))
    BY <2>12, SameWords
  <2> QED
    BY <1>2, <2>13 DEF Roster!Next
<1> QED
  BY <1>1, <1>3, <1>4, <1>5, <1>6, <1>7, <1>8, <1>9, <1>10, Programs

(* Whatever the board's transactions do, its members, requests, accounts    *)
(* and its switch go through the legal steps of BoardRoster only.           *)
THEOREM MembershipImplementsRoster == Spec => ImplementsRoster
<1>1. Init => Roster!Init
  BY SameWords DEF Init, Roster!Init
<1>2. ASSUME TypeOK, BoardInv, [Next]_vars PROVE [Roster!Next]_rosterVars
  <2>1. CASE \E t \in Txs : Commit(t)
    BY <1>2, <2>1, CommitIsStep
  <2>2. CASE \E t \in Txs : Start(t) \/ Acquire(t) \/ Advance(t) \/ Refuse(t) \/ Fail(t)
    <3>1. UNCHANGED rosterVars
      BY <2>2 DEF Start, Begin, BeginDashboard, BeginWithdraw, BeginDecision, Acquire, Advance,
         Refuse, Fail, Abort
    <3> QED
      BY <3>1
  <2>3. CASE \E u \in Users : (\E r \in Roles : CheckSubmission(u, r)) \/ DropSubmission(u)
    BY <2>3 DEF CheckSubmission, DropSubmission
  <2>4. ASSUME NEW u \in Users, InsertSubmission(u) PROVE Roster!Next
    <3>1. /\ draft[u] # NoRequest /\ ~Pending(u)
          /\ request' = [request EXCEPT ![u] = draft[u]]
          /\ UNCHANGED <<member, enabled, open>>
      BY <2>4 DEF InsertSubmission
    <3>2. draft[u] \in [id : RequestIds, role : Roles]
      BY <1>2, <3>1 DEF TypeOK, Requests
    <3> PICK i \in RequestIds, r \in Roles : draft[u] = [id |-> i, role |-> r]
      BY <3>2
    <3>3. \A v \in Users : request[v].id # i
      BY <1>2, <3>1 DEF BoardInv, IdsFresh
    <3>4. Roster!Submit(u, i, r)
      BY <3>1, <3>3, SameWords DEF Roster!Submit
    <3> QED
      BY <3>4 DEF Roster!Next
  <2>5. ASSUME NEW u \in Users, SwitchAccount(u) PROVE Roster!Next
    <3>1. /\ enabled' = [enabled EXCEPT ![u] = ~enabled[u]]
          /\ UNCHANGED <<member, request, open>>
      BY <2>5 DEF SwitchAccount
    <3>2. Roster!SetActive(u, ~enabled[u])
      BY <3>1 DEF Roster!SetActive
    <3>3. (~enabled[u]) \in BOOLEAN
      OBVIOUS
    <3> QED
      BY <3>2, <3>3 DEF Roster!Next
  <2>6. ASSUME SwitchBoard PROVE Roster!Next
    <3>1. Roster!SetOpen(~open)
      BY <2>6 DEF SwitchBoard, Roster!SetOpen
    <3>2. (~open) \in BOOLEAN
      OBVIOUS
    <3> QED
      BY <3>1, <3>2 DEF Roster!Next
  <2>7. CASE UNCHANGED vars
    BY <2>7 DEF vars, rosterVars
  <2> QED
    BY <1>2, <2>1, <2>2, <2>3, <2>4, <2>5, <2>6, <2>7 DEF Next, Step, Submission
<1>3. TypeOK /\ BoardInv /\ [Next]_vars => [Roster!Next]_(Roster!vars)
  BY <1>2 DEF Roster!vars, rosterVars
<1> QED
  BY <1>1, <1>3, Invariance, PTL DEF Spec, ImplementsRoster, Roster!Spec
=============================================================================
