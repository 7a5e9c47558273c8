-------------------------- MODULE AccountLifecycle --------------------------
(***************************************************************************)
(* One regular account and its invitation (accounts/services.py, the       *)
(* invitation page, the account list of the moderation centre and the      *)
(* Django admin).  Operators and visitors send requests that read, check   *)
(* and write the two rows; a locked read and the writes that follow it in  *)
(* one transaction are one step, an unlocked read is a step of its own.    *)
(*                                                                         *)
(* A token is known by the number of its issue.  The verified group is     *)
(* joined together with the activation; sent_at is only displayed.         *)
(***************************************************************************)
EXTENDS Naturals

CONSTANTS
  Desks,      \* requests of operators that may be answered at the same time
  Visitors,   \* requests of the invited person
  MaxTokens   \* bound: invitations ever issued

ASSUME LifecycleAssumption == MaxTokens \in Nat \ {0}

VARIABLES
  account,     \* is_active, and the token by which the password was set; 0: unusable password
  invitation,  \* the AccountInvitation row
  mailed,      \* tokens that reached the mailbox
  desk,        \* desk[d]: what an operator's request has read
  visitor,     \* visitor[v]: the token on the page that is being posted; 0: none
  used         \* history: used[t]: how often token t activated the account

lifecycle == <<account, invitation, mailed, desk, visitor, used>>

Tokens == 1..MaxTokens
NoDesk == [at |-> "idle", goal |-> FALSE, active |-> FALSE, password |-> 0]

(* save_model of a new account: inactive, and invited.                     *)
LifecycleInit ==
  /\ account = [active |-> FALSE, password |-> 0]
  /\ invitation = [token |-> 1, accepted |-> FALSE, expired |-> FALSE]
  /\ mailed = {}
  /\ desk = [d \in Desks |-> NoDesk]
  /\ visitor = [v \in Visitors |-> 0]
  /\ used = [t \in Tokens |-> 0]

Read(d, purpose, goal) ==
  /\ desk[d] = NoDesk
  /\ desk' = [desk EXCEPT ![d] = [at |-> purpose, goal |-> goal,
                                  active |-> account.active, password |-> account.password]]
  /\ UNCHANGED <<account, invitation, mailed, visitor, used>>

Close(d) == desk' = [desk EXCEPT ![d] = NoDesk]

-----------------------------------------------------------------------------
(* resend_account_invitation, issue_account_invitation                     *)

(* The account is the one of the queryset; active ones are skipped.        *)
OpenResend(d) == ~account.active /\ Read(d, "issue", FALSE)

Issue(d) ==
  /\ desk[d].at = "issue"
  /\ invitation.token < MaxTokens
  /\ invitation' = [token |-> invitation.token + 1, accepted |-> FALSE, expired |-> FALSE]
  /\ Close(d)
  /\ UNCHANGED <<account, mailed, visitor, used>>

(* After the commit; a mail that fails is not sent again.                  *)
Deliver(t) ==
  /\ t \in 1..invitation.token \ mailed
  /\ mailed' = mailed \union {t}
  /\ UNCHANGED <<account, invitation, desk, visitor, used>>

Expire ==
  /\ ~invitation.expired
  /\ invitation' = [invitation EXCEPT !.expired = TRUE]
  /\ UNCHANGED <<account, mailed, desk, visitor, used>>

-----------------------------------------------------------------------------
(* AcceptAccountInvitationView.post: find the invitation, then accept it   *)

Open(t) ==
  /\ t = invitation.token
  /\ ~invitation.accepted /\ ~invitation.expired
  /\ ~account.active

OpenPage(v, t) ==
  /\ visitor[v] = 0
  /\ t \in mailed /\ Open(t)
  /\ visitor' = [visitor EXCEPT ![v] = t]
  /\ UNCHANGED <<account, invitation, mailed, desk, used>>

Activate(t) ==
  /\ account' = [active |-> TRUE, password |-> t]
  /\ invitation' = [invitation EXCEPT !.accepted = TRUE]
  /\ used' = [used EXCEPT ![t] = @ + 1]

(* Seeded fault: the invitation found for the page is used as it was. *)
AcceptAsFound(v) ==
  /\ visitor[v] # 0
  /\ Activate(visitor[v])
  /\ visitor' = [visitor EXCEPT ![v] = 0]
  /\ UNCHANGED <<mailed, desk>>

(* accept_account_invitation looks again, with both rows locked.           *)
Accept(v) ==
  /\ visitor[v] # 0
  /\ IF Open(visitor[v]) THEN Activate(visitor[v])
                         ELSE UNCHANGED <<account, invitation, used>>
  /\ visitor' = [visitor EXCEPT ![v] = 0]
  /\ UNCHANGED <<mailed, desk>>

-----------------------------------------------------------------------------
(* set_account_active_state: the row read for the request, the unlocked    *)
(* look at the invitation, then the locked write                           *)

OpenSwitch(d, goal) == Read(d, "check", goal)

CheckInvitation(d) ==
  /\ desk[d].at = "check"
  /\ IF (desk[d].goal /\ ~invitation.accepted) \/ desk[d].active = desk[d].goal
     THEN Close(d)
     ELSE desk' = [desk EXCEPT ![d].at = "switch"]
  /\ UNCHANGED <<account, invitation, mailed, visitor, used>>

Switch(d) ==
  /\ desk[d].at = "switch"
  /\ account' = [account EXCEPT !.active = desk[d].goal]
  /\ Close(d)
  /\ UNCHANGED <<invitation, mailed, visitor, used>>

(* The form of the Django admin saves every column as it was read, but for *)
(* is_active, which the operator may set.                                  *)
OpenForm(d, goal) == Read(d, "save", goal)

SaveForm(d) ==
  /\ desk[d].at = "save"
  /\ account' = [active |-> desk[d].goal, password |-> desk[d].password]
  /\ Close(d)
  /\ UNCHANGED <<invitation, mailed, visitor, used>>

-----------------------------------------------------------------------------
LifecycleSteps ==
  \/ \E d \in Desks :
       \/ OpenResend(d) \/ Issue(d) \/ CheckInvitation(d) \/ Switch(d) \/ SaveForm(d)
       \/ \E goal \in BOOLEAN : OpenSwitch(d, goal) \/ OpenForm(d, goal)
  \/ \E t \in Tokens : Deliver(t)
  \/ \E v \in Visitors : Accept(v) \/ \E t \in Tokens : OpenPage(v, t)
  \/ Expire

LifecycleTypeOK ==
  /\ account \in [active : BOOLEAN, password : 0..MaxTokens]
  /\ invitation \in [token : Tokens, accepted : BOOLEAN, expired : BOOLEAN]
  /\ mailed \subseteq Tokens
  /\ desk \in [Desks -> [at : {"idle", "issue", "check", "switch", "save"}, goal : BOOLEAN,
                         active : BOOLEAN, password : 0..MaxTokens]]
  /\ visitor \in [Visitors -> 0..MaxTokens]
  /\ used \in [Tokens -> Nat]
=============================================================================
