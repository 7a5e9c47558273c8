----------------------------- MODULE MfaAccess ------------------------------
(***************************************************************************)
(* The second factor of one privileged account (accounts/authn/, the MFA   *)
(* views, the middlewares and the step-up of the dashboard).  The account  *)
(* has one device row and one client certificate; it is used from several  *)
(* browsers, each with a session of its own and one request at a time.  A  *)
(* database transaction, a call of the cache and the write of the session  *)
(* at the end of a response are one step each.                             *)
(*                                                                         *)
(* A code is known by its seed and its time step; a session entry that is  *)
(* older than its time limit is removed by Lapse; of the failure counters  *)
(* the one of the account is kept (the one of the client address can only  *)
(* refuse more); the proof of the mailbox is left to AccountAccess.        *)
(***************************************************************************)
EXTENDS Integers, FiniteSets

CONSTANTS
  Browsers,      \* the browsers the account is used from
  MaxAttempts,   \* MFA_CHALLENGE_MAX_ATTEMPTS
  MaxStep,       \* bound: the last time step of the clock
  MaxSeeds,      \* bound: seeds ever drawn
  MaxBindings,   \* bound: certificates ever bound
  Budget         \* bound: how many requests come, and mishaps and time limits

ASSUME MfaAssumption ==
  /\ IsFiniteSet(Browsers)
  /\ MaxAttempts \in Nat \ {0} /\ MaxStep \in Nat \ {0}
  /\ MaxSeeds \in Nat \ {0} /\ MaxBindings \in Nat
  /\ Budget \in [{"request", "mishap"} -> Nat]

VARIABLES
  device,    \* the MfaTotpDevice row
  codes,     \* seeds whose recovery codes exist
  binding,   \* the newest ClientCertificateBinding row
  session,   \* session[b]: what the session store has for browser b
  request,   \* request[b]: the request that is being answered
  count,     \* the cache entry count-user; 0: absent
  locked,    \* the cache entry lock-user
  now,       \* the current TOTP time step
  budget,
  uses,      \* history: how often each code was accepted
  proved,    \* history: proved[b]: the seeds of the codes accepted from b since it was anonymous
  guesses    \* history: wrong codes tried since the failures were last forgotten

vars == <<device, codes, binding, session, request, count, locked, now, budget, uses, proved, guesses>>
cache == <<count, locked, guesses>>

Seeds == 1..MaxSeeds
Steps == 0..(MaxStep + 1)
NoStep == -1
Recovery == -2   \* stands in the place of a step for the recovery codes of a seed
Code == Seeds \X (Steps \union {Recovery})

NoDevice == [status |-> "none", seed |-> 0, version |-> 0, last |-> NoStep, expired |-> FALSE]
NoCertificate == [id |-> 0, version |-> 0, active |-> FALSE]

NoVersion == -1
Versions == {NoVersion} \union Nat

(* The entries PENDING, PRIVILEGED, ENROLLMENT and RECOVERY exclude one    *)
(* another: each is written by a function that pops the others.  version   *)
(* is the auth_version of the device in it; remembered is that of the      *)
(* entry DASHBOARD_REMEMBER, which stands beside them.                     *)
Anonymous == [user |-> FALSE, newest |-> FALSE, mode |-> "none", version |-> NoVersion,
              certificate |-> NoCertificate, remembered |-> NoVersion]

Idle == [pc |-> "idle", kind |-> "none", version |-> NoVersion, seed |-> 0, newest |-> FALSE]

TypeOK ==
  /\ codes \subseteq Seeds
  /\ device \in [status : {"none", "pending", "active", "revoked"}, seed : {0} \union Seeds,
                 version : Nat, last : {NoStep} \union Steps, expired : BOOLEAN]
  /\ binding \in [id : 0..MaxBindings, version : Nat, active : BOOLEAN]
  /\ session \in [Browsers ->
       [user : BOOLEAN, newest : BOOLEAN, mode : {"none", "pending", "full", "enrollment", "recovery"},
        version : Versions, remembered : Versions,
        certificate : [id : 0..MaxBindings, version : Nat, active : BOOLEAN]]]
  /\ request \in [Browsers ->
       [pc : {"idle", "verify", "login", "finish", "start", "confirm", "mark", "revoke",
              "forget", "consume", "add", "incr", "set", "lock"},
        kind : {"none", "challenge", "recovery", "stepup"},
        version : Versions, seed : {0} \union Seeds, newest : BOOLEAN]]
  /\ count \in Nat /\ locked \in BOOLEAN
  /\ now \in 1..MaxStep /\ budget \in [{"request", "mishap"} -> Nat]
  /\ uses \in [Code -> Nat] /\ proved \in [Browsers -> SUBSET Seeds] /\ guesses \in Nat

(* An account without a device, or one that has used it for a while. *)
Init ==
  /\ \/ device = NoDevice /\ codes = {}
     \/ /\ device = [NoDevice EXCEPT !.status = "active", !.seed = 1]
        /\ codes = {1}
  /\ binding = NoCertificate
  /\ session = [b \in Browsers |-> Anonymous]
  /\ request = [b \in Browsers |-> Idle]
  /\ count = 0 /\ locked = FALSE
  /\ now = 1 /\ budget = Budget
  /\ uses = [c \in Code |-> 0] /\ proved = [b \in Browsers |-> {}] /\ guesses = 0

Spend(d) == budget[d] > 0 /\ budget' = [budget EXCEPT ![d] = @ - 1]

(* A request comes from a browser that waits for no other answer. *)
Request(b) == request[b] = Idle /\ Spend("request")

-----------------------------------------------------------------------------
(* The device row *)

Active == device.status = "active"

(* _matching_step: the steps whose codes match at this moment. *)
Window == (now - 1)..(now + 1)

Accept(b, c) ==
  /\ uses' = [uses EXCEPT ![c] = @ + 1]
  /\ proved' = [proved EXCEPT ![b] = @ \union {c[1]}]

(* Seeded fault: erasing forgets to invalidate the sessions. *)
ErasedVersionKept == [device EXCEPT !.status = "revoked", !.last = NoStep]

(* _erase_device_secret *)
Erased == [device EXCEPT !.status = "revoked", !.last = NoStep, !.version = @ + 1]

Erase ==
  /\ device' = Erased
  /\ codes' = {}

(* The code in a request is one of the newest seed there was when it was   *)
(* sent: seed; any other code is a wrong one.                              *)
Asking(pc, kind) == [Idle EXCEPT !.pc = pc, !.kind = kind, !.seed = device.seed]

(* NoStep stands for a wrong code. *)
Matches(b, s) == s \in Window /\ request[b].seed = device.seed

(* Seeded fault: only the very same code counts as replayed. *)
FreshSameOnly(b, s) == Matches(b, s) /\ s # device.last

(* A code that matches, of a later step than the last one accepted. *)
Fresh(b, s) == Matches(b, s) /\ s > device.last

-----------------------------------------------------------------------------
(* Sessions: what the middlewares find valid *)

(* privileged_session_is_valid; onAdmin: require_certificate. *)
FullValid(b, onAdmin) ==
  /\ session[b].mode = "full"
  /\ Active /\ session[b].version = device.version
  /\ session[b].certificate # NoCertificate => session[b].certificate = binding
  /\ onAdmin => session[b].certificate # NoCertificate /\ session[b].certificate = binding

RememberedValid(b) ==
  /\ Active /\ session[b].remembered = device.version

DashboardValid(b) == FullValid(b, FALSE) \/ RememberedValid(b)

Confined(b) == session[b].mode \in {"enrollment", "recovery"}

(* enrollment_session_is_valid, recovery_session_is_valid *)
SetupValid(b) ==
  /\ session[b].mode = "enrollment" => ~Active
  /\ session[b].mode = "recovery" =>
       device.status = "revoked" /\ session[b].version = device.version

(* A logged-in browser is let in by both middlewares. *)
LetIn(b) == session[b].user /\ session[b].newest /\ SetupValid(b)

(* logout() *)
BecomesAnonymous(b) ==
  /\ session' = [session EXCEPT ![b] = Anonymous]
  /\ proved' = [proved EXCEPT ![b] = {}]

(* Any request of a session that is not let in ends in a logout. *)
Overtaken(b) ==
  /\ Request(b)
  /\ session[b].user /\ ~LetIn(b)
  /\ BecomesAnonymous(b)
  /\ UNCHANGED <<device, codes, binding, request, cache, now, uses>>

Logout(b) ==
  /\ Request(b) /\ LetIn(b)
  /\ BecomesAnonymous(b)
  /\ UNCHANGED <<device, codes, binding, request, cache, now, uses>>

(* issue_pending_challenge *)
Pending(s, certificate) ==
  [s EXCEPT !.mode = "pending", !.version = NoVersion, !.certificate = certificate]

WithoutMode(s) == [s EXCEPT !.mode = "none", !.version = NoVersion, !.certificate = NoCertificate]

(* rotate_privileged_session_version: every other session falls behind, a  *)
(* login that another browser has not stored yet included.                 *)
NewestIs(b, s) ==
  [c \in Browsers |-> IF c = b THEN s ELSE [session[c] EXCEPT !.newest = FALSE]]

(* LoginView with the right password; onAdmin: the target is the admin     *)
(* site, which asks for the certificate first.                             *)
Login(b, onAdmin) ==
  /\ Request(b) /\ ~session[b].user
  /\ IF Active
     THEN /\ onAdmin => binding.active
          /\ session' = [session EXCEPT ![b] = Pending(@, IF onAdmin THEN binding ELSE NoCertificate)]
          /\ UNCHANGED request
     ELSE /\ session' = NewestIs(b, [WithoutMode(session[b]) EXCEPT
                !.user = TRUE, !.newest = TRUE, !.mode = "enrollment"])
          /\ request' = [c \in Browsers |-> [request[c] EXCEPT !.newest = FALSE]]
  /\ UNCHANGED <<device, codes, binding, cache, now, uses, proved>>

(* MtlsAdminMiddleware and MfaPrivilegeMiddleware: a protected page opens, *)
(* or an entry that is no longer valid is dropped and a challenge issued.  *)
Opens(b, onAdmin) == IF onAdmin THEN FullValid(b, TRUE) ELSE DashboardValid(b)

(* issue_pending_challenge, or the settings page when there is no device. *)
Challenged(b, onAdmin) ==
  LET s == IF Active THEN Pending(session[b], IF onAdmin THEN binding ELSE NoCertificate)
           ELSE WithoutMode(session[b])
  IN IF onAdmin THEN s ELSE [s EXCEPT !.remembered = NoVersion]

Visit(b, onAdmin) ==
  /\ Request(b) /\ LetIn(b) /\ ~Confined(b)
  /\ onAdmin => binding.active
  /\ session' = [session EXCEPT ![b] =
       IF FullValid(b, onAdmin) THEN @
       ELSE IF Opens(b, onAdmin) THEN WithoutMode(@) ELSE Challenged(b, onAdmin)]
  /\ UNCHANGED <<device, codes, binding, request, cache, now, uses, proved>>

-----------------------------------------------------------------------------
(* The challenge *)

(* get_pending_challenge *)
DropPending(b) ==
  /\ Request(b) /\ session[b].mode = "pending" /\ ~Active
  /\ session[b].user => LetIn(b)
  /\ session' = [session EXCEPT ![b] = WithoutMode(@)]
  /\ UNCHANGED <<device, codes, binding, request, cache, now, uses, proved>>

(* Seeded fault: the lock is not looked at. *)
MayTryUnlocked == TRUE

(* challenge_is_locked *)
MayTry == ~locked

(* MfaChallengeView.post up to the code: kind is "challenge" or "recovery". *)
Submit(b, kind) ==
  /\ Request(b) /\ session[b].mode = "pending" /\ Active
  /\ session[b].user => LetIn(b)
  /\ session[b].certificate # NoCertificate => session[b].certificate = binding
  /\ MayTry
  /\ request' = [request EXCEPT ![b] = Asking("verify", kind)]
  /\ UNCHANGED <<device, codes, binding, session, cache, now, uses, proved>>

(* issue_membership_step_up up to the code. *)
StepUp(b) ==
  /\ Request(b) /\ LetIn(b) /\ ~Confined(b) /\ DashboardValid(b)
  /\ MayTry
  /\ request' = [request EXCEPT ![b] = Asking("verify", "stepup")]
  /\ UNCHANGED <<device, codes, binding, session, cache, now, uses, proved>>

(* verify_active_totp; s is the step of the code. *)
Verify(b, s) ==
  /\ request[b].pc = "verify" /\ request[b].kind \in {"challenge", "stepup"}
  /\ IF Active /\ Fresh(b, s)
     THEN /\ device' = [device EXCEPT !.last = s]
          /\ Accept(b, <<device.seed, s>>)
          /\ request' = [request EXCEPT ![b].version = device.version,
               ![b].pc = IF request[b].kind = "stepup" THEN "forget" ELSE "login"]
          /\ UNCHANGED guesses
     ELSE /\ request' = [request EXCEPT ![b].pc = "add"]
          /\ guesses' = IF Active /\ ~Matches(b, s) THEN guesses + 1 ELSE guesses
          /\ UNCHANGED <<device, uses, proved>>
  /\ UNCHANGED <<codes, binding, session, count, locked, now, budget>>

(* consume_recovery_code_for_rebind *)
Recover(b, right) ==
  /\ request[b].pc = "verify" /\ request[b].kind = "recovery"
  /\ IF Active /\ right /\ request[b].seed \in codes
     THEN /\ Accept(b, <<device.seed, Recovery>>)
          /\ Erase
          /\ request' = [request EXCEPT ![b].pc = "login",
                            ![b].version = device'.version]
          /\ UNCHANGED guesses
     ELSE /\ request' = [request EXCEPT ![b].pc = "add"]
          /\ guesses' = IF Active /\ ~right THEN guesses + 1 ELSE guesses
          /\ UNCHANGED <<device, codes, uses, proved>>
  /\ UNCHANGED <<binding, session, count, locked, now, budget>>

(* login(): when nobody was logged in, and always after a recovery. *)
LogIn(b) ==
  /\ request[b].pc = "login"
  /\ IF session[b].user /\ request[b].kind = "challenge"
     THEN /\ request' = [request EXCEPT ![b].pc = "finish", ![b].newest = session[b].newest]
          /\ UNCHANGED session
     ELSE /\ request' = [c \in Browsers |->
               IF c = b THEN [request[b] EXCEPT !.pc = "finish", !.newest = TRUE]
               ELSE [request[c] EXCEPT !.newest = FALSE]]
          /\ session' = [c \in Browsers |-> [session[c] EXCEPT !.newest = FALSE]]
  /\ UNCHANGED <<device, codes, binding, cache, now, budget, uses, proved>>

Forget ==
  /\ count' = 0 /\ locked' = FALSE /\ guesses' = 0

(* clear_challenge_failures, and the response with mark_privileged_session *)
(* or mark_recovery_session; remember is what happens to the entry that is *)
(* offered for targets on the dashboard.                                   *)
Finish(b, remember) ==
  /\ request[b].pc = "finish"
  /\ Forget
  /\ LET r == request[b]
         s == [session[b] EXCEPT !.user = TRUE, !.newest = r.newest, !.version = r.version] IN
     session' = [session EXCEPT ![b] =
       IF r.kind = "recovery"
       THEN [s EXCEPT !.mode = "recovery", !.certificate = NoCertificate]
       ELSE [s EXCEPT !.mode = "full",
               !.remembered = CASE remember = "yes" /\ s.certificate = NoCertificate -> r.version
                                [] remember = "no" /\ s.certificate = NoCertificate -> NoVersion
                                [] OTHER -> @]]
  /\ request' = [request EXCEPT ![b] = Idle]
  /\ UNCHANGED <<device, codes, binding, now, budget, uses, proved>>

-----------------------------------------------------------------------------
(* The step-up of the dashboard: issue_membership_step_up forgets the      *)
(* failures, then the membership operation consumes the capability, which  *)
(* looks at the session and the device again.                              *)
ForgetAfterStepUp(b) ==
  /\ request[b].pc = "forget"
  /\ Forget
  /\ request' = [request EXCEPT ![b].pc = "consume"]
  /\ UNCHANGED <<device, codes, binding, session, now, budget, uses, proved>>

(* consume_membership_step_up lets the membership operation happen. *)
Consumable(b) == DashboardValid(b)

Consume(b) ==
  /\ request[b].pc = "consume" /\ Consumable(b)
  /\ request' = [request EXCEPT ![b] = Idle]
  /\ UNCHANGED <<device, codes, binding, session, cache, now, budget, uses, proved>>

RefuseCapability(b) ==
  /\ request[b].pc = "consume" /\ ~Consumable(b)
  /\ request' = [request EXCEPT ![b] = Idle]
  /\ session' = [session EXCEPT ![b].remembered = NoVersion,
                    ![b].mode = IF @ = "full" THEN "none" ELSE @]
  /\ UNCHANGED <<device, codes, binding, cache, now, budget, uses, proved>>

-----------------------------------------------------------------------------
(* record_challenge_failure, call by call: add, and if there is an entry   *)
(* incr, and if that entry has gone meanwhile set.                         *)

Counted(b, n) ==
  /\ count' = n
  /\ request' = [request EXCEPT ![b] = IF n >= MaxAttempts THEN [@ EXCEPT !.pc = "lock"] ELSE Idle]
  /\ UNCHANGED <<device, codes, binding, session, locked, now, budget, uses, proved, guesses>>

CountFirst(b) == request[b].pc = "add" /\ count = 0 /\ Counted(b, 1)

CountExists(b) ==
  /\ request[b].pc = "add" /\ count # 0
  /\ request' = [request EXCEPT ![b].pc = "incr"]
  /\ UNCHANGED <<device, codes, binding, session, cache, now, budget, uses, proved>>

CountNext(b) == request[b].pc = "incr" /\ count # 0 /\ Counted(b, count + 1)

CountGone(b) ==
  /\ request[b].pc = "incr" /\ count = 0
  /\ request' = [request EXCEPT ![b].pc = "set"]
  /\ UNCHANGED <<device, codes, binding, session, cache, now, budget, uses, proved>>

CountAgain(b) == request[b].pc = "set" /\ Counted(b, 1)

Lock(b) ==
  /\ request[b].pc = "lock"
  /\ locked' = TRUE
  /\ request' = [request EXCEPT ![b] = Idle]
  /\ UNCHANGED <<device, codes, binding, session, count, now, budget, uses, proved, guesses>>

CountFailure(b) ==
  \/ CountFirst(b) \/ CountExists(b) \/ CountNext(b) \/ CountGone(b) \/ CountAgain(b) \/ Lock(b)

-----------------------------------------------------------------------------
(* The settings page: enrolment, confirmation, revocation *)

Ask(b, pc) ==
  /\ Request(b) /\ LetIn(b)
  /\ request' = [request EXCEPT ![b] = Asking(pc, "none")]
  /\ UNCHANGED <<device, codes, binding, session, cache, now, uses, proved>>

(* pyotp.random_base32: seeds are numbered as they are drawn. *)
NextSeed == device.seed + 1

(* start_totp_enrollment, and the page, which finds a recovery invalid as  *)
(* soon as the device is pending.                                          *)
Start(b) ==
  /\ request[b].pc = "start" /\ NextSeed \in Seeds
  /\ IF Active THEN UNCHANGED <<device, codes, session>>
     ELSE /\ device' = [device EXCEPT !.status = "pending", !.seed = NextSeed,
                                      !.last = NoStep, !.expired = FALSE]
          /\ codes' = {}
          /\ session' = [session EXCEPT ![b] = IF @.mode = "recovery" THEN WithoutMode(@) ELSE @]
  /\ request' = [request EXCEPT ![b] = Idle]
  /\ UNCHANGED <<binding, cache, now, budget, uses, proved>>

(* confirm_totp_enrollment: an expired seed is erased, a right code        *)
(* activates the device.                                                   *)
Confirm(b, s) ==
  /\ request[b].pc = "confirm"
  /\ IF device.status = "pending" /\ ~device.expired /\ Matches(b, s)
     THEN /\ device' = [device EXCEPT !.status = "active", !.last = s]
          /\ codes' = {device.seed}
          /\ Accept(b, <<device.seed, s>>)
          /\ request' = [request EXCEPT ![b].pc = "mark"]
     ELSE /\ IF device.status = "pending" /\ device.expired
             THEN Erase ELSE UNCHANGED <<device, codes>>
          /\ request' = [request EXCEPT ![b] = Idle]
          /\ UNCHANGED <<uses, proved>>
  /\ UNCHANGED <<binding, session, cache, now, budget>>

(* MfaConfirmEnrollmentView.form_valid reads the device again before it    *)
(* marks the session.                                                      *)
MarkConfirmed(b) ==
  /\ request[b].pc = "mark"
  /\ session' = [session EXCEPT ![b] = [@ EXCEPT !.mode = "full", !.certificate = NoCertificate,
       !.version = device.version]]
  /\ request' = [request EXCEPT ![b] = Idle]
  /\ UNCHANGED <<device, codes, binding, cache, now, budget, uses, proved>>

(* revoke_totp_device by the owner, with the right password. *)
Revoke(b, s) ==
  /\ request[b].pc = "revoke"
  /\ IF device.status \in {"pending", "active"} /\ Fresh(b, s)
     THEN Erase /\ Accept(b, <<device.seed, s>>)
     ELSE UNCHANGED <<device, codes, uses, proved>>
  /\ request' = [request EXCEPT ![b] = Idle]
  /\ UNCHANGED <<binding, session, cache, now, budget>>

-----------------------------------------------------------------------------
(* Surroundings *)

Tick ==
  /\ now < MaxStep
  /\ now' = now + 1
  /\ UNCHANGED <<device, codes, binding, session, request, cache, budget, uses, proved>>

PendingExpires ==
  /\ device.status = "pending" /\ ~device.expired /\ Spend("mishap")
  /\ device' = [device EXCEPT !.expired = TRUE]
  /\ UNCHANGED <<codes, binding, session, request, cache, now, uses, proved>>

(* The time limit of a session entry passes; with an entry that confines   *)
(* the session the next request logs out.                                  *)
Lapse(b) ==
  /\ request[b] = Idle /\ Spend("mishap")
  /\ \/ /\ session[b].mode \in {"pending", "full"}
        /\ session' = [session EXCEPT ![b] = WithoutMode(@)]
        /\ UNCHANGED proved
     \/ /\ Confined(b)
        /\ BecomesAnonymous(b)
     \/ /\ session[b].remembered # NoVersion
        /\ session' = [session EXCEPT ![b].remembered = NoVersion]
        /\ UNCHANGED proved
  /\ UNCHANGED <<device, codes, binding, request, cache, now, uses>>

(* The entries of the cache live equally long: a lock outlives the count   *)
(* that led to it.                                                         *)
CountExpires ==
  /\ count # 0 /\ Spend("mishap")
  /\ count' = 0 /\ guesses' = 0
  /\ UNCHANGED <<device, codes, binding, session, request, locked, now, uses, proved>>

LockExpires ==
  /\ locked /\ count < MaxAttempts /\ Spend("mishap")
  /\ locked' = FALSE
  /\ UNCHANGED <<device, codes, binding, session, request, count, now, uses, proved, guesses>>

(* revoke_totp_device by another superuser. *)
RevokeByOperator ==
  /\ device.status \in {"pending", "active"} /\ Spend("mishap")
  /\ Erase
  /\ UNCHANGED <<binding, session, request, cache, now, uses, proved>>

(* bind_client_certificate, once the last certificate is revoked. *)
Bind ==
  /\ ~binding.active /\ binding.id < MaxBindings
  /\ binding' = [id |-> binding.id + 1, version |-> 1, active |-> TRUE]
  /\ UNCHANGED <<device, codes, session, request, cache, now, budget, uses, proved>>

RevokeCertificate ==
  /\ binding.active /\ Spend("mishap")
  /\ binding' = [binding EXCEPT !.active = FALSE, !.version = @ + 1]
  /\ UNCHANGED <<device, codes, session, request, cache, now, uses, proved>>

(* A request is lost between two steps: its session is not written. *)
BreakOff(b) ==
  /\ request[b] # Idle /\ Spend("mishap")
  /\ request' = [request EXCEPT ![b] = Idle]
  /\ UNCHANGED <<device, codes, binding, session, cache, now, uses, proved>>

-----------------------------------------------------------------------------
Answer(b) ==
  \/ \E s \in Window \union {NoStep} : Verify(b, s) \/ Confirm(b, s) \/ Revoke(b, s)
  \/ \E right \in BOOLEAN : Recover(b, right)
  \/ LogIn(b)
  \/ \E remember \in {"yes", "no", "as it was"} : Finish(b, remember)
  \/ ForgetAfterStepUp(b) \/ Consume(b) \/ RefuseCapability(b)
  \/ CountFailure(b)
  \/ Start(b) \/ MarkConfirmed(b)

Arrive(b) ==
  \/ \E onAdmin \in BOOLEAN : Login(b, onAdmin) \/ Visit(b, onAdmin)
  \/ \E kind \in {"challenge", "recovery"} : Submit(b, kind)
  \/ \E pc \in {"start", "confirm", "revoke"} : Ask(b, pc)
  \/ StepUp(b) \/ DropPending(b) \/ Overtaken(b) \/ Logout(b)

Next ==
  \/ \E b \in Browsers : Arrive(b) \/ Answer(b) \/ Lapse(b) \/ BreakOff(b)
  \/ Tick \/ PendingExpires \/ CountExpires \/ LockExpires
  \/ RevokeByOperator \/ Bind \/ RevokeCertificate

Spec == Init /\ [][Next]_vars

-----------------------------------------------------------------------------
(* Properties *)

(* MfaTotpDevice.last_accepted_step, MfaRecoveryCode.used_at: whichever of *)
(* the confirmation, the challenge, the step-up, the revocation and the    *)
(* recovery it goes through, and from whichever browser, a code is         *)
(* accepted once; and recovery codes exist for the seed of an active       *)
(* device and no other.  The first conjunct gives the types.               *)
OnceOnly ==
  /\ TypeOK
  /\ codes = IF device.status = "active" THEN {device.seed} ELSE {}
  /\ \A c \in Code : uses[c] <= 1

(* privileged_session_is_valid, dashboard_remembered_session_is_valid: a   *)
(* browser that opens a protected page has had a code of the seed that is  *)
(* in force accepted since it logged in, also after revocations and new    *)
(* enrolments from elsewhere; and a membership operation happens under the *)
(* seed of the code that was given for it.                                 *)
GrantsFollowSeed ==
  /\ [](\A b \in Browsers : LetIn(b) /\ DashboardValid(b) => device.seed \in proved[b])
  /\ [][\A b \in Browsers :
          Consume(b) => Active /\ request[b].seed = device.seed]_vars

(* What a late set can take from a count that has not led to a lock.       *)
LostBySet == IF MaxAttempts = 1 THEN 0 ELSE MaxAttempts - 2

(* challenge_is_locked, record_challenge_failure: between two moments at   *)
(* which the failures are forgotten no more wrong codes are tried than the *)
(* count allows below the limit, one from every browser that is past the   *)
(* check by then, what a late set of every further browser takes from the  *)
(* count, and one from every browser for each request that is lost before  *)
(* it is counted and each lock that ends before its count.                 *)
GuessesBounded ==
  LET n == Cardinality(Browsers) IN
  guesses <= MaxAttempts - 1 + n + (n - 1) * LostBySet + n * (Budget["mishap"] - budget["mishap"])
=============================================================================
