--------------------------- MODULE RequestLimits ---------------------------
(***************************************************************************)
(* The limits that are kept in the cache: codes sent by mail to one        *)
(* account in one session (issue_email_verification_code,                  *)
(* verify_email_verification_code), wrong passwords for one account from   *)
(* one address (LoginView) and submissions by one visitor                  *)
(* (_consume_comment_quota, _consume_content_report_quota).  The cache     *)
(* knows no transactions: a request is a sequence of single calls, and     *)
(* every call is a step.                                                   *)
(*                                                                         *)
(* A counter is counted up by three calls, add, incr and set, the second   *)
(* if the entry was there and the third if it is gone again                *)
(* (_increment_cache_counter and its three copies).                        *)
(*                                                                         *)
(* Assumed of the time limits (minutes, where a call takes milliseconds):  *)
(* the cool-down outlives the calls that count and store a code, and no    *)
(* entry of a code runs out between storing it and clearing its attempts.  *)
(***************************************************************************)
EXTENDS Naturals, FiniteSets

CONSTANTS
  Requests,      \* requests that may be answered at the same time
  Purposes,      \* the keys of EMAIL_VERIFICATION_PURPOSES that are asked for
  Quotas,        \* the submissions with a quota of their own
  MaxAttempts,   \* PASSWORD_EMAIL_MAX_ATTEMPTS
  MaxSends,      \* PASSWORD_EMAIL_MAX_SENDS
  MaxFailures,   \* LOGIN_MAX_FAILURES
  RateLimit,     \* COMMENT_RATE_LIMIT, CONTENT_REPORT_RATE_LIMIT
  Cap            \* bound: counters stay at Cap; above it nothing is told apart

Windows == {"sends", "login"} \union Quotas
Counters == Purposes \union Windows

ASSUME LimitsAssumption ==
  /\ IsFiniteSet(Requests) /\ Requests # {}
  /\ MaxAttempts \in Nat \ {0} /\ MaxSends \in Nat \ {0}
  /\ MaxFailures \in Nat \ {0} /\ RateLimit \in Nat \ {0}
  /\ Cap \in Nat /\ \A n \in {MaxAttempts, MaxSends, MaxFailures, RateLimit} : n < Cap
  /\ Purposes \intersect Windows = {} /\ Quotas \intersect {"sends", "login"} = {}

VARIABLES
  code,      \* code[p]: the entry "code" of purpose p is there
  cooldown,  \* the entry "cooldown" is there
  counter,   \* counter[k]: the entry "attempts" of a purpose, "send-count", login-fail or a quota; 0: absent
  request,   \* request[r]: what r is about to do
  guesses,   \* history: guesses[p]: wrong codes compared with the newest code of p
  granted,   \* history: granted[k]: what window k let through since it began
  resets     \* history: resets[k]: how often counts made for this code, in this window, were dropped

limits == <<code, cooldown, counter, request, guesses, granted, resets>>
cache == <<code, cooldown, counter>>
history == <<guesses, granted, resets>>

(* key: the counter being counted; purpose: the code to be sent; n: what   *)
(* the counter said; newest: no later code was stored since r read it.     *)
Idle == [at |-> "idle", key |-> "none", purpose |-> "none", n |-> 0, newest |-> FALSE]

LimitsInit ==
  /\ code = [p \in Purposes |-> FALSE]
  /\ cooldown = FALSE
  /\ counter = [k \in Counters |-> 0]
  /\ request = [r \in Requests |-> Idle]
  /\ guesses = [p \in Purposes |-> 0]
  /\ granted = [k \in Windows |-> 0]
  /\ resets = [k \in Counters |-> 0]

At(r, step) == request[r].at = step
Key(r) == request[r].key
Go(r, step) == request' = [request EXCEPT ![r].at = step]
Done(r) == request' = [request EXCEPT ![r] = Idle]
Begin(r, step, key) ==
  /\ request[r] = Idle
  /\ request' = [request EXCEPT ![r] = [Idle EXCEPT !.at = step, !.key = key]]

-----------------------------------------------------------------------------
(* _increment_cache_counter                                                *)

Counted(r, n) ==
  /\ counter' = [counter EXCEPT ![Key(r)] = n]
  /\ request' = [request EXCEPT ![r].at = "counted", ![r].n = n]

(* What a window granted is counted anew when it ends.                     *)
Ended(k) ==
  /\ granted' = [granted EXCEPT ![k] = 0]
  /\ resets' = [resets EXCEPT ![k] = 0]

Dropped(k) ==
  LET matters == counter[k] > 0 /\ (k \in Purposes => code[k]) IN
  resets' = [resets EXCEPT ![k] = IF matters THEN @ + 1 ELSE @]

CountFirst(r) ==
  /\ At(r, "add") /\ counter[Key(r)] = 0
  /\ Counted(r, 1)
  /\ UNCHANGED <<code, cooldown, history>>

CountExists(r) ==
  /\ At(r, "add") /\ counter[Key(r)] > 0
  /\ Go(r, "incr")
  /\ UNCHANGED <<cache, history>>

CountNext(r) ==
  /\ At(r, "incr") /\ counter[Key(r)] > 0
  /\ Counted(r, IF counter[Key(r)] < Cap THEN counter[Key(r)] + 1 ELSE Cap)
  /\ UNCHANGED <<code, cooldown, history>>

CountGone(r) ==
  /\ At(r, "incr") /\ counter[Key(r)] = 0
  /\ Go(r, "set")
  /\ UNCHANGED <<cache, history>>

CountAgain(r) ==
  /\ At(r, "set")
  /\ Counted(r, 1)
  /\ Dropped(Key(r))
  /\ UNCHANGED <<code, cooldown, guesses, granted>>

Count(r) == CountFirst(r) \/ CountExists(r) \/ CountNext(r) \/ CountGone(r) \/ CountAgain(r)

-----------------------------------------------------------------------------
(* issue_email_verification_code: cool-down, count, code, attempts, mail   *)

AskForCode(r, p) ==
  /\ ~cooldown
  /\ request[r] = Idle
  /\ cooldown' = TRUE
  /\ request' = [request EXCEPT ![r] = [Idle EXCEPT !.at = "add", !.key = "sends", !.purpose = p]]
  /\ UNCHANGED <<code, counter, history>>

RefuseSend(r) ==
  /\ At(r, "counted") /\ Key(r) = "sends" /\ request[r].n > MaxSends
  /\ Done(r)
  /\ UNCHANGED <<cache, history>>

(* The second cache.set stores when the code will expire, for display.     *)
StoreCode(r) ==
  LET p == request[r].purpose IN
  /\ At(r, "counted") /\ Key(r) = "sends" /\ request[r].n <= MaxSends
  /\ code' = [code EXCEPT ![p] = TRUE]
  /\ guesses' = [guesses EXCEPT ![p] = 0]
  /\ granted' = [granted EXCEPT !["sends"] = @ + 1]
  /\ request' = [q \in Requests |->
       IF q = r THEN [request[r] EXCEPT !.at = "clear"]
       ELSE [request[q] EXCEPT !.newest = @ /\ request[q].key # p]]
  /\ resets' = [resets EXCEPT ![p] = 0]
  /\ UNCHANGED <<cooldown, counter>>

ClearAttempts(r) ==
  /\ At(r, "clear")
  /\ counter' = [counter EXCEPT ![request[r].purpose] = 0]
  /\ Dropped(request[r].purpose)
  /\ Go(r, "mail")
  /\ UNCHANGED <<code, cooldown, guesses, granted>>

(* A code that could not be mailed is deleted again, whichever it is now.  *)
Mail(r) ==
  /\ At(r, "mail")
  /\ code' \in {code, [code EXCEPT ![request[r].purpose] = FALSE]}
  /\ Done(r)
  /\ UNCHANGED <<cooldown, counter, history>>

-----------------------------------------------------------------------------
(* verify_email_verification_code: read the code, count, compare, delete   *)

SubmitCode(r, p) ==
  /\ code[p]
  /\ request[r] = Idle
  /\ request' = [request EXCEPT ![r] = [Idle EXCEPT !.at = "add", !.key = p, !.newest = TRUE]]
  /\ UNCHANGED <<cache, history>>

Compared(r) == At(r, "counted") /\ Key(r) \in Purposes

RightCode(r) ==
  /\ Compared(r)
  /\ code' = [code EXCEPT ![Key(r)] = FALSE]
  /\ counter' = [counter EXCEPT ![Key(r)] = 0]
  /\ Done(r)
  /\ UNCHANGED <<cooldown, history>>

(* Seeded fault: one attempt too many before the code is given up. *)
WrongCodeLate(r) ==
  /\ Compared(r)
  /\ code' = [code EXCEPT ![Key(r)] = @ /\ request[r].n <= MaxAttempts]
  /\ guesses' = [guesses EXCEPT ![Key(r)] = IF request[r].newest THEN @ + 1 ELSE @]
  /\ Done(r)
  /\ UNCHANGED <<cooldown, counter, granted, resets>>

WrongCode(r) ==
  /\ Compared(r)
  /\ code' = [code EXCEPT ![Key(r)] = @ /\ request[r].n < MaxAttempts]
  /\ guesses' = [guesses EXCEPT ![Key(r)] = IF request[r].newest THEN @ + 1 ELSE @]
  /\ Done(r)
  /\ UNCHANGED <<cooldown, counter, granted, resets>>

-----------------------------------------------------------------------------
(* LoginView.form_valid: look at the counter, authenticate, count or forget *)

(* Seeded fault: one failure too many before the form is closed. *)
TryPasswordLate(r) ==
  /\ counter["login"] <= MaxFailures
  /\ Begin(r, "password", "login")
  /\ UNCHANGED <<cache, history>>

TryPassword(r) ==
  /\ counter["login"] < MaxFailures
  /\ Begin(r, "password", "login")
  /\ UNCHANGED <<cache, history>>

(* authenticate() turns a wrong password and an inactive account down      *)
(* alike; either may become true or false between two requests.            *)
Authenticate(r) ==
  /\ At(r, "password")
  /\ \/ Go(r, "forget") /\ UNCHANGED granted
     \/ Go(r, "add") /\ granted' = [granted EXCEPT !["login"] = @ + 1]
  /\ UNCHANGED <<cache, guesses, resets>>

(* The failures are forgotten when the session is, or the challenge of the *)
(* second factor; not when the client certificate is refused.              *)
LoggedIn(r) ==
  /\ At(r, "forget")
  /\ \/ counter' = [counter EXCEPT !["login"] = 0] /\ Ended("login")
     \/ UNCHANGED <<counter, granted, resets>>
  /\ Done(r)
  /\ UNCHANGED <<code, cooldown, guesses>>

LoginRefused(r) ==
  /\ At(r, "counted") /\ Key(r) = "login"
  /\ Done(r)
  /\ UNCHANGED <<cache, history>>

-----------------------------------------------------------------------------
(* _consume_comment_quota, _consume_content_report_quota                   *)

AskForQuota(r, k) ==
  /\ Begin(r, "add", k)
  /\ UNCHANGED <<cache, history>>

Admit(r) ==
  /\ At(r, "counted") /\ Key(r) \in Quotas
  /\ granted' = [granted EXCEPT ![Key(r)] = IF request[r].n <= RateLimit THEN @ + 1 ELSE @]
  /\ Done(r)
  /\ UNCHANGED <<cache, guesses, resets>>

-----------------------------------------------------------------------------
(* Time limits                                                             *)

Storing == \E r \in Requests : At(r, "clear")
Sending == \E r \in Requests : Key(r) = "sends" /\ ~At(r, "mail")

EndWindow(k) ==
  /\ k \in Windows /\ counter[k] > 0
  /\ counter' = [counter EXCEPT ![k] = 0]
  /\ Ended(k)
  /\ UNCHANGED <<code, cooldown, request, guesses>>

EndCooldown ==
  /\ cooldown /\ ~Sending
  /\ cooldown' = FALSE
  /\ UNCHANGED <<code, counter, request, history>>

EndCode(p) ==
  /\ code[p] /\ ~Storing
  /\ code' = [code EXCEPT ![p] = FALSE]
  /\ UNCHANGED <<cooldown, counter, request, history>>

(* The first attempt on a code is made after it is stored, and both entries *)
(* live equally long: attempts outlive the code they were made on.         *)
EndAttempts(p) ==
  /\ counter[p] > 0 /\ ~code[p] /\ ~Storing
  /\ counter' = [counter EXCEPT ![p] = 0]
  /\ UNCHANGED <<code, cooldown, request, history>>

-----------------------------------------------------------------------------
MailSteps ==
  \/ \E r \in Requests, p \in Purposes : AskForCode(r, p) \/ SubmitCode(r, p)
  \/ \E r \in Requests :
       \/ Count(r) \/ RefuseSend(r) \/ StoreCode(r) \/ ClearAttempts(r) \/ Mail(r)
       \/ RightCode(r) \/ WrongCode(r)
  \/ EndCooldown \/ EndWindow("sends")
  \/ \E p \in Purposes : EndCode(p) \/ EndAttempts(p)

QuotaSteps ==
  \/ \E r \in Requests : Count(r) \/ Admit(r) \/ \E k \in Quotas : AskForQuota(r, k)
  \/ \E k \in Quotas : EndWindow(k)

LoginSteps ==
  \/ \E r \in Requests :
       TryPassword(r) \/ Authenticate(r) \/ LoggedIn(r) \/ LoginRefused(r) \/ Count(r)
  \/ EndWindow("login")

-----------------------------------------------------------------------------
Steps == {"idle", "add", "incr", "set", "counted", "clear", "mail", "password", "forget"}

Request ==
  [at : Steps, key : Counters \union {"none"}, purpose : Purposes \union {"none"},
   n : 0..Cap, newest : BOOLEAN]

LimitsTypeOK ==
  /\ code \in [Purposes -> BOOLEAN] /\ cooldown \in BOOLEAN
  /\ counter \in [Counters -> 0..Cap]
  /\ request \in [Requests -> Request]
  /\ guesses \in [Purposes -> Nat] /\ granted \in [Windows -> Nat] /\ resets \in [Counters -> Nat]

R == Cardinality(Requests)
=============================================================================
