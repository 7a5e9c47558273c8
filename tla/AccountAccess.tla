--------------------------- MODULE AccountAccess ---------------------------
(***************************************************************************)
(* What stands in front of an account: its invitation and active state     *)
(* (AccountLifecycle), and the limits kept in the cache (RequestLimits).   *)
(* The pages share no row and no entry: a disabled account looks to the    *)
(* login like a wrong password, which RequestLimits allows at any time.    *)
(* `page' says which page the requests of a behaviour ask for.             *)
(***************************************************************************)
EXTENDS RequestLimits, AccountLifecycle

VARIABLE page

vars == <<limits, lifecycle, page>>

Init == LimitsInit /\ LifecycleInit /\ page \in {"code", "quota", "login", "invitation"}

Next ==
  /\ UNCHANGED page
  /\ \/ page = "code" /\ MailSteps /\ UNCHANGED lifecycle
     \/ page = "quota" /\ QuotaSteps /\ UNCHANGED lifecycle
     \/ page = "login" /\ LoginSteps /\ UNCHANGED lifecycle
     \/ page = "invitation" /\ LifecycleSteps /\ UNCHANGED limits

Spec == Init /\ [][Next]_vars

-----------------------------------------------------------------------------
(* Properties                                                              *)

TypeOK == LimitsTypeOK /\ LifecycleTypeOK

(* verify_email_verification_code, _increment_cache_counter: of the wrong  *)
(* codes that overlapping requests send, MaxAttempts are compared with one *)
(* code between two resets of its counter, and one more for every other    *)
(* request under way.  The counter is reset only by the request that       *)
(* stored the code, once, and by requests that were already counting when  *)
(* the code was stored or its attempts were cleared.                       *)
GuessesBounded ==
  \A p \in Purposes : /\ guesses[p] <= (1 + resets[p]) * MaxAttempts + R - 1
                      /\ resets[p] <= 2 * R - 1

Limit(k) ==
  CASE k = "sends" -> MaxSends
    [] k = "login" -> MaxFailures
    [] OTHER -> RateLimit

(* What may be under way when a window ends or fills up: one mail, for the *)
(* cool-down lets no second request send; every request.  At the login,    *)
(* where a password is tried before it is counted, every request but the   *)
(* one that is counted, and after each reset again.                        *)
UnderWay(k) ==
  CASE k = "sends" -> 1
    [] k = "login" -> (1 + resets[k]) * (R - 1)
    [] OTHER -> R

(* issue_email_verification_code, LoginView.form_valid,                    *)
(* _consume_comment_quota: a window lets through its limit, once more for  *)
(* every reset of its counter, and what was under way; a reset needs a     *)
(* request that counts across the end of the window before.  The first     *)
(* conjunct gives the types of both modules.                               *)
WindowsBounded ==
  /\ TypeOK
  /\ \A k \in Windows : /\ granted[k] <= (1 + resets[k]) * Limit(k) + UnderWay(k)
                        /\ resets[k] <= R - 1

(* accept_account_invitation: a token activates the account at most once,  *)
(* and only the newest one does, whoever disabled, saved or invited the    *)
(* account again since the page was opened.                                *)
TokensOnce ==
  [][\A t \in Tokens : used'[t] # used[t] => used'[t] = 1 /\ t = invitation.token]_vars
=============================================================================
