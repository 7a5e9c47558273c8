------------------------- MODULE AccountAccessProofs -------------------------
(***************************************************************************)
(* For any number of operators, visitors and invitations, an invitation    *)
(* activates its account at most once; for any number of requests and any  *)
(* limits, what the counters in the cache let through is bounded.          *)
(***************************************************************************)
EXTENDS AccountAccess, FiniteSetTheorems, TLAPS

-----------------------------------------------------------------------------
(* The limits in the cache *)

(* What every request is about to do fits what it has done.                *)
Counting == {"add", "incr", "set", "counted"}

Shaped ==
  \A r \in Requests :
    /\ At(r, "idle") => request[r] = Idle
    /\ request[r].at \in Counting => Key(r) \in Counters
    /\ request[r].at \in {"clear", "mail"} => Key(r) = "sends"
    /\ request[r].at \in {"password", "forget"} => Key(r) = "login"
    /\ Key(r) = "sends" => request[r].purpose \in Purposes

(* The cool-down lets one request at a time send.                          *)
IsSending(r) == Key(r) = "sends" /\ ~At(r, "mail")

OneSender ==
  /\ \A q, r \in Requests : IsSending(q) /\ IsSending(r) => q = r
  /\ \A r \in Requests : IsSending(r) => cooldown

LimitsInv == LimitsTypeOK /\ Shaped /\ OneSender

OtherStep ==
  \/ \E r \in Requests, p \in Purposes : AskForCode(r, p) \/ SubmitCode(r, p)
  \/ \E r \in Requests :
       \/ RefuseSend(r) \/ StoreCode(r) \/ ClearAttempts(r) \/ Mail(r)
       \/ RightCode(r) \/ WrongCode(r) \/ Admit(r) \/ \E k \in Quotas : AskForQuota(r, k)
       \/ TryPassword(r) \/ Authenticate(r) \/ LoggedIn(r) \/ LoginRefused(r)
  \/ EndCooldown \/ \E k \in Windows : EndWindow(k)
  \/ \E p \in Purposes : EndCode(p) \/ EndAttempts(p)

LimitsStep == OtherStep \/ \E r \in Requests : Count(r)

LEMMA LimitsSteps == MailSteps \/ QuotaSteps \/ LoginSteps => LimitsStep
BY DEF MailSteps, QuotaSteps, LoginSteps, LimitsStep, OtherStep, Windows

LEMMA KeyTypes ==
  /\ Purposes \subseteq Counters /\ Windows \subseteq Counters /\ Quotas \subseteq Windows
  /\ "sends" \in Windows /\ "login" \in Windows
  /\ Purposes \intersect Windows = {} /\ "sends" \notin Quotas /\ "login" \notin Quotas
BY LimitsAssumption DEF Counters, Windows

(* The numbers in use. *)
LEMMA LimitTypes ==
  /\ R \in Nat /\ R >= 1
  /\ MaxAttempts \in Nat /\ MaxAttempts >= 1 /\ MaxSends \in Nat /\ RateLimit \in Nat
  /\ MaxFailures \in Nat /\ MaxFailures >= 1 /\ Cap \in Nat
  /\ MaxAttempts < Cap /\ MaxSends < Cap /\ RateLimit < Cap /\ MaxFailures < Cap
<1>1. R \in Nat
  BY LimitsAssumption, FS_CardinalityType DEF R
<1>2. R # 0
  BY LimitsAssumption, FS_EmptySet DEF R
<1>. QED  BY <1>1, <1>2, LimitsAssumption

(* Parts of the requests are counted. *)
LEMMA PartSize ==
  ASSUME NEW S \in SUBSET Requests
  PROVE  /\ IsFiniteSet(S) /\ Cardinality(S) \in Nat /\ Cardinality(S) <= R
         /\ \A r \in Requests : r \notin S => Cardinality(S) <= R - 1
<1>1. IsFiniteSet(S) /\ Cardinality(S) <= R
  BY LimitsAssumption, FS_Subset DEF R
<1>2. Cardinality(S) \in Nat
  BY <1>1, FS_CardinalityType
<1>3. ASSUME NEW r \in Requests, r \notin S
      PROVE  Cardinality(S) <= R - 1
  <2>1. S # Requests
    BY <1>3
  <2>2. Cardinality(S) = R => S = Requests
    BY LimitsAssumption, FS_Subset DEF R
  <2>. QED  BY <1>1, <1>2, <2>1, <2>2, LimitTypes
<1>. QED  BY <1>1, <1>2, <1>3

(* A part shrinks, grows by one request at most, or loses it. *)
LEMMA PartChanges ==
  ASSUME NEW S \in SUBSET Requests, NEW T \in SUBSET Requests, NEW r \in Requests,
         T \subseteq S \union {r}
  PROVE  /\ Cardinality(T) <= Cardinality(S) + 1
         /\ T \subseteq S => Cardinality(T) <= Cardinality(S)
         /\ r \in S /\ r \notin T => Cardinality(T) <= Cardinality(S) - 1
<1>1. IsFiniteSet(S) /\ Cardinality(S) \in Nat /\ IsFiniteSet(T) /\ Cardinality(T) \in Nat
  BY PartSize
<1>2. ASSUME NEW A \in SUBSET Requests, NEW B \in SUBSET A
      PROVE  Cardinality(B) <= Cardinality(A)
  BY PartSize, FS_Subset
<1>3. Cardinality(S \union {r}) \in Nat /\ Cardinality(S \union {r}) <= Cardinality(S) + 1
  <2>1. Cardinality(S \union {r}) = IF r \in S THEN Cardinality(S) ELSE Cardinality(S) + 1
    BY <1>1, FS_AddElement
  <2>. QED  BY <1>1, <2>1
<1>4. Cardinality(T) <= Cardinality(S \union {r})
  BY <1>2
<1>5. CASE r \in S /\ r \notin T
  <2>1. Cardinality(S \ {r}) = Cardinality(S) - 1
    BY <1>1, <1>5, FS_RemoveElement
  <2>2. Cardinality(T) <= Cardinality(S \ {r})
    BY <1>2, <1>5
  <2>. QED  BY <1>1, <1>2, <1>3, <1>4, <2>1, <2>2
<1>. QED  BY <1>1, <1>2, <1>3, <1>4, <1>5

-----------------------------------------------------------------------------
(* Types *)

LEMMA RequestRecords ==
  ASSUME NEW q \in Request, NEW step \in Steps
  PROVE  [q EXCEPT !.at = step] \in Request
BY DEF Request

LEMMA SameRequest ==
  ASSUME NEW q \in Request, NEW o \in Request,
         q.at = o.at, q.key = o.key, q.purpose = o.purpose, q.n = o.n, q.newest = o.newest
  PROVE  q = o
BY DEF Request

LEMMA NewRequests ==
  /\ Idle \in Request
  /\ \A step \in Steps, k \in Counters : [Idle EXCEPT !.at = step, !.key = k] \in Request
  /\ \A p \in Purposes : /\ [Idle EXCEPT !.at = "add", !.key = "sends", !.purpose = p] \in Request
                         /\ [Idle EXCEPT !.at = "add", !.key = p, !.newest = TRUE] \in Request
<1>1. /\ "idle" \in Steps /\ "add" \in Steps /\ "sends" \in Counters
      /\ 0 \in 0..Cap /\ \A p \in Purposes : p \in Counters
  BY KeyTypes, LimitTypes DEF Steps
<1>2. Idle = [at |-> "idle", key |-> "none", purpose |-> "none", n |-> 0, newest |-> FALSE]
  BY DEF Idle
<1>3. Idle \in Request
  BY <1>1, <1>2 DEF Request
<1>4. ASSUME NEW step \in Steps, NEW k \in Counters
      PROVE  [Idle EXCEPT !.at = step, !.key = k] \in Request
  BY <1>1, <1>2 DEF Request
<1>5. ASSUME NEW p \in Purposes
      PROVE  /\ [Idle EXCEPT !.at = "add", !.key = "sends", !.purpose = p] \in Request
             /\ [Idle EXCEPT !.at = "add", !.key = p, !.newest = TRUE] \in Request
  BY <1>1, <1>2 DEF Request
<1>. QED  BY <1>3, <1>4, <1>5

(* All but StoreCode, which looks at every request, change one of them.    *)
LEMMA OneRequest ==
  ASSUME LimitsInv, NEW r \in Requests, NEW q \in Request, request' = [request EXCEPT ![r] = q]
  PROVE  /\ request' \in [Requests -> Request]
         /\ request'[r] = q /\ \A o \in Requests \ {r} : request'[o] = request[o]
BY DEF LimitsInv, LimitsTypeOK

LEMMA CountRequest ==
  ASSUME LimitsInv, NEW r \in Requests, Count(r)
  PROVE  /\ Key(r) \in Counters
         /\ UNCHANGED <<code, cooldown, guesses, granted>>
         /\ request' \in [Requests -> Request]
         /\ \A o \in Requests \ {r} : request'[o] = request[o]
         /\ request[r].at \in {"add", "incr", "set"}
         /\ request'[r].at \in Counting
         /\ request'[r].key = Key(r) /\ request'[r].purpose = request[r].purpose
         /\ request'[r].newest = request[r].newest
<1>1. request[r].at \in {"add", "incr", "set"} /\ UNCHANGED <<code, cooldown, guesses, granted>>
  BY DEF Count, CountFirst, CountExists, CountNext, CountGone, CountAgain, At, cache, history
<1>2. Key(r) \in Counters /\ counter[Key(r)] \in 0..Cap /\ request[r] \in Request
  BY <1>1 DEF LimitsInv, LimitsTypeOK, Shaped, Counting
<1>3. \/ \E step \in {"incr", "set"} : request' = [request EXCEPT ![r] = [request[r] EXCEPT !.at = step]]
      \/ \E n \in 0..Cap : request' = [request EXCEPT ![r] = [request[r] EXCEPT !.at = "counted", !.n = n]]
  <2>1. CASE CountExists(r) \/ CountGone(r)
    BY <2>1 DEF CountExists, CountGone, Go
  <2>2. CASE CountFirst(r) \/ CountAgain(r)
    <3>1. 1 \in 0..Cap
      BY LimitTypes
    <3>. QED  BY <2>2, <3>1 DEF CountFirst, CountAgain, Counted
  <2>3. CASE CountNext(r)
    <3> DEFINE n == IF counter[Key(r)] < Cap THEN counter[Key(r)] + 1 ELSE Cap
    <3>1. n \in 0..Cap
      BY <1>2, LimitTypes
    <3>. QED  BY <2>3, <3>1 DEF CountNext, Counted
  <2>. QED  BY <2>1, <2>2, <2>3 DEF Count
<1>4. PICK q \in Request : /\ request' = [request EXCEPT ![r] = q] /\ q.at \in Counting
                           /\ q.key = Key(r) /\ q.purpose = request[r].purpose
                           /\ q.newest = request[r].newest
  <2>1. ASSUME NEW step \in {"incr", "set"},
               request' = [request EXCEPT ![r] = [request[r] EXCEPT !.at = step]]
        PROVE  \E q \in Request : /\ request' = [request EXCEPT ![r] = q] /\ q.at \in Counting
                                  /\ q.key = Key(r) /\ q.purpose = request[r].purpose
                                  /\ q.newest = request[r].newest
    <3>1. [request[r] EXCEPT !.at = step] \in Request
      BY <1>2, <2>1 DEF Request, Steps
    <3>. QED  BY <1>2, <2>1, <3>1 DEF Request, Counting, Key
  <2>2. ASSUME NEW n \in 0..Cap,
               request' = [request EXCEPT ![r] = [request[r] EXCEPT !.at = "counted", !.n = n]]
        PROVE  \E q \in Request : /\ request' = [request EXCEPT ![r] = q] /\ q.at \in Counting
                                  /\ q.key = Key(r) /\ q.purpose = request[r].purpose
                                  /\ q.newest = request[r].newest
    <3>1. [request[r] EXCEPT !.at = "counted", !.n = n] \in Request
      BY <1>2, <2>2 DEF Request, Steps
    <3>. QED  BY <1>2, <2>2, <3>1 DEF Request, Counting, Key
  <2>. QED  BY <1>3, <2>1, <2>2
<1>. QED  BY <1>1, <1>2, <1>4, OneRequest

(* What the other steps make of a request. *)
LEMMA StepRequest ==
  ASSUME LimitsInv, NEW r \in Requests,
         \/ \E p \in Purposes : AskForCode(r, p) \/ SubmitCode(r, p)
         \/ RefuseSend(r) \/ ClearAttempts(r) \/ Mail(r) \/ RightCode(r) \/ WrongCode(r)
         \/ Admit(r) \/ \E k \in Quotas : AskForQuota(r, k)
         \/ TryPassword(r) \/ Authenticate(r) \/ LoggedIn(r) \/ LoginRefused(r)
  PROVE  /\ request' \in [Requests -> Request]
         /\ \A o \in Requests \ {r} : request'[o] = request[o]
         /\ request'[r].at \in Steps \ {"incr", "set", "counted"}
         /\ \/ request'[r] = Idle
            \/ /\ request[r] = Idle
               /\ \/ /\ request'[r].at = "add" /\ request'[r].key = "sends"
                     /\ request'[r].purpose \in Purposes /\ ~request'[r].newest
                     /\ ~cooldown /\ cooldown'
                  \/ /\ request'[r].at = "add" /\ request'[r].key \in Purposes
                     /\ request'[r].newest /\ code[request'[r].key]
                  \/ /\ request'[r].at = "add" /\ request'[r].key \in Quotas /\ ~request'[r].newest
                  \/ /\ request'[r].at = "password" /\ request'[r].key = "login"
                     /\ ~request'[r].newest /\ counter["login"] < MaxFailures
            \/ /\ request'[r].key = Key(r) /\ request'[r].purpose = request[r].purpose
               /\ request'[r].newest = request[r].newest
               /\ \/ /\ At(r, "clear") /\ request'[r].at = "mail"
                  \/ /\ At(r, "password") /\ request'[r].at \in {"forget", "add"}
<1>1. request[r] \in Request
  BY DEF LimitsInv, LimitsTypeOK
<1>2. CASE RefuseSend(r) \/ Mail(r) \/ RightCode(r) \/ WrongCode(r) \/ Admit(r) \/ LoggedIn(r)
           \/ LoginRefused(r)
  <2>1. request' = [request EXCEPT ![r] = Idle]
    BY <1>2 DEF RefuseSend, Mail, RightCode, WrongCode, Admit, LoggedIn, LoginRefused, Done
  <2>2. request' \in [Requests -> Request] /\ request'[r] = Idle
        /\ \A o \in Requests \ {r} : request'[o] = request[o]
    BY <2>1, NewRequests, OneRequest
  <2>. QED  BY <2>2 DEF Idle, Steps
<1>3. CASE \E p \in Purposes : AskForCode(r, p)
  <2>1. PICK p \in Purposes : AskForCode(r, p)
    BY <1>3
  <2> DEFINE q == [Idle EXCEPT !.at = "add", !.key = "sends", !.purpose = p]
  <2>2. q \in Request /\ request' = [request EXCEPT ![r] = q]
    BY <2>1, NewRequests DEF AskForCode
  <2>3. q.at = "add" /\ q.key = "sends" /\ q.purpose = p /\ ~q.newest
    BY DEF Idle
  <2> HIDE DEF q
  <2>4. request' \in [Requests -> Request] /\ request'[r] = q
        /\ \A o \in Requests \ {r} : request'[o] = request[o]
    BY <2>2, OneRequest
  <2>5. request[r] = Idle /\ ~cooldown /\ cooldown'
    BY <2>1 DEF AskForCode
  <2>. QED  BY <2>3, <2>4, <2>5 DEF Steps
<1>4. CASE \E p \in Purposes : SubmitCode(r, p)
  <2>1. PICK p \in Purposes : SubmitCode(r, p)
    BY <1>4
  <2> DEFINE q == [Idle EXCEPT !.at = "add", !.key = p, !.newest = TRUE]
  <2>2. q \in Request /\ request' = [request EXCEPT ![r] = q]
    BY <2>1, NewRequests DEF SubmitCode
  <2>3. q.at = "add" /\ q.key = p /\ q.newest
    BY DEF Idle
  <2> HIDE DEF q
  <2>4. request' \in [Requests -> Request] /\ request'[r] = q
        /\ \A o \in Requests \ {r} : request'[o] = request[o]
    BY <2>2, OneRequest
  <2>5. request[r] = Idle /\ code[p]
    BY <2>1 DEF SubmitCode
  <2>. QED  BY <2>3, <2>4, <2>5 DEF Steps
<1>5. CASE TryPassword(r) \/ \E k \in Quotas : AskForQuota(r, k)
  <2>1. PICK step \in {"add", "password"}, k \in Counters :
          /\ Begin(r, step, k)
          /\ \/ step = "add" /\ k \in Quotas
             \/ step = "password" /\ k = "login" /\ counter["login"] < MaxFailures
    BY <1>5, KeyTypes DEF TryPassword, AskForQuota
  <2> DEFINE q == [Idle EXCEPT !.at = step, !.key = k]
  <2>2. q \in Request /\ request' = [request EXCEPT ![r] = q] /\ request[r] = Idle
    BY <2>1, NewRequests DEF Begin, Steps
  <2>3. q.at = step /\ q.key = k /\ ~q.newest
    BY DEF Idle
  <2> HIDE DEF q
  <2>4. request' \in [Requests -> Request] /\ request'[r] = q
        /\ \A o \in Requests \ {r} : request'[o] = request[o]
    BY <2>2, OneRequest
  <2>. QED  BY <2>1, <2>2, <2>3, <2>4 DEF Steps
<1>6. CASE ClearAttempts(r) \/ Authenticate(r)
  <2>1. PICK step \in {"mail", "forget", "add"} :
          /\ request' = [request EXCEPT ![r] = [request[r] EXCEPT !.at = step]]
          /\ \/ At(r, "clear") /\ step = "mail"
             \/ At(r, "password") /\ step # "mail"
    <3>1. CASE ClearAttempts(r)
      BY <3>1 DEF ClearAttempts, Go
    <3>2. CASE Authenticate(r)
      BY <3>2 DEF Authenticate, Go
    <3>. QED  BY <1>6, <3>1, <3>2
  <2> DEFINE q == [request[r] EXCEPT !.at = step]
  <2>2. q \in Request
    BY <1>1, RequestRecords DEF Steps
  <2>3. q.at = step /\ q.key = request[r].key /\ q.purpose = request[r].purpose
        /\ q.newest = request[r].newest
    BY <1>1 DEF Request
  <2>4. request' = [request EXCEPT ![r] = q]
    BY <2>1
  <2> HIDE DEF q
  <2>5. request' \in [Requests -> Request] /\ request'[r] = q
        /\ \A o \in Requests \ {r} : request'[o] = request[o]
    BY <2>2, <2>4, OneRequest
  <2>. QED  BY <2>1, <2>3, <2>5 DEF Steps, Key
<1>. QED  BY <1>2, <1>3, <1>4, <1>5, <1>6

(* The request that stores a code, and the others, who fall behind.        *)
LEMMA StoreRequest ==
  ASSUME LimitsInv, NEW r \in Requests, StoreCode(r)
  PROVE  /\ request[r].purpose \in Purposes
         /\ request' \in [Requests -> Request]
         /\ request'[r] = [request[r] EXCEPT !.at = "clear"]
         /\ request'[r].at = "clear" /\ request'[r].key = "sends"
         /\ request'[r].purpose = request[r].purpose /\ request'[r].newest = request[r].newest
         /\ \A o \in Requests \ {r} :
              /\ request'[o].at = request[o].at /\ request'[o].key = request[o].key
              /\ request'[o].purpose = request[o].purpose /\ request'[o].n = request[o].n
              /\ request'[o].newest = (request[o].newest /\ request[o].key # request[r].purpose)
              /\ request[o] = Idle => request'[o] = Idle
<1>1. \A o \in Requests : request[o] \in Request
  BY DEF LimitsInv, LimitsTypeOK
<1>2. request' = [q \in Requests |->
         IF q = r THEN [request[r] EXCEPT !.at = "clear"]
         ELSE [request[q] EXCEPT !.newest = @ /\ request[q].key # request[r].purpose]]
      /\ Key(r) = "sends"
  BY DEF StoreCode
<1>3. [request[r] EXCEPT !.at = "clear"] \in Request
  BY <1>1, RequestRecords DEF Steps
<1>4. \A o \in Requests :
        [request[o] EXCEPT !.newest = @ /\ request[o].key # request[r].purpose] \in Request
  BY <1>1 DEF Request
<1>5. request' \in [Requests -> Request]
  BY <1>2, <1>3, <1>4
<1>6. request[r].purpose \in Purposes
  BY <1>2 DEF LimitsInv, Shaped
<1>7. /\ request'[r] = [request[r] EXCEPT !.at = "clear"]
      /\ request'[r].at = "clear" /\ request'[r].key = "sends"
      /\ request'[r].purpose = request[r].purpose /\ request'[r].newest = request[r].newest
  BY <1>1, <1>2 DEF Key, Request
<1>8. ASSUME NEW o \in Requests \ {r}
      PROVE  /\ request'[o].at = request[o].at /\ request'[o].key = request[o].key
             /\ request'[o].purpose = request[o].purpose /\ request'[o].n = request[o].n
             /\ request'[o].newest = (request[o].newest /\ request[o].key # request[r].purpose)
             /\ request[o] = Idle => request'[o] = Idle
  <2>1. request'[o] = [request[o] EXCEPT !.newest = @ /\ request[o].key # request[r].purpose]
    BY <1>2
  <2>2. /\ request'[o].at = request[o].at /\ request'[o].key = request[o].key
        /\ request'[o].purpose = request[o].purpose /\ request'[o].n = request[o].n
    BY <1>1, <2>1 DEF Request
  <2>3. request'[o].newest = (request[o].newest /\ request[o].key # request[r].purpose)
    BY <1>1, <2>1 DEF Request
  <2>4. request[o] = Idle => request'[o] = Idle
    <3>1. request[o] = Idle => request[o].newest = FALSE
      BY DEF Idle
    <3>2. request[o] \in Request /\ request'[o] \in Request
      BY <1>1, <1>5
    <3>. QED  BY <2>2, <2>3, <3>1, <3>2, SameRequest
  <2>. QED  BY <2>2, <2>3, <2>4
<1>. QED  BY <1>5, <1>6, <1>7, <1>8

CacheTypes ==
  /\ code \in [Purposes -> BOOLEAN] /\ cooldown \in BOOLEAN
  /\ counter \in [Counters -> 0..Cap]
  /\ guesses \in [Purposes -> Nat] /\ granted \in [Windows -> Nat] /\ resets \in [Counters -> Nat]

(* One entry of a table is replaced. *)
LEMMA OneEntry ==
  ASSUME NEW K, NEW V, NEW f \in [K -> V], NEW k \in K, NEW v \in V
  PROVE  [f EXCEPT ![k] = v] \in [K -> V]
OBVIOUS

LEMMA DroppedType ==
  ASSUME CacheTypes, NEW k \in Counters, Dropped(k)
  PROVE  resets' \in [Counters -> Nat]
<1> DEFINE n == IF counter[k] > 0 /\ (k \in Purposes => code[k]) THEN resets[k] + 1 ELSE resets[k]
<1>1. n \in Nat
  BY DEF CacheTypes
<1>2. resets' = [resets EXCEPT ![k] = n]
  BY DEF Dropped
<1> HIDE DEF n
<1>. QED  BY <1>1, <1>2 DEF CacheTypes

LEMMA CountTypes ==
  ASSUME LimitsInv, CacheTypes, NEW r \in Requests, Count(r)
  PROVE  CacheTypes'
<1>1. Key(r) \in Counters /\ UNCHANGED <<code, cooldown, guesses, granted>>
  BY CountRequest
<1>2. resets' \in [Counters -> Nat]
  <2>1. CASE CountAgain(r)
    BY <1>1, <2>1, DroppedType DEF CountAgain
  <2>2. CASE ~CountAgain(r)
    BY <2>2 DEF Count, CountFirst, CountExists, CountNext, CountGone, history, CacheTypes
  <2>. QED  BY <2>1, <2>2
<1>3. counter' \in [Counters -> 0..Cap]
  <2>1. CASE counter' = counter
    BY <2>1 DEF CacheTypes
  <2>2. CASE \E n \in 0..Cap : counter' = [counter EXCEPT ![Key(r)] = n]
    BY <1>1, <2>2, OneEntry DEF CacheTypes
  <2>3. 1 \in 0..Cap /\ (IF counter[Key(r)] < Cap THEN counter[Key(r)] + 1 ELSE Cap) \in 0..Cap
    BY <1>1, LimitTypes DEF CacheTypes
  <2>. QED
    BY <2>1, <2>2, <2>3
    DEF Count, CountFirst, CountExists, CountNext, CountGone, CountAgain, Counted, cache
<1>. QED  BY <1>1, <1>2, <1>3 DEF CacheTypes

LEMMA CodeTypes ==
  ASSUME LimitsInv, CacheTypes, NEW r \in Requests,
         StoreCode(r) \/ ClearAttempts(r) \/ Mail(r) \/ RightCode(r) \/ WrongCode(r)
  PROVE  CacheTypes'
<1>1. CASE StoreCode(r)
  <2>1. request[r].purpose \in Purposes /\ request[r].purpose \in Counters /\ "sends" \in Windows
    BY <1>1, StoreRequest, KeyTypes
  <2>2. granted["sends"] + 1 \in Nat
    BY <2>1 DEF CacheTypes
  <2>. QED  BY <1>1, <2>1, <2>2 DEF StoreCode, CacheTypes
<1>2. CASE ClearAttempts(r) \/ Mail(r)
  <2>1. request[r].purpose \in Purposes /\ request[r].purpose \in Counters
    BY <1>2, KeyTypes DEF LimitsInv, Shaped, ClearAttempts, Mail, At
  <2>2. CASE ClearAttempts(r)
    <3>1. resets' \in [Counters -> Nat]
      BY <2>1, <2>2, DroppedType DEF ClearAttempts
    <3>2. 0 \in 0..Cap
      BY LimitTypes
    <3>3. counter' \in [Counters -> 0..Cap]
      BY <2>1, <2>2, <3>2 DEF ClearAttempts, CacheTypes
    <3>. QED  BY <2>2, <3>1, <3>3 DEF ClearAttempts, CacheTypes
  <2>3. CASE Mail(r)
    BY <2>1, <2>3 DEF Mail, CacheTypes, cache, history
  <2>. QED  BY <1>2, <2>2, <2>3
<1>3. CASE RightCode(r)
  <2>1. Key(r) \in Purposes /\ Key(r) \in Counters /\ 0 \in 0..Cap
    BY <1>3, KeyTypes, LimitTypes DEF RightCode, Compared
  <2>. QED  BY <1>3, <2>1 DEF RightCode, CacheTypes, history
<1>4. CASE WrongCode(r)
  <2>1. Key(r) \in Purposes
    BY <1>4 DEF WrongCode, Compared
  <2>2. guesses[Key(r)] \in Nat /\ guesses[Key(r)] + 1 \in Nat
    BY <2>1 DEF CacheTypes
  <2>3. guesses' \in [Purposes -> Nat]
    BY <1>4, <2>1, <2>2 DEF WrongCode, CacheTypes
  <2>4. code' \in [Purposes -> BOOLEAN]
    BY <1>4, <2>1 DEF WrongCode, CacheTypes
  <2>. QED  BY <1>4, <2>3, <2>4 DEF WrongCode, CacheTypes
<1>. QED  BY <1>1, <1>2, <1>3, <1>4

LEMMA WindowTypes ==
  ASSUME LimitsInv, CacheTypes,
         \/ \E r \in Requests : Admit(r) \/ Authenticate(r) \/ LoggedIn(r)
         \/ \E k \in Windows : EndWindow(k)
         \/ \E p \in Purposes : EndCode(p) \/ EndAttempts(p)
  PROVE  CacheTypes'
<1>1. ASSUME NEW r \in Requests, Admit(r)
      PROVE  CacheTypes'
  <2>1. Key(r) \in Windows
    BY <1>1, KeyTypes DEF Admit
  <2>2. granted[Key(r)] \in Nat /\ granted[Key(r)] + 1 \in Nat
    BY <2>1 DEF CacheTypes
  <2>3. granted' \in [Windows -> Nat]
    BY <1>1, <2>1, <2>2 DEF Admit, CacheTypes
  <2>. QED  BY <1>1, <2>3 DEF Admit, CacheTypes, cache
<1>2. ASSUME NEW r \in Requests, Authenticate(r)
      PROVE  CacheTypes'
  <2>1. granted["login"] \in Nat /\ granted["login"] + 1 \in Nat
    BY KeyTypes DEF CacheTypes
  <2>2. granted' \in [Windows -> Nat]
    BY <1>2, <2>1, KeyTypes DEF Authenticate, CacheTypes
  <2>. QED  BY <1>2, <2>2 DEF Authenticate, CacheTypes, cache
<1>3. ASSUME NEW k \in Windows, Ended(k), counter' = [counter EXCEPT ![k] = 0],
             UNCHANGED <<code, cooldown, guesses>>
      PROVE  CacheTypes'
  <2>1. k \in Counters /\ 0 \in 0..Cap
    BY KeyTypes, LimitTypes
  <2>. QED  BY <1>3, <2>1 DEF Ended, CacheTypes
<1>4. ASSUME NEW r \in Requests, LoggedIn(r)
      PROVE  CacheTypes'
  BY <1>3, <1>4, KeyTypes DEF LoggedIn, CacheTypes
<1>5. ASSUME NEW k \in Windows, EndWindow(k)
      PROVE  CacheTypes'
  BY <1>3, <1>5 DEF EndWindow
<1>6. ASSUME NEW p \in Purposes, EndCode(p) \/ EndAttempts(p)
      PROVE  CacheTypes'
  <2>1. p \in Counters /\ 0 \in 0..Cap
    BY KeyTypes, LimitTypes
  <2>. QED  BY <1>6, <2>1 DEF EndCode, EndAttempts, CacheTypes, history
<1>. QED  BY <1>1, <1>2, <1>4, <1>5, <1>6

(* Steps that touch no entry but the cool-down. *)
LEMMA PlainTypes ==
  ASSUME CacheTypes,
         \/ \E r \in Requests, p \in Purposes : AskForCode(r, p) \/ SubmitCode(r, p)
         \/ \E r \in Requests : \/ RefuseSend(r) \/ \E k \in Quotas : AskForQuota(r, k)
                                \/ TryPassword(r) \/ LoginRefused(r)
         \/ EndCooldown
  PROVE  CacheTypes' /\ UNCHANGED <<code, counter, history>>
BY DEF AskForCode, SubmitCode, RefuseSend, AskForQuota, TryPassword, LoginRefused, EndCooldown,
       CacheTypes, cache, history

LEMMA StepTypes ==
  ASSUME LimitsInv, LimitsStep
  PROVE  LimitsTypeOK'
<1>1. CacheTypes
  BY DEF LimitsInv, LimitsTypeOK, CacheTypes
<1>2. CacheTypes'
  BY <1>1, CountTypes, CodeTypes, WindowTypes, PlainTypes DEF LimitsStep, OtherStep
<1>3. request' \in [Requests -> Request]
  <2>1. ASSUME NEW r \in Requests, Count(r)
        PROVE  request' \in [Requests -> Request]
    BY <2>1, CountRequest
  <2>2. ASSUME NEW r \in Requests, StoreCode(r)
        PROVE  request' \in [Requests -> Request]
    BY <2>2, StoreRequest
  <2>3. CASE \/ EndCooldown \/ \E k \in Windows : EndWindow(k)
             \/ \E p \in Purposes : EndCode(p) \/ EndAttempts(p)
    BY <2>3 DEF EndCooldown, EndWindow, EndCode, EndAttempts, LimitsInv, LimitsTypeOK
  <2>. QED  BY <2>1, <2>2, <2>3, StepRequest DEF LimitsStep, OtherStep
<1>. QED  BY <1>2, <1>3 DEF CacheTypes, LimitsTypeOK

(* What a step makes of one request, whichever step it is. *)
LEMMA StepShape ==
  ASSUME LimitsInv, LimitsStep
  PROVE  Shaped' /\ OneSender'
<1>1. CASE \/ EndCooldown \/ \E k \in Windows : EndWindow(k)
           \/ \E p \in Purposes : EndCode(p) \/ EndAttempts(p)
  <2>1. request' = request /\ (EndCooldown \/ cooldown' = cooldown)
    BY <1>1 DEF EndCooldown, EndWindow, EndCode, EndAttempts
  <2>2. Shaped'
    BY <2>1 DEF LimitsInv, Shaped, At, Key
  <2>3. OneSender'
    BY <2>1 DEF LimitsInv, OneSender, IsSending, At, Key, EndCooldown, Sending
  <2>. QED  BY <2>2, <2>3
<1>2. ASSUME NEW r \in Requests, Count(r)
      PROVE  Shaped' /\ OneSender'
  <2>1. Shaped'
    BY <1>2, CountRequest DEF LimitsInv, Shaped, At, Key, Counting
  <2>2. \A o \in Requests : IsSending(o)' => IsSending(o)
    BY <1>2, CountRequest DEF IsSending, At, Key
  <2>. QED  BY <1>2, <2>1, <2>2, CountRequest DEF LimitsInv, OneSender
<1>3. ASSUME NEW r \in Requests, StoreCode(r)
      PROVE  Shaped' /\ OneSender'
  <2>1. \A o \in Requests : /\ request'[o].key = request[o].key
                            /\ request'[o].at = "mail" <=> request[o].at = "mail"
    BY <1>3, StoreRequest DEF StoreCode, At, Key
  <2>2. Shaped'
    <3>1. ASSUME NEW o \in Requests \ {r}
          PROVE  /\ At(o, "idle")' => request'[o] = Idle
                 /\ request'[o].at \in Counting => Key(o)' \in Counters
                 /\ request'[o].at \in {"clear", "mail"} => Key(o)' = "sends"
                 /\ request'[o].at \in {"password", "forget"} => Key(o)' = "login"
                 /\ Key(o)' = "sends" => request'[o].purpose \in Purposes
      <4>1. /\ request'[o].at = request[o].at /\ request'[o].key = request[o].key
            /\ request'[o].purpose = request[o].purpose
            /\ request[o] = Idle => request'[o] = Idle
        BY <1>3, <3>1, StoreRequest
      <4>2. /\ request[o].at = "idle" => request[o] = Idle
            /\ request[o].at \in Counting => request[o].key \in Counters
            /\ request[o].at \in {"clear", "mail"} => request[o].key = "sends"
            /\ request[o].at \in {"password", "forget"} => request[o].key = "login"
            /\ request[o].key = "sends" => request[o].purpose \in Purposes
        BY <3>1 DEF LimitsInv, Shaped, At, Key
      <4>. QED  BY <4>1, <4>2 DEF At, Key
    <3>. QED  BY <1>3, <3>1, StoreRequest DEF Shaped, At, Key, Counting
  <2>3. \A o \in Requests : IsSending(o)' => IsSending(o)
    BY <2>1 DEF IsSending, At, Key
  <2>. QED  BY <1>3, <2>2, <2>3 DEF LimitsInv, OneSender, StoreCode
<1>4. ASSUME NEW r \in Requests,
             \/ \E p \in Purposes : AskForCode(r, p) \/ SubmitCode(r, p)
             \/ RefuseSend(r) \/ ClearAttempts(r) \/ Mail(r) \/ RightCode(r) \/ WrongCode(r)
             \/ Admit(r) \/ \E k \in Quotas : AskForQuota(r, k)
             \/ TryPassword(r) \/ Authenticate(r) \/ LoggedIn(r) \/ LoginRefused(r)
      PROVE  Shaped' /\ OneSender'
  <2>1. /\ \A o \in Requests \ {r} : request'[o] = request[o]
        /\ request'[r].at \in Steps \ {"incr", "set", "counted"}
        /\ \/ request'[r] = Idle
           \/ /\ request[r] = Idle
              /\ \/ /\ request'[r].at = "add" /\ request'[r].key = "sends"
                    /\ request'[r].purpose \in Purposes /\ ~request'[r].newest
                    /\ ~cooldown /\ cooldown'
                 \/ /\ request'[r].at = "add" /\ request'[r].key \in Purposes
                    /\ request'[r].newest /\ code[request'[r].key]
                 \/ /\ request'[r].at = "add" /\ request'[r].key \in Quotas /\ ~request'[r].newest
                 \/ /\ request'[r].at = "password" /\ request'[r].key = "login"
                    /\ ~request'[r].newest /\ counter["login"] < MaxFailures
           \/ /\ request'[r].key = Key(r) /\ request'[r].purpose = request[r].purpose
              /\ request'[r].newest = request[r].newest
              /\ \/ /\ At(r, "clear") /\ request'[r].at = "mail"
                 \/ /\ At(r, "password") /\ request'[r].at \in {"forget", "add"}
    BY <1>4, StepRequest
  <2>2. cooldown' = cooldown \/ (~cooldown /\ cooldown')
    BY <1>4 DEF AskForCode, SubmitCode, RefuseSend, ClearAttempts, Mail, RightCode, WrongCode,
                Admit, AskForQuota, TryPassword, Authenticate, LoggedIn, LoginRefused, cache
  <2>3. Idle.at = "idle" /\ Idle.key = "none"
    BY DEF Idle
  <2>4. Shaped'
    BY <2>1, <2>3, KeyTypes DEF LimitsInv, Shaped, At, Key, Counting
  <2>5. \A o \in Requests : IsSending(o)' => IsSending(o) \/ (o = r /\ ~cooldown /\ cooldown')
    BY <2>1, <2>3, KeyTypes DEF LimitsInv, Shaped, IsSending, At, Key
  <2>. QED  BY <2>2, <2>4, <2>5 DEF LimitsInv, OneSender
<1>. QED  BY <1>1, <1>2, <1>3, <1>4 DEF LimitsStep, OtherStep

LEMMA LimitsKept ==
  ASSUME LimitsInv, LimitsStep \/ UNCHANGED limits
  PROVE  LimitsInv'
<1>1. CASE LimitsStep
  BY <1>1, StepTypes, StepShape DEF LimitsInv
<1>2. CASE UNCHANGED limits
  BY <1>2 DEF limits, LimitsInv, LimitsTypeOK, Shaped, OneSender, IsSending, At, Key
<1>. QED  BY <1>1, <1>2

-----------------------------------------------------------------------------
(* Counting *)

(* Counting moves on without a count, or gives the counter and the request *)
(* the same number.                                                        *)
LEMMA CountEffect ==
  ASSUME LimitsInv, NEW r \in Requests, Count(r)
  PROVE  \/ /\ UNCHANGED <<counter, resets>>
            /\ \/ At(r, "add") /\ counter[Key(r)] > 0 /\ request'[r].at = "incr"
               \/ At(r, "incr") /\ counter[Key(r)] = 0 /\ request'[r].at = "set"
         \/ /\ request'[r].at = "counted" /\ request'[r].n = counter'[Key(r)]
            /\ \A k \in Counters \ {Key(r)} : counter'[k] = counter[k] /\ resets'[k] = resets[k]
            /\ \/ /\ ~At(r, "set") /\ resets' = resets
                  /\ counter'[Key(r)] = IF counter[Key(r)] < Cap THEN counter[Key(r)] + 1 ELSE Cap
               \/ /\ At(r, "set") /\ counter'[Key(r)] = 1
                  /\ resets'[Key(r)] =
                       IF counter[Key(r)] > 0 /\ (Key(r) \in Purposes => code[Key(r)])
                       THEN resets[Key(r)] + 1 ELSE resets[Key(r)]
<1>1. Key(r) \in Counters /\ counter \in [Counters -> 0..Cap] /\ resets \in [Counters -> Nat]
      /\ request \in [Requests -> Request]
  BY CountRequest DEF LimitsInv, LimitsTypeOK
<1>2. CASE CountExists(r)
  BY <1>1, <1>2 DEF CountExists, Go, cache, history, Request
<1>3. CASE CountGone(r)
  BY <1>1, <1>3 DEF CountGone, Go, cache, history, Request
<1>4. ASSUME NEW n \in 0..Cap, Counted(r, n)
      PROVE  /\ request'[r].at = "counted" /\ request'[r].n = n /\ counter'[Key(r)] = n
             /\ \A k \in Counters \ {Key(r)} : counter'[k] = counter[k]
  BY <1>1, <1>4 DEF Counted, Request
<1>5. 1 \in 0..Cap /\ 0 < Cap /\ counter[Key(r)] \in 0..Cap
      /\ (IF counter[Key(r)] < Cap THEN counter[Key(r)] + 1 ELSE Cap) \in 0..Cap
  BY <1>1, LimitTypes
<1>6. CASE CountFirst(r)
  <2>1. Counted(r, 1) /\ ~At(r, "set") /\ resets' = resets /\ counter[Key(r)] = 0
    BY <1>6 DEF CountFirst, At, history
  <2>. QED  BY <1>4, <1>5, <2>1
<1>7. CASE CountNext(r)
  <2> DEFINE n == IF counter[Key(r)] < Cap THEN counter[Key(r)] + 1 ELSE Cap
  <2>1. Counted(r, n) /\ ~At(r, "set") /\ resets' = resets /\ n \in 0..Cap
    BY <1>5, <1>7 DEF CountNext, At, history
  <2>2. /\ request'[r].at = "counted" /\ request'[r].n = n /\ counter'[Key(r)] = n
        /\ \A k \in Counters \ {Key(r)} : counter'[k] = counter[k]
    BY <1>4, <2>1
  <2>. QED  BY <2>1, <2>2
<1>8. CASE CountAgain(r)
  <2>1. Counted(r, 1) /\ At(r, "set") /\ Dropped(Key(r))
    BY <1>8 DEF CountAgain
  <2>2. /\ resets'[Key(r)] = IF counter[Key(r)] > 0 /\ (Key(r) \in Purposes => code[Key(r)])
                             THEN resets[Key(r)] + 1 ELSE resets[Key(r)]
        /\ \A k \in Counters \ {Key(r)} : resets'[k] = resets[k]
    BY <1>1, <2>1 DEF Dropped
  <2>. QED  BY <1>4, <1>5, <2>1, <2>2
<1>. QED  BY <1>2, <1>3, <1>6, <1>7, <1>8 DEF Count

Least(a, b) == IF a <= b THEN a ELSE b

(* The requests that have counted, up to a limit, and are not done; of     *)
(* those with a code only what is meant for the newest one.                *)
Fits(k, lim) ==
  {r \in Requests : /\ At(r, "counted") /\ Key(r) = k /\ request[r].n <= lim
                    /\ k \in Purposes => request[r].newest}

(* x was let through, by counts up to the limit. *)
Within(x, k, lim, slack) ==
  x + Cardinality(Fits(k, lim)) <= resets[k] * lim + Least(counter[k], lim) + slack

(* The requests about to write a one over whatever the counter says, and   *)
(* those that will be if nobody counts before they do.                     *)
Setting(k) == {r \in Requests : Key(r) = k /\ At(r, "set")}
Late(k) == {r \in Requests : Key(r) = k /\ (At(r, "set") \/ (At(r, "incr") /\ counter[k] = 0))}

LEMMA NextMultiple ==
  ASSUME NEW a \in Nat, NEW b \in Nat
  PROVE  (a + 1) * b = a * b + b /\ a * b \in Nat /\ 0 * b = 0
OBVIOUS

LEMMA Parts ==
  ASSUME NEW k, NEW lim
  PROVE  /\ Fits(k, lim) \in SUBSET Requests /\ Setting(k) \in SUBSET Requests
         /\ Late(k) \in SUBSET Requests
BY DEF Fits, Setting, Late

LEMMA PartsPrimed ==
  ASSUME NEW k, NEW lim
  PROVE  /\ Fits(k, lim)' \in SUBSET Requests /\ Setting(k)' \in SUBSET Requests
         /\ Late(k)' \in SUBSET Requests
BY DEF Fits, Setting, Late

LEMMA CountWithin ==
  ASSUME LimitsInv, NEW r \in Requests, Count(r),
         NEW k \in Counters, NEW lim \in Nat, lim < Cap, NEW x \in Nat, NEW slack \in Nat,
         k \in Purposes => code[k], Within(x, k, lim, slack)
  PROVE  Within(x, k, lim, slack)'
<1>1. /\ Key(r) \in Counters /\ request' \in [Requests -> Request]
      /\ \A o \in Requests \ {r} : request'[o] = request[o]
      /\ request[r].at \in {"add", "incr", "set"}
      /\ request'[r].key = Key(r) /\ request'[r].newest = request[r].newest
  BY CountRequest
<1>2. counter[k] \in 0..Cap /\ resets[k] \in Nat /\ Cap \in Nat
  BY LimitTypes DEF LimitsInv, LimitsTypeOK
<1>3. Fits(k, lim)' \subseteq Fits(k, lim) \union {r}
  BY <1>1 DEF Fits, At, Key
<1>4. /\ Cardinality(Fits(k, lim)) \in Nat /\ Cardinality(Fits(k, lim)') \in Nat
      /\ Cardinality(Fits(k, lim)') <= Cardinality(Fits(k, lim)) + 1
      /\ Fits(k, lim)' \subseteq Fits(k, lim)
           => Cardinality(Fits(k, lim)') <= Cardinality(Fits(k, lim))
  BY <1>3, Parts, PartsPrimed, PartSize, PartChanges
<1>5. r \in Fits(k, lim)' => request'[r].at = "counted" /\ Key(r) = k /\ request'[r].n <= lim
  BY <1>1 DEF Fits, At, Key
<1>6. CASE r \notin Fits(k, lim)' /\ counter'[k] = counter[k] /\ resets'[k] = resets[k]
  <2>1. Fits(k, lim)' \subseteq Fits(k, lim)
    BY <1>3, <1>6
  <2>. QED  BY <1>2, <1>4, <1>6, <2>1, NextMultiple DEF Within, Least
<1>7. CASE /\ Key(r) = k /\ request'[r].at = "counted" /\ request'[r].n = counter'[k]
           /\ \/ /\ resets'[k] = resets[k]
                 /\ counter'[k] = IF counter[k] < Cap THEN counter[k] + 1 ELSE Cap
              \/ /\ counter'[k] = 1
                 /\ resets'[k] = IF counter[k] > 0 THEN resets[k] + 1 ELSE resets[k]
  <2>1. /\ resets[k] * lim \in Nat
        /\ resets'[k] * lim = IF resets'[k] = resets[k] THEN resets[k] * lim ELSE resets[k] * lim + lim
    <3>1. resets'[k] = resets[k] \/ resets'[k] = resets[k] + 1
      BY <1>2, <1>7
    <3>2. (resets[k] + 1) * lim = resets[k] * lim + lim /\ resets[k] * lim \in Nat
      BY <1>2, NextMultiple
    <3>3. resets[k] + 1 # resets[k]
      BY <1>2
    <3>. QED  BY <3>1, <3>2, <3>3
  <2>2. counter'[k] <= lim \/ Cardinality(Fits(k, lim)') <= Cardinality(Fits(k, lim))
    BY <1>3, <1>4, <1>5, <1>7
  <2> DEFINE m == resets[k] * lim
  <2>3. /\ x + Cardinality(Fits(k, lim)) <= m + Least(counter[k], lim) + slack
        /\ Within(x, k, lim, slack)' <=>
             x + Cardinality(Fits(k, lim)') <= resets'[k] * lim + Least(counter'[k], lim) + slack
    BY DEF Within, Least
  <2> HIDE DEF m
  <2>4. m \in Nat /\ resets'[k] * lim = IF resets'[k] = resets[k] THEN m ELSE m + lim
    BY <2>1 DEF m
  <2>5. CASE resets'[k] = resets[k]
    BY <1>2, <1>4, <1>7, <2>2, <2>3, <2>4, <2>5 DEF Least
  <2>6. CASE resets'[k] = resets[k] + 1 /\ counter'[k] = 1
    BY <1>2, <1>4, <1>7, <2>2, <2>3, <2>4, <2>6 DEF Least
  <2>. QED  BY <1>2, <1>7, <2>5, <2>6
<1>8. CASE Key(r) # k
  <2>1. counter'[k] = counter[k] /\ resets'[k] = resets[k]
    BY <1>8, CountEffect
  <2>. QED  BY <1>5, <1>6, <1>8, <2>1
<1>9. CASE Key(r) = k
  <2>1. CASE UNCHANGED <<counter, resets>> /\ request'[r].at \in {"incr", "set"}
    BY <1>5, <1>6, <2>1
  <2>2. CASE ~(UNCHANGED <<counter, resets>> /\ request'[r].at \in {"incr", "set"})
    BY <1>7, <1>9, <2>2, CountEffect
  <2>. QED  BY <2>1, <2>2
<1>. QED  BY <1>8, <1>9

(* What counting does to the late requests. *)
LEMMA CountLate ==
  ASSUME LimitsInv, NEW r \in Requests, Count(r), NEW k \in Counters
  PROVE  /\ Late(k)' \subseteq Late(k)
         /\ counter[k] > 0 => counter'[k] > 0 /\ Setting(k)' \subseteq Setting(k)
         /\ counter[k] = 0 /\ counter'[k] > 0 => r \notin Setting(k)' /\ resets'[k] = resets[k]
         /\ \/ resets'[k] = resets[k]
            \/ /\ resets'[k] = resets[k] + 1 /\ counter[k] > 0 /\ (k \in Purposes => code[k])
               /\ r \in Late(k) \ Late(k)' /\ r \in Setting(k) \ Setting(k)'
<1>1. /\ Key(r) \in Counters /\ request' \in [Requests -> Request]
      /\ \A o \in Requests \ {r} : request'[o] = request[o]
      /\ request[r].at \in {"add", "incr", "set"}
      /\ request'[r].key = Key(r)
  BY CountRequest
<1>2. counter[k] \in 0..Cap /\ resets[k] \in Nat /\ Cap \in Nat /\ Cap > 0
  BY LimitTypes DEF LimitsInv, LimitsTypeOK
<1>3. CASE Key(r) # k
  <2>1. counter'[k] = counter[k] /\ resets'[k] = resets[k]
    BY <1>3, CountEffect
  <2>. QED  BY <1>1, <1>2, <1>3, <2>1 DEF Late, Setting, At, Key
<1>4. CASE Key(r) = k /\ UNCHANGED <<counter, resets>>
  <2>1. \/ At(r, "add") /\ counter[k] > 0 /\ request'[r].at = "incr"
        \/ At(r, "incr") /\ counter[k] = 0 /\ request'[r].at = "set"
        \/ request'[r].at = "counted"
    BY <1>4, CountEffect
  <2>. QED  BY <1>1, <1>2, <1>4, <2>1 DEF Late, Setting, At, Key
<1>5. CASE Key(r) = k /\ ~UNCHANGED <<counter, resets>>
  <2>1. /\ request'[r].at = "counted"
        /\ \/ ~At(r, "set") /\ resets' = resets
              /\ counter'[k] = IF counter[k] < Cap THEN counter[k] + 1 ELSE Cap
           \/ At(r, "set") /\ counter'[k] = 1
              /\ resets'[k] = IF counter[k] > 0 /\ (k \in Purposes => code[k])
                              THEN resets[k] + 1 ELSE resets[k]
    BY <1>5, CountEffect
  <2>2. counter'[k] > 0 /\ r \notin Late(k)' /\ r \notin Setting(k)'
    BY <1>2, <2>1 DEF Late, Setting, At
  <2>3. Late(k)' \subseteq Late(k) /\ Setting(k)' \subseteq Setting(k)
    BY <1>1, <2>2 DEF Late, Setting, At, Key
  <2>4. At(r, "set") => r \in Late(k) /\ r \in Setting(k)
    BY <1>5 DEF Late, Setting
  <2>. QED  BY <1>2, <2>1, <2>2, <2>3, <2>4
<1>. QED  BY <1>3, <1>4, <1>5

-----------------------------------------------------------------------------
(* The windows *)

(* Steps that have nothing to do with window k, but counting.              *)
Calm(k) ==
  \/ \E r \in Requests, p \in Purposes : AskForCode(r, p) \/ SubmitCode(r, p)
  \/ \E r \in Requests :
       \/ RefuseSend(r) \/ ClearAttempts(r) \/ Mail(r) \/ RightCode(r) \/ WrongCode(r)
       \/ TryPassword(r) \/ LoginRefused(r) \/ \E j \in Quotas : AskForQuota(r, j)
       \/ k # "sends" /\ StoreCode(r)
       \/ k # "login" /\ (Authenticate(r) \/ LoggedIn(r))
       \/ Key(r) # k /\ Admit(r)
  \/ EndCooldown \/ \E j \in Windows \ {k} : EndWindow(j)
  \/ \E p \in Purposes : EndCode(p) \/ EndAttempts(p)

LEMMA WindowCases ==
  ASSUME NEW k \in Windows, LimitsStep
  PROVE  \/ \E r \in Requests : Count(r)
         \/ Calm(k)
         \/ k = "sends" /\ \E r \in Requests : StoreCode(r)
         \/ k = "login" /\ \E r \in Requests : Authenticate(r) \/ LoggedIn(r)
         \/ \E r \in Requests : Key(r) = k /\ Admit(r)
         \/ EndWindow(k)
BY DEF LimitsStep, OtherStep, Calm

(* No step but counting adds to those that have counted, or set.           *)
LEMMA OnlyCountingAdds ==
  ASSUME LimitsInv, OtherStep, NEW k \in Counters, NEW lim \in Nat
  PROVE  /\ Fits(k, lim)' \subseteq Fits(k, lim)
         /\ Setting(k)' \subseteq Setting(k)
         /\ counter'[k] = counter[k] => Late(k)' \subseteq Late(k)
<1>1. CASE \/ EndCooldown \/ \E j \in Windows : EndWindow(j)
           \/ \E p \in Purposes : EndCode(p) \/ EndAttempts(p)
  <2>1. request' = request
    BY <1>1 DEF EndCooldown, EndWindow, EndCode, EndAttempts
  <2>. QED  BY <2>1 DEF Fits, Setting, Late, At, Key
<1>2. ASSUME NEW r \in Requests, StoreCode(r)
      PROVE  /\ Fits(k, lim)' \subseteq Fits(k, lim)
             /\ Setting(k)' \subseteq Setting(k)
             /\ counter'[k] = counter[k] => Late(k)' \subseteq Late(k)
  <2>1. /\ request'[r].at = "clear"
        /\ \A o \in Requests \ {r} :
              /\ request'[o].at = request[o].at /\ request'[o].key = request[o].key
              /\ request'[o].n = request[o].n
              /\ request'[o].newest => request[o].newest
    BY <1>2, StoreRequest
  <2>. QED  BY <2>1 DEF Fits, Setting, Late, At, Key
<1>3. ASSUME NEW r \in Requests,
             \/ \E p \in Purposes : AskForCode(r, p) \/ SubmitCode(r, p)
             \/ RefuseSend(r) \/ ClearAttempts(r) \/ Mail(r) \/ RightCode(r) \/ WrongCode(r)
             \/ Admit(r) \/ \E j \in Quotas : AskForQuota(r, j)
             \/ TryPassword(r) \/ Authenticate(r) \/ LoggedIn(r) \/ LoginRefused(r)
      PROVE  /\ Fits(k, lim)' \subseteq Fits(k, lim)
             /\ Setting(k)' \subseteq Setting(k)
             /\ counter'[k] = counter[k] => Late(k)' \subseteq Late(k)
  <2>1. /\ request'[r].at \in Steps \ {"incr", "set", "counted"}
        /\ \A o \in Requests \ {r} : request'[o] = request[o]
    BY <1>3, StepRequest
  <2>. QED  BY <2>1 DEF Fits, Setting, Late, At, Key
<1>. QED  BY <1>1, <1>2, <1>3 DEF OtherStep

LEMMA CalmWindow ==
  ASSUME LimitsInv, NEW k \in Windows, Calm(k)
  PROVE  /\ OtherStep
         /\ granted'[k] = granted[k] /\ counter'[k] = counter[k] /\ resets'[k] = resets[k]
<1>1. OtherStep
  BY DEF Calm, OtherStep
<1>2. /\ \A p \in Purposes : p # k /\ p \in Counters
      /\ counter \in [Counters -> 0..Cap] /\ resets \in [Counters -> Nat]
      /\ granted \in [Windows -> Nat] /\ k \in Counters
  BY KeyTypes DEF LimitsInv, LimitsTypeOK
<1>3. ASSUME NEW r \in Requests,
             \/ k # "sends" /\ StoreCode(r)
             \/ ClearAttempts(r) \/ RightCode(r) \/ WrongCode(r)
      PROVE  granted'[k] = granted[k] /\ counter'[k] = counter[k] /\ resets'[k] = resets[k]
  <2>1. /\ ClearAttempts(r) \/ StoreCode(r) => request[r].purpose \in Purposes
        /\ RightCode(r) => Key(r) \in Purposes
    BY DEF LimitsInv, Shaped, At, Key, StoreCode, ClearAttempts, RightCode, Compared
  <2>. QED
    BY <1>2, <1>3, <2>1 DEF StoreCode, ClearAttempts, RightCode, WrongCode, Dropped, history
<1>4. ASSUME \/ \E r \in Requests, p \in Purposes : AskForCode(r, p) \/ SubmitCode(r, p)
             \/ \E r \in Requests :
                  \/ RefuseSend(r) \/ Mail(r) \/ TryPassword(r) \/ LoginRefused(r)
                  \/ \E j \in Quotas : AskForQuota(r, j)
             \/ EndCooldown \/ \E p \in Purposes : EndCode(p)
      PROVE  granted'[k] = granted[k] /\ counter'[k] = counter[k] /\ resets'[k] = resets[k]
  <2>1. UNCHANGED <<counter, history>>
    BY <1>4 DEF AskForCode, SubmitCode, RefuseSend, Mail, TryPassword, LoginRefused, AskForQuota,
                EndCooldown, EndCode, cache
  <2>. QED  BY <2>1 DEF history
<1>5. ASSUME NEW p \in Purposes, EndAttempts(p)
      PROVE  granted'[k] = granted[k] /\ counter'[k] = counter[k] /\ resets'[k] = resets[k]
  BY <1>2, <1>5 DEF EndAttempts, history
<1>6. ASSUME NEW j \in Windows \ {k}, counter' = [counter EXCEPT ![j] = 0], Ended(j)
      PROVE  granted'[k] = granted[k] /\ counter'[k] = counter[k] /\ resets'[k] = resets[k]
  BY <1>2, <1>6 DEF Ended
<1>7. ASSUME NEW r \in Requests, k # "login", Authenticate(r) \/ LoggedIn(r)
      PROVE  granted'[k] = granted[k] /\ counter'[k] = counter[k] /\ resets'[k] = resets[k]
  <2>1. CASE Authenticate(r)
    BY <1>2, <1>7, <2>1 DEF Authenticate, cache
  <2>2. CASE LoggedIn(r)
    <3>1. CASE counter' = [counter EXCEPT !["login"] = 0] /\ Ended("login")
      BY <1>6, <1>7, <3>1, KeyTypes
    <3>2. CASE UNCHANGED <<counter, granted, resets>>
      BY <3>2
    <3>. QED  BY <2>2, <3>1, <3>2 DEF LoggedIn
  <2>. QED  BY <1>7, <2>1, <2>2
<1>8. ASSUME NEW r \in Requests, Key(r) # k, Admit(r)
      PROVE  granted'[k] = granted[k] /\ counter'[k] = counter[k] /\ resets'[k] = resets[k]
  BY <1>2, <1>8 DEF Admit, cache
<1>9. ASSUME NEW j \in Windows \ {k}, EndWindow(j)
      PROVE  granted'[k] = granted[k] /\ counter'[k] = counter[k] /\ resets'[k] = resets[k]
  BY <1>6, <1>9 DEF EndWindow
<1>10. granted'[k] = granted[k] /\ counter'[k] = counter[k] /\ resets'[k] = resets[k]
  BY <1>3, <1>4, <1>5, <1>7, <1>8, <1>9 DEF Calm
<1>. QED  BY <1>1, <1>10

(* Every other step leaves the counter of a window and what was dropped of *)
(* it alone, or begins the window anew.                                    *)
LEMMA OtherWindow ==
  ASSUME LimitsInv, NEW k \in Windows, OtherStep
  PROVE  \/ counter'[k] = counter[k] /\ resets'[k] = resets[k]
         \/ counter'[k] = 0 /\ resets'[k] = 0 /\ granted'[k] = 0
<1>1. /\ k \in Counters /\ counter \in [Counters -> 0..Cap] /\ resets \in [Counters -> Nat]
      /\ granted \in [Windows -> Nat] /\ \A p \in Purposes : p # k
  BY KeyTypes DEF LimitsInv, LimitsTypeOK
<1>2. ASSUME NEW r \in Requests, StoreCode(r)
      PROVE  counter'[k] = counter[k] /\ resets'[k] = resets[k]
  BY <1>1, <1>2, StoreRequest DEF StoreCode
<1>3. ASSUME NEW r \in Requests, Authenticate(r) \/ Admit(r)
      PROVE  counter'[k] = counter[k] /\ resets'[k] = resets[k]
  BY <1>3 DEF Authenticate, Admit, cache
<1>4. ASSUME counter' = [counter EXCEPT ![k] = 0], Ended(k)
      PROVE  counter'[k] = 0 /\ resets'[k] = 0 /\ granted'[k] = 0
  BY <1>1, <1>4 DEF Ended
<1>5. ASSUME NEW r \in Requests, LoggedIn(r), k = "login"
      PROVE  \/ counter'[k] = counter[k] /\ resets'[k] = resets[k]
             \/ counter'[k] = 0 /\ resets'[k] = 0 /\ granted'[k] = 0
  BY <1>4, <1>5 DEF LoggedIn
<1>6. CASE EndWindow(k)
  BY <1>4, <1>6 DEF EndWindow
<1>. QED  BY <1>2, <1>3, <1>5, <1>6, CalmWindow DEF OtherStep, Calm

(* A count is dropped in a window only by a request that was about to      *)
(* count when the window began.                                            *)
ResetsFew(k) ==
  IF counter[k] = 0 THEN resets[k] = 0 ELSE resets[k] + Cardinality(Setting(k)) <= R - 1

LEMMA ResetsStayFew ==
  ASSUME LimitsInv, NEW k \in Windows, ResetsFew(k), LimitsStep
  PROVE  ResetsFew(k)'
<1>1. /\ k \in Counters /\ counter[k] \in 0..Cap /\ resets[k] \in Nat
      /\ counter'[k] \in 0..Cap /\ resets'[k] \in Nat
  BY LimitsKept, KeyTypes DEF LimitsInv, LimitsTypeOK
<1>2. /\ Setting(k) \in SUBSET Requests /\ Setting(k)' \in SUBSET Requests
      /\ Cardinality(Setting(k)) \in Nat /\ Cardinality(Setting(k)') \in Nat
      /\ \A r \in Requests : r \notin Setting(k)' => Cardinality(Setting(k)') <= R - 1
  BY Parts, PartsPrimed, PartSize
<1>3. ASSUME Setting(k)' \subseteq Setting(k)
      PROVE  /\ Cardinality(Setting(k)') <= Cardinality(Setting(k))
             /\ \A r \in Requests : r \in Setting(k) /\ r \notin Setting(k)'
                  => Cardinality(Setting(k)') <= Cardinality(Setting(k)) - 1
  <2>1. \E r \in Requests : TRUE
    BY LimitsAssumption
  <2>. QED  BY <1>2, <1>3, <2>1, PartChanges
<1>4. ASSUME NEW r \in Requests, Count(r)
      PROVE  ResetsFew(k)'
  <2>1. /\ counter[k] > 0 => counter'[k] > 0 /\ Setting(k)' \subseteq Setting(k)
        /\ counter[k] = 0 /\ counter'[k] > 0 => r \notin Setting(k)' /\ resets'[k] = resets[k]
        /\ \/ resets'[k] = resets[k]
           \/ /\ resets'[k] = resets[k] + 1 /\ counter[k] > 0
              /\ r \in Setting(k) /\ r \notin Setting(k)'
    BY <1>1, <1>4, CountLate
  <2>2. CASE counter[k] = 0
    BY <1>1, <1>2, <2>1, <2>2, LimitTypes DEF ResetsFew
  <2>3. CASE counter[k] # 0
    BY <1>1, <1>2, <1>3, <2>1, <2>3, LimitTypes DEF ResetsFew
  <2>. QED  BY <2>2, <2>3
<1>5. CASE OtherStep
  <2>1. Setting(k)' \subseteq Setting(k)
    BY <1>1, <1>5, OnlyCountingAdds
  <2>2. \/ counter'[k] = counter[k] /\ resets'[k] = resets[k]
        \/ counter'[k] = 0 /\ resets'[k] = 0
    BY <1>5, OtherWindow
  <2>. QED  BY <1>1, <1>2, <1>3, <2>1, <2>2, LimitTypes DEF ResetsFew
<1>. QED  BY <1>4, <1>5 DEF LimitsStep

(* While the counter is left alone, what is let through comes from those   *)
(* that have counted.                                                      *)
LEMMA WithinKept ==
  ASSUME LimitsInv, OtherStep, NEW k \in Counters, NEW lim \in Nat, NEW slack \in Nat,
         NEW x \in Nat, NEW y \in Nat,
         counter'[k] = counter[k], resets'[k] = resets[k], Within(x, k, lim, slack),
         \/ y <= x
         \/ y = x + 1 /\ \E r \in Requests : r \in Fits(k, lim) /\ r \notin Fits(k, lim)'
  PROVE  Within(y, k, lim, slack)'
<1>1. /\ Fits(k, lim) \in SUBSET Requests /\ Fits(k, lim)' \in SUBSET Requests
      /\ Cardinality(Fits(k, lim)) \in Nat /\ Cardinality(Fits(k, lim)') \in Nat
  BY Parts, PartsPrimed, PartSize
<1>2. Fits(k, lim)' \subseteq Fits(k, lim)
  BY OnlyCountingAdds
<1>3. \E r \in Requests : TRUE
  BY LimitsAssumption
<1>4. Cardinality(Fits(k, lim)') <= Cardinality(Fits(k, lim))
  BY <1>1, <1>2, <1>3, PartChanges
<1>5. y + Cardinality(Fits(k, lim)') <= x + Cardinality(Fits(k, lim))
  <2>1. CASE y <= x
    BY <1>1, <1>4, <2>1
  <2>2. ASSUME NEW r \in Requests, r \in Fits(k, lim), r \notin Fits(k, lim)', y = x + 1
        PROVE  y + Cardinality(Fits(k, lim)') <= x + Cardinality(Fits(k, lim))
    <3>1. Cardinality(Fits(k, lim)') <= Cardinality(Fits(k, lim)) - 1
      BY <1>1, <1>2, <2>2, PartChanges
    <3>. QED  BY <1>1, <2>2, <3>1
  <2>. QED  BY <2>1, <2>2
<1>6. counter[k] \in 0..Cap /\ resets[k] * lim \in Nat /\ Least(counter[k], lim) \in Nat
  BY NextMultiple, LimitTypes DEF LimitsInv, LimitsTypeOK, Least
<1> DEFINE bound == resets[k] * lim + Least(counter[k], lim) + slack
<1>7. bound \in Nat /\ x + Cardinality(Fits(k, lim)) <= bound
  BY <1>6 DEF Within
<1>8. Within(y, k, lim, slack)' <=> y + Cardinality(Fits(k, lim)') <= bound
  BY DEF Within, Least
<1> HIDE DEF bound
<1>. QED  BY <1>1, <1>5, <1>7, <1>8

(* A window that begins has let nothing through yet. *)
LEMMA WithinAnew ==
  ASSUME LimitsInv, OtherStep, NEW k \in Counters, NEW lim \in Nat, NEW slack \in Nat,
         counter'[k] = 0, resets'[k] = 0, Cardinality(Fits(k, lim)) <= slack
  PROVE  Within(0, k, lim, slack)'
<1>1. /\ Fits(k, lim) \in SUBSET Requests /\ Fits(k, lim)' \in SUBSET Requests
      /\ Cardinality(Fits(k, lim)) \in Nat /\ Cardinality(Fits(k, lim)') \in Nat
  BY Parts, PartsPrimed, PartSize
<1>2. Fits(k, lim)' \subseteq Fits(k, lim)
  BY OnlyCountingAdds
<1>3. \E r \in Requests : TRUE
  BY LimitsAssumption
<1>4. Cardinality(Fits(k, lim)') <= Cardinality(Fits(k, lim))
  BY <1>1, <1>2, <1>3, PartChanges
<1>5. 0 * lim = 0
  OBVIOUS
<1>. QED  BY <1>1, <1>4, <1>5 DEF Within, Least

QuotaInv(k) == Within(granted[k], k, RateLimit, R)
SendInv == Within(granted["sends"], "sends", MaxSends, 1)

LEMMA QuotaKept ==
  ASSUME LimitsInv, NEW k \in Quotas, QuotaInv(k), LimitsStep
  PROVE  QuotaInv(k)'
<1>1. /\ k \in Windows /\ k \in Counters /\ k \notin Purposes /\ k # "sends" /\ k # "login"
      /\ granted[k] \in Nat /\ granted'[k] \in Nat
  BY LimitsKept, KeyTypes DEF LimitsInv, LimitsTypeOK
<1>2. ASSUME NEW r \in Requests, Count(r)
      PROVE  QuotaInv(k)'
  <2>1. granted' = granted
    BY <1>2, CountRequest
  <2>2. \A x \in Nat : Within(x, k, RateLimit, R) => Within(x, k, RateLimit, R)'
    BY <1>1, <1>2, CountWithin, LimitTypes
  <2>. QED  BY <1>1, <2>1, <2>2 DEF QuotaInv, Within
<1>3. ASSUME OtherStep, NEW x \in Nat, NEW y \in Nat, x = granted[k], y = granted'[k]
      PROVE  Within(y, k, RateLimit, R)'
  <2>1. Within(x, k, RateLimit, R)
    BY <1>3 DEF QuotaInv
  <2>2. CASE Calm(k)
    <3>1. y = x /\ counter'[k] = counter[k] /\ resets'[k] = resets[k]
      BY <1>1, <1>3, <2>2, CalmWindow
    <3>. QED  BY <1>1, <1>3, <2>1, <3>1, WithinKept, LimitTypes
  <2>3. ASSUME NEW r \in Requests, Key(r) = k, Admit(r)
        PROVE  Within(y, k, RateLimit, R)'
    <3>1. counter'[k] = counter[k] /\ resets'[k] = resets[k]
      BY <2>3 DEF Admit, cache
    <3>2. r \notin Fits(k, RateLimit)'
      <4>1. request'[r] = Idle
        BY <2>3 DEF Admit, Done, LimitsInv, LimitsTypeOK
      <4>. QED  BY <4>1 DEF Fits, At, Idle
    <3>3. y = (IF request[r].n <= RateLimit THEN x + 1 ELSE x)
      BY <1>1, <1>3, <2>3 DEF Admit, LimitsInv, LimitsTypeOK
    <3>4. request[r].n <= RateLimit => r \in Fits(k, RateLimit)
      BY <1>1, <2>3 DEF Admit, Fits
    <3>. QED  BY <1>1, <1>3, <2>1, <3>1, <3>2, <3>3, <3>4, WithinKept, LimitTypes
  <2>4. CASE EndWindow(k)
    <3>1. counter'[k] = 0 /\ resets'[k] = 0 /\ y = 0
      BY <1>1, <1>3, <2>4 DEF EndWindow, Ended, LimitsInv, LimitsTypeOK
    <3>2. Cardinality(Fits(k, RateLimit)) <= R
      BY Parts, PartSize
    <3>. QED  BY <1>1, <1>3, <3>1, <3>2, WithinAnew, LimitTypes
  <2>. QED  BY <1>1, <1>3, <2>2, <2>3, <2>4 DEF OtherStep, Calm
<1>. QED
  <2>1. CASE OtherStep
    <3>1. PICK x \in Nat, y \in Nat : x = granted[k] /\ y = granted'[k]
      BY <1>1
    <3>2. Within(y, k, RateLimit, R)'
      BY <1>3, <2>1, <3>1
    <3>. QED  BY <3>1, <3>2 DEF QuotaInv, Within
  <2>. QED  BY <1>2, <2>1 DEF LimitsStep

LEMMA SendKept ==
  ASSUME LimitsInv, SendInv, LimitsStep
  PROVE  SendInv'
<1> DEFINE k == "sends"
<1>1. /\ k \in Windows /\ k \in Counters /\ k \notin Purposes /\ k \notin Quotas /\ k # "login"
      /\ granted[k] \in Nat /\ granted'[k] \in Nat
  BY LimitsKept, KeyTypes DEF LimitsInv, LimitsTypeOK
<1> HIDE DEF k
<1>2. ASSUME NEW r \in Requests, Count(r)
      PROVE  SendInv'
  <2>1. granted' = granted
    BY <1>2, CountRequest
  <2>2. \A x \in Nat : Within(x, k, MaxSends, 1) => Within(x, k, MaxSends, 1)'
    BY <1>1, <1>2, CountWithin, LimitTypes
  <2>. QED  BY <1>1, <2>1, <2>2 DEF SendInv, Within, k
<1>3. ASSUME OtherStep, NEW x \in Nat, NEW y \in Nat, x = granted[k], y = granted'[k]
      PROVE  Within(y, k, MaxSends, 1)'
  <2>1. Within(x, k, MaxSends, 1)
    BY <1>3 DEF SendInv, k
  <2>2. CASE Calm(k)
    <3>1. y = x /\ counter'[k] = counter[k] /\ resets'[k] = resets[k]
      BY <1>1, <1>3, <2>2, CalmWindow
    <3>. QED  BY <1>1, <1>3, <2>1, <3>1, WithinKept, LimitTypes
  <2>3. ASSUME NEW r \in Requests, StoreCode(r)
        PROVE  Within(y, k, MaxSends, 1)'
    <3>1. counter'[k] = counter[k] /\ resets'[k] = resets[k]
      BY <1>1, <2>3, StoreRequest DEF StoreCode, LimitsInv, LimitsTypeOK
    <3>2. r \in Fits(k, MaxSends)
      BY <1>1, <2>3 DEF StoreCode, Fits, k
    <3>3. r \notin Fits(k, MaxSends)'
      BY <2>3, StoreRequest DEF Fits, At
    <3>4. y = x + 1
      BY <1>1, <1>3, <2>3 DEF StoreCode, LimitsInv, LimitsTypeOK, k
    <3>. QED  BY <1>1, <1>3, <2>1, <3>1, <3>2, <3>3, <3>4, WithinKept, LimitTypes
  <2>4. CASE EndWindow(k)
    <3>1. counter'[k] = 0 /\ resets'[k] = 0 /\ y = 0
      BY <1>1, <1>3, <2>4 DEF EndWindow, Ended, LimitsInv, LimitsTypeOK
    <3>2. \A q, r \in Fits(k, MaxSends) : q = r
      BY DEF Fits, At, k, LimitsInv, OneSender, IsSending
    <3>3. Cardinality(Fits(k, MaxSends)) <= 1
      <4>1. CASE Fits(k, MaxSends) = {}
        BY <4>1, FS_EmptySet
      <4>2. ASSUME NEW r \in Fits(k, MaxSends)
            PROVE  Cardinality(Fits(k, MaxSends)) <= 1
        <5>1. Fits(k, MaxSends) = {r}
          BY <3>2, <4>2
        <5>. QED  BY <5>1, FS_Singleton
      <4>. QED  BY <4>1, <4>2
    <3>. QED  BY <1>1, <1>3, <3>1, <3>3, WithinAnew, LimitTypes
  <2>5. \A r \in Requests : Admit(r) => Key(r) # k
    BY <1>1 DEF Admit
  <2>. QED  BY <1>1, <1>3, <2>2, <2>3, <2>4, <2>5 DEF OtherStep, Calm
<1>. QED
  <2>1. CASE OtherStep
    <3>1. PICK x \in Nat, y \in Nat : x = granted[k] /\ y = granted'[k]
      BY <1>1
    <3>2. Within(y, k, MaxSends, 1)'
      BY <1>3, <2>1, <3>1
    <3>. QED  BY <3>1, <3>2 DEF SendInv, Within, k
  <2>. QED  BY <1>2, <2>1 DEF LimitsStep

-----------------------------------------------------------------------------
(* The login *)

(* Requests whose password is being tried, and refused ones not counted.   *)
Trying == {r \in Requests : At(r, "password")}
Uncounted == {r \in Requests : Key(r) = "login" /\ request[r].at \in {"add", "incr", "set"}}

(* While the form is open, what was refused is counted or about to be; a   *)
(* count that is dropped was made after the form was closed, at most by    *)
(* every request that was let in before.                                   *)
LoginInv ==
  IF counter["login"] < MaxFailures
  THEN granted["login"] <= resets["login"] * (MaxFailures + R - 1)
                             + counter["login"] + Cardinality(Uncounted)
  ELSE granted["login"] + Cardinality(Trying) <= (resets["login"] + 1) * (MaxFailures + R - 1)

LEMMA LoginParts ==
  /\ Trying \in SUBSET Requests /\ Uncounted \in SUBSET Requests
  /\ Cardinality(Trying) \in Nat /\ Cardinality(Uncounted) \in Nat
  /\ Cardinality(Trying) + Cardinality(Uncounted) <= R
<1>1. Trying \in SUBSET Requests /\ Uncounted \in SUBSET Requests
  BY DEF Trying, Uncounted
<1>2. /\ IsFiniteSet(Trying) /\ IsFiniteSet(Uncounted)
      /\ Cardinality(Trying) \in Nat /\ Cardinality(Uncounted) \in Nat
  BY <1>1, PartSize
<1>3. Trying \intersect Uncounted = {}
  BY DEF Trying, Uncounted, At
<1>4. Cardinality(Trying \union Uncounted) = Cardinality(Trying) + Cardinality(Uncounted)
  <2>1. Cardinality(Trying \union Uncounted) =
          Cardinality(Trying) + Cardinality(Uncounted) - Cardinality(Trying \intersect Uncounted)
    BY <1>2, FS_Union
  <2>2. Cardinality(Trying \intersect Uncounted) = 0
    BY <1>3, FS_EmptySet
  <2>. QED  BY <1>2, <2>1, <2>2
<1>5. Cardinality(Trying \union Uncounted) <= R
  BY <1>1, PartSize
<1>. QED  BY <1>1, <1>2, <1>4, <1>5

LEMMA LoginPartsPrimed ==
  /\ Trying' \in SUBSET Requests /\ Uncounted' \in SUBSET Requests
  /\ Cardinality(Trying') \in Nat /\ Cardinality(Uncounted') \in Nat
BY PartSize DEF Trying, Uncounted

(* How the sizes follow the parts. *)
LEMMA LoginPartsChange ==
  ASSUME NEW r \in Requests
  PROVE  /\ Trying' \subseteq Trying => Cardinality(Trying') <= Cardinality(Trying)
         /\ Trying' \subseteq Trying /\ r \in Trying /\ r \notin Trying'
              => Cardinality(Trying') <= Cardinality(Trying) - 1
         /\ Uncounted \subseteq Uncounted' => Cardinality(Uncounted) <= Cardinality(Uncounted')
         /\ Uncounted \subseteq Uncounted' /\ r \notin Uncounted /\ r \in Uncounted'
              => Cardinality(Uncounted) <= Cardinality(Uncounted') - 1
         /\ Uncounted \subseteq Uncounted' \union {r}
              => Cardinality(Uncounted) <= Cardinality(Uncounted') + 1
BY LoginParts, LoginPartsPrimed, PartChanges

(* The arithmetic of a count: of n requests t try a password and u count;  *)
(* the counter goes on to cc, or m counts dropped become mm.               *)
LEMMA OneMoreFailure ==
  ASSUME NEW m \in Nat, NEW w \in Nat, NEW f \in Nat, f >= 1, NEW n \in Nat, n >= 1,
         NEW c \in Nat, NEW g \in Nat, NEW t \in Nat, NEW u \in Nat, NEW v \in Nat, u <= v + 1,
         t + u <= n, w = f + n - 1,
         NEW cc \in Nat, NEW mm \in Nat,
         \/ mm = m /\ (cc = c + 1 \/ (c >= f /\ cc >= f))
         \/ mm = m + w /\ cc = 1 /\ c > 0,
         IF c < f THEN g <= m + c + u ELSE g + t <= m + w
  PROVE  IF cc < f THEN g <= mm + cc + v ELSE g + t <= mm + w
OBVIOUS

LEMMA LoginCounts ==
  ASSUME LimitsInv, LoginInv, NEW r \in Requests, Count(r)
  PROVE  LoginInv'
<1> DEFINE k == "login"
           w == MaxFailures + R - 1
<1>1. /\ k \in Windows /\ k \in Counters /\ k \notin Purposes
      /\ counter[k] \in 0..Cap /\ counter'[k] \in 0..Cap /\ resets[k] \in Nat /\ resets'[k] \in Nat
      /\ granted[k] \in Nat
  BY LimitsKept, KeyTypes DEF LimitsInv, LimitsTypeOK, LimitsStep
<1>2. /\ Key(r) \in Counters /\ request' \in [Requests -> Request] /\ granted' = granted
      /\ \A o \in Requests \ {r} : request'[o] = request[o]
      /\ request[r].at \in {"add", "incr", "set"} /\ request'[r].at \in Counting
      /\ request'[r].key = Key(r)
  BY CountRequest
<1>3. w \in Nat /\ w >= 1 /\ MaxFailures \in Nat /\ MaxFailures >= 1 /\ R \in Nat /\ R >= 1
      /\ MaxFailures < Cap /\ Cap \in Nat
  BY LimitTypes
<1>4. Trying' \subseteq Trying /\ Uncounted \subseteq Uncounted' \union {r}
  BY <1>2 DEF Trying, Uncounted, At, Key, Counting
<1>5. Cardinality(Trying') <= Cardinality(Trying)
      /\ Cardinality(Uncounted) <= Cardinality(Uncounted') + 1
  BY <1>4, LoginPartsChange
<1>6. /\ LoginInv <=> IF counter[k] < MaxFailures
                      THEN granted[k] <= resets[k] * w + counter[k] + Cardinality(Uncounted)
                      ELSE granted[k] + Cardinality(Trying) <= (resets[k] + 1) * w
      /\ LoginInv' <=> IF counter'[k] < MaxFailures
                      THEN granted[k] <= resets'[k] * w + counter'[k] + Cardinality(Uncounted')
                      ELSE granted[k] + Cardinality(Trying') <= (resets'[k] + 1) * w
  BY <1>2 DEF LoginInv
<1> HIDE DEF k, w
<1>7. /\ resets[k] * w \in Nat /\ resets'[k] * w \in Nat
      /\ (resets[k] + 1) * w = resets[k] * w + w /\ (resets'[k] + 1) * w = resets'[k] * w + w
  BY <1>1, <1>3, NextMultiple
<1>8. CASE counter'[k] = counter[k] /\ resets'[k] = resets[k] /\ Uncounted \subseteq Uncounted'
  <2>1. Cardinality(Uncounted) <= Cardinality(Uncounted')
    BY <1>8, LoginPartsChange
  <2> DEFINE m == resets[k] * w
  <2>2. /\ m \in Nat
        /\ IF counter[k] < MaxFailures
           THEN granted[k] <= m + counter[k] + Cardinality(Uncounted)
           ELSE granted[k] + Cardinality(Trying) <= m + w
        /\ LoginInv' <=> IF counter[k] < MaxFailures
                         THEN granted[k] <= m + counter[k] + Cardinality(Uncounted')
                         ELSE granted[k] + Cardinality(Trying') <= m + w
    BY <1>6, <1>7, <1>8
  <2> HIDE DEF m
  <2>. QED  BY <1>1, <1>3, <1>5, <2>1, <2>2, LoginParts, LoginPartsPrimed
<1>9. CASE \/ resets'[k] = resets[k]
              /\ counter'[k] = IF counter[k] < Cap THEN counter[k] + 1 ELSE Cap
           \/ resets'[k] = (IF counter[k] > 0 THEN resets[k] + 1 ELSE resets[k]) /\ counter'[k] = 1
  <2> DEFINE m == resets[k] * w
             mm == resets'[k] * w
  <2>1. m \in Nat /\ mm \in Nat
    BY <1>7
  <2>2. /\ IF counter[k] < MaxFailures
           THEN granted[k] <= m + counter[k] + Cardinality(Uncounted)
           ELSE granted[k] + Cardinality(Trying) <= m + w
        /\ LoginInv' <=> IF counter'[k] < MaxFailures
                         THEN granted[k] <= mm + counter'[k] + Cardinality(Uncounted')
                         ELSE granted[k] + Cardinality(Trying') <= mm + w
    BY <1>6, <1>7
  <2>3. resets'[k] = resets[k] => mm = m
    OBVIOUS
  <2>4. resets'[k] = resets[k] + 1 => mm = m + w
    BY <1>7
  <2> HIDE DEF m, mm
  <2>5. \/ mm = m /\ (counter'[k] = counter[k] + 1
                       \/ (counter[k] >= MaxFailures /\ counter'[k] >= MaxFailures))
        \/ mm = m + w /\ counter'[k] = 1 /\ counter[k] > 0
    BY <1>1, <1>3, <1>9, <2>3, <2>4
  <2>6. IF counter'[k] < MaxFailures
        THEN granted[k] <= mm + counter'[k] + Cardinality(Uncounted')
        ELSE granted[k] + Cardinality(Trying) <= mm + w
    <3>1. counter[k] \in Nat /\ counter'[k] \in Nat /\ w = MaxFailures + R - 1
      BY <1>1 DEF w
    <3>. QED  BY <1>1, <1>3, <1>5, <2>1, <2>2, <2>5, <3>1, OneMoreFailure, LoginParts, LoginPartsPrimed
  <2>. QED  BY <1>1, <1>3, <1>5, <2>1, <2>2, <2>6, LoginParts, LoginPartsPrimed
<1>10. CASE Key(r) # k
  <2>1. counter'[k] = counter[k] /\ resets'[k] = resets[k]
    BY <1>1, <1>10, CountEffect
  <2>2. Uncounted \subseteq Uncounted'
    BY <1>2, <1>10 DEF Uncounted, Key, k
  <2>. QED  BY <1>8, <2>1, <2>2
<1>11. CASE Key(r) = k
  <2>1. CASE request'[r].at # "counted"
    <3>1. UNCHANGED <<counter, resets>>
      BY <2>1, CountEffect
    <3>2. Uncounted \subseteq Uncounted'
      BY <1>2, <1>11, <2>1 DEF Uncounted, Key, Counting, k
    <3>. QED  BY <1>8, <3>1, <3>2
  <2>2. CASE request'[r].at = "counted"
    BY <1>1, <1>9, <1>11, <2>2, CountEffect
  <2>. QED  BY <2>1, <2>2
<1>. QED  BY <1>10, <1>11

LEMMA LoginOthers ==
  ASSUME LimitsInv, LoginInv, OtherStep
  PROVE  LoginInv'
<1> DEFINE k == "login"
           w == MaxFailures + R - 1
           m == resets[k] * w
<1>1. /\ k \in Windows /\ k \in Counters /\ k \notin Quotas
      /\ counter[k] \in 0..Cap /\ resets[k] \in Nat /\ granted[k] \in Nat
      /\ counter \in [Counters -> 0..Cap] /\ resets \in [Counters -> Nat]
      /\ granted \in [Windows -> Nat] /\ request \in [Requests -> Request]
  BY KeyTypes DEF LimitsInv, LimitsTypeOK
<1>2. w \in Nat /\ m \in Nat /\ (resets[k] + 1) * w = m + w
      /\ MaxFailures \in Nat /\ MaxFailures >= 1 /\ R \in Nat /\ R >= 1
  BY <1>1, LimitTypes, NextMultiple
<1>3. IF counter[k] < MaxFailures
      THEN granted[k] <= m + counter[k] + Cardinality(Uncounted)
      ELSE granted[k] + Cardinality(Trying) <= m + w
  BY <1>2 DEF LoginInv
<1>4. ASSUME counter'[k] = counter[k], resets'[k] = resets[k]
      PROVE  LoginInv' <=> IF counter[k] < MaxFailures
                           THEN granted'[k] <= m + counter[k] + Cardinality(Uncounted')
                           ELSE granted'[k] + Cardinality(Trying') <= m + w
  BY <1>2, <1>4 DEF LoginInv
<1>5. ASSUME counter'[k] = 0, resets'[k] = 0, granted'[k] = 0
      PROVE  LoginInv'
  <2>1. 0 * w = 0
    BY <1>2
  <2>. QED  BY <1>2, <1>5, <2>1, LoginPartsPrimed DEF LoginInv
<1> HIDE DEF k, w, m
<1>6. CASE /\ counter'[k] = counter[k] /\ resets'[k] = resets[k] /\ granted'[k] = granted[k]
           /\ Uncounted \subseteq Uncounted'
           /\ Trying' \subseteq Trying \/ counter[k] < MaxFailures
  <2>1. /\ Cardinality(Uncounted) <= Cardinality(Uncounted')
        /\ Cardinality(Trying') <= Cardinality(Trying) \/ counter[k] < MaxFailures
    <3>1. \E r \in Requests : TRUE
      BY LimitsAssumption
    <3>. QED  BY <1>6, <3>1, LoginPartsChange
  <2>. QED  BY <1>1, <1>2, <1>3, <1>4, <1>6, <2>1, LoginParts, LoginPartsPrimed
<1>7. CASE EndWindow(k)
  <2>1. counter'[k] = 0 /\ resets'[k] = 0 /\ granted'[k] = 0
    BY <1>1, <1>7 DEF EndWindow, Ended
  <2>. QED  BY <1>5, <2>1
<1>8. ASSUME NEW r \in Requests, StoreCode(r)
      PROVE  LoginInv'
  <2>1. counter'[k] = counter[k] /\ resets'[k] = resets[k] /\ granted'[k] = granted[k]
    BY <1>1, <1>8, StoreRequest, KeyTypes DEF StoreCode, k
  <2>2. Uncounted \subseteq Uncounted' /\ Trying' \subseteq Trying
    <3>1. At(r, "counted") /\ request'[r].at = "clear"
          /\ \A o \in Requests \ {r} : request'[o].at = request[o].at /\ request'[o].key = request[o].key
      BY <1>8, StoreRequest DEF StoreCode
    <3>. QED  BY <3>1 DEF Uncounted, Trying, At, Key
  <2>. QED  BY <1>6, <2>1, <2>2
<1>9. ASSUME NEW r \in Requests, Authenticate(r)
      PROVE  LoginInv'
  <2>1. counter'[k] = counter[k] /\ resets'[k] = resets[k]
    BY <1>9 DEF Authenticate, cache
  <2>2. request[r].at = "password" /\ Key(r) = k
    BY <1>9 DEF Authenticate, At, LimitsInv, Shaped, k
  <2>3. /\ request'[r].at \in {"forget", "add"} /\ request'[r].key = Key(r)
        /\ \A o \in Requests \ {r} : request'[o] = request[o]
        /\ granted'[k] = IF request'[r].at = "forget" THEN granted[k] ELSE granted[k] + 1
    <3>1. CASE Go(r, "forget") /\ UNCHANGED granted
      BY <1>1, <3>1 DEF Go, Request, Key
    <3>2. CASE Go(r, "add") /\ granted' = [granted EXCEPT !["login"] = @ + 1]
      BY <1>1, <3>2 DEF Go, Request, Key, k
    <3>. QED  BY <1>9, <3>1, <3>2 DEF Authenticate
  <2>4. /\ Trying' \subseteq Trying /\ r \in Trying /\ r \notin Trying'
        /\ Uncounted \subseteq Uncounted' /\ r \notin Uncounted
        /\ request'[r].at = "add" => r \in Uncounted'
    BY <2>2, <2>3 DEF Trying, Uncounted, At, Key, k
  <2>5. CASE request'[r].at = "forget"
    BY <1>6, <2>1, <2>3, <2>4, <2>5
  <2>6. CASE request'[r].at = "add"
    <3>1. /\ Cardinality(Trying') <= Cardinality(Trying) - 1
          /\ Cardinality(Uncounted) <= Cardinality(Uncounted') - 1
      BY <2>4, <2>6, LoginPartsChange
    <3>2. granted'[k] = granted[k] + 1
      BY <2>3, <2>6
    <3>. QED  BY <1>1, <1>2, <1>3, <1>4, <2>1, <3>1, <3>2, LoginParts, LoginPartsPrimed
  <2>. QED  BY <2>3, <2>5, <2>6
<1>10. ASSUME NEW r \in Requests,
              \/ \E p \in Purposes : AskForCode(r, p) \/ SubmitCode(r, p)
              \/ RefuseSend(r) \/ ClearAttempts(r) \/ Mail(r) \/ RightCode(r) \/ WrongCode(r)
              \/ Admit(r) \/ \E j \in Quotas : AskForQuota(r, j)
              \/ TryPassword(r) \/ LoggedIn(r) \/ LoginRefused(r)
       PROVE  /\ Uncounted \subseteq Uncounted'
              /\ Trying' \subseteq Trying \/ counter[k] < MaxFailures
  <2>1. /\ \A o \in Requests \ {r} : request'[o] = request[o]
        /\ request'[r].at # "password" \/ counter["login"] < MaxFailures
    BY <1>10, StepRequest DEF Idle
  <2>2. request[r].at \notin {"add", "incr", "set"}
    <3>1. CASE \/ \E p \in Purposes : AskForCode(r, p) \/ SubmitCode(r, p)
               \/ TryPassword(r) \/ \E j \in Quotas : AskForQuota(r, j)
      <4>1. request[r] = Idle
        BY <3>1 DEF AskForCode, SubmitCode, TryPassword, AskForQuota, Begin
      <4>. QED  BY <4>1 DEF Idle
    <3>2. CASE \/ RefuseSend(r) \/ ClearAttempts(r) \/ Mail(r) \/ RightCode(r) \/ WrongCode(r)
               \/ Admit(r) \/ LoggedIn(r) \/ LoginRefused(r)
      BY <3>2 DEF RefuseSend, ClearAttempts, Mail, RightCode, WrongCode, Compared, Admit,
                  LoggedIn, LoginRefused, At
    <3>. QED  BY <1>10, <3>1, <3>2
  <2>3. Uncounted \subseteq Uncounted'
    BY <2>1, <2>2 DEF Uncounted, Key
  <2>4. request'[r].at # "password" => Trying' \subseteq Trying
    BY <2>1 DEF Trying, At
  <2>. QED  BY <2>1, <2>3, <2>4 DEF k
<1>11. ASSUME NEW r \in Requests, LoggedIn(r)
       PROVE  LoginInv'
  <2>1. CASE counter' = [counter EXCEPT !["login"] = 0] /\ Ended("login")
    <3>1. counter'[k] = 0 /\ resets'[k] = 0 /\ granted'[k] = 0
      BY <1>1, <2>1 DEF Ended, k
    <3>. QED  BY <1>5, <3>1
  <2>2. CASE UNCHANGED <<counter, granted, resets>>
    BY <1>6, <1>10, <1>11, <2>2
  <2>. QED  BY <1>11, <2>1, <2>2 DEF LoggedIn
<1>12. CASE Calm(k)
  <2>1. counter'[k] = counter[k] /\ resets'[k] = resets[k] /\ granted'[k] = granted[k]
    BY <1>1, <1>12, CalmWindow
  <2>2. CASE \/ EndCooldown \/ \E j \in Windows : EndWindow(j)
             \/ \E p \in Purposes : EndCode(p) \/ EndAttempts(p)
    <3>1. request' = request
      BY <2>2 DEF EndCooldown, EndWindow, EndCode, EndAttempts
    <3>2. Uncounted \subseteq Uncounted' /\ Trying' \subseteq Trying
      BY <3>1 DEF Uncounted, Trying, At, Key
    <3>. QED  BY <1>6, <2>1, <3>2
  <2>3. ASSUME NEW r \in Requests,
               \/ \E p \in Purposes : AskForCode(r, p) \/ SubmitCode(r, p)
               \/ RefuseSend(r) \/ ClearAttempts(r) \/ Mail(r) \/ RightCode(r) \/ WrongCode(r)
               \/ Admit(r) \/ \E j \in Quotas : AskForQuota(r, j)
               \/ TryPassword(r) \/ LoginRefused(r)
        PROVE  LoginInv'
    <3>1. /\ Uncounted \subseteq Uncounted'
          /\ Trying' \subseteq Trying \/ counter[k] < MaxFailures
      BY <1>10, <2>3
    <3>. QED  BY <1>6, <2>1, <3>1
  <2>. QED  BY <1>8, <1>9, <1>11, <1>12, <2>2, <2>3 DEF Calm
<1>13. \A r \in Requests : Admit(r) => Key(r) # k
  BY <1>1 DEF Admit
<1>. QED  BY <1>7, <1>8, <1>9, <1>11, <1>12, <1>13 DEF OtherStep, Calm

-----------------------------------------------------------------------------
(* The codes *)

(* The wrong codes that can still be compared with the newest code of p.   *)
Guessers(p) == {r \in Requests : Key(r) = p /\ request[r].newest}

(* As long as a code is there, all that was compared with it was counted   *)
(* below the limit, or the code would be gone.  Then only those are left   *)
(* that had read it.                                                       *)
GuessInv(p) ==
  IF code[p] THEN Within(guesses[p], p, MaxAttempts - 1, 0)
  ELSE guesses[p] + Cardinality(Guessers(p)) <= (1 + resets[p]) * (MaxAttempts - 1) + R

(* The request that stored the newest code of p has not cleared the        *)
(* attempts.                                                               *)
ToClear(p) == \E r \in Requests : At(r, "clear") /\ request[r].purpose = p

ResetInv(p) ==
  IF code[p] THEN resets[p] + Cardinality(Late(p)) <= IF ToClear(p) THEN R - 1 ELSE 2 * R - 1
  ELSE resets[p] <= 2 * R - 1

(* Steps that have nothing to do with the code of p, but counting.         *)
CalmCode(p) ==
  \/ \E r \in Requests, q \in Purposes : AskForCode(r, q) \/ (q # p /\ SubmitCode(r, q))
  \/ \E r \in Requests :
       \/ RefuseSend(r) \/ TryPassword(r) \/ Authenticate(r) \/ LoggedIn(r) \/ LoginRefused(r)
       \/ Admit(r) \/ \E k \in Quotas : AskForQuota(r, k)
       \/ request[r].purpose # p /\ (StoreCode(r) \/ ClearAttempts(r) \/ Mail(r))
       \/ Key(r) # p /\ (RightCode(r) \/ WrongCode(r))
  \/ EndCooldown \/ \E k \in Windows : EndWindow(k)
  \/ \E q \in Purposes \ {p} : EndCode(q) \/ EndAttempts(q)

LEMMA CodeCases ==
  ASSUME NEW p \in Purposes, OtherStep
  PROVE  \/ CalmCode(p)
         \/ \E r \in Requests :
              \/ SubmitCode(r, p)
              \/ request[r].purpose = p /\ (StoreCode(r) \/ ClearAttempts(r) \/ Mail(r))
              \/ Key(r) = p /\ (RightCode(r) \/ WrongCode(r))
         \/ EndCode(p) \/ EndAttempts(p)
BY DEF OtherStep, CalmCode

LEMMA CalmCodeFrame ==
  ASSUME LimitsInv, NEW p \in Purposes, CalmCode(p)
  PROVE  /\ OtherStep
         /\ code'[p] = code[p] /\ guesses'[p] = guesses[p]
         /\ counter'[p] = counter[p] /\ resets'[p] = resets[p]
<1>1. OtherStep
  BY DEF CalmCode, OtherStep
<1>2. /\ \A k \in Windows : p # k /\ k \in Counters
      /\ \A q \in Purposes : q \in Counters
      /\ counter \in [Counters -> 0..Cap] /\ resets \in [Counters -> Nat]
      /\ code \in [Purposes -> BOOLEAN] /\ guesses \in [Purposes -> Nat] /\ "login" \in Windows
  BY KeyTypes DEF LimitsInv, LimitsTypeOK
<1> DEFINE Same == /\ code'[p] = code[p] /\ guesses'[p] = guesses[p]
                   /\ counter'[p] = counter[p] /\ resets'[p] = resets[p]
<1>3. ASSUME NEW r \in Requests, request[r].purpose # p, StoreCode(r)
      PROVE  Same
  BY <1>2, <1>3, StoreRequest DEF StoreCode
<1>4. ASSUME NEW r \in Requests, request[r].purpose # p, ClearAttempts(r) \/ Mail(r)
      PROVE  Same
  <2>1. request[r].purpose \in Purposes
    BY <1>4 DEF LimitsInv, Shaped, At, Key, ClearAttempts, Mail
  <2>2. CASE ClearAttempts(r)
    BY <1>2, <1>4, <2>1, <2>2 DEF ClearAttempts, Dropped
  <2>3. CASE Mail(r)
    BY <1>2, <1>4, <2>1, <2>3 DEF Mail, history
  <2>. QED  BY <1>4, <2>2, <2>3
<1>5. ASSUME NEW r \in Requests, Key(r) # p, RightCode(r)
      PROVE  Same
  BY <1>2, <1>5 DEF RightCode, Compared, history
<1>6. ASSUME NEW r \in Requests, Key(r) # p, WrongCode(r)
      PROVE  Same
  BY <1>2, <1>6 DEF WrongCode, Compared
<1>7. ASSUME NEW q \in Purposes \ {p}, EndCode(q) \/ EndAttempts(q)
      PROVE  Same
  BY <1>2, <1>7 DEF EndCode, EndAttempts, history
<1>8. ASSUME NEW k \in Windows, counter' = [counter EXCEPT ![k] = 0], Ended(k),
             UNCHANGED <<code, guesses>>
      PROVE  Same
  BY <1>2, <1>8 DEF Ended
<1>9. ASSUME NEW r \in Requests, LoggedIn(r)
      PROVE  Same
  BY <1>2, <1>8, <1>9 DEF LoggedIn
<1>10. ASSUME NEW k \in Windows, EndWindow(k)
       PROVE  Same
  BY <1>8, <1>10 DEF EndWindow
<1>11. ASSUME \/ \E r \in Requests, q \in Purposes : AskForCode(r, q) \/ SubmitCode(r, q)
              \/ \E r \in Requests :
                   \/ RefuseSend(r) \/ TryPassword(r) \/ Authenticate(r) \/ LoginRefused(r)
                   \/ Admit(r) \/ \E k \in Quotas : AskForQuota(r, k)
              \/ EndCooldown
       PROVE  Same
  BY <1>11 DEF AskForCode, SubmitCode, RefuseSend, TryPassword, Authenticate, LoginRefused,
               Admit, AskForQuota, EndCooldown, cache, history
<1>12. Same
  BY <1>3, <1>4, <1>5, <1>6, <1>7, <1>9, <1>10, <1>11 DEF CalmCode
<1>. QED  BY <1>1, <1>12

LEMMA CodeParts ==
  ASSUME NEW p
  PROVE  /\ Guessers(p) \in SUBSET Requests /\ Guessers(p)' \in SUBSET Requests
         /\ Cardinality(Guessers(p)) \in Nat /\ Cardinality(Guessers(p)') \in Nat
         /\ Cardinality(Guessers(p)) <= R /\ Cardinality(Guessers(p)') <= R
         /\ Late(p) \in SUBSET Requests /\ Late(p)' \in SUBSET Requests
         /\ Cardinality(Late(p)) \in Nat /\ Cardinality(Late(p)') \in Nat
         /\ \A r \in Requests : r \notin Late(p)' => Cardinality(Late(p)') <= R - 1
<1>1. /\ Guessers(p) \in SUBSET Requests /\ Guessers(p)' \in SUBSET Requests
      /\ Late(p) \in SUBSET Requests /\ Late(p)' \in SUBSET Requests
  BY DEF Guessers, Late
<1>. QED  BY <1>1, PartSize

LEMMA CodePartsChange ==
  ASSUME NEW p, NEW r \in Requests
  PROVE  /\ Guessers(p)' \subseteq Guessers(p)
              => /\ Cardinality(Guessers(p)') <= Cardinality(Guessers(p))
                 /\ r \in Guessers(p) /\ r \notin Guessers(p)'
                      => Cardinality(Guessers(p)') <= Cardinality(Guessers(p)) - 1
         /\ r \notin Guessers(p)' => Cardinality(Guessers(p)') <= R - 1
         /\ Late(p)' \subseteq Late(p)
              => /\ Cardinality(Late(p)') <= Cardinality(Late(p))
                 /\ r \in Late(p) /\ r \notin Late(p)'
                      => Cardinality(Late(p)') <= Cardinality(Late(p)) - 1
BY CodeParts, PartChanges, PartSize

(* Without SubmitCode nobody else reads the code of p. *)
LEMMA OnlySubmitReads ==
  ASSUME LimitsInv, NEW p \in Purposes, LimitsStep, \A r \in Requests : ~SubmitCode(r, p)
  PROVE  Guessers(p)' \subseteq Guessers(p)
<1>1. ASSUME NEW r \in Requests, Count(r)
      PROVE  Guessers(p)' \subseteq Guessers(p)
  BY <1>1, CountRequest DEF Guessers, Key
<1>2. ASSUME NEW r \in Requests, StoreCode(r)
      PROVE  Guessers(p)' \subseteq Guessers(p)
  <2>1. /\ request'[r].key = Key(r) /\ request'[r].newest = request[r].newest
        /\ \A o \in Requests \ {r} : /\ request'[o].key = request[o].key
                                     /\ request'[o].newest => request[o].newest
    BY <1>2, StoreRequest DEF StoreCode
  <2>. QED  BY <2>1 DEF Guessers, Key
<1>3. CASE \/ EndCooldown \/ \E j \in Windows : EndWindow(j)
           \/ \E q \in Purposes : EndCode(q) \/ EndAttempts(q)
  <2>1. request' = request
    BY <1>3 DEF EndCooldown, EndWindow, EndCode, EndAttempts
  <2>. QED  BY <2>1 DEF Guessers, Key
<1>4. ASSUME NEW r \in Requests,
             \/ \E q \in Purposes : AskForCode(r, q) \/ SubmitCode(r, q)
             \/ RefuseSend(r) \/ ClearAttempts(r) \/ Mail(r) \/ RightCode(r) \/ WrongCode(r)
             \/ Admit(r) \/ \E j \in Quotas : AskForQuota(r, j)
             \/ TryPassword(r) \/ Authenticate(r) \/ LoggedIn(r) \/ LoginRefused(r)
      PROVE  Guessers(p)' \subseteq Guessers(p)
  <2>1. \A o \in Requests \ {r} : request'[o] = request[o]
    BY <1>4, StepRequest
  <2>2. CASE \E q \in Purposes : SubmitCode(r, q)
    <3>1. PICK q \in Purposes : SubmitCode(r, q) /\ q # p
      BY <2>2
    <3>2. request'[r].key = q
      BY <3>1 DEF SubmitCode, LimitsInv, LimitsTypeOK, Idle
    <3>. QED  BY <2>1, <3>1, <3>2 DEF Guessers, Key
  <2>3. CASE ~\E q \in Purposes : SubmitCode(r, q)
    <3>1. \/ ~request'[r].newest
          \/ request'[r].key = Key(r) /\ request'[r].newest = request[r].newest
      <4>1. CASE \E q \in Purposes : AskForCode(r, q)
        BY <4>1 DEF AskForCode, LimitsInv, LimitsTypeOK, Idle
      <4>2. CASE TryPassword(r) \/ \E j \in Quotas : AskForQuota(r, j)
        BY <4>2 DEF TryPassword, AskForQuota, Begin, LimitsInv, LimitsTypeOK, Idle
      <4>3. CASE \/ RefuseSend(r) \/ Mail(r) \/ RightCode(r) \/ WrongCode(r) \/ Admit(r)
                 \/ LoggedIn(r) \/ LoginRefused(r)
        BY <4>3 DEF RefuseSend, Mail, RightCode, WrongCode, Admit, LoggedIn, LoginRefused, Done,
                    LimitsInv, LimitsTypeOK, Idle
      <4>4. CASE ClearAttempts(r) \/ Authenticate(r)
        <5>1. request[r] \in Request /\ request \in [Requests -> Request]
          BY DEF LimitsInv, LimitsTypeOK
        <5>. QED  BY <4>4, <5>1 DEF ClearAttempts, Authenticate, Go, Key, Request
      <4>. QED  BY <1>4, <2>3, <4>1, <4>2, <4>3, <4>4
    <3>. QED  BY <2>1, <3>1 DEF Guessers, Key
  <2>. QED  BY <2>2, <2>3
<1>. QED  BY <1>1, <1>2, <1>3, <1>4 DEF LimitsStep, OtherStep

(* The bound a code keeps when it is gone. *)
LEMMA GoneBound ==
  ASSUME LimitsInv, NEW p \in Purposes, GuessInv(p), code[p], NEW g \in Nat, g <= 1,
         ~code'[p], guesses'[p] \in Nat, guesses'[p] <= guesses[p] + g, resets'[p] = resets[p],
         Cardinality(Guessers(p)') <= R - g
  PROVE  GuessInv(p)'
<1>1. p \in Counters /\ counter[p] \in 0..Cap /\ resets[p] \in Nat /\ guesses[p] \in Nat
      /\ MaxAttempts - 1 \in Nat /\ R \in Nat
  BY KeyTypes, LimitTypes DEF LimitsInv, LimitsTypeOK
<1> DEFINE lim == MaxAttempts - 1
           m == resets[p] * lim
<1>2. m \in Nat /\ lim \in Nat /\ (1 + resets[p]) * lim = m + lim
  BY <1>1, NextMultiple
<1>3. guesses[p] + Cardinality(Fits(p, lim)) <= m + lim
  <2>1. guesses[p] + Cardinality(Fits(p, lim)) <= m + Least(counter[p], lim)
    <3>1. Within(guesses[p], p, lim, 0)
      BY DEF GuessInv
    <3>2. Least(counter[p], lim) \in Nat
      BY <1>1, <1>2 DEF Least
    <3>3. guesses[p] + Cardinality(Fits(p, lim)) <= m + Least(counter[p], lim) + 0
      BY <3>1 DEF Within
    <3> HIDE DEF m, lim
    <3>. QED  BY <1>2, <3>2, <3>3
  <2>2. Cardinality(Fits(p, lim)) \in Nat
    BY Parts, PartSize
  <2> HIDE DEF m, lim
  <2>. QED  BY <1>1, <1>2, <2>1, <2>2 DEF Least
<1>4. Cardinality(Fits(p, lim)) \in Nat
  BY Parts, PartSize
<1>5. guesses'[p] + Cardinality(Guessers(p)') <= m + lim + R => GuessInv(p)'
  BY <1>2 DEF GuessInv
<1> HIDE DEF m, lim
<1>. QED  BY <1>1, <1>2, <1>3, <1>4, <1>5, CodeParts

(* A new code begins with nothing compared and nothing dropped. *)
LEMMA StoredAnew ==
  ASSUME LimitsInv, NEW p \in Purposes, NEW r \in Requests, StoreCode(r), request[r].purpose = p
  PROVE  GuessInv(p)' /\ ResetInv(p)'
<1>1. /\ p \in Counters /\ p # "sends" /\ counter[p] \in 0..Cap
      /\ MaxAttempts - 1 \in Nat /\ R \in Nat /\ R >= 1
      /\ code \in [Purposes -> BOOLEAN] /\ guesses \in [Purposes -> Nat]
      /\ resets \in [Counters -> Nat]
  BY KeyTypes, LimitTypes DEF LimitsInv, LimitsTypeOK
<1>2. code'[p] = TRUE /\ guesses'[p] = 0 /\ resets'[p] = 0 /\ counter' = counter
  BY <1>1 DEF StoreCode
<1>3. /\ request'[r].at = "clear" /\ request'[r].key = "sends"
      /\ \A o \in Requests \ {r} : request'[o].key = p => ~request'[o].newest
  <2>1. ASSUME NEW o \in Requests \ {r}, request'[o].key = p
        PROVE  ~request'[o].newest
    <3>1. /\ request'[o].key = request[o].key
          /\ request'[o].newest = (request[o].newest /\ request[o].key # request[r].purpose)
      BY StoreRequest
    <3>. QED  BY <2>1, <3>1
  <2>. QED  BY <2>1, StoreRequest
<1>4. Fits(p, MaxAttempts - 1)' = {} /\ r \notin Late(p)'
  BY <1>1, <1>3 DEF Fits, Late, At, Key
<1>5. Within(0, p, MaxAttempts - 1, 0)'
  <2>1. Cardinality(Fits(p, MaxAttempts - 1)') = 0
    BY <1>4, FS_EmptySet
  <2>2. 0 * (MaxAttempts - 1) = 0 /\ Least(counter[p], MaxAttempts - 1) \in Nat
    BY <1>1 DEF Least
  <2>. QED  BY <1>2, <2>1, <2>2 DEF Within, Least
<1>6. GuessInv(p)'
  BY <1>2, <1>5 DEF GuessInv, Within
<1>7. Cardinality(Late(p)') <= R - 1 /\ Cardinality(Late(p)') \in Nat
  BY <1>4, CodeParts
<1>8. ResetInv(p)'
  BY <1>1, <1>2, <1>7 DEF ResetInv
<1>. QED  BY <1>6, <1>8

(* Clearing a counter that stands at c pays for at least the codes that c still let through. *)
LEMMA ClearedCount ==
  ASSUME NEW g \in Nat, NEW a \in Nat, NEW b \in Nat, NEW m \in Nat, NEW mm \in Nat,
         NEW c \in Nat, NEW lim \in Nat,
         b <= a, mm = IF c > 0 THEN m + lim ELSE m, g + a <= m + Least(c, lim) + 0
  PROVE  g + b <= mm + Least(0, lim) + 0
BY DEF Least

LEMMA AttemptsCleared ==
  ASSUME LimitsInv, NEW p \in Purposes, NEW r \in Requests, ClearAttempts(r),
         request[r].purpose = p, code[p]
  PROVE  /\ GuessInv(p) => GuessInv(p)'
         /\ ResetInv(p) => ResetInv(p)'
<1>1. /\ p \in Counters /\ counter[p] \in 0..Cap /\ resets[p] \in Nat /\ guesses[p] \in Nat
      /\ MaxAttempts - 1 \in Nat /\ R \in Nat /\ R >= 1
      /\ counter \in [Counters -> 0..Cap] /\ resets \in [Counters -> Nat]
  BY KeyTypes, LimitTypes DEF LimitsInv, LimitsTypeOK
<1>2. /\ code' = code /\ guesses' = guesses /\ counter'[p] = 0
      /\ resets'[p] = IF counter[p] > 0 THEN resets[p] + 1 ELSE resets[p]
  BY <1>1 DEF ClearAttempts, Dropped
<1>3. OtherStep
  BY DEF OtherStep
<1>4. ASSUME GuessInv(p)
      PROVE  GuessInv(p)'
  <2>1. Within(guesses[p], p, MaxAttempts - 1, 0)
    BY <1>4 DEF GuessInv
  <2>2. PICK a \in Nat, b \in Nat :
          /\ a = Cardinality(Fits(p, MaxAttempts - 1)) /\ b = Cardinality(Fits(p, MaxAttempts - 1)')
          /\ b <= a
    BY <1>1, <1>3, OnlyCountingAdds, Parts, PartsPrimed, PartSize, PartChanges
  <2>3. PICK m \in Nat, mm \in Nat :
          /\ m = resets[p] * (MaxAttempts - 1) /\ mm = resets'[p] * (MaxAttempts - 1)
          /\ mm = IF counter[p] > 0 THEN m + (MaxAttempts - 1) ELSE m
    BY <1>1, <1>2, NextMultiple
  <2>4. GuessInv(p)' <=> Within(guesses[p], p, MaxAttempts - 1, 0)'
    BY <1>2 DEF GuessInv, Within
  <2>5. Within(guesses[p], p, MaxAttempts - 1, 0)'
          <=> guesses[p] + b <= mm + Least(0, MaxAttempts - 1) + 0
    BY <1>2, <2>2, <2>3 DEF Within
  <2>6. guesses[p] + a <= m + Least(counter[p], MaxAttempts - 1) + 0
    BY <2>1, <2>2, <2>3 DEF Within
  <2>7. counter[p] \in Nat
    BY <1>1, LimitTypes
  <2>8. guesses[p] + b <= mm + Least(0, MaxAttempts - 1) + 0
    BY <1>1, <2>2, <2>3, <2>6, <2>7, ClearedCount
  <2>. QED  BY <2>4, <2>5, <2>8
<1>5. ASSUME ResetInv(p)
      PROVE  ResetInv(p)'
  <2>1. At(r, "clear") /\ ToClear(p)
    BY DEF ClearAttempts, ToClear
  <2>2. resets[p] + Cardinality(Late(p)) <= R - 1
    BY <1>5, <2>1 DEF ResetInv
  <2>3. request'[r].at = "mail" /\ \A o \in Requests \ {r} : request'[o] = request[o]
    BY DEF ClearAttempts, Go, LimitsInv, LimitsTypeOK, Request
  <2>4. ~ToClear(p)'
    <3>1. \A o \in Requests : At(o, "clear") => IsSending(o)
      BY DEF LimitsInv, Shaped, IsSending, At
    <3>2. \A o \in Requests \ {r} : ~At(o, "clear")
      BY <2>1, <3>1 DEF LimitsInv, OneSender
    <3>. QED  BY <2>3, <3>2 DEF ToClear, At
  <2>5. Cardinality(Late(p)') <= R - 1
    <3>1. r \notin Late(p)'
      BY <2>3 DEF Late, At
    <3>. QED  BY <3>1, CodeParts
  <2>. QED  BY <1>1, <1>2, <2>2, <2>4, <2>5, CodeParts DEF ResetInv
<1>. QED  BY <1>4, <1>5

(* A request at p compares its code, and is done. *)
LEMMA ComparedRequest ==
  ASSUME LimitsInv, NEW p \in Purposes, NEW r \in Requests, RightCode(r) \/ WrongCode(r), Key(r) = p
  PROVE  /\ request'[r] = Idle
         /\ r \notin Fits(p, MaxAttempts - 1)' /\ r \notin Guessers(p)'
         /\ request[r].newest => r \in Guessers(p)
         /\ request[r].newest /\ request[r].n < MaxAttempts => r \in Fits(p, MaxAttempts - 1)
<1>1. request'[r] = Idle /\ At(r, "counted") /\ request[r].n \in 0..Cap
  BY DEF RightCode, WrongCode, Compared, Done, LimitsInv, LimitsTypeOK, Request
<1>2. Idle.at = "idle" /\ ~Idle.newest
  BY DEF Idle
<1>3. request[r].n < MaxAttempts => request[r].n <= MaxAttempts - 1
  BY <1>1, LimitTypes
<1>. QED  BY <1>1, <1>2, <1>3 DEF Fits, Guessers, At, Key

(* As long as the code is there. *)
LEMMA GuessesWhileThere ==
  ASSUME LimitsInv, NEW p \in Purposes, GuessInv(p), LimitsStep, code[p],
         \A r \in Requests : StoreCode(r) => request[r].purpose # p
  PROVE  GuessInv(p)'
<1>1. /\ p \in Counters /\ counter[p] \in 0..Cap /\ resets[p] \in Nat
      /\ guesses[p] \in Nat /\ guesses'[p] \in Nat
      /\ MaxAttempts - 1 \in Nat /\ MaxAttempts - 1 < Cap /\ 0 \in Nat /\ R \in Nat
      /\ code \in [Purposes -> BOOLEAN] /\ guesses \in [Purposes -> Nat]
      /\ code' \in [Purposes -> BOOLEAN]
  BY KeyTypes, LimitsKept, LimitTypes DEF LimitsInv, LimitsTypeOK
<1>2. PICK x \in Nat, y \in Nat : x = guesses[p] /\ y = guesses'[p]
  BY <1>1
<1> DEFINE lim == MaxAttempts - 1
<1>3. lim \in Nat /\ lim < Cap
  BY <1>1
<1>4. Within(x, p, lim, 0)
  BY <1>2 DEF GuessInv
<1>5. code'[p] /\ Within(y, p, lim, 0)' => GuessInv(p)'
  BY <1>2 DEF GuessInv, Within
<1>6. ASSUME ~code'[p], resets'[p] = resets[p], guesses'[p] = guesses[p]
      PROVE  GuessInv(p)'
  BY <1>1, <1>6, GoneBound, CodeParts
<1> HIDE DEF lim
<1>7. ASSUME OtherStep, code'[p] = code[p], counter'[p] = counter[p], resets'[p] = resets[p], y = x
      PROVE  GuessInv(p)'
  BY <1>1, <1>3, <1>4, <1>5, <1>7, WithinKept
<1>8. ASSUME NEW r \in Requests, Count(r)
      PROVE  GuessInv(p)'
  <2>1. code' = code /\ guesses' = guesses
    BY <1>8, CountRequest
  <2>2. Within(x, p, lim, 0)'
    BY <1>1, <1>3, <1>4, <1>8, CountWithin
  <2>. QED  BY <1>2, <1>5, <2>1, <2>2
<1>9. CASE OtherStep /\ CalmCode(p)
  BY <1>2, <1>7, <1>9, CalmCodeFrame
<1>10. ASSUME NEW r \in Requests, SubmitCode(r, p), OtherStep
       PROVE  GuessInv(p)'
  BY <1>2, <1>7, <1>10 DEF SubmitCode, cache, history
<1>11. ASSUME NEW r \in Requests, ClearAttempts(r), request[r].purpose = p
       PROVE  GuessInv(p)'
  BY <1>11, AttemptsCleared
<1>12. ASSUME NEW r \in Requests, Mail(r), request[r].purpose = p, OtherStep
       PROVE  GuessInv(p)'
  <2>1. counter' = counter /\ resets' = resets /\ guesses' = guesses
    BY <1>12 DEF Mail, history
  <2>2. code'[p] = code[p] \/ ~code'[p]
    BY <1>1, <1>12 DEF Mail
  <2>. QED  BY <1>2, <1>6, <1>7, <1>12, <2>1, <2>2
<1>13. ASSUME NEW r \in Requests, RightCode(r), Key(r) = p
       PROVE  GuessInv(p)'
  <2>1. ~code'[p] /\ resets' = resets /\ guesses' = guesses
    BY <1>1, <1>13 DEF RightCode, history
  <2>. QED  BY <1>6, <2>1
<1>14. ASSUME NEW r \in Requests, WrongCode(r), Key(r) = p, OtherStep
       PROVE  GuessInv(p)'
  <2>1. /\ counter' = counter /\ resets' = resets
        /\ code'[p] = (code[p] /\ request[r].n < MaxAttempts)
        /\ guesses'[p] = IF request[r].newest THEN guesses[p] + 1 ELSE guesses[p]
    BY <1>1, <1>14 DEF WrongCode
  <2>2. CASE request[r].n < MaxAttempts
    <3>1. /\ r \notin Fits(p, lim)'
          /\ request[r].newest => r \in Fits(p, lim)
      BY <1>14, <2>2, ComparedRequest DEF lim
    <3>2. Within(y, p, lim, 0)'
      <4>1. y = (IF request[r].newest THEN x + 1 ELSE x)
        BY <1>2, <2>1
      <4>2. y <= x \/ (y = x + 1 /\ \E q \in Requests : q \in Fits(p, lim) /\ q \notin Fits(p, lim)')
        BY <3>1, <4>1
      <4>3. counter'[p] = counter[p] /\ resets'[p] = resets[p]
        BY <2>1
      <4>. QED  BY <1>1, <1>3, <1>4, <1>14, <4>2, <4>3, WithinKept
    <3>. QED  BY <1>5, <2>1, <2>2, <3>2
  <2>3. CASE ~(request[r].n < MaxAttempts)
    <3>1. ~code'[p] /\ resets'[p] = resets[p] /\ guesses'[p] <= guesses[p] + 1
      BY <1>1, <2>1, <2>3
    <3>2. Cardinality(Guessers(p)') <= R - 1
      BY <1>14, ComparedRequest, CodePartsChange
    <3>. QED  BY <1>1, <3>1, <3>2, GoneBound
  <2>. QED  BY <2>2, <2>3
<1>15. CASE EndCode(p)
  <2>1. ~code'[p] /\ resets' = resets /\ guesses' = guesses
    BY <1>1, <1>15 DEF EndCode, history
  <2>. QED  BY <1>6, <2>1
<1>16. ~EndAttempts(p)
  BY DEF EndAttempts
<1>17. CASE OtherStep
  BY <1>9, <1>10, <1>11, <1>12, <1>13, <1>14, <1>15, <1>16, <1>17, CodeCases
<1>. QED  BY <1>8, <1>17 DEF LimitsStep

(* Once the code is gone, only those compare that had read it. *)
LEMMA GuessesWhenGone ==
  ASSUME LimitsInv, NEW p \in Purposes, GuessInv(p), LimitsStep, ~code[p],
         \A r \in Requests : StoreCode(r) => request[r].purpose # p
  PROVE  GuessInv(p)'
<1>1. /\ p \in Counters /\ counter[p] \in 0..Cap /\ resets[p] \in Nat
      /\ guesses[p] \in Nat /\ guesses'[p] \in Nat
      /\ code \in [Purposes -> BOOLEAN] /\ guesses \in [Purposes -> Nat]
      /\ counter \in [Counters -> 0..Cap] /\ resets \in [Counters -> Nat]
  BY KeyTypes, LimitsKept, LimitTypes DEF LimitsInv, LimitsTypeOK
<1> DEFINE bound == (1 + resets[p]) * (MaxAttempts - 1) + R
<1>2. bound \in Nat
  <2>1. (1 + resets[p]) * (MaxAttempts - 1) \in Nat
    BY <1>1, LimitTypes, NextMultiple
  <2>. QED  BY <2>1, LimitTypes
<1>3. guesses[p] + Cardinality(Guessers(p)) <= bound
  BY DEF GuessInv
<1>4. ~code'[p] /\ resets'[p] = resets[p] /\ guesses'[p] + Cardinality(Guessers(p)') <= bound
        => GuessInv(p)'
  BY DEF GuessInv
<1> HIDE DEF bound
<1>5. \A r \in Requests : ~SubmitCode(r, p)
  BY DEF SubmitCode
<1>6. Guessers(p)' \subseteq Guessers(p)
  BY <1>5, OnlySubmitReads
<1>7. Cardinality(Guessers(p)') <= Cardinality(Guessers(p))
      /\ Cardinality(Guessers(p)) \in Nat /\ Cardinality(Guessers(p)') \in Nat
  <2>1. \E r \in Requests : TRUE
    BY LimitsAssumption
  <2>. QED  BY <1>6, <2>1, CodeParts, CodePartsChange
<1>8. ASSUME ~code'[p], resets'[p] = resets[p], guesses'[p] = guesses[p]
      PROVE  GuessInv(p)'
  BY <1>1, <1>2, <1>3, <1>4, <1>7, <1>8
<1>9. ASSUME NEW r \in Requests, Count(r)
      PROVE  GuessInv(p)'
  <2>1. code' = code /\ guesses' = guesses
    BY <1>9, CountRequest
  <2>2. resets'[p] = resets[p]
    BY <1>1, <1>9, CountLate
  <2>. QED  BY <1>8, <2>1, <2>2
<1>10. ASSUME NEW r \in Requests, ClearAttempts(r) \/ Mail(r), request[r].purpose = p
       PROVE  GuessInv(p)'
  <2>1. CASE ClearAttempts(r)
    BY <1>1, <1>8, <1>10, <2>1 DEF ClearAttempts, Dropped
  <2>2. CASE Mail(r)
    BY <1>1, <1>8, <1>10, <2>2 DEF Mail, history
  <2>. QED  BY <1>10, <2>1, <2>2
<1>11. ASSUME NEW r \in Requests, RightCode(r), Key(r) = p
       PROVE  GuessInv(p)'
  BY <1>1, <1>8, <1>11 DEF RightCode, history
<1>12. ASSUME NEW r \in Requests, WrongCode(r), Key(r) = p
       PROVE  GuessInv(p)'
  <2>1. /\ ~code'[p] /\ resets' = resets
        /\ guesses'[p] = IF request[r].newest THEN guesses[p] + 1 ELSE guesses[p]
    BY <1>1, <1>12 DEF WrongCode
  <2>2. request[r].newest => Cardinality(Guessers(p)') <= Cardinality(Guessers(p)) - 1
    BY <1>6, <1>12, ComparedRequest, CodePartsChange
  <2>3. guesses'[p] + Cardinality(Guessers(p)') <= bound
    BY <1>1, <1>2, <1>3, <1>7, <2>1, <2>2
  <2>. QED  BY <1>4, <2>1, <2>3
<1>13. CASE EndCode(p) \/ EndAttempts(p)
  BY <1>1, <1>8, <1>13 DEF EndCode, EndAttempts, history
<1>14. CASE CalmCode(p)
  BY <1>8, <1>14, CalmCodeFrame
<1>. QED
  BY <1>5, <1>9, <1>10, <1>11, <1>12, <1>13, <1>14, CodeCases DEF LimitsStep

(* Attempts are cleared for whoever stored the code. *)
LEMMA ClearersStored ==
  ASSUME LimitsInv, NEW p \in Purposes, LimitsStep,
         \A r \in Requests : StoreCode(r) => request[r].purpose # p
  PROVE  ToClear(p)' => ToClear(p)
<1>1. ASSUME NEW r \in Requests, \A o \in Requests \ {r} : request'[o] = request[o],
             request'[r].at # "clear"
      PROVE  ToClear(p)' => ToClear(p)
  BY <1>1 DEF ToClear, At
<1>2. ASSUME NEW r \in Requests, Count(r)
      PROVE  ToClear(p)' => ToClear(p)
  BY <1>1, <1>2, CountRequest DEF Counting
<1>3. ASSUME NEW r \in Requests, StoreCode(r)
      PROVE  ToClear(p)' => ToClear(p)
  <2>1. /\ request'[r].purpose # p
        /\ \A o \in Requests \ {r} : request'[o].at = request[o].at
                                     /\ request'[o].purpose = request[o].purpose
    BY <1>3, StoreRequest
  <2>. QED  BY <2>1 DEF ToClear, At
<1>4. CASE \/ EndCooldown \/ \E j \in Windows : EndWindow(j)
           \/ \E q \in Purposes : EndCode(q) \/ EndAttempts(q)
  <2>1. request' = request
    BY <1>4 DEF EndCooldown, EndWindow, EndCode, EndAttempts
  <2>. QED  BY <2>1 DEF ToClear, At
<1>5. ASSUME NEW r \in Requests,
             \/ \E q \in Purposes : AskForCode(r, q) \/ SubmitCode(r, q)
             \/ RefuseSend(r) \/ ClearAttempts(r) \/ Mail(r) \/ RightCode(r) \/ WrongCode(r)
             \/ Admit(r) \/ \E j \in Quotas : AskForQuota(r, j)
             \/ TryPassword(r) \/ Authenticate(r) \/ LoggedIn(r) \/ LoginRefused(r)
      PROVE  ToClear(p)' => ToClear(p)
  <2>1. /\ \A o \in Requests \ {r} : request'[o] = request[o]
        /\ \/ request'[r] = Idle \/ request'[r].at \in {"add", "password", "mail", "forget"}
    BY <1>5, StepRequest
  <2>2. request'[r].at # "clear"
    BY <2>1 DEF Idle
  <2>. QED  BY <1>1, <2>1, <2>2
<1>. QED  BY <1>2, <1>3, <1>4, <1>5 DEF LimitsStep, OtherStep

LEMMA ResetsKept ==
  ASSUME LimitsInv, NEW p \in Purposes, ResetInv(p), LimitsStep,
         \A r \in Requests : StoreCode(r) => request[r].purpose # p
  PROVE  ResetInv(p)'
<1>1. /\ p \in Counters /\ counter[p] \in 0..Cap /\ resets[p] \in Nat /\ resets'[p] \in Nat
      /\ code \in [Purposes -> BOOLEAN] /\ code' \in [Purposes -> BOOLEAN]
      /\ counter \in [Counters -> 0..Cap] /\ resets \in [Counters -> Nat]
      /\ R \in Nat /\ R >= 1
  BY KeyTypes, LimitsKept, LimitTypes DEF LimitsInv, LimitsTypeOK
<1>2. ToClear(p)' => ToClear(p)
  BY ClearersStored
<1>3. Cardinality(Late(p)) \in Nat /\ Cardinality(Late(p)') \in Nat
  BY CodeParts
<1>4. resets[p] <= 2 * R - 1
  BY <1>1, <1>3 DEF ResetInv
<1>5. ASSUME ~code'[p], resets'[p] = resets[p]
      PROVE  ResetInv(p)'
  BY <1>4, <1>5 DEF ResetInv
<1>6. ASSUME code[p], code'[p],
             resets'[p] + Cardinality(Late(p)') <= resets[p] + Cardinality(Late(p))
      PROVE  ResetInv(p)'
  BY <1>1, <1>2, <1>3, <1>6 DEF ResetInv
<1>7. ASSUME OtherStep, counter'[p] = counter[p], resets'[p] = resets[p], code'[p] = code[p]
      PROVE  ResetInv(p)'
  <2>1. Late(p)' \subseteq Late(p)
    BY <1>1, <1>7, OnlyCountingAdds
  <2>2. Cardinality(Late(p)') <= Cardinality(Late(p))
    <3>1. \E r \in Requests : TRUE
      BY LimitsAssumption
    <3>. QED  BY <2>1, <3>1, CodePartsChange
  <2>. QED  BY <1>1, <1>3, <1>5, <1>6, <1>7, <2>2
<1>8. ASSUME NEW r \in Requests, Count(r)
      PROVE  ResetInv(p)'
  <2>1. code' = code
    BY <1>8, CountRequest
  <2>2. /\ Late(p)' \subseteq Late(p)
        /\ \/ resets'[p] = resets[p]
           \/ resets'[p] = resets[p] + 1 /\ code[p] /\ r \in Late(p) /\ r \notin Late(p)'
    BY <1>1, <1>8, CountLate
  <2>3. resets'[p] + Cardinality(Late(p)') <= resets[p] + Cardinality(Late(p))
    BY <1>1, <1>3, <2>2, CodePartsChange
  <2>. QED  BY <1>5, <1>6, <2>1, <2>2, <2>3
<1>9. ASSUME NEW r \in Requests, ClearAttempts(r), request[r].purpose = p
      PROVE  ResetInv(p)'
  <2>1. CASE code[p]
    BY <1>9, <2>1, AttemptsCleared
  <2>2. CASE ~code[p]
    BY <1>1, <1>5, <1>9, <2>2 DEF ClearAttempts, Dropped
  <2>. QED  BY <2>1, <2>2
<1>10. ASSUME NEW r \in Requests, Mail(r), request[r].purpose = p, OtherStep
       PROVE  ResetInv(p)'
  <2>1. counter' = counter /\ resets' = resets
    BY <1>10 DEF Mail, history
  <2>2. code'[p] = code[p] \/ ~code'[p]
    BY <1>1, <1>10 DEF Mail
  <2>. QED  BY <1>5, <1>7, <1>10, <2>1, <2>2
<1>11. ASSUME NEW r \in Requests, RightCode(r), Key(r) = p
       PROVE  ResetInv(p)'
  BY <1>1, <1>5, <1>11 DEF RightCode, history
<1>12. ASSUME NEW r \in Requests, WrongCode(r), Key(r) = p, OtherStep
       PROVE  ResetInv(p)'
  <2>1. counter' = counter /\ resets' = resets
        /\ code'[p] = (code[p] /\ request[r].n < MaxAttempts)
    BY <1>1, <1>12 DEF WrongCode
  <2>2. code'[p] = code[p] \/ ~code'[p]
    BY <1>1, <2>1
  <2>. QED  BY <1>5, <1>7, <1>12, <2>1, <2>2
<1>13. CASE EndCode(p) \/ EndAttempts(p)
  BY <1>1, <1>5, <1>13 DEF EndCode, EndAttempts, history
<1>14. CASE OtherStep /\ CalmCode(p)
  BY <1>7, <1>14, CalmCodeFrame
<1>15. ASSUME NEW r \in Requests, SubmitCode(r, p), OtherStep
       PROVE  ResetInv(p)'
  BY <1>7, <1>15 DEF SubmitCode, cache, history
<1>. QED
  BY <1>8, <1>9, <1>10, <1>11, <1>12, <1>13, <1>14, <1>15, CodeCases DEF LimitsStep

LEMMA CodesKept ==
  ASSUME LimitsInv, NEW p \in Purposes, GuessInv(p), ResetInv(p), LimitsStep
  PROVE  GuessInv(p)' /\ ResetInv(p)'
<1>1. CASE \E r \in Requests : StoreCode(r) /\ request[r].purpose = p
  BY <1>1, StoredAnew
<1>2. CASE \A r \in Requests : StoreCode(r) => request[r].purpose # p
  BY <1>2, GuessesWhileThere, GuessesWhenGone, ResetsKept DEF LimitsInv, LimitsTypeOK
<1>. QED  BY <1>1, <1>2

-----------------------------------------------------------------------------
(* Together *)

BoundsInv ==
  /\ LimitsInv
  /\ \A p \in Purposes : GuessInv(p) /\ ResetInv(p)
  /\ \A k \in Quotas : QuotaInv(k)
  /\ SendInv /\ LoginInv
  /\ \A k \in Windows : ResetsFew(k)

LEMMA InitBounds == Init => BoundsInv
<1>. SUFFICES ASSUME Init PROVE BoundsInv
  OBVIOUS
<1>1. /\ code = [p \in Purposes |-> FALSE] /\ cooldown = FALSE
      /\ counter = [k \in Counters |-> 0] /\ request = [r \in Requests |-> Idle]
      /\ guesses = [p \in Purposes |-> 0] /\ granted = [k \in Windows |-> 0]
      /\ resets = [k \in Counters |-> 0]
  BY DEF Init, LimitsInit
<1>2. \A r \in Requests : request[r] = Idle
  BY <1>1
<1>3. Idle.at = "idle" /\ Idle.key = "none"
  BY DEF Idle
<1>4. LimitsTypeOK
  <2>1. 0 \in 0..Cap
    BY LimitTypes
  <2>. QED  BY <1>1, <2>1, NewRequests DEF LimitsTypeOK
<1>5. Shaped /\ OneSender
  BY <1>2, <1>3 DEF Shaped, OneSender, IsSending, At, Key, Counting
<1>6. /\ \A k, lim : Fits(k, lim) = {}
      /\ \A k : Setting(k) = {}
      /\ Trying = {} /\ Uncounted = {}
  BY <1>2, <1>3 DEF Fits, Setting, Trying, Uncounted, At
<1>7. Cardinality({}) = 0
  BY FS_EmptySet
<1>8. ASSUME NEW p \in Purposes
      PROVE  GuessInv(p) /\ ResetInv(p)
  <2>1. ~code[p] /\ guesses[p] = 0 /\ resets[p] = 0
    BY <1>1, KeyTypes
  <2>2. (1 + 0) * (MaxAttempts - 1) = MaxAttempts - 1
    BY LimitTypes
  <2>. QED  BY <2>1, <2>2, CodeParts, LimitTypes DEF GuessInv, ResetInv
<1>9. ASSUME NEW k \in Windows
      PROVE  counter[k] = 0 /\ resets[k] = 0 /\ granted[k] = 0
  BY <1>1, KeyTypes
<1>10. ASSUME NEW k \in Windows, NEW lim \in Nat, NEW slack \in Nat
       PROVE  Within(0, k, lim, slack)
  <2>1. Cardinality(Fits(k, lim)) = 0
    BY <1>6, <1>7
  <2>2. resets[k] * lim = 0 /\ Least(counter[k], lim) = 0
    BY <1>9, NextMultiple DEF Least
  <2>. QED  BY <2>1, <2>2 DEF Within
<1>11. \A k \in Quotas : QuotaInv(k)
  BY <1>9, <1>10, KeyTypes, LimitTypes DEF QuotaInv
<1>12. SendInv
  BY <1>9, <1>10, KeyTypes, LimitTypes DEF SendInv
<1>13. LoginInv
  <2>1. counter["login"] = 0 /\ resets["login"] = 0 /\ granted["login"] = 0
    BY <1>9, KeyTypes
  <2>2. MaxFailures + R - 1 \in Nat
    BY LimitTypes
  <2>3. resets["login"] * (MaxFailures + R - 1) = 0
    BY <2>1, <2>2, NextMultiple
  <2>. QED  BY <1>6, <1>7, <2>1, <2>3, LimitTypes DEF LoginInv
<1>14. \A k \in Windows : ResetsFew(k)
  BY <1>9 DEF ResetsFew
<1>. QED  BY <1>4, <1>5, <1>8, <1>11, <1>12, <1>13, <1>14 DEF BoundsInv, LimitsInv

LEMMA StepBounds ==
  ASSUME BoundsInv, [Next]_vars
  PROVE  BoundsInv'
<1>1. CASE LimitsStep
  BY <1>1, LimitsKept, CodesKept, QuotaKept, SendKept, LoginCounts, LoginOthers, ResetsStayFew
  DEF BoundsInv, LimitsStep
<1>2. CASE UNCHANGED limits
  BY <1>2
  DEF limits, BoundsInv, LimitsInv, LimitsTypeOK, Shaped, OneSender, IsSending, GuessInv, ResetInv,
      QuotaInv, SendInv, LoginInv, ResetsFew, Within, Least, Fits, Late, Setting, Guessers, ToClear,
      Trying, Uncounted, At, Key
<1>. QED  BY <1>1, <1>2, LimitsSteps DEF Next, vars

(* What the invariant says of one counter, without what is under way.      *)
LEMMA WithinBound ==
  ASSUME LimitsInv, NEW k \in Counters, NEW lim \in Nat, NEW slack \in Nat, NEW x \in Nat,
         Within(x, k, lim, slack)
  PROVE  x <= (1 + resets[k]) * lim + slack
<1>1. Cardinality(Fits(k, lim)) \in Nat /\ counter[k] \in 0..Cap /\ resets[k] \in Nat
  BY Parts, PartSize DEF LimitsInv, LimitsTypeOK
<1> DEFINE m == resets[k] * lim
<1>2. m \in Nat /\ (1 + resets[k]) * lim = m + lim
  BY <1>1, NextMultiple
<1>3. x + Cardinality(Fits(k, lim)) <= m + Least(counter[k], lim) + slack
  BY DEF Within
<1> HIDE DEF m
<1>. QED  BY <1>1, <1>2, <1>3 DEF Least

LEMMA BoundsGuesses == BoundsInv => GuessesBounded
<1>. SUFFICES ASSUME BoundsInv, NEW p \in Purposes
              PROVE  /\ guesses[p] <= (1 + resets[p]) * MaxAttempts + R - 1
                     /\ resets[p] <= 2 * R - 1
  BY DEF GuessesBounded
<1>1. /\ LimitsInv /\ GuessInv(p) /\ ResetInv(p) /\ p \in Counters
      /\ guesses[p] \in Nat /\ resets[p] \in Nat
  BY KeyTypes DEF BoundsInv, LimitsInv, LimitsTypeOK
<1>2. MaxAttempts \in Nat /\ MaxAttempts - 1 \in Nat /\ R \in Nat /\ R >= 1
  BY LimitTypes
<1> DEFINE m == (1 + resets[p]) * (MaxAttempts - 1)
<1>3. m \in Nat /\ (1 + resets[p]) * MaxAttempts = m + 1 + resets[p]
  BY <1>1, <1>2
<1>4. guesses[p] <= m + R
  <2>1. CASE code[p]
    <3>1. guesses[p] <= m + 0
      BY <1>1, <1>2, <2>1, WithinBound DEF GuessInv
    <3> HIDE DEF m
    <3>. QED  BY <1>1, <1>2, <1>3, <3>1
  <2>2. CASE ~code[p]
    <3>1. guesses[p] + Cardinality(Guessers(p)) <= m + R
      BY <1>1, <2>2 DEF GuessInv
    <3> HIDE DEF m
    <3>. QED  BY <1>1, <1>2, <1>3, <3>1, CodeParts
  <2>. QED  BY <2>1, <2>2
<1>5. resets[p] <= 2 * R - 1
  BY <1>1, <1>2, CodeParts DEF ResetInv
<1> HIDE DEF m
<1>. QED  BY <1>1, <1>2, <1>3, <1>4, <1>5

LEMMA BoundsWindows ==
  ASSUME BoundsInv, NEW k \in Windows
  PROVE  /\ granted[k] <= (1 + resets[k]) * Limit(k) + UnderWay(k)
         /\ resets[k] <= R - 1
<1>1. /\ LimitsInv /\ ResetsFew(k) /\ k \in Counters
      /\ counter[k] \in 0..Cap /\ granted[k] \in Nat /\ resets[k] \in Nat
  BY KeyTypes DEF BoundsInv, LimitsInv, LimitsTypeOK
<1>2. resets[k] <= R - 1
  BY <1>1, Parts, PartSize, LimitTypes DEF ResetsFew
<1>3. CASE k = "sends"
  <2>1. Limit(k) = MaxSends /\ UnderWay(k) = 1
    BY <1>3 DEF Limit, UnderWay
  <2>2. granted[k] <= (1 + resets[k]) * MaxSends + 1
    BY <1>1, <1>3, WithinBound, LimitTypes DEF BoundsInv, SendInv
  <2>. QED  BY <1>2, <2>1, <2>2
<1>4. CASE k = "login"
  <2>1. Limit(k) = MaxFailures /\ UnderWay(k) = (1 + resets[k]) * (R - 1)
    BY <1>4 DEF Limit, UnderWay
  <2> DEFINE w == MaxFailures + R - 1
             m == resets[k] * w
  <2>2. m \in Nat /\ (resets[k] + 1) * w = m + w /\ w \in Nat
    BY <1>1, LimitTypes, NextMultiple
  <2>3. granted[k] <= m + w
    <3>1. IF counter[k] < MaxFailures
          THEN granted[k] <= m + counter[k] + Cardinality(Uncounted)
          ELSE granted[k] + Cardinality(Trying) <= m + w
      BY <1>4, <2>2 DEF BoundsInv, LoginInv
    <3>2. w = MaxFailures + R - 1
      OBVIOUS
    <3> HIDE DEF m, w
    <3>. QED  BY <1>1, <2>2, <3>1, <3>2, LoginParts, LimitTypes
  <2>4. (1 + resets[k]) * MaxFailures + (1 + resets[k]) * (R - 1) = (resets[k] + 1) * w
    BY <1>1, LimitTypes
  <2>. QED  BY <1>2, <2>1, <2>2, <2>3, <2>4
<1>5. CASE k # "sends" /\ k # "login"
  <2>1. Limit(k) = RateLimit /\ UnderWay(k) = R /\ k \in Quotas
    BY <1>5 DEF Limit, UnderWay, Windows
  <2>2. granted[k] <= (1 + resets[k]) * RateLimit + R
    BY <1>1, <2>1, WithinBound, LimitTypes DEF BoundsInv, QuotaInv
  <2>. QED  BY <1>2, <2>1, <2>2
<1>. QED  BY <1>3, <1>4, <1>5

(* verify_email_verification_code: however many requests overlap, the      *)
(* wrong codes compared with one code stay within the limit, once more for *)
(* every dropped count, and one for each of the others.                    *)
THEOREM CodeGuessesAreBounded == Spec => []GuessesBounded
<1>1. BoundsInv /\ [Next]_vars => BoundsInv'
  BY StepBounds
<1>. QED  BY InitBounds, BoundsGuesses, <1>1, PTL DEF Spec

-----------------------------------------------------------------------------
(* The invitations *)

(* A token that was not issued, and the newest as long as the row says it  *)
(* is not accepted, has activated nothing.                                 *)
UnacceptedUnused ==
  /\ \A t \in Tokens : t > invitation.token => used[t] = 0
  /\ ~invitation.accepted => used[invitation.token] = 0

TokenInv == LifecycleTypeOK /\ UnacceptedUnused

USE LifecycleAssumption DEF Tokens

LEMMA InitTokens == Init => TokenInv
BY DEF Init, LifecycleInit, TokenInv, LifecycleTypeOK, UnacceptedUnused, NoDesk

(* What an operator reads and drops changes nothing but his own slot.      *)
LEMMA ReadKeepsTokens ==
  ASSUME TokenInv, NEW d \in Desks, NEW goal \in BOOLEAN,
         NEW purpose \in {"issue", "check", "save"}, Read(d, purpose, goal)
  PROVE  TokenInv'
BY DEF TokenInv, LifecycleTypeOK, UnacceptedUnused, Read

LEMMA CheckKeepsTokens ==
  ASSUME TokenInv, NEW d \in Desks, CheckInvitation(d)
  PROVE  TokenInv'
<1>1. CASE desk' = [desk EXCEPT ![d] = NoDesk]
  BY <1>1 DEF TokenInv, LifecycleTypeOK, UnacceptedUnused, CheckInvitation, NoDesk
<1>2. CASE desk' = [desk EXCEPT ![d].at = "switch"]
  <2>1. desk' \in [Desks -> [at : {"idle", "issue", "check", "switch", "save"}, goal : BOOLEAN,
                           active : BOOLEAN, password : 0..MaxTokens]]
    BY <1>2 DEF TokenInv, LifecycleTypeOK
  <2>. QED  BY <2>1 DEF TokenInv, LifecycleTypeOK, UnacceptedUnused, CheckInvitation
<1>. QED  BY <1>1, <1>2 DEF CheckInvitation, Close

LEMMA IssueKeepsTokens ==
  ASSUME TokenInv, NEW d \in Desks, Issue(d)
  PROVE  TokenInv'
<1>1. LifecycleTypeOK'
  BY DEF TokenInv, LifecycleTypeOK, Issue, Close, NoDesk
<1>2. UnacceptedUnused'
  BY DEF TokenInv, LifecycleTypeOK, UnacceptedUnused, Issue
<1>. QED  BY <1>1, <1>2 DEF TokenInv

LEMMA WriteKeepsTokens ==
  ASSUME TokenInv, NEW d \in Desks, Switch(d) \/ SaveForm(d)
  PROVE  TokenInv'
<1>1. LifecycleTypeOK'
  <2>1. desk' \in [Desks -> [at : {"idle", "issue", "check", "switch", "save"}, goal : BOOLEAN,
                           active : BOOLEAN, password : 0..MaxTokens]]
    <3>1. desk' = [desk EXCEPT ![d] = NoDesk]
      BY DEF Switch, SaveForm, Close
    <3>. QED  BY <3>1 DEF TokenInv, LifecycleTypeOK, NoDesk
  <2>2. desk[d].goal \in BOOLEAN /\ desk[d].password \in 0..MaxTokens
    BY DEF TokenInv, LifecycleTypeOK
  <2>3. account' \in [active : BOOLEAN, password : 0..MaxTokens]
    <3>1. CASE Switch(d)
      BY <3>1, <2>2 DEF TokenInv, LifecycleTypeOK, Switch
    <3>2. CASE SaveForm(d)
      BY <3>2, <2>2 DEF SaveForm
    <3>. QED  BY <3>1, <3>2
  <2>. QED  BY <2>1, <2>3 DEF TokenInv, LifecycleTypeOK, Switch, SaveForm
<1>2. UnacceptedUnused'
  BY DEF TokenInv, UnacceptedUnused, Switch, SaveForm
<1>. QED  BY <1>1, <1>2 DEF TokenInv

LEMMA MailKeepsTokens ==
  ASSUME TokenInv, Expire \/ \E t \in Tokens : Deliver(t)
  PROVE  TokenInv'
BY DEF TokenInv, LifecycleTypeOK, UnacceptedUnused, Expire, Deliver

LEMMA OpenPageKeepsTokens ==
  ASSUME TokenInv, NEW v \in Visitors, NEW t \in Tokens, OpenPage(v, t)
  PROVE  TokenInv'
BY DEF TokenInv, LifecycleTypeOK, UnacceptedUnused, OpenPage

(* The second look, under the lock, is what the proof rests on: the token  *)
(* is the newest and not accepted, hence unused.                           *)
LEMMA AcceptKeepsTokens ==
  ASSUME TokenInv, NEW v \in Visitors, Accept(v)
  PROVE  /\ TokenInv'
         /\ \A t \in Tokens : used'[t] # used[t] => used'[t] = 1 /\ t = invitation.token
<1>1. CASE ~Open(visitor[v])
  BY <1>1 DEF TokenInv, LifecycleTypeOK, UnacceptedUnused, Accept
<1>2. CASE Open(visitor[v])
  <2>1. visitor[v] = invitation.token /\ used[invitation.token] = 0 /\ invitation.token \in Tokens
    BY <1>2 DEF TokenInv, LifecycleTypeOK, UnacceptedUnused, Open
  <2>2. /\ account' = [active |-> TRUE, password |-> invitation.token]
        /\ invitation' = [invitation EXCEPT !.accepted = TRUE]
        /\ used' = [used EXCEPT ![invitation.token] = @ + 1]
        /\ visitor' = [visitor EXCEPT ![v] = 0]
        /\ UNCHANGED <<mailed, desk>>
    BY <1>2, <2>1 DEF Accept, Activate
  <2>3. LifecycleTypeOK'
    <3>1. account' \in [active : BOOLEAN, password : 0..MaxTokens]
      BY <2>1, <2>2
    <3>2. used' \in [Tokens -> Nat] /\ visitor' \in [Visitors -> 0..MaxTokens]
      BY <2>1, <2>2 DEF TokenInv, LifecycleTypeOK
    <3>. QED  BY <2>2, <3>1, <3>2 DEF TokenInv, LifecycleTypeOK
  <2>4. UnacceptedUnused'
    BY <2>1, <2>2 DEF TokenInv, LifecycleTypeOK, UnacceptedUnused
  <2>5. \A t \in Tokens : used'[t] # used[t] => used'[t] = 1 /\ t = invitation.token
    BY <2>1, <2>2 DEF TokenInv, LifecycleTypeOK
  <2>. QED  BY <2>3, <2>4, <2>5 DEF TokenInv
<1>. QED  BY <1>1, <1>2

LEMMA StepTokens ==
  ASSUME TokenInv, [Next]_vars
  PROVE  /\ TokenInv'
         /\ \A t \in Tokens : used'[t] # used[t] => used'[t] = 1 /\ t = invitation.token
<1>1. CASE UNCHANGED lifecycle
  BY <1>1 DEF TokenInv, LifecycleTypeOK, UnacceptedUnused, lifecycle
<1>2. ASSUME NEW d \in Desks,
             OpenResend(d) \/ \E goal \in BOOLEAN : OpenSwitch(d, goal) \/ OpenForm(d, goal)
      PROVE  TokenInv' /\ used' = used
  BY <1>2, ReadKeepsTokens DEF OpenResend, OpenSwitch, OpenForm, Read
<1>3. ASSUME NEW d \in Desks, Issue(d)
      PROVE  TokenInv' /\ used' = used
  BY <1>3, IssueKeepsTokens DEF Issue
<1>4. ASSUME NEW d \in Desks, CheckInvitation(d)
      PROVE  TokenInv' /\ used' = used
  BY <1>4, CheckKeepsTokens DEF CheckInvitation
<1>5. ASSUME NEW d \in Desks, Switch(d) \/ SaveForm(d)
      PROVE  TokenInv' /\ used' = used
  BY <1>5, WriteKeepsTokens DEF Switch, SaveForm
<1>6. ASSUME Expire \/ \E t \in Tokens : Deliver(t)
      PROVE  TokenInv' /\ used' = used
  BY <1>6, MailKeepsTokens DEF Expire, Deliver
<1>7. ASSUME NEW v \in Visitors, NEW t \in Tokens, OpenPage(v, t)
      PROVE  TokenInv' /\ used' = used
  BY <1>7, OpenPageKeepsTokens DEF OpenPage
<1>8. CASE \E v \in Visitors : Accept(v)
  BY <1>8, AcceptKeepsTokens
<1>. QED
  BY <1>1, <1>2, <1>3, <1>4, <1>5, <1>6, <1>7, <1>8 DEF Next, vars, lifecycle, LifecycleSteps

(* accept_account_invitation: whatever operators and visitors do, and in   *)
(* whatever order, a token activates the account at most once, and only    *)
(* while it is the newest.                                                 *)
THEOREM TokensActivateOnce == Spec => TokensOnce
<1>1. TokenInv /\ [Next]_vars => TokenInv'
  BY StepTokens
<1>2. TokenInv /\ [Next]_vars
        => [\A t \in Tokens : used'[t] # used[t] => used'[t] = 1 /\ t = invitation.token]_vars
  BY StepTokens
<1>. QED  BY InitTokens, <1>1, <1>2, PTL DEF Spec, TokensOnce

(* _increment_cache_counter and the checks behind it: in one window no     *)
(* limit lets more through than once its own, again for every dropped      *)
(* count, and what was under way; and fewer counts are dropped than there  *)
(* are requests.                                                           *)
THEOREM WindowsAreBounded == Spec => []WindowsBounded
<1>1. BoundsInv /\ TokenInv /\ [Next]_vars => (BoundsInv /\ TokenInv)'
  BY StepBounds, StepTokens
<1>2. BoundsInv /\ TokenInv => WindowsBounded
  BY BoundsWindows DEF WindowsBounded, TypeOK, BoundsInv, LimitsInv, TokenInv
<1>. QED  BY InitBounds, InitTokens, <1>1, <1>2, PTL DEF Spec
=============================================================================
