--------------------------- MODULE MfaAccessProofs ---------------------------
(***************************************************************************)
(* Every code of the second factor counts once, the wrong codes that are   *)
(* tried are bounded, and sessions follow the seed in force, for any       *)
(* number of browsers, seeds, time steps and certificates.                 *)
(***************************************************************************)
EXTENDS MfaAccess, FiniteSetTheorems, TLAPS

Device == [status : {"none", "pending", "active", "revoked"}, seed : {0} \union Seeds,
           version : Nat, last : {NoStep} \union Steps, expired : BOOLEAN]

Certificate == [id : 0..MaxBindings, version : Nat, active : BOOLEAN]

SessionEntry ==
  [user : BOOLEAN, newest : BOOLEAN, mode : {"none", "pending", "full", "enrollment", "recovery"},
   version : Versions, remembered : Versions, certificate : Certificate]

Answering ==
  [pc : {"idle", "verify", "login", "finish", "start", "confirm", "mark", "revoke",
         "forget", "consume", "add", "incr", "set", "lock"},
   kind : {"none", "challenge", "recovery", "stepup"},
   version : Versions, seed : {0} \union Seeds, newest : BOOLEAN]

-----------------------------------------------------------------------------
(* The device, and the codes it has accepted *)

(* What a device may still accept has not been used: of its seed the steps *)
(* after the last one, as long as it is active the recovery codes, and of  *)
(* a pending one everything; and all of the seeds not drawn yet.           *)
Unspent ==
  /\ \A q \in Seeds, s \in Steps \union {Recovery} : q > device.seed => uses[<<q, s>>] = 0
  /\ Active => /\ uses[<<device.seed, Recovery>>] = 0
               /\ \A s \in Steps : s > device.last => uses[<<device.seed, s>>] = 0
  /\ device.status = "pending" =>
       \A s \in Steps \union {Recovery} : uses[<<device.seed, s>>] = 0

DeviceInv ==
  /\ device \in Device
  /\ device.status \in {"pending", "active"} => device.seed \in Seeds
  /\ codes = IF Active THEN {device.seed} ELSE {}
  /\ now \in 1..MaxStep
  /\ uses \in [Code -> Nat] /\ proved \in [Browsers -> SUBSET Seeds]
  /\ Unspent
  /\ \A c \in Code : uses[c] <= 1

USE MfaAssumption

LEMMA InitDevice == Init => DeviceInv
<1>. SUFFICES ASSUME Init PROVE DeviceInv
  OBVIOUS
<1>1. 1 \in Seeds /\ NoStep \notin Steps
  BY DEF Seeds, Steps, NoStep
<1>2. \/ /\ device = [status |-> "none", seed |-> 0, version |-> 0, last |-> NoStep, expired |-> FALSE]
         /\ codes = {}
      \/ /\ device = [status |-> "active", seed |-> 1, version |-> 0, last |-> NoStep, expired |-> FALSE]
         /\ codes = {1}
  BY DEF Init, NoDevice
<1>3. /\ device \in Device
      /\ device.status \in {"pending", "active"} => device.seed \in Seeds
      /\ device.status # "pending"
      /\ codes = IF Active THEN {device.seed} ELSE {}
  <2>1. CASE device = [status |-> "none", seed |-> 0, version |-> 0, last |-> NoStep, expired |-> FALSE]
    BY <1>2, <2>1 DEF Device, Active
  <2>2. CASE device = [status |-> "active", seed |-> 1, version |-> 0, last |-> NoStep, expired |-> FALSE]
    BY <1>1, <1>2, <2>2 DEF Device, Active
  <2>. QED  BY <1>2, <2>1, <2>2
<1>4. uses = [c \in Code |-> 0] /\ proved = [b \in Browsers |-> {}] /\ now = 1
  BY DEF Init
<1>5. \A q \in Seeds, s \in Steps \union {Recovery} : uses[<<q, s>>] = 0
  BY <1>4 DEF Code
<1>6. Unspent
  BY <1>3, <1>5 DEF Unspent, Active
<1>7. \A c \in Code : uses[c] <= 1
  BY <1>4
<1>8. now \in 1..MaxStep /\ uses \in [Code -> Nat] /\ proved \in [Browsers -> SUBSET Seeds]
  BY <1>4
<1>. QED  BY <1>3, <1>6, <1>7, <1>8 DEF DeviceInv

(* A code is accepted that was not used before.                            *)
LEMMA AcceptUnused ==
  ASSUME DeviceInv, NEW b \in Browsers, NEW s \in Steps \union {Recovery},
         device.seed \in Seeds, uses[<<device.seed, s>>] = 0, Accept(b, <<device.seed, s>>)
  PROVE  /\ uses' \in [Code -> Nat] /\ proved' \in [Browsers -> SUBSET Seeds]
         /\ \A c \in Code : uses'[c] <= 1
         /\ \A q \in Seeds, t \in Steps \union {Recovery} :
              <<q, t>> # <<device.seed, s>> => uses'[<<q, t>>] = uses[<<q, t>>]
<1> DEFINE spent == <<device.seed, s>>
<1>1. spent \in Code /\ spent[1] \in Seeds
  BY DEF Code
<1>2. uses' = [uses EXCEPT ![spent] = uses[spent] + 1]
  BY DEF Accept
<1>3. proved' \in [Browsers -> SUBSET Seeds]
  BY <1>1 DEF Accept, DeviceInv
<1>4. \A q \in Seeds, t \in Steps \union {Recovery} : <<q, t>> \in Code
  BY DEF Code
<1> HIDE DEF spent
<1>5. uses[spent] = 0
  BY DEF spent
<1>6. uses' = [uses EXCEPT ![spent] = 1]
  BY <1>2, <1>5
<1>. QED  BY <1>1, <1>3, <1>4, <1>5, <1>6 DEF DeviceInv, spent

-----------------------------------------------------------------------------
(* The steps that touch the device *)

(* The codes of this moment are of steps the bound allows.                 *)
LEMMA WindowInSteps ==
  ASSUME now \in 1..MaxStep, NEW b \in Browsers, NEW s, Matches(b, s)
  PROVE  s \in Steps /\ s # Recovery
BY DEF Matches, Window, Steps, Recovery

LEMMA EraseKeeps ==
  ASSUME DeviceInv, Erase
  PROVE  /\ device' \in Device /\ device'.status = "revoked" /\ device'.seed = device.seed
         /\ codes' = {}
<1>1. device' = [device EXCEPT !.status = "revoked", !.last = NoStep, !.version = device.version + 1]
  BY DEF Erase, Erased
<1>2. PICK q \in {0} \union Seeds, v \in Nat, e \in BOOLEAN :
        device.seed = q /\ device.version = v /\ device.expired = e
  BY DEF DeviceInv, Device
<1>3. device' = [status |-> "revoked", seed |-> q, version |-> v + 1, last |-> NoStep, expired |-> e]
  BY <1>1, <1>2 DEF DeviceInv, Device
<1>4. v + 1 \in Nat
  OBVIOUS
<1>. QED  BY <1>2, <1>3, <1>4 DEF Device, Erase

LEMMA VerifyDevice ==
  ASSUME DeviceInv, NEW b \in Browsers, NEW s, Verify(b, s)
  PROVE  DeviceInv'
<1>1. CASE ~(Active /\ Fresh(b, s))
  BY <1>1 DEF DeviceInv, Unspent, Active, Verify
<1>2. CASE Active /\ Fresh(b, s)
  <2>1. s \in Steps /\ s > device.last /\ s # Recovery
    BY <1>2, WindowInSteps DEF Fresh, DeviceInv
  <2>2. device.seed \in Seeds /\ uses[<<device.seed, s>>] = 0
    BY <1>2, <2>1 DEF DeviceInv, Unspent, Active
  <2>3. device' = [device EXCEPT !.last = s] /\ Accept(b, <<device.seed, s>>)
        /\ codes' = codes /\ now' = now
    BY <1>2 DEF Verify
  <2>4. /\ device' \in Device /\ device'.status = device.status /\ device'.seed = device.seed
        /\ device'.last = s
    BY <2>1, <2>3 DEF DeviceInv, Device
  <2>5. /\ uses' \in [Code -> Nat] /\ proved' \in [Browsers -> SUBSET Seeds]
        /\ \A c \in Code : uses'[c] <= 1
        /\ \A q \in Seeds, t \in Steps \union {Recovery} :
             <<q, t>> # <<device.seed, s>> => uses'[<<q, t>>] = uses[<<q, t>>]
    BY <2>1, <2>2, <2>3, AcceptUnused
  <2>6. Unspent'
    <3>1. ASSUME NEW q \in Seeds, NEW t \in Steps \union {Recovery}, q > device.seed
          PROVE  uses'[<<q, t>>] = 0
      BY <2>2, <2>5, <3>1 DEF DeviceInv, Unspent, Seeds
    <3>2. uses'[<<device.seed, Recovery>>] = 0
      BY <1>2, <2>1, <2>2, <2>5 DEF DeviceInv, Unspent
    <3>3. ASSUME NEW t \in Steps, t > s
          PROVE  uses'[<<device.seed, t>>] = 0
      <4>1. t > device.last /\ t # s
        BY <2>1, <3>3 DEF DeviceInv, Device, Steps, NoStep
      <4>. QED  BY <1>2, <2>2, <2>5, <4>1 DEF DeviceInv, Unspent
    <3>4. device'.status # "pending"
      BY <1>2, <2>4 DEF Active
    <3>. QED  BY <2>4, <3>1, <3>2, <3>3, <3>4 DEF Unspent, Active
  <2>. QED  BY <1>2, <2>2, <2>3, <2>4, <2>5, <2>6 DEF DeviceInv, Active
<1>. QED  BY <1>1, <1>2

(* A revoked device accepts nothing, so what it has accepted no longer     *)
(* matters, as long as every code was accepted once.                       *)
LEMMA ErasedInv ==
  ASSUME DeviceInv, Erase, now' = now,
         uses' \in [Code -> Nat], proved' \in [Browsers -> SUBSET Seeds],
         \A c \in Code : uses'[c] <= 1,
         \A q \in Seeds, t \in Steps \union {Recovery} :
           q > device.seed => uses'[<<q, t>>] = uses[<<q, t>>]
  PROVE  DeviceInv'
<1>1. /\ device' \in Device /\ device'.status = "revoked" /\ device'.seed = device.seed
      /\ codes' = {}
  BY EraseKeeps
<1>2. Unspent'
  BY <1>1 DEF DeviceInv, Unspent, Active
<1>. QED  BY <1>1, <1>2 DEF DeviceInv, Active

(* Erasing the device with the code that allows it.                        *)
LEMMA EraseAccepting ==
  ASSUME DeviceInv, NEW b \in Browsers, NEW s \in Steps \union {Recovery},
         device.seed \in Seeds, uses[<<device.seed, s>>] = 0,
         Accept(b, <<device.seed, s>>), Erase, now' = now
  PROVE  DeviceInv'
<1>1. /\ uses' \in [Code -> Nat] /\ proved' \in [Browsers -> SUBSET Seeds]
      /\ \A c \in Code : uses'[c] <= 1
      /\ \A q \in Seeds, t \in Steps \union {Recovery} :
           <<q, t>> # <<device.seed, s>> => uses'[<<q, t>>] = uses[<<q, t>>]
  BY AcceptUnused
<1>2. \A q \in Seeds, t \in Steps \union {Recovery} :
        q > device.seed => uses'[<<q, t>>] = uses[<<q, t>>]
  BY <1>1 DEF Seeds
<1>. QED  BY <1>1, <1>2, ErasedInv

LEMMA RecoverDevice ==
  ASSUME DeviceInv, NEW b \in Browsers, NEW right \in BOOLEAN, Recover(b, right)
  PROVE  DeviceInv'
<1>1. CASE ~(Active /\ right /\ request[b].seed \in codes)
  BY <1>1 DEF DeviceInv, Unspent, Active, Recover
<1>2. CASE Active /\ right /\ request[b].seed \in codes
  <2>1. Accept(b, <<device.seed, Recovery>>) /\ Erase /\ now' = now
    BY <1>2 DEF Recover
  <2>2. device.seed \in Seeds /\ uses[<<device.seed, Recovery>>] = 0
    BY <1>2 DEF DeviceInv, Unspent, Active
  <2>. QED  BY <2>1, <2>2, EraseAccepting
<1>. QED  BY <1>1, <1>2

LEMMA RevokeDevice ==
  ASSUME DeviceInv, NEW b \in Browsers, NEW s, Revoke(b, s)
  PROVE  DeviceInv'
<1>1. CASE ~(device.status \in {"pending", "active"} /\ Fresh(b, s))
  BY <1>1 DEF DeviceInv, Unspent, Active, Revoke
<1>2. CASE device.status \in {"pending", "active"} /\ Fresh(b, s)
  <2>1. Accept(b, <<device.seed, s>>) /\ Erase /\ now' = now
    BY <1>2 DEF Revoke
  <2>2. s \in Steps /\ s > device.last
    BY <1>2, WindowInSteps DEF Fresh, DeviceInv
  <2>3. device.seed \in Seeds /\ uses[<<device.seed, s>>] = 0
    BY <1>2, <2>2 DEF DeviceInv, Unspent, Active
  <2>. QED  BY <2>1, <2>2, <2>3, EraseAccepting
<1>. QED  BY <1>1, <1>2

LEMMA ConfirmDevice ==
  ASSUME DeviceInv, NEW b \in Browsers, NEW s, Confirm(b, s)
  PROVE  DeviceInv'
<1>1. CASE device.status = "pending" /\ ~device.expired /\ Matches(b, s)
  <2>1. s \in Steps /\ s # Recovery
    BY <1>1, WindowInSteps DEF DeviceInv
  <2>2. /\ device' = [device EXCEPT !.status = "active", !.last = s]
        /\ Accept(b, <<device.seed, s>>) /\ codes' = {device.seed} /\ now' = now
    BY <1>1 DEF Confirm
  <2>3. device.seed \in Seeds /\ \A t \in Steps \union {Recovery} : uses[<<device.seed, t>>] = 0
    BY <1>1 DEF DeviceInv, Unspent
  <2>4. /\ device' \in Device /\ device'.status = "active" /\ device'.seed = device.seed
        /\ device'.last = s
    <3>1. PICK q \in {0} \union Seeds, v \in Nat, e \in BOOLEAN :
            device' = [status |-> "active", seed |-> q, version |-> v, last |-> s, expired |-> e]
      BY <2>2 DEF DeviceInv, Device
    <3>2. device'.seed = device.seed
      BY <2>2 DEF DeviceInv, Device
    <3>. QED  BY <2>1, <3>1, <3>2 DEF Device
  <2>5. /\ uses' \in [Code -> Nat] /\ proved' \in [Browsers -> SUBSET Seeds]
        /\ \A c \in Code : uses'[c] <= 1
        /\ \A q \in Seeds, t \in Steps \union {Recovery} :
             <<q, t>> # <<device.seed, s>> => uses'[<<q, t>>] = uses[<<q, t>>]
    BY <2>1, <2>2, <2>3, AcceptUnused
  <2>6. Unspent'
    <3>1. ASSUME NEW q \in Seeds, NEW t \in Steps \union {Recovery}, q > device.seed
          PROVE  uses'[<<q, t>>] = 0
      BY <2>3, <2>5, <3>1 DEF DeviceInv, Unspent, Seeds
    <3>2. uses'[<<device.seed, Recovery>>] = 0
      BY <2>1, <2>3, <2>5
    <3>3. ASSUME NEW t \in Steps, t > s
          PROVE  uses'[<<device.seed, t>>] = 0
      BY <2>1, <2>3, <2>5, <3>3 DEF Steps
    <3>. QED  BY <2>4, <3>1, <3>2, <3>3 DEF Unspent, Active
  <2>. QED  BY <2>2, <2>3, <2>4, <2>5, <2>6 DEF DeviceInv, Active
<1>2. CASE device.status = "pending" /\ device.expired
  <2>1. Erase /\ UNCHANGED <<uses, proved, now>>
    BY <1>2 DEF Confirm
  <2>. QED  BY <2>1, ErasedInv DEF DeviceInv
<1>3. CASE /\ ~(device.status = "pending" /\ ~device.expired /\ Matches(b, s))
           /\ ~(device.status = "pending" /\ device.expired)
  BY <1>3 DEF DeviceInv, Unspent, Active, Confirm
<1>. QED  BY <1>1, <1>2, <1>3

LEMMA StartDevice ==
  ASSUME DeviceInv, NEW b \in Browsers, Start(b)
  PROVE  DeviceInv'
<1>1. CASE Active
  BY <1>1 DEF DeviceInv, Unspent, Active, Start
<1>2. CASE ~Active
  <2> DEFINE next == NextSeed
  <2>1. next \in Seeds /\ next = device.seed + 1
    BY DEF Start, NextSeed
  <2> HIDE DEF next
  <2>2. /\ device' = [device EXCEPT !.status = "pending", !.seed = next, !.last = NoStep, !.expired = FALSE]
        /\ codes' = {} /\ UNCHANGED <<now, uses, proved>>
    BY <1>2 DEF Start, next
  <2>3. device' \in Device /\ device'.status = "pending" /\ device'.seed = next
    <3>1. PICK v \in Nat :
            device' = [status |-> "pending", seed |-> next, version |-> v, last |-> NoStep, expired |-> FALSE]
      BY <2>2 DEF DeviceInv, Device
    <3>. QED  BY <2>1, <3>1 DEF Device
  <2>4. next > device.seed /\ \A q \in Seeds : q > next => q > device.seed
    BY <2>1 DEF DeviceInv, Device, Seeds
  <2>5. Unspent'
    BY <2>1, <2>2, <2>3, <2>4 DEF DeviceInv, Unspent, Active
  <2>. QED  BY <2>1, <2>2, <2>3, <2>5 DEF DeviceInv, Active
<1>. QED  BY <1>1, <1>2

LEMMA SurroundingsDevice ==
  ASSUME DeviceInv, PendingExpires \/ RevokeByOperator \/ Tick
  PROVE  DeviceInv'
<1>1. CASE PendingExpires
  <2>1. device' \in Device
    BY <1>1 DEF PendingExpires, DeviceInv, Device
  <2>2. device'.status = device.status /\ device'.seed = device.seed /\ device'.last = device.last
    BY <1>1 DEF PendingExpires, DeviceInv, Device
  <2>. QED  BY <1>1, <2>1, <2>2 DEF PendingExpires, DeviceInv, Unspent, Active
<1>2. CASE RevokeByOperator
  BY <1>2, ErasedInv DEF RevokeByOperator, DeviceInv
<1>3. CASE Tick
  BY <1>3 DEF Tick, DeviceInv, Unspent, Active
<1>. QED  BY <1>1, <1>2, <1>3

(* Everything else leaves the device alone; a logout forgets what the      *)
(* browser has proved.                                                     *)
LEMMA OthersLeaveDevice ==
  ASSUME DeviceInv, UNCHANGED <<device, codes, now, uses>>,
         proved' \in [Browsers -> SUBSET Seeds]
  PROVE  DeviceInv'
BY DEF DeviceInv, Unspent, Active

LEMMA ArriveDevice ==
  ASSUME DeviceInv, NEW b \in Browsers, Arrive(b) \/ Lapse(b) \/ BreakOff(b)
  PROVE  DeviceInv'
<1>1. UNCHANGED <<device, codes, now, uses>>
  <2>1. CASE Arrive(b)
    BY <2>1 DEF Arrive, Login, Visit, Submit, Ask, StepUp, DropPending, Overtaken, Logout
  <2>. QED  BY <2>1 DEF Lapse, BreakOff
<1>2. proved' = proved \/ proved' = [proved EXCEPT ![b] = {}]
  <2>1. CASE Arrive(b)
    BY <2>1 DEF Arrive, Login, Visit, Submit, Ask, StepUp, DropPending, Overtaken, Logout,
                BecomesAnonymous
  <2>. QED  BY <2>1 DEF Lapse, BreakOff, BecomesAnonymous
<1>3. proved' \in [Browsers -> SUBSET Seeds]
  BY <1>2 DEF DeviceInv
<1>. QED  BY <1>1, <1>3, OthersLeaveDevice

LEMMA AnswerDevice ==
  ASSUME DeviceInv, NEW b \in Browsers, Answer(b)
  PROVE  DeviceInv'
<1>1. CASE \E s \in Window \union {NoStep} : Verify(b, s) \/ Confirm(b, s) \/ Revoke(b, s)
  BY <1>1, VerifyDevice, ConfirmDevice, RevokeDevice
<1>2. CASE \E right \in BOOLEAN : Recover(b, right)
  BY <1>2, RecoverDevice
<1>3. CASE Start(b)
  BY <1>3, StartDevice
<1>4. CASE \/ LogIn(b) \/ \E remember \in {"yes", "no", "as it was"} : Finish(b, remember)
           \/ ForgetAfterStepUp(b) \/ Consume(b) \/ RefuseCapability(b)
           \/ CountFailure(b) \/ MarkConfirmed(b)
  <2>1. UNCHANGED <<device, codes, now, uses, proved>>
    BY <1>4 DEF LogIn, Finish, ForgetAfterStepUp, Consume, RefuseCapability, MarkConfirmed,
                CountFailure, CountFirst, CountExists, CountNext, CountGone, CountAgain, Counted, Lock
  <2>. QED  BY <2>1, OthersLeaveDevice DEF DeviceInv
<1>. QED  BY <1>1, <1>2, <1>3, <1>4 DEF Answer

LEMMA StepDevice ==
  ASSUME DeviceInv, [Next]_vars
  PROVE  DeviceInv'
<1>1. CASE \E b \in Browsers : Arrive(b) \/ Answer(b) \/ Lapse(b) \/ BreakOff(b)
  BY <1>1, ArriveDevice, AnswerDevice
<1>2. CASE PendingExpires \/ RevokeByOperator \/ Tick
  BY <1>2, SurroundingsDevice
<1>3. CASE CountExpires \/ LockExpires \/ Bind \/ RevokeCertificate \/ UNCHANGED vars
  <2>1. UNCHANGED <<device, codes, now, uses, proved>>
    BY <1>3 DEF CountExpires, LockExpires, Bind, RevokeCertificate, vars
  <2>. QED  BY <2>1, OthersLeaveDevice DEF DeviceInv
<1>. QED  BY <1>1, <1>2, <1>3 DEF Next

-----------------------------------------------------------------------------
(* The rest of the state has its types *)

RestInv ==
  /\ binding \in Certificate
  /\ session \in [Browsers -> SessionEntry]
  /\ request \in [Browsers -> Answering]
  /\ count \in Nat /\ locked \in BOOLEAN /\ guesses \in Nat
  /\ budget \in [{"request", "mishap"} -> Nat]

LEMMA EntryTypes ==
  /\ NoCertificate \in Certificate
  /\ Anonymous \in SessionEntry
  /\ Idle \in Answering
  /\ Nat \subseteq Versions /\ NoVersion \in Versions
BY DEF NoCertificate, Certificate, Anonymous, SessionEntry, Idle, Answering, Versions

LEMMA InitRest == Init => RestInv
<1>. SUFFICES ASSUME Init PROVE RestInv
  OBVIOUS
<1>1. binding = NoCertificate /\ budget = Budget /\ count = 0 /\ locked = FALSE /\ guesses = 0
  BY DEF Init
<1>2. session = [b \in Browsers |-> Anonymous] /\ request = [b \in Browsers |-> Idle]
  BY DEF Init
<1>3. session \in [Browsers -> SessionEntry] /\ request \in [Browsers -> Answering]
  BY <1>2, EntryTypes
<1>. QED  BY <1>1, <1>3, EntryTypes DEF RestInv

(* The budget of a request or a mishap. *)
LEMMA SpendType ==
  ASSUME budget \in [{"request", "mishap"} -> Nat],
         Spend("request") \/ Spend("mishap") \/ UNCHANGED budget
  PROVE  budget' \in [{"request", "mishap"} -> Nat]
<1>1. ASSUME NEW d \in {"request", "mishap"}, Spend(d)
      PROVE  budget' \in [{"request", "mishap"} -> Nat]
  <2>1. budget[d] \in Nat /\ budget[d] > 0
    BY <1>1 DEF Spend
  <2>2. budget[d] - 1 \in Nat
    BY <2>1
  <2>. QED  BY <1>1, <2>2 DEF Spend
<1>. QED  BY <1>1

(* The entries of a session, changed one or several at a time. *)
LEMMA EntryChanges ==
  ASSUME NEW s \in SessionEntry, NEW v \in Versions, NEW c \in Certificate, NEW n \in BOOLEAN,
         NEW m \in {"none", "pending", "full", "enrollment", "recovery"}
  PROVE  /\ [s EXCEPT !.remembered = v] \in SessionEntry
         /\ [s EXCEPT !.version = v] \in SessionEntry
         /\ [s EXCEPT !.mode = m] \in SessionEntry
         /\ [s EXCEPT !.certificate = c] \in SessionEntry
         /\ [s EXCEPT !.newest = n] \in SessionEntry
         /\ [s EXCEPT !.user = n] \in SessionEntry
BY DEF SessionEntry

LEMMA EntryFunctions ==
  ASSUME NEW s \in SessionEntry, NEW c \in Certificate
  PROVE  /\ Pending(s, c) \in SessionEntry
         /\ WithoutMode(s) \in SessionEntry
         /\ \A e \in SessionEntry : [e EXCEPT !.remembered = NoVersion] \in SessionEntry
<1>1. \A e \in SessionEntry : [e EXCEPT !.remembered = NoVersion] \in SessionEntry
  BY EntryTypes, EntryChanges
<1>2. ASSUME NEW m \in {"none", "pending"}, NEW d \in Certificate
      PROVE  [s EXCEPT !.mode = m, !.version = NoVersion, !.certificate = d] \in SessionEntry
  BY EntryTypes DEF SessionEntry
<1>. QED  BY <1>1, <1>2, EntryTypes DEF Pending, WithoutMode

(* One entry of the sessions, or of the requests, is replaced. *)
LEMMA ReplaceSession ==
  ASSUME RestInv, NEW b \in Browsers, NEW e \in SessionEntry, session' = [session EXCEPT ![b] = e]
  PROVE  session' \in [Browsers -> SessionEntry]
BY DEF RestInv

LEMMA ReplaceRequest ==
  ASSUME RestInv, NEW b \in Browsers, NEW r \in Answering, request' = [request EXCEPT ![b] = r]
  PROVE  request' \in [Browsers -> Answering]
BY DEF RestInv

LEMMA AnsweringChanges ==
  ASSUME NEW r \in Answering, NEW v \in Versions, NEW n \in BOOLEAN,
         NEW pc \in {"idle", "verify", "login", "finish", "start", "confirm", "mark", "revoke",
                     "forget", "consume", "add", "incr", "set", "lock"}
  PROVE  /\ [r EXCEPT !.pc = pc] \in Answering
         /\ [r EXCEPT !.newest = n] \in Answering
         /\ [r EXCEPT !.pc = pc, !.newest = n] \in Answering
         /\ [r EXCEPT !.pc = pc, !.version = v] \in Answering
         /\ [r EXCEPT !.version = v, !.pc = pc] \in Answering
BY DEF Answering

LEMMA AskingType ==
  ASSUME DeviceInv, NEW kind \in {"none", "challenge", "recovery", "stepup"},
         NEW pc \in {"verify", "start", "confirm", "revoke"}
  PROVE  Asking(pc, kind) \in Answering
<1>1. device.seed \in {0} \union Seeds
  BY DEF DeviceInv, Device
<1>2. ASSUME NEW r \in Answering, NEW q \in {0} \union Seeds
      PROVE  [r EXCEPT !.pc = pc, !.kind = kind, !.seed = q] \in Answering
  BY DEF Answering
<1>. QED  BY <1>1, <1>2, EntryTypes DEF Asking

(* rotate_privileged_session_version seen from the other browsers. *)
LEMMA OvertakeAll ==
  ASSUME RestInv
  PROVE  /\ \A c \in Browsers : /\ [session[c] EXCEPT !.newest = FALSE] \in SessionEntry
                                /\ [request[c] EXCEPT !.newest = FALSE] \in Answering
         /\ \A b \in Browsers, e \in SessionEntry :
              NewestIs(b, e) \in [Browsers -> SessionEntry]
<1>1. ASSUME NEW c \in Browsers
      PROVE  /\ [session[c] EXCEPT !.newest = FALSE] \in SessionEntry
             /\ [request[c] EXCEPT !.newest = FALSE] \in Answering
  <2>1. session[c] \in SessionEntry /\ request[c] \in Answering
    BY DEF RestInv
  <2>2. [session[c] EXCEPT !.newest = FALSE] \in SessionEntry
    BY <2>1 DEF SessionEntry
  <2>3. [request[c] EXCEPT !.newest = FALSE] \in Answering
    BY <2>1 DEF Answering
  <2>. QED  BY <2>2, <2>3
<1>. QED  BY <1>1 DEF NewestIs

LEMMA LoginRest ==
  ASSUME RestInv, NEW b \in Browsers, NEW onAdmin \in BOOLEAN, Login(b, onAdmin)
  PROVE  RestInv'
<1>1. UNCHANGED <<binding, count, locked, guesses>> /\ Spend("request")
  BY DEF Login, Request, cache
<1>2. budget' \in [{"request", "mishap"} -> Nat]
  BY <1>1, SpendType DEF RestInv
<1>3. session[b] \in SessionEntry /\ binding \in Certificate
  BY DEF RestInv
<1>4. CASE Active
  <2> DEFINE certificate == IF onAdmin THEN binding ELSE NoCertificate
  <2>1. certificate \in Certificate
    BY <1>3, EntryTypes
  <2>2. session' = [session EXCEPT ![b] = Pending(session[b], certificate)] /\ request' = request
    BY <1>4 DEF Login
  <2> HIDE DEF certificate
  <2>3. session' \in [Browsers -> SessionEntry]
    BY <1>3, <2>1, <2>2, EntryFunctions, ReplaceSession
  <2>. QED  BY <1>1, <1>2, <2>2, <2>3 DEF RestInv
<1>5. CASE ~Active
  <2> DEFINE entry == [WithoutMode(session[b]) EXCEPT !.user = TRUE, !.newest = TRUE, !.mode = "enrollment"]
  <2>1. session' = NewestIs(b, entry)
        /\ request' = [c \in Browsers |-> [request[c] EXCEPT !.newest = FALSE]]
    BY <1>5 DEF Login
  <2>2. entry \in SessionEntry
    <3>1. WithoutMode(session[b]) \in SessionEntry
      BY <1>3, EntryTypes, EntryFunctions
    <3>. QED  BY <3>1 DEF SessionEntry
  <2> HIDE DEF entry
  <2>3. session' \in [Browsers -> SessionEntry] /\ request' \in [Browsers -> Answering]
    BY <2>1, <2>2, OvertakeAll
  <2>. QED  BY <1>1, <1>2, <2>3 DEF RestInv
<1>. QED  BY <1>4, <1>5

LEMMA VisitRest ==
  ASSUME RestInv, DeviceInv, NEW b \in Browsers, NEW onAdmin \in BOOLEAN, Visit(b, onAdmin)
  PROVE  RestInv'
<1>1. UNCHANGED <<binding, count, locked, guesses, request>> /\ Spend("request")
  BY DEF Visit, Request, cache
<1>2. budget' \in [{"request", "mishap"} -> Nat]
  BY <1>1, SpendType DEF RestInv
<1>3. session[b] \in SessionEntry /\ binding \in Certificate
  BY DEF RestInv
<1>4. WithoutMode(session[b]) \in SessionEntry /\ Challenged(b, onAdmin) \in SessionEntry
  <2> DEFINE s == IF Active THEN Pending(session[b], IF onAdmin THEN binding ELSE NoCertificate)
                  ELSE WithoutMode(session[b])
  <2>1. s \in SessionEntry /\ WithoutMode(session[b]) \in SessionEntry
    BY <1>3, EntryTypes, EntryFunctions
  <2>2. Challenged(b, onAdmin) = IF onAdmin THEN s ELSE [s EXCEPT !.remembered = NoVersion]
    BY DEF Challenged
  <2> HIDE DEF s
  <2>3. [s EXCEPT !.remembered = NoVersion] \in SessionEntry
    BY <2>1, EntryFunctions, EntryTypes
  <2>. QED  BY <2>1, <2>2, <2>3
<1>5. \E e \in SessionEntry : session' = [session EXCEPT ![b] = e]
  BY <1>3, <1>4 DEF Visit
<1>6. session' \in [Browsers -> SessionEntry]
  BY <1>5, ReplaceSession
<1>. QED  BY <1>1, <1>2, <1>6 DEF RestInv

LEMMA ArriveRest ==
  ASSUME RestInv, DeviceInv, NEW b \in Browsers, Arrive(b)
  PROVE  RestInv'
<1>1. CASE \E onAdmin \in BOOLEAN : Login(b, onAdmin) \/ Visit(b, onAdmin)
  BY <1>1, LoginRest, VisitRest
<1>2. CASE \/ \E kind \in {"challenge", "recovery"} : Submit(b, kind)
           \/ \E pc \in {"start", "confirm", "revoke"} : Ask(b, pc)
           \/ StepUp(b)
  <2>1. UNCHANGED <<binding, count, locked, guesses, session>> /\ Spend("request")
    BY <1>2 DEF Submit, Ask, StepUp, Request, cache
  <2>2. PICK kind \in {"none", "challenge", "recovery", "stepup"},
             pc \in {"verify", "start", "confirm", "revoke"} :
          request' = [request EXCEPT ![b] = Asking(pc, kind)]
    BY <1>2 DEF Submit, Ask, StepUp
  <2>3. request' \in [Browsers -> Answering]
    BY <2>2, AskingType, ReplaceRequest
  <2>4. budget' \in [{"request", "mishap"} -> Nat]
    BY <2>1, SpendType DEF RestInv
  <2>. QED  BY <2>1, <2>3, <2>4 DEF RestInv
<1>3. CASE DropPending(b) \/ Overtaken(b) \/ Logout(b)
  <2>1. UNCHANGED <<binding, count, locked, guesses, request>> /\ Spend("request")
    BY <1>3 DEF DropPending, Overtaken, Logout, Request, cache
  <2>2. \/ session' = [session EXCEPT ![b] = WithoutMode(session[b])]
        \/ session' = [session EXCEPT ![b] = Anonymous]
    BY <1>3 DEF DropPending, Overtaken, Logout, BecomesAnonymous
  <2>3. session' \in [Browsers -> SessionEntry]
    BY <2>2, EntryTypes, EntryFunctions, ReplaceSession DEF RestInv
  <2>4. budget' \in [{"request", "mishap"} -> Nat]
    BY <2>1, SpendType DEF RestInv
  <2>. QED  BY <2>1, <2>3, <2>4 DEF RestInv
<1>. QED  BY <1>1, <1>2, <1>3 DEF Arrive

LEMMA LogInRest ==
  ASSUME RestInv, NEW b \in Browsers, LogIn(b)
  PROVE  RestInv'
<1>1. UNCHANGED <<binding, count, locked, guesses, budget>>
  BY DEF LogIn, cache
<1>2. session[b] \in SessionEntry /\ request[b] \in Answering /\ session[b].newest \in BOOLEAN
  BY DEF RestInv, SessionEntry
<1>3. CASE session[b].user /\ request[b].kind = "challenge"
  <2>1. session' = session
        /\ request' = [request EXCEPT ![b] = [request[b] EXCEPT !.pc = "finish", !.newest = session[b].newest]]
    BY <1>3 DEF LogIn
  <2>2. [request[b] EXCEPT !.pc = "finish", !.newest = session[b].newest] \in Answering
    BY <1>2, EntryTypes, AnsweringChanges
  <2>. QED  BY <1>1, <2>1, <2>2, ReplaceRequest DEF RestInv
<1>4. CASE ~(session[b].user /\ request[b].kind = "challenge")
  <2>1. session' = [c \in Browsers |-> [session[c] EXCEPT !.newest = FALSE]]
        /\ request' = [c \in Browsers |->
             IF c = b THEN [request[b] EXCEPT !.pc = "finish", !.newest = TRUE]
             ELSE [request[c] EXCEPT !.newest = FALSE]]
    BY <1>4 DEF LogIn
  <2>2. [request[b] EXCEPT !.pc = "finish", !.newest = TRUE] \in Answering
    BY <1>2, EntryTypes, AnsweringChanges
  <2>3. session' \in [Browsers -> SessionEntry] /\ request' \in [Browsers -> Answering]
    BY <2>1, <2>2, OvertakeAll
  <2>. QED  BY <1>1, <2>3 DEF RestInv
<1>. QED  BY <1>3, <1>4

LEMMA FinishRest ==
  ASSUME RestInv, NEW b \in Browsers, NEW remember \in {"yes", "no", "as it was"},
         Finish(b, remember)
  PROVE  RestInv'
<1> DEFINE r == request[b]
           s == [session[b] EXCEPT !.user = TRUE, !.newest = r.newest, !.version = r.version]
           recovered == [s EXCEPT !.mode = "recovery", !.certificate = NoCertificate]
           marked == [s EXCEPT !.mode = "full",
               !.remembered = CASE remember = "yes" /\ s.certificate = NoCertificate -> r.version
                                [] remember = "no" /\ s.certificate = NoCertificate -> NoVersion
                                [] OTHER -> s.remembered]
<1>1. UNCHANGED <<binding, budget>> /\ count' = 0 /\ locked' = FALSE /\ guesses' = 0
      /\ request' = [request EXCEPT ![b] = Idle]
  BY DEF Finish, Forget
<1>2. session' = [session EXCEPT ![b] = IF r.kind = "recovery" THEN recovered ELSE marked]
  BY DEF Finish
<1>3. session[b] \in SessionEntry /\ r.newest \in BOOLEAN /\ r.version \in Versions
  BY DEF RestInv, Answering
<1> HIDE DEF r
<1>4. s \in SessionEntry
  BY <1>3 DEF SessionEntry
<1> HIDE DEF s
<1>5. recovered \in SessionEntry
  BY <1>4, EntryTypes DEF SessionEntry
<1>6. marked \in SessionEntry
  <2>1. \A v \in Versions : [s EXCEPT !.mode = "full", !.remembered = v] \in SessionEntry
    BY <1>4 DEF SessionEntry
  <2>2. s.remembered \in Versions
    BY <1>4 DEF SessionEntry
  <2>. QED  BY <1>3, <2>1, <2>2, EntryTypes
<1> HIDE DEF recovered, marked
<1>7. session' \in [Browsers -> SessionEntry]
  BY <1>2, <1>5, <1>6, ReplaceSession
<1>8. request' \in [Browsers -> Answering]
  BY <1>1, EntryTypes, ReplaceRequest
<1>. QED  BY <1>1, <1>7, <1>8 DEF RestInv

(* A request that ends, or goes on to its next step. *)
LEMMA MoveRequest ==
  ASSUME RestInv, NEW b \in Browsers, NEW v \in Versions,
         NEW pc \in {"verify", "login", "finish", "mark", "forget", "consume", "add", "incr", "set", "lock"}
  PROVE  /\ [request EXCEPT ![b] = Idle] \in [Browsers -> Answering]
         /\ [request EXCEPT ![b].pc = pc] \in [Browsers -> Answering]
         /\ [request EXCEPT ![b].version = v, ![b].pc = pc] \in [Browsers -> Answering]
         /\ [request EXCEPT ![b].pc = pc, ![b].version = v] \in [Browsers -> Answering]
<1>1. request \in [Browsers -> Answering] /\ request[b] \in Answering
  BY DEF RestInv
<1>2. [request EXCEPT ![b] = Idle] \in [Browsers -> Answering]
  BY <1>1, EntryTypes
<1>3. [request EXCEPT ![b].pc = pc] \in [Browsers -> Answering]
  BY <1>1 DEF Answering
<1>4. [request EXCEPT ![b].version = v, ![b].pc = pc] \in [Browsers -> Answering]
  BY <1>1 DEF Answering
<1>5. [request EXCEPT ![b].pc = pc, ![b].version = v] \in [Browsers -> Answering]
  BY <1>1 DEF Answering
<1>. QED  BY <1>2, <1>3, <1>4, <1>5

LEMMA OnlyMove ==
  ASSUME RestInv, NEW b \in Browsers,
         \/ request' = [request EXCEPT ![b] = Idle]
         \/ \E pc \in {"add", "mark", "incr", "set", "lock", "consume"} :
              request' = [request EXCEPT ![b].pc = pc]
  PROVE  request' \in [Browsers -> Answering]
<1>1. CASE request' = [request EXCEPT ![b] = Idle]
  BY <1>1, EntryTypes DEF RestInv
<1>2. ASSUME NEW pc \in {"add", "mark", "incr", "set", "lock", "consume"},
             request' = [request EXCEPT ![b].pc = pc]
      PROVE  request' \in [Browsers -> Answering]
  <2>1. [request EXCEPT ![b].pc = pc] \in [Browsers -> Answering]
    BY EntryTypes, MoveRequest
  <2>. QED  BY <1>2, <2>1
<1>. QED  BY <1>1, <1>2

LEMMA CodeRest ==
  ASSUME RestInv, DeviceInv, DeviceInv', NEW b \in Browsers,
         \/ \E s \in Window \union {NoStep} : Verify(b, s) \/ Confirm(b, s) \/ Revoke(b, s)
         \/ \E right \in BOOLEAN : Recover(b, right)
  PROVE  RestInv'
<1>1. UNCHANGED <<binding, session, count, locked, budget>>
  BY DEF Verify, Confirm, Revoke, Recover, cache
<1>2. guesses' \in Nat
  <2>1. guesses' = guesses \/ guesses' = guesses + 1
    BY DEF Verify, Confirm, Revoke, Recover, cache
  <2>. QED  BY <2>1 DEF RestInv
<1>3. request[b] \in Answering /\ device.version \in Versions /\ device'.version \in Versions
  BY EntryTypes DEF RestInv, DeviceInv, Device
<1>4. \/ \E pc \in {"add", "mark"} : request' = [request EXCEPT ![b].pc = pc]
      \/ \E pc \in {"forget", "login"} : \E v \in {device.version, device'.version} :
           request' = [request EXCEPT ![b].version = v, ![b].pc = pc]
      \/ request' = [request EXCEPT ![b].pc = "login", ![b].version = device'.version]
      \/ request' = [request EXCEPT ![b] = Idle]
  <2>1. ASSUME NEW s, Verify(b, s)
        PROVE  \/ request' = [request EXCEPT ![b].pc = "add"]
               \/ \E pc \in {"forget", "login"} :
                    request' = [request EXCEPT ![b].version = device.version, ![b].pc = pc]
    BY <2>1 DEF Verify
  <2>2. ASSUME NEW s, Confirm(b, s) \/ Revoke(b, s)
        PROVE  request' = [request EXCEPT ![b].pc = "mark"] \/ request' = [request EXCEPT ![b] = Idle]
    BY <2>2 DEF Confirm, Revoke
  <2>3. ASSUME NEW right \in BOOLEAN, Recover(b, right)
        PROVE  \/ request' = [request EXCEPT ![b].pc = "add"]
               \/ request' = [request EXCEPT ![b].pc = "login", ![b].version = device'.version]
    BY <2>3 DEF Recover
  <2>. QED  BY <2>1, <2>2, <2>3
<1>5. request' \in [Browsers -> Answering]
  <2>1. CASE \E pc \in {"add", "mark"} : request' = [request EXCEPT ![b].pc = pc]
    BY <2>1, OnlyMove
  <2>2. CASE \E pc \in {"forget", "login"} : \E v \in {device.version, device'.version} :
               request' = [request EXCEPT ![b].version = v, ![b].pc = pc]
    <3>1. PICK pc \in {"forget", "login"}, v \in Versions :
            request' = [request EXCEPT ![b].version = v, ![b].pc = pc]
      BY <1>3, <2>2
    <3>2. [request EXCEPT ![b].version = v, ![b].pc = pc] \in [Browsers -> Answering]
      BY MoveRequest
    <3>. QED  BY <3>1, <3>2
  <2>3. CASE request' = [request EXCEPT ![b].pc = "login", ![b].version = device'.version]
    <3> DEFINE v == device'.version
    <3>1. v \in Versions /\ request' = [request EXCEPT ![b].pc = "login", ![b].version = v]
      BY <1>3, <2>3
    <3> HIDE DEF v
    <3>2. [request EXCEPT ![b].pc = "login", ![b].version = v] \in [Browsers -> Answering]
      BY <3>1, MoveRequest
    <3>. QED  BY <3>1, <3>2
  <2>4. CASE request' = [request EXCEPT ![b] = Idle]
    BY <1>3, <2>4, MoveRequest
  <2>. QED  BY <1>4, <2>1, <2>2, <2>3, <2>4
<1>. QED  BY <1>1, <1>2, <1>5 DEF RestInv

LEMMA CountRest ==
  ASSUME RestInv, NEW b \in Browsers, CountFailure(b)
  PROVE  RestInv'
<1>1. UNCHANGED <<binding, session, guesses, budget>>
  BY DEF CountFailure, CountFirst, CountExists, CountNext, CountGone, CountAgain, Counted, Lock, cache
<1>2. count' \in Nat /\ locked' \in BOOLEAN
  <2>1. count' \in {count, 1, count + 1}
    BY DEF CountFailure, CountFirst, CountExists, CountNext, CountGone, CountAgain, Counted, Lock, cache
  <2>2. locked' = locked \/ locked' = TRUE
    BY DEF CountFailure, CountFirst, CountExists, CountNext, CountGone, CountAgain, Counted, Lock, cache
  <2>3. count' \in Nat
    BY <2>1 DEF RestInv
  <2>4. locked' \in BOOLEAN
    BY <2>2 DEF RestInv
  <2>. QED  BY <2>3, <2>4
<1>3. \/ \E pc \in {"lock", "incr", "set"} : request' = [request EXCEPT ![b].pc = pc]
      \/ request' = [request EXCEPT ![b] = Idle]
  BY DEF CountFailure, CountFirst, CountExists, CountNext, CountGone, CountAgain, Counted, Lock
<1>5. request' \in [Browsers -> Answering]
  BY <1>3, OnlyMove
<1>. QED  BY <1>1, <1>2, <1>5 DEF RestInv

LEMMA SessionRest ==
  ASSUME RestInv, DeviceInv, NEW b \in Browsers,
         ForgetAfterStepUp(b) \/ Consume(b) \/ RefuseCapability(b) \/ Start(b) \/ MarkConfirmed(b)
  PROVE  RestInv'
<1>1. UNCHANGED <<binding, budget>>
  BY DEF ForgetAfterStepUp, Consume, RefuseCapability, Start, MarkConfirmed
<1>2. count' \in Nat /\ locked' \in BOOLEAN /\ guesses' \in Nat
  <2>1. \/ count' = 0 /\ locked' = FALSE /\ guesses' = 0
        \/ count' = count /\ locked' = locked /\ guesses' = guesses
    BY DEF ForgetAfterStepUp, Consume, RefuseCapability, Start, MarkConfirmed, Forget, cache
  <2>2. count' \in Nat /\ guesses' \in Nat
    BY <2>1 DEF RestInv
  <2>3. locked' \in BOOLEAN
    BY <2>1 DEF RestInv
  <2>. QED  BY <2>2, <2>3
<1>3. \/ request' = [request EXCEPT ![b].pc = "consume"]
      \/ request' = [request EXCEPT ![b] = Idle]
  BY DEF ForgetAfterStepUp, Consume, RefuseCapability, Start, MarkConfirmed
<1>5. request' \in [Browsers -> Answering]
  BY <1>3, OnlyMove
<1>6. session[b] \in SessionEntry /\ device.version \in Versions
  BY EntryTypes DEF RestInv, DeviceInv, Device
<1>7. session' \in [Browsers -> SessionEntry]
  <2>1. CASE ForgetAfterStepUp(b) \/ Consume(b)
    BY <2>1 DEF ForgetAfterStepUp, Consume, RestInv
  <2>2. CASE RefuseCapability(b)
    <3>1. PICK m \in {"none", "pending", "full", "enrollment", "recovery"} :
            session' = [session EXCEPT ![b].remembered = NoVersion, ![b].mode = m]
      BY <1>6, <2>2 DEF RefuseCapability, RestInv, SessionEntry
    <3>2. [session EXCEPT ![b].remembered = NoVersion, ![b].mode = m] \in [Browsers -> SessionEntry]
      BY <1>6, EntryTypes DEF SessionEntry, RestInv
    <3>. QED  BY <3>1, <3>2
  <2>3. CASE Start(b)
    <3>1. \/ session' = session
          \/ session' = [session EXCEPT ![b] = session[b]]
          \/ session' = [session EXCEPT ![b] = WithoutMode(session[b])]
      BY <2>3 DEF Start
    <3>. QED  BY <1>6, <3>1, EntryTypes, EntryFunctions, ReplaceSession DEF RestInv
  <2>4. CASE MarkConfirmed(b)
    <3>1. session' = [session EXCEPT ![b] =
            [session[b] EXCEPT !.mode = "full", !.certificate = NoCertificate, !.version = device.version]]
      BY <2>4 DEF MarkConfirmed
    <3>2. [session[b] EXCEPT !.mode = "full", !.certificate = NoCertificate, !.version = device.version]
            \in SessionEntry
      BY <1>6, EntryTypes DEF SessionEntry
    <3>. QED  BY <3>1, <3>2, ReplaceSession
  <2>. QED  BY <2>1, <2>2, <2>3, <2>4
<1>. QED  BY <1>1, <1>2, <1>5, <1>7 DEF RestInv

LEMMA AnswerRest ==
  ASSUME RestInv, DeviceInv, DeviceInv', NEW b \in Browsers, Answer(b)
  PROVE  RestInv'
BY CodeRest, LogInRest, FinishRest, SessionRest, CountRest DEF Answer

LEMMA LapseRest ==
  ASSUME RestInv, NEW b \in Browsers, Lapse(b) \/ BreakOff(b)
  PROVE  RestInv'
<1>1. UNCHANGED <<binding, count, locked, guesses>> /\ Spend("mishap")
  BY DEF Lapse, BreakOff, cache
<1>2. budget' \in [{"request", "mishap"} -> Nat]
  BY <1>1, SpendType DEF RestInv
<1>3. session' \in [Browsers -> SessionEntry]
  <2>1. \/ session' = session
        \/ session' = [session EXCEPT ![b] = WithoutMode(session[b])]
        \/ session' = [session EXCEPT ![b] = Anonymous]
        \/ session' = [session EXCEPT ![b] = [session[b] EXCEPT !.remembered = NoVersion]]
    BY DEF Lapse, BreakOff, BecomesAnonymous
  <2>. QED  BY <2>1, EntryTypes, EntryFunctions, ReplaceSession DEF RestInv
<1>4. request' \in [Browsers -> Answering]
  BY EntryTypes DEF Lapse, BreakOff, RestInv
<1>. QED  BY <1>1, <1>2, <1>3, <1>4 DEF RestInv

LEMMA SurroundingsRest ==
  ASSUME RestInv,
         \/ Tick \/ PendingExpires \/ CountExpires \/ LockExpires
         \/ RevokeByOperator \/ Bind \/ RevokeCertificate \/ UNCHANGED vars
  PROVE  RestInv'
<1>1. UNCHANGED <<session, request>>
  BY DEF Tick, PendingExpires, CountExpires, LockExpires, RevokeByOperator, Bind,
         RevokeCertificate, vars
<1>2. budget' \in [{"request", "mishap"} -> Nat]
  <2>1. Spend("mishap") \/ UNCHANGED budget
    BY DEF Tick, PendingExpires, CountExpires, LockExpires, RevokeByOperator, Bind,
           RevokeCertificate, vars
  <2>. QED  BY <2>1, SpendType DEF RestInv
<1>3. count' \in Nat /\ guesses' \in Nat /\ locked' \in BOOLEAN
  <2>1. count' \in {0, count} /\ guesses' \in {0, guesses} /\ (locked' = FALSE \/ locked' = locked)
    BY DEF Tick, PendingExpires, CountExpires, LockExpires, RevokeByOperator, Bind,
           RevokeCertificate, vars, cache
  <2>2. count' \in Nat /\ guesses' \in Nat
    BY <2>1 DEF RestInv
  <2>3. locked' \in BOOLEAN
    BY <2>1 DEF RestInv
  <2>. QED  BY <2>2, <2>3
<1>4. binding' \in Certificate
  <2>1. CASE Bind
    <3>1. binding.id + 1 \in 0..MaxBindings
      BY <2>1 DEF Bind, RestInv, Certificate
    <3>. QED  BY <2>1, <3>1 DEF Bind, Certificate
  <2>2. CASE RevokeCertificate
    <3>1. binding.version + 1 \in Nat
      BY DEF RestInv, Certificate
    <3>2. binding' = [binding EXCEPT !.active = FALSE, !.version = binding.version + 1]
      BY <2>2 DEF RevokeCertificate
    <3>. QED  BY <3>1, <3>2 DEF RestInv, Certificate
  <2>3. CASE UNCHANGED binding
    BY <2>3 DEF RestInv
  <2>. QED
    BY <2>1, <2>2, <2>3 DEF Tick, PendingExpires, CountExpires, LockExpires, RevokeByOperator, vars
<1>. QED  BY <1>1, <1>2, <1>3, <1>4 DEF RestInv

LEMMA StepRest ==
  ASSUME RestInv, DeviceInv, DeviceInv', [Next]_vars
  PROVE  RestInv'
BY ArriveRest, AnswerRest, LapseRest, SurroundingsRest DEF Next

(* The codes of MfaTotpDevice and MfaRecoveryCode: from whichever browsers *)
(* and by whichever of the five ways they are sent, each is accepted at    *)
(* most once, and recovery codes exist for the seed of an active device    *)
(* and no other.                                                           *)
THEOREM CodesCountOnce == Spec => []OnceOnly
<1>1. Init => DeviceInv /\ RestInv
  BY InitDevice, InitRest
<1>2. DeviceInv /\ RestInv /\ [Next]_vars => (DeviceInv /\ RestInv)'
  BY StepDevice, StepRest
<1>3. DeviceInv /\ RestInv => OnceOnly
  <2>. SUFFICES ASSUME DeviceInv, RestInv PROVE TypeOK
    BY DEF DeviceInv, OnceOnly, Active
  <2>1. codes \subseteq Seeds
    BY DEF DeviceInv, Active
  <2>2. /\ device \in Device /\ now \in 1..MaxStep
        /\ uses \in [Code -> Nat] /\ proved \in [Browsers -> SUBSET Seeds]
    BY DEF DeviceInv
  <2>. QED
    BY <2>1, <2>2, Zenon DEF RestInv, TypeOK, Device, Certificate, SessionEntry, Answering
<1>. QED  BY <1>1, <1>2, <1>3, PTL DEF Spec

-----------------------------------------------------------------------------
(* The wrong codes *)

N == Cardinality(Browsers)
Spent == Budget["mishap"] - budget["mishap"]

Least(a, b) == IF a < b THEN a ELSE b

(* How many browsers are about to do something.                            *)
In(pc) == Cardinality({b \in Browsers : request[b].pc = pc})

(* What a count of c accounts for, when s browsers are about to set it:    *)
(* itself, up to the one below the limit, and what late sets have taken    *)
(* from it, one for each browser that is not about to, but the one that    *)
(* counted first.                                                          *)
Kept(c, s) == Least(c, MaxAttempts - 1) + (N - s - 1) * LostBySet

(* What g tries can have been, when v codes are to be verified, a failures *)
(* to be added, i incremented, l locks to be set, s counts to be set, and  *)
(* y tries are allowed for mishaps.  As long as nothing is counted every   *)
(* try is still to be added.  After that a try is accounted for, on its    *)
(* way to the count, or behind a lock on its way.  A lock lets through     *)
(* what is to be verified, and no browser twice.                           *)
WhileOpen(g, c, a, i, l, s, y) ==
  IF c = 0 THEN g <= a + y ELSE s < N /\ g <= Kept(c, s) + a + i + l + y

WhileLocked(g, c, v, a, s, y) ==
  IF c = 0 THEN g <= a + y ELSE s < N /\ g + v <= Kept(c, s) + (N - s) + y

Sizes(g, c, y, v, a, i, l, s) ==
  /\ g \in Nat /\ c \in Nat /\ y \in Nat
  /\ v \in Nat /\ a \in Nat /\ i \in Nat /\ l \in Nat /\ s \in Nat
  /\ v + a + i + l + s <= N

GuessInv ==
  /\ Spent \in Nat
  /\ IF locked
     THEN WhileLocked(guesses, count, In("verify"), In("add"), In("set"), N * Spent)
     ELSE WhileOpen(guesses, count, In("add"), In("incr"), In("lock"), In("set"), N * Spent)

LEMMA Numbers ==
  /\ IsFiniteSet(Browsers) /\ N \in Nat /\ MaxAttempts \in Nat /\ MaxAttempts >= 1
  /\ LostBySet \in Nat /\ LostBySet <= MaxAttempts - 1
BY FS_CardinalityType DEF N, LostBySet

LEMMA Products ==
  /\ \A a, b \in Int : (a + 1) * b = a * b + b /\ a * b \in Int
  /\ \A a, b \in Nat : a * b \in Nat
OBVIOUS

(* How an account changes.                                                 *)
LEMMA KeptChanges ==
  ASSUME NEW c \in Nat, NEW s \in Nat, s <= N
  PROVE  /\ Kept(c, s) \in Int
         /\ s < N => Kept(c, s) >= 0 /\ Kept(c, s) <= MaxAttempts - 1 + (N - 1) * LostBySet
         /\ s < N => Kept(1, s) \in Int /\ Kept(1, s) >= IF 1 >= MaxAttempts THEN 0 ELSE 1
         /\ Kept(c + 1, s) = IF c + 1 >= MaxAttempts THEN Kept(c, s) ELSE Kept(c, s) + 1
         /\ s >= 1 => /\ Kept(c, s - 1) \in Int /\ Kept(c, s - 1) >= Kept(c, s)
                      /\ Kept(1, s - 1) \in Int
                      /\ Kept(1, s - 1) >= IF 1 >= MaxAttempts THEN 0 ELSE 1
                      /\ c # 0 => Kept(1, s - 1) >= Kept(c, s)
<1> DEFINE w == (N - s - 1) * LostBySet
<1>1. w \in Int /\ (s < N => w >= 0)
  <2>1. s < N => N - s - 1 \in Nat
    BY Numbers
  <2>2. N - s - 1 \in Int
    BY Numbers
  <2>. QED  BY <2>1, <2>2, Numbers, Products
<1>2. (N - s) * LostBySet = w + LostBySet /\ N - (s - 1) - 1 = N - s
  <2>1. N - s - 1 \in Int /\ (N - s - 1) + 1 = N - s
    BY Numbers
  <2>. QED  BY <2>1, Numbers, Products
<1>3. /\ Kept(c, s) = Least(c, MaxAttempts - 1) + w /\ Kept(1, s) = Least(1, MaxAttempts - 1) + w
      /\ Kept(c + 1, s) = Least(c + 1, MaxAttempts - 1) + w
      /\ Kept(c, s - 1) = Least(c, MaxAttempts - 1) + (w + LostBySet)
      /\ Kept(1, s - 1) = Least(1, MaxAttempts - 1) + (w + LostBySet)
  BY <1>2 DEF Kept
<1>4. s < N => w <= (N - 1) * LostBySet
  <2>1. s * LostBySet \in Nat
    BY Numbers, Products
  <2>2. (N - 1) * LostBySet = w + s * LostBySet
    BY Numbers
  <2>. QED  BY <1>1, <2>1, <2>2
<1>5. s >= 1 => w + LostBySet >= 0
  <2>1. N - s \in Nat
    BY Numbers
  <2>2. (N - s) * LostBySet \in Nat
    BY <2>1, Numbers, Products
  <2>. QED  BY <1>2, <2>2
<1>6. (N - 1) * LostBySet \in Int
  BY Numbers, Products
<1> HIDE DEF w
<1>7. /\ Least(c, MaxAttempts - 1) \in Int /\ Least(c, MaxAttempts - 1) >= 0
      /\ Least(c, MaxAttempts - 1) <= MaxAttempts - 1
      /\ Least(1, MaxAttempts - 1) = IF 1 >= MaxAttempts THEN 0 ELSE 1
      /\ Least(c + 1, MaxAttempts - 1) =
           IF c + 1 >= MaxAttempts THEN Least(c, MaxAttempts - 1) ELSE Least(c, MaxAttempts - 1) + 1
      /\ c # 0 => Least(c, MaxAttempts - 1) <= Least(1, MaxAttempts - 1) + LostBySet
  BY Numbers DEF Least, LostBySet
<1>. QED  BY <1>1, <1>3, <1>4, <1>5, <1>6, <1>7, Numbers

(* Browsers at different points are counted apart.                         *)
LEMMA ApartSize ==
  /\ \A pc : In(pc) \in Nat
  /\ In("verify") + In("add") + In("incr") + In("lock") + In("set") <= N
<1> DEFINE At(P) == {b \in Browsers : request[b].pc \in P}
<1>1. ASSUME NEW P
      PROVE  IsFiniteSet(At(P)) /\ Cardinality(At(P)) \in Nat /\ Cardinality(At(P)) <= N
  <2>1. At(P) \in SUBSET Browsers
    OBVIOUS
  <2>2. IsFiniteSet(At(P)) /\ Cardinality(At(P)) <= N
    BY <2>1, Numbers, FS_Subset DEF N
  <2>. QED  BY <2>2, FS_CardinalityType
<1>2. ASSUME NEW pc
      PROVE  In(pc) = Cardinality(At({pc}))
  <2>1. At({pc}) = {b \in Browsers : request[b].pc = pc}
    OBVIOUS
  <2>. QED  BY <2>1 DEF In
<1>3. ASSUME NEW P, NEW pc, pc \notin P
      PROVE  Cardinality(At(P \union {pc})) = Cardinality(At(P)) + In(pc)
  <2>1. At(P \union {pc}) = At(P) \union At({pc}) /\ At(P) \intersect At({pc}) = {}
    BY <1>3
  <2>2. Cardinality(At(P) \union At({pc})) =
          Cardinality(At(P)) + Cardinality(At({pc})) - Cardinality(At(P) \intersect At({pc}))
    BY <1>1, FS_Union
  <2>3. Cardinality(At(P) \intersect At({pc})) = 0
    BY <2>1, FS_EmptySet
  <2>4. Cardinality(At(P)) \in Nat /\ Cardinality(At({pc})) \in Nat
    BY <1>1
  <2>5. Cardinality(At(P) \union At({pc})) = Cardinality(At(P)) + Cardinality(At({pc}))
    BY <2>2, <2>3, <2>4
  <2>. QED  BY <1>2, <2>1, <2>5
<1> HIDE DEF At
<1>4. Cardinality(At({"verify"} \union {"add"})) = In("verify") + In("add")
  BY <1>1, <1>2, <1>3
<1>5. Cardinality(At({"verify"} \union {"add"} \union {"incr"})) = In("verify") + In("add") + In("incr")
  BY <1>3, <1>4
<1>6. Cardinality(At({"verify"} \union {"add"} \union {"incr"} \union {"lock"}))
        = In("verify") + In("add") + In("incr") + In("lock")
  BY <1>3, <1>5
<1>7. Cardinality(At({"verify"} \union {"add"} \union {"incr"} \union {"lock"} \union {"set"}))
        = In("verify") + In("add") + In("incr") + In("lock") + In("set")
  BY <1>3, <1>6
<1>8. \A pc : In(pc) \in Nat
  BY <1>1, <1>2
<1>. QED  BY <1>1, <1>7, <1>8

(* One browser moves from p to q, the others stay where they are.          *)
Moves(b, p, q) ==
  /\ request[b].pc = p /\ request'[b].pc = q
  /\ \A o \in Browsers \ {b} : request'[o].pc = request[o].pc

LEMMA MovesCount ==
  ASSUME NEW b \in Browsers, NEW p, NEW q, Moves(b, p, q), NEW pc
  PROVE  /\ pc # p /\ pc # q => In(pc)' = In(pc)
         /\ p = q => In(pc)' = In(pc)
         /\ p # q /\ pc = p => In(pc)' = In(pc) - 1 /\ In(pc) >= 1
         /\ p # q /\ pc = q => In(pc)' = In(pc) + 1
<1> DEFINE Old == {o \in Browsers : request[o].pc = pc}
           New == {o \in Browsers : request'[o].pc = pc}
<1>1. IsFiniteSet(Old) /\ IsFiniteSet(New) /\ Cardinality(Old) \in Nat /\ Cardinality(New) \in Nat
  <2>1. Old \in SUBSET Browsers /\ New \in SUBSET Browsers
    OBVIOUS
  <2>. QED  BY <2>1, Numbers, FS_Subset, FS_CardinalityType
<1>2. In(pc) = Cardinality(Old) /\ In(pc)' = Cardinality(New)
  BY DEF In
<1>3. (pc # p /\ pc # q) \/ p = q => New = Old
  BY DEF Moves
<1>4. p # q /\ pc = p => New = Old \ {b} /\ b \in Old
  BY DEF Moves
<1>5. p # q /\ pc = q => New = Old \union {b} /\ b \notin Old
  BY DEF Moves
<1> HIDE DEF Old, New
<1>6. CASE p # q /\ pc = p
  <2>1. Cardinality(Old \ {b}) = Cardinality(Old) - 1
    BY <1>1, <1>4, <1>6, FS_RemoveElement
  <2>. QED  BY <1>1, <1>2, <1>4, <1>6, <2>1
<1>7. CASE p # q /\ pc = q
  <2>1. Cardinality(Old \union {b}) = Cardinality(Old) + 1
    BY <1>1, <1>5, <1>7, FS_AddElement
  <2>. QED  BY <1>1, <1>2, <1>5, <1>7, <2>1
<1>. QED  BY <1>2, <1>3, <1>6, <1>7

(* What the single calls do to the numbers of an open entry.               *)
LEMMA OpenSteps ==
  ASSUME NEW g, NEW c, NEW y, NEW v, NEW a, NEW i, NEW l, NEW s, Sizes(g, c, y, v, a, i, l, s),
         WhileOpen(g, c, a, i, l, s, y)
  PROVE  /\ \A h \in {g, g + 1} : WhileOpen(h, c, a + 1, i, l, s, y)
         /\ c # 0 /\ a >= 1 => WhileOpen(g, c, a - 1, i + 1, l, s, y)
         /\ c = 0 /\ i >= 1 => WhileOpen(g, c, a, i - 1, l, s + 1, y)
         /\ l >= 1 => WhileLocked(g, c, v, a, s, y)
<1>. USE DEF Sizes
<1>1. Kept(c, s) \in Int /\ s <= N /\ N \in Nat
  BY KeptChanges, Numbers
<1>. QED  BY <1>1 DEF WhileOpen, WhileLocked

(* What they do to the numbers of a locked one.                            *)
LEMMA LockedSteps ==
  ASSUME NEW g, NEW c, NEW y, NEW v, NEW a, NEW i, NEW l, NEW s, Sizes(g, c, y, v, a, i, l, s),
         WhileLocked(g, c, v, a, s, y)
  PROVE  /\ \A h \in {g, g + 1} : v >= 1 => WhileLocked(h, c, v - 1, a + 1, s, y)
         /\ v >= 1 => WhileLocked(g, c, v - 1, a, s, y)
         /\ c # 0 /\ a >= 1 => WhileLocked(g, c, v, a - 1, s, y)
         /\ c = 0 /\ i >= 1 => WhileLocked(g, c, v, a, s + 1, y)
<1>. USE DEF Sizes
<1>1. Kept(c, s) \in Int /\ s <= N /\ N \in Nat
  BY KeptChanges, Numbers
<1>. QED  BY <1>1 DEF WhileLocked

(* What a request that is counted does to them: at the limit a lock        *)
(* follows.                                                                *)
LEMMA OpenCounts ==
  ASSUME NEW g, NEW c, NEW y, NEW v, NEW a, NEW i, NEW l, NEW s, Sizes(g, c, y, v, a, i, l, s),
         WhileOpen(g, c, a, i, l, s, y)
  PROVE  /\ c = 0 /\ a >= 1 =>
              WhileOpen(g, 1, a - 1, i, IF 1 >= MaxAttempts THEN l + 1 ELSE l, s, y)
         /\ c # 0 /\ i >= 1 =>
              WhileOpen(g, c + 1, a, i - 1, IF c + 1 >= MaxAttempts THEN l + 1 ELSE l, s, y)
         /\ s >= 1 =>
              WhileOpen(g, 1, a, i, IF 1 >= MaxAttempts THEN l + 1 ELSE l, s - 1, y)
<1>. USE DEF Sizes
<1>1. /\ s <= N /\ N \in Nat /\ MaxAttempts \in Nat /\ Kept(c, s) \in Int
      /\ s < N => Kept(1, s) \in Int /\ Kept(1, s) >= IF 1 >= MaxAttempts THEN 0 ELSE 1
      /\ Kept(c + 1, s) = IF c + 1 >= MaxAttempts THEN Kept(c, s) ELSE Kept(c, s) + 1
      /\ s >= 1 => /\ Kept(1, s - 1) \in Int
                   /\ Kept(1, s - 1) >= IF 1 >= MaxAttempts THEN 0 ELSE 1
                   /\ c # 0 => Kept(1, s - 1) >= Kept(c, s)
  BY KeptChanges, Numbers
<1>2. ASSUME c = 0, a >= 1
      PROVE  WhileOpen(g, 1, a - 1, i, IF 1 >= MaxAttempts THEN l + 1 ELSE l, s, y)
  <2>1. CASE 1 >= MaxAttempts
    BY <1>1, <1>2, <2>1 DEF WhileOpen
  <2>2. CASE ~(1 >= MaxAttempts)
    BY <1>1, <1>2, <2>2 DEF WhileOpen
  <2>. QED  BY <2>1, <2>2
<1>3. ASSUME c # 0, i >= 1
      PROVE  WhileOpen(g, c + 1, a, i - 1, IF c + 1 >= MaxAttempts THEN l + 1 ELSE l, s, y)
  <2>1. CASE c + 1 >= MaxAttempts
    BY <1>1, <1>3, <2>1 DEF WhileOpen
  <2>2. CASE ~(c + 1 >= MaxAttempts)
    BY <1>1, <1>3, <2>2 DEF WhileOpen
  <2>. QED  BY <2>1, <2>2
<1>4. ASSUME s >= 1
      PROVE  WhileOpen(g, 1, a, i, IF 1 >= MaxAttempts THEN l + 1 ELSE l, s - 1, y)
  <2>1. CASE 1 >= MaxAttempts
    BY <1>1, <1>4, <2>1 DEF WhileOpen
  <2>2. CASE ~(1 >= MaxAttempts)
    BY <1>1, <1>4, <2>2 DEF WhileOpen
  <2>. QED  BY <2>1, <2>2
<1>. QED  BY <1>2, <1>3, <1>4

LEMMA LockedCounts ==
  ASSUME NEW g, NEW c, NEW y, NEW v, NEW a, NEW i, NEW l, NEW s, Sizes(g, c, y, v, a, i, l, s),
         WhileLocked(g, c, v, a, s, y)
  PROVE  /\ c = 0 /\ a >= 1 => WhileLocked(g, 1, v, a - 1, s, y)
         /\ c # 0 => WhileLocked(g, c + 1, v, a, s, y)
         /\ s >= 1 => WhileLocked(g, 1, v, a, s - 1, y)
<1>. USE DEF Sizes
<1>1. /\ s <= N /\ N \in Nat /\ MaxAttempts \in Nat /\ Kept(c, s) \in Int
      /\ s < N => Kept(1, s) \in Int /\ Kept(1, s) >= IF 1 >= MaxAttempts THEN 0 ELSE 1
      /\ Kept(c + 1, s) = IF c + 1 >= MaxAttempts THEN Kept(c, s) ELSE Kept(c, s) + 1
      /\ s >= 1 => /\ Kept(1, s - 1) \in Int
                   /\ Kept(1, s - 1) >= IF 1 >= MaxAttempts THEN 0 ELSE 1
                   /\ c # 0 => Kept(1, s - 1) >= Kept(c, s)
  BY KeptChanges, Numbers
<1>2. ASSUME c = 0, a >= 1
      PROVE  WhileLocked(g, 1, v, a - 1, s, y)
  BY <1>1, <1>2 DEF WhileLocked
<1>3. ASSUME c # 0
      PROVE  WhileLocked(g, c + 1, v, a, s, y)
  BY <1>1, <1>3 DEF WhileLocked
<1>4. ASSUME s >= 1
      PROVE  WhileLocked(g, 1, v, a, s - 1, y)
  BY <1>1, <1>4 DEF WhileLocked
<1>. QED  BY <1>2, <1>3, <1>4

(* What a mishap does to them: a browser breaks off, or the lock ends.     *)
LEMMA OpenMishap ==
  ASSUME NEW g, NEW c, NEW y, NEW v, NEW a, NEW i, NEW l, NEW s, Sizes(g, c, y, v, a, i, l, s),
         WhileOpen(g, c, a, i, l, s, y)
  PROVE  /\ WhileOpen(g, c, a, i, l, s, y + N)
         /\ a >= 1 => WhileOpen(g, c, a - 1, i, l, s, y + N)
         /\ i >= 1 => WhileOpen(g, c, a, i - 1, l, s, y + N)
         /\ l >= 1 => WhileOpen(g, c, a, i, l - 1, s, y + N)
         /\ s >= 1 => WhileOpen(g, c, a, i, l, s - 1, y + N)
<1>. USE DEF Sizes
<1>1. /\ s <= N /\ N \in Nat /\ Kept(c, s) \in Int
      /\ s >= 1 => Kept(c, s - 1) \in Int /\ Kept(c, s - 1) >= Kept(c, s)
  BY KeptChanges, Numbers
<1>2. ASSUME s >= 1
      PROVE  WhileOpen(g, c, a, i, l, s - 1, y + N)
  BY <1>1, <1>2 DEF WhileOpen
<1>. QED  BY <1>1, <1>2 DEF WhileOpen

LEMMA LockedMishap ==
  ASSUME NEW g, NEW c, NEW y, NEW v, NEW a, NEW i, NEW l, NEW s, Sizes(g, c, y, v, a, i, l, s),
         WhileLocked(g, c, v, a, s, y)
  PROVE  /\ WhileLocked(g, c, v, a, s, y + N) /\ WhileOpen(g, c, a, i, l, s, y + N)
         /\ v >= 1 => WhileLocked(g, c, v - 1, a, s, y + N)
         /\ a >= 1 => WhileLocked(g, c, v, a - 1, s, y + N)
         /\ s >= 1 => WhileLocked(g, c, v, a, s - 1, y + N)
<1>. USE DEF Sizes
<1>1. /\ s <= N /\ N \in Nat /\ Kept(c, s) \in Int
      /\ s >= 1 => Kept(c, s - 1) \in Int /\ Kept(c, s - 1) >= Kept(c, s)
  BY KeptChanges, Numbers
<1>2. ASSUME s >= 1
      PROVE  WhileLocked(g, c, v, a, s - 1, y + N)
  BY <1>1, <1>2 DEF WhileLocked
<1>. QED  BY <1>1, <1>2 DEF WhileLocked, WhileOpen

(* The bound follows. *)
LEMMA BothBound ==
  ASSUME NEW g, NEW c, NEW y, NEW v, NEW a, NEW i, NEW l, NEW s, Sizes(g, c, y, v, a, i, l, s),
         WhileLocked(g, c, v, a, s, y) \/ WhileOpen(g, c, a, i, l, s, y)
  PROVE  g <= MaxAttempts - 1 + N + (N - 1) * LostBySet + y
<1>. USE DEF Sizes
<1>1. (N - 1) * LostBySet \in Int /\ (N >= 1 => (N - 1) * LostBySet >= 0)
  <2>1. N >= 1 => N - 1 \in Nat
    BY Numbers
  <2>2. N - 1 \in Int
    BY Numbers
  <2>. QED  BY <2>1, <2>2, Numbers, Products
<1>2. N = 0 => (N - 1) * LostBySet = 0 - LostBySet
  BY Numbers
<1>3. s <= N /\ N \in Nat
  BY Numbers
<1>4. CASE c = 0
  BY <1>1, <1>2, <1>3, <1>4, Numbers DEF WhileLocked, WhileOpen
<1>5. CASE c # 0
  <2>1. s < N /\ g <= Kept(c, s) + N + y
    BY <1>3, <1>5, KeptChanges DEF WhileLocked, WhileOpen
  <2>. QED  BY <1>1, <1>3, <2>1, KeptChanges, Numbers
<1>. QED  BY <1>4, <1>5

Quiet == {"idle", "login", "finish", "start", "confirm", "mark", "revoke", "forget", "consume"}

LEMMA SpentSteps ==
  ASSUME RestInv, GuessInv
  PROVE  /\ UNCHANGED budget \/ Spend("request") => Spent' = Spent
         /\ Spend("mishap") => Spent' = Spent + 1 /\ N * Spent' = N * Spent + N
         /\ Spent \in Nat /\ N * Spent \in Nat
<1>1. budget \in [{"request", "mishap"} -> Nat] /\ Spent \in Nat /\ Budget["mishap"] \in Nat
  BY DEF RestInv, GuessInv
<1>2. Spend("request") => Spent' = Spent
  BY <1>1 DEF Spend, Spent
<1>3. Spend("mishap") => Spent' = Spent + 1
  BY <1>1 DEF Spend, Spent
<1>4. N * (Spent + 1) = N * Spent + N /\ N * Spent \in Nat
  BY <1>1, Numbers, Products
<1>. QED  BY <1>1, <1>2, <1>3, <1>4 DEF Spent

(* A browser that neither tries nor counts. *)
LEMMA QuietKeeps ==
  ASSUME RestInv, GuessInv, NEW b \in Browsers, NEW p \in Quiet, NEW q \in Quiet, Moves(b, p, q),
         UNCHANGED <<count, locked, guesses>>, Spent' = Spent
  PROVE  GuessInv'
<1>1. \A pc \in {"verify", "add", "incr", "lock", "set"} : In(pc)' = In(pc)
  BY MovesCount DEF Quiet
<1>. QED  BY <1>1 DEF GuessInv

LEMMA GuessSizes ==
  ASSUME RestInv, GuessInv
  PROVE  Sizes(guesses, count, N * Spent,
               In("verify"), In("add"), In("incr"), In("lock"), In("set"))
BY ApartSize, SpentSteps DEF Sizes, RestInv

LEMMA InNaturals == \A pc : In(pc) \in Nat
BY ApartSize

(* The entries are forgotten, by a browser that neither tries nor counts,  *)
(* or because their time is over.                                          *)
LEMMA ForgetKeeps ==
  ASSUME count' = 0, guesses' = 0, Spent' \in Nat
  PROVE  GuessInv'
<1>1. N * Spent' \in Nat
  BY Numbers, Products
<1>2. (\A pc : In(pc) \in Nat)'
  BY InNaturals, PTL
<1>. QED  BY <1>1, <1>2 DEF GuessInv, WhileOpen, WhileLocked

LEMMA InitGuess == Init => GuessInv
<1>. SUFFICES ASSUME Init PROVE GuessInv
  OBVIOUS
<1>1. Spent = 0 /\ N * 0 = 0 /\ guesses = 0 /\ count = 0
  BY Numbers DEF Init, Spent
<1>. QED  BY <1>1, InNaturals DEF GuessInv, WhileOpen, WhileLocked

(* MfaChallengeView.post, issue_membership_step_up, and what else arrives. *)
LEMMA ArriveMoves ==
  ASSUME RestInv, NEW b \in Browsers, Arrive(b)
  PROVE  /\ UNCHANGED <<count, locked, guesses>> /\ Spend("request")
         /\ \/ \E q \in Quiet : Moves(b, "idle", q)
            \/ Moves(b, "idle", "verify") /\ ~locked
<1>1. request \in [Browsers -> Answering]
  BY DEF RestInv
<1>2. \A c \in Browsers, v \in BOOLEAN : [request[c] EXCEPT !.newest = v].pc = request[c].pc
  BY <1>1 DEF Answering
<1>3. \A pc, kind : Asking(pc, kind).pc = pc
  BY DEF Asking, Idle
<1>4. ASSUME NEW onAdmin \in BOOLEAN, Login(b, onAdmin) \/ Visit(b, onAdmin)
      PROVE  Spend("request") /\ UNCHANGED cache /\ Moves(b, "idle", "idle")
  <2>1. request' = request \/ request' = [c \in Browsers |-> [request[c] EXCEPT !.newest = FALSE]]
    BY <1>4 DEF Login, Visit
  <2>2. \A c \in Browsers : request'[c].pc = request[c].pc
    BY <1>2, <2>1
  <2>. QED  BY <1>4, <2>2 DEF Login, Visit, Request, Moves, Idle
<1>5. ASSUME NEW kind, Submit(b, kind)
      PROVE  Spend("request") /\ UNCHANGED cache /\ Moves(b, "idle", "verify") /\ ~locked
  <2>1. request' = [request EXCEPT ![b] = Asking("verify", kind)] /\ request[b] = Idle
    BY <1>5 DEF Submit, Request
  <2>2. Moves(b, "idle", "verify")
    BY <1>1, <1>3, <2>1 DEF Moves, Idle
  <2>. QED  BY <1>5, <2>2 DEF Submit, Request, MayTry
<1>6. ASSUME StepUp(b)
      PROVE  Spend("request") /\ UNCHANGED cache /\ Moves(b, "idle", "verify") /\ ~locked
  <2>1. request' = [request EXCEPT ![b] = Asking("verify", "stepup")] /\ request[b] = Idle
    BY <1>6 DEF StepUp, Request
  <2>2. Moves(b, "idle", "verify")
    BY <1>1, <1>3, <2>1 DEF Moves, Idle
  <2>. QED  BY <1>6, <2>2 DEF StepUp, Request, MayTry
<1>7. ASSUME NEW pc \in {"start", "confirm", "revoke"}, Ask(b, pc)
      PROVE  Spend("request") /\ UNCHANGED cache /\ Moves(b, "idle", pc)
  <2>1. request' = [request EXCEPT ![b] = Asking(pc, "none")] /\ request[b] = Idle
    BY <1>7 DEF Ask, Request
  <2>2. Moves(b, "idle", pc)
    BY <1>1, <1>3, <2>1 DEF Moves, Idle
  <2>. QED  BY <1>7, <2>2 DEF Ask, Request
<1>8. ASSUME DropPending(b) \/ Overtaken(b) \/ Logout(b)
      PROVE  Spend("request") /\ UNCHANGED cache /\ Moves(b, "idle", "idle")
  BY <1>8 DEF DropPending, Overtaken, Logout, Request, Moves, Idle
<1>. QED  BY <1>4, <1>5, <1>6, <1>7, <1>8 DEF Arrive, cache, Quiet

LEMMA ArriveKeepsGuess ==
  ASSUME RestInv, GuessInv, NEW b \in Browsers, Arrive(b)
  PROVE  GuessInv'
<1>1. /\ UNCHANGED <<count, locked, guesses>> /\ Spent' = Spent
      /\ \/ \E q \in Quiet : Moves(b, "idle", q)
         \/ Moves(b, "idle", "verify") /\ ~locked
  BY ArriveMoves, SpentSteps
<1>2. CASE \E q \in Quiet : Moves(b, "idle", q)
  BY <1>1, <1>2, QuietKeeps DEF Quiet
<1>3. CASE Moves(b, "idle", "verify") /\ ~locked
  <2>1. \A pc \in {"add", "incr", "lock", "set"} : In(pc)' = In(pc)
    BY <1>3, MovesCount
  <2>. QED  BY <1>1, <1>3, <2>1 DEF GuessInv
<1>. QED  BY <1>1, <1>2, <1>3

(* The answers that neither try a code nor count: afterwards the failures  *)
(* are as they were, or forgotten.                                         *)
LEMMA QuietAnswers ==
  ASSUME RestInv, NEW b \in Browsers,
         \/ \E s \in Window \union {NoStep} : Confirm(b, s) \/ Revoke(b, s)
         \/ LogIn(b) \/ ForgetAfterStepUp(b) \/ Consume(b) \/ RefuseCapability(b)
         \/ \E remember \in {"yes", "no", "as it was"} : Finish(b, remember)
         \/ Start(b) \/ MarkConfirmed(b)
  PROVE  /\ \E p, q \in Quiet : Moves(b, p, q)
         /\ UNCHANGED budget
         /\ UNCHANGED <<count, locked, guesses>> \/ (count' = 0 /\ guesses' = 0 /\ locked' = FALSE)
<1>1. request \in [Browsers -> Answering] /\ Idle.pc = "idle"
  BY DEF RestInv, Idle
<1>2. ASSUME NEW p \in Quiet, NEW q \in Quiet, request[b].pc = p,
             \/ request' = [request EXCEPT ![b].pc = q]
             \/ request' = [request EXCEPT ![b] = Idle] /\ q = "idle"
      PROVE  Moves(b, p, q)
  BY <1>1, <1>2 DEF Moves, Answering
<1>3. ASSUME NEW s, Confirm(b, s)
      PROVE  (\E q \in {"mark", "idle"} : Moves(b, "confirm", q)) /\ UNCHANGED <<cache, budget>>
  BY <1>2, <1>3 DEF Confirm, Quiet
<1>4. ASSUME NEW s, Revoke(b, s)
      PROVE  Moves(b, "revoke", "idle") /\ UNCHANGED <<cache, budget>>
  BY <1>2, <1>4 DEF Revoke, Quiet
<1>5. ASSUME LogIn(b)
      PROVE  Moves(b, "login", "finish") /\ UNCHANGED <<cache, budget>>
  <2>1. CASE session[b].user /\ request[b].kind = "challenge"
    <3>1. request' = [request EXCEPT ![b].pc = "finish", ![b].newest = session[b].newest]
      BY <1>5, <2>1 DEF LogIn
    <3>2. request'[b].pc = "finish" /\ \A o \in Browsers \ {b} : request'[o] = request[o]
      BY <1>1, <3>1 DEF Answering
    <3>. QED  BY <1>5, <3>2 DEF LogIn, Moves
  <2>2. CASE ~(session[b].user /\ request[b].kind = "challenge")
    <3>1. request' = [c \in Browsers |->
               IF c = b THEN [request[b] EXCEPT !.pc = "finish", !.newest = TRUE]
               ELSE [request[c] EXCEPT !.newest = FALSE]]
      BY <1>5, <2>2 DEF LogIn
    <3>2. \A c \in Browsers : /\ [request[c] EXCEPT !.pc = "finish", !.newest = TRUE].pc = "finish"
                              /\ [request[c] EXCEPT !.newest = FALSE].pc = request[c].pc
      BY <1>1 DEF Answering
    <3>. QED  BY <1>5, <3>1, <3>2 DEF LogIn, Moves
  <2>. QED  BY <2>1, <2>2
<1>6. ASSUME NEW remember, Finish(b, remember)
      PROVE  Moves(b, "finish", "idle") /\ UNCHANGED budget /\ Forget
  BY <1>2, <1>6 DEF Finish, Quiet
<1>7. ASSUME ForgetAfterStepUp(b)
      PROVE  Moves(b, "forget", "consume") /\ UNCHANGED budget /\ Forget
  BY <1>2, <1>7 DEF ForgetAfterStepUp, Quiet
<1>8. ASSUME Consume(b) \/ RefuseCapability(b)
      PROVE  Moves(b, "consume", "idle") /\ UNCHANGED <<cache, budget>>
  BY <1>2, <1>8 DEF Consume, RefuseCapability, Quiet
<1>9. ASSUME Start(b)
      PROVE  Moves(b, "start", "idle") /\ UNCHANGED <<cache, budget>>
  BY <1>2, <1>9 DEF Start, Quiet
<1>10. ASSUME MarkConfirmed(b)
       PROVE  Moves(b, "mark", "idle") /\ UNCHANGED <<cache, budget>>
  BY <1>2, <1>10 DEF MarkConfirmed, Quiet
<1>. QED
  BY <1>3, <1>4, <1>5, <1>6, <1>7, <1>8, <1>9, <1>10 DEF cache, Forget, Quiet

(* verify_active_totp, consume_recovery_code_for_rebind                    *)
LEMMA TryKeepsGuess ==
  ASSUME RestInv, GuessInv, NEW b \in Browsers,
         (\E s \in Window \union {NoStep} : Verify(b, s)) \/ (\E right \in BOOLEAN : Recover(b, right))
  PROVE  GuessInv'
<1>1. request \in [Browsers -> Answering]
  BY DEF RestInv
<1>2. ASSUME NEW q, request[b].pc = "verify",
             \/ request' = [request EXCEPT ![b].pc = q]
             \/ request' = [request EXCEPT ![b].pc = q, ![b].version = device'.version]
             \/ request' = [request EXCEPT ![b].version = device.version, ![b].pc = q]
      PROVE  Moves(b, "verify", q)
  BY <1>1, <1>2 DEF Moves, Answering
<1>3. ASSUME NEW s, Verify(b, s)
      PROVE  \/ guesses' = guesses /\ \E q \in {"forget", "login"} : Moves(b, "verify", q)
             \/ guesses' \in {guesses, guesses + 1} /\ Moves(b, "verify", "add")
  <2>1. CASE Active /\ Fresh(b, s)
    <3>1. PICK q \in {"forget", "login"} :
            request' = [request EXCEPT ![b].version = device.version, ![b].pc = q]
      BY <1>3, <2>1 DEF Verify
    <3>2. Moves(b, "verify", q)
      BY <1>2, <1>3, <3>1 DEF Verify
    <3>. QED  BY <1>3, <2>1, <3>2 DEF Verify
  <2>2. CASE ~(Active /\ Fresh(b, s))
    <3>1. request' = [request EXCEPT ![b].pc = "add"]
      BY <1>3, <2>2 DEF Verify
    <3>2. Moves(b, "verify", "add")
      BY <1>2, <1>3, <3>1 DEF Verify
    <3>. QED  BY <1>3, <2>2, <3>2 DEF Verify
  <2>. QED  BY <2>1, <2>2
<1>4. ASSUME NEW right, Recover(b, right)
      PROVE  \/ guesses' = guesses /\ \E q \in {"forget", "login"} : Moves(b, "verify", q)
             \/ guesses' \in {guesses, guesses + 1} /\ Moves(b, "verify", "add")
  <2>1. CASE Active /\ right /\ request[b].seed \in codes
    <3>1. request' = [request EXCEPT ![b].pc = "login", ![b].version = device'.version]
      BY <1>4, <2>1 DEF Recover
    <3>2. Moves(b, "verify", "login")
      BY <1>2, <1>4, <3>1 DEF Recover
    <3>. QED  BY <1>4, <2>1, <3>2 DEF Recover
  <2>2. CASE ~(Active /\ right /\ request[b].seed \in codes)
    <3>1. request' = [request EXCEPT ![b].pc = "add"]
      BY <1>4, <2>2 DEF Recover
    <3>2. Moves(b, "verify", "add")
      BY <1>2, <1>4, <3>1 DEF Recover
    <3>. QED  BY <1>4, <2>2, <3>2 DEF Recover
  <2>. QED  BY <2>1, <2>2
<1>5. UNCHANGED <<count, locked, budget>>
  BY DEF Verify, Recover
<1>6. Spent' = Spent
  BY <1>5 DEF Spent
<1>7. Sizes(guesses, count, N * Spent,
            In("verify"), In("add"), In("incr"), In("lock"), In("set"))
  BY GuessSizes
<1>8. CASE guesses' = guesses /\ \E q \in {"forget", "login"} : Moves(b, "verify", q)
  <2>1. PICK q \in {"forget", "login"} : Moves(b, "verify", q)
    BY <1>8
  <2>2. /\ In("verify")' = In("verify") - 1 /\ In("verify") >= 1
        /\ \A pc \in {"add", "incr", "lock", "set"} : In(pc)' = In(pc)
    BY <2>1, MovesCount
  <2>3. locked => WhileLocked(guesses, count, In("verify") - 1, In("add"), In("set"), N * Spent)
    BY <1>7, <2>2, LockedSteps DEF GuessInv
  <2>. QED  BY <1>5, <1>6, <1>8, <2>2, <2>3 DEF GuessInv
<1>9. CASE guesses' \in {guesses, guesses + 1} /\ Moves(b, "verify", "add")
  <2>1. /\ In("verify")' = In("verify") - 1 /\ In("verify") >= 1
        /\ In("add")' = In("add") + 1
        /\ \A pc \in {"incr", "lock", "set"} : In(pc)' = In(pc)
    BY <1>9, MovesCount
  <2>2. locked => WhileLocked(guesses', count, In("verify") - 1, In("add") + 1, In("set"), N * Spent)
    BY <1>9, <1>7, <2>1, LockedSteps DEF GuessInv
  <2>3. ~locked => WhileOpen(guesses', count, In("add") + 1, In("incr"), In("lock"), In("set"), N * Spent)
    BY <1>9, <1>7, <2>1, OpenSteps DEF GuessInv
  <2>. QED  BY <1>5, <1>6, <2>1, <2>2, <2>3 DEF GuessInv
<1>. QED  BY <1>3, <1>4, <1>8, <1>9

(* record_challenge_failure: the count becomes n. *)
LEMMA CountedMoves ==
  ASSUME RestInv, NEW b \in Browsers, NEW n \in Nat, Counted(b, n)
  PROVE  /\ Moves(b, request[b].pc, IF n >= MaxAttempts THEN "lock" ELSE "idle")
         /\ count' = n /\ UNCHANGED <<locked, guesses, budget>>
<1>1. request \in [Browsers -> Answering] /\ Idle.pc = "idle"
  BY DEF RestInv, Idle
<1>2. request' = [request EXCEPT ![b] = IF n >= MaxAttempts THEN [request[b] EXCEPT !.pc = "lock"] ELSE Idle]
  BY DEF Counted
<1>3. request'[b].pc = IF n >= MaxAttempts THEN "lock" ELSE "idle"
  BY <1>1, <1>2 DEF Answering
<1>. QED  BY <1>2, <1>3 DEF Counted, Moves

LEMMA CountKeepsGuess ==
  ASSUME RestInv, GuessInv, NEW b \in Browsers, CountFailure(b)
  PROVE  GuessInv'
<1>1. request \in [Browsers -> Answering] /\ Idle.pc = "idle" /\ count \in Nat
  BY DEF RestInv, Idle
<1>2. Spent' = Spent
  BY DEF CountFailure, CountFirst, CountExists, CountNext, CountGone, CountAgain, Counted, Lock, Spent
<1>3. Sizes(guesses, count, N * Spent,
            In("verify"), In("add"), In("incr"), In("lock"), In("set"))
  BY GuessSizes
<1>4. CASE CountFirst(b)
  <2>1. /\ Moves(b, "add", IF 1 >= MaxAttempts THEN "lock" ELSE "idle")
        /\ count = 0 /\ count' = 1 /\ UNCHANGED <<locked, guesses>>
    BY <1>4, CountedMoves DEF CountFirst
  <2>2. /\ In("add")' = In("add") - 1 /\ In("add") >= 1
        /\ In("lock")' = IF 1 >= MaxAttempts THEN In("lock") + 1 ELSE In("lock")
        /\ \A pc \in {"verify", "incr", "set"} : In(pc)' = In(pc)
    BY <2>1, MovesCount
  <2>3. locked => WhileLocked(guesses, 1, In("verify"), In("add") - 1, In("set"), N * Spent)
    BY <1>3, <2>1, <2>2, LockedCounts DEF GuessInv
  <2>4. ~locked => WhileOpen(guesses, 1, In("add") - 1, In("incr"),
                 IF 1 >= MaxAttempts THEN In("lock") + 1 ELSE In("lock"), In("set"), N * Spent)
    BY <1>3, <2>1, <2>2, OpenCounts DEF GuessInv
  <2>. QED  BY <1>2, <2>1, <2>2, <2>3, <2>4 DEF GuessInv
<1>5. CASE CountExists(b)
  <2>1. request' = [request EXCEPT ![b].pc = "incr"] /\ request[b].pc = "add"
        /\ count # 0 /\ UNCHANGED <<count, locked, guesses>>
    BY <1>5 DEF CountExists, cache
  <2>2. Moves(b, "add", "incr")
    BY <1>1, <2>1 DEF Moves, Answering
  <2>3. /\ In("add")' = In("add") - 1 /\ In("add") >= 1 /\ In("incr")' = In("incr") + 1
        /\ \A pc \in {"verify", "lock", "set"} : In(pc)' = In(pc)
    BY <2>2, MovesCount
  <2>4. locked => WhileLocked(guesses, count, In("verify"), In("add") - 1, In("set"), N * Spent)
    BY <1>3, <2>1, <2>3, LockedSteps DEF GuessInv
  <2>5. ~locked => WhileOpen(guesses, count, In("add") - 1, In("incr") + 1, In("lock"), In("set"), N * Spent)
    BY <1>3, <2>1, <2>3, OpenSteps DEF GuessInv
  <2>. QED  BY <1>2, <2>1, <2>3, <2>4, <2>5 DEF GuessInv
<1>6. CASE CountNext(b)
  <2>1. /\ Moves(b, "incr", IF count + 1 >= MaxAttempts THEN "lock" ELSE "idle")
        /\ count # 0 /\ count' = count + 1 /\ UNCHANGED <<locked, guesses>>
    BY <1>1, <1>6, CountedMoves DEF CountNext
  <2>2. /\ In("incr")' = In("incr") - 1 /\ In("incr") >= 1
        /\ In("lock")' = IF count + 1 >= MaxAttempts THEN In("lock") + 1 ELSE In("lock")
        /\ \A pc \in {"verify", "add", "set"} : In(pc)' = In(pc)
    BY <2>1, MovesCount
  <2>3. locked => WhileLocked(guesses, count + 1, In("verify"), In("add"), In("set"), N * Spent)
    BY <1>3, <2>1, <2>2, LockedCounts DEF GuessInv
  <2>4. ~locked => WhileOpen(guesses, count + 1, In("add"), In("incr") - 1,
                 IF count + 1 >= MaxAttempts THEN In("lock") + 1 ELSE In("lock"), In("set"), N * Spent)
    BY <1>3, <2>1, <2>2, OpenCounts DEF GuessInv
  <2>. QED  BY <1>2, <2>1, <2>2, <2>3, <2>4 DEF GuessInv
<1>7. CASE CountGone(b)
  <2>1. request' = [request EXCEPT ![b].pc = "set"] /\ request[b].pc = "incr"
        /\ count = 0 /\ UNCHANGED <<count, locked, guesses>>
    BY <1>7 DEF CountGone, cache
  <2>2. Moves(b, "incr", "set")
    BY <1>1, <2>1 DEF Moves, Answering
  <2>3. /\ In("incr")' = In("incr") - 1 /\ In("incr") >= 1 /\ In("set")' = In("set") + 1
        /\ \A pc \in {"verify", "lock", "add"} : In(pc)' = In(pc)
    BY <2>2, MovesCount
  <2>4. locked => WhileLocked(guesses, count, In("verify"), In("add"), In("set") + 1, N * Spent)
    BY <1>3, <2>1, <2>3, LockedSteps DEF GuessInv
  <2>5. ~locked => WhileOpen(guesses, count, In("add"), In("incr") - 1, In("lock"), In("set") + 1, N * Spent)
    BY <1>3, <2>1, <2>3, OpenSteps DEF GuessInv
  <2>. QED  BY <1>2, <2>1, <2>3, <2>4, <2>5 DEF GuessInv
<1>8. CASE CountAgain(b)
  <2>1. /\ Moves(b, "set", IF 1 >= MaxAttempts THEN "lock" ELSE "idle")
        /\ count' = 1 /\ UNCHANGED <<locked, guesses>>
    BY <1>8, CountedMoves DEF CountAgain
  <2>2. /\ In("set")' = In("set") - 1 /\ In("set") >= 1
        /\ In("lock")' = IF 1 >= MaxAttempts THEN In("lock") + 1 ELSE In("lock")
        /\ \A pc \in {"verify", "add", "incr"} : In(pc)' = In(pc)
    BY <2>1, MovesCount
  <2>3. locked => WhileLocked(guesses, 1, In("verify"), In("add"), In("set") - 1, N * Spent)
    BY <1>3, <2>1, <2>2, LockedCounts DEF GuessInv
  <2>4. ~locked => WhileOpen(guesses, 1, In("add"), In("incr"),
                 IF 1 >= MaxAttempts THEN In("lock") + 1 ELSE In("lock"), In("set") - 1, N * Spent)
    BY <1>3, <2>1, <2>2, OpenCounts DEF GuessInv
  <2>. QED  BY <1>2, <2>1, <2>2, <2>3, <2>4 DEF GuessInv
<1>9. CASE Lock(b)
  <2>1. request' = [request EXCEPT ![b] = Idle] /\ request[b].pc = "lock"
        /\ locked' = TRUE /\ UNCHANGED <<count, guesses>>
    BY <1>9 DEF Lock
  <2>2. Moves(b, "lock", "idle")
    BY <1>1, <2>1 DEF Moves
  <2>3. /\ In("lock")' = In("lock") - 1 /\ In("lock") >= 1
        /\ \A pc \in {"verify", "add", "incr", "set"} : In(pc)' = In(pc)
    BY <2>2, MovesCount
  <2>4. WhileLocked(guesses, count, In("verify"), In("add"), In("set"), N * Spent)
    BY <1>3, <2>3, OpenSteps DEF GuessInv
  <2>. QED  BY <1>2, <2>1, <2>3, <2>4 DEF GuessInv
<1>. QED  BY <1>4, <1>5, <1>6, <1>7, <1>8, <1>9 DEF CountFailure

(* A request is lost, a lock ends early, or something else happens that    *)
(* the budget of mishaps pays for.                                         *)
LEMMA MishapKeepsGuess ==
  ASSUME RestInv, GuessInv, Spend("mishap"), UNCHANGED <<count, guesses>>,
         locked' \in BOOLEAN, locked' = locked \/ ~locked',
         \/ UNCHANGED request
         \/ \E b \in Browsers : request' = [request EXCEPT ![b] = Idle] /\ UNCHANGED locked
  PROVE  GuessInv'
<1>1. request \in [Browsers -> Answering] /\ Idle.pc = "idle"
  BY DEF RestInv, Idle
<1>2. Spent' \in Nat /\ N * Spent' = N * Spent + N
  BY SpentSteps
<1>3. Sizes(guesses, count, N * Spent,
            In("verify"), In("add"), In("incr"), In("lock"), In("set"))
  BY GuessSizes
<1>4. CASE UNCHANGED request
  <2>1. \A pc : In(pc)' = In(pc)
    BY <1>4 DEF In
  <2>2. locked => WhileLocked(guesses, count, In("verify"), In("add"), In("set"), N * Spent + N)
    BY <1>3, LockedMishap DEF GuessInv
  <2>3. WhileOpen(guesses, count, In("add"), In("incr"), In("lock"), In("set"), N * Spent + N)
    BY <1>3, LockedMishap, OpenMishap DEF GuessInv
  <2>. QED  BY <1>2, <2>1, <2>2, <2>3 DEF GuessInv
<1>5. ASSUME NEW b \in Browsers, request' = [request EXCEPT ![b] = Idle], UNCHANGED locked
      PROVE  GuessInv'
  <2>1. Moves(b, request[b].pc, "idle")
    BY <1>1, <1>5 DEF Moves
  <2>2. ASSUME NEW pc, pc # "idle"
        PROVE  /\ In(pc)' = In(pc) \/ (In(pc)' = In(pc) - 1 /\ In(pc) >= 1)
               /\ In(pc)' # In(pc) => pc = request[b].pc
    BY <2>1, <2>2, MovesCount
  <2> DEFINE v == In("verify")
             a == In("add")
             i == In("incr")
             l == In("lock")
             s == In("set")
             y == N * Spent
  <2>3. \/ v' = v /\ a' = a /\ i' = i /\ l' = l /\ s' = s
        \/ v >= 1 /\ v' = v - 1 /\ a' = a /\ i' = i /\ l' = l /\ s' = s
        \/ a >= 1 /\ v' = v /\ a' = a - 1 /\ i' = i /\ l' = l /\ s' = s
        \/ i >= 1 /\ v' = v /\ a' = a /\ i' = i - 1 /\ l' = l /\ s' = s
        \/ l >= 1 /\ v' = v /\ a' = a /\ i' = i /\ l' = l - 1 /\ s' = s
        \/ s >= 1 /\ v' = v /\ a' = a /\ i' = i /\ l' = l /\ s' = s - 1
    BY <2>2
  <2>4. Sizes(guesses, count, y, v, a, i, l, s)
        /\ IF locked THEN WhileLocked(guesses, count, v, a, s, y)
           ELSE WhileOpen(guesses, count, a, i, l, s, y)
    BY <1>3 DEF GuessInv
  <2>5. GuessInv' <=> IF locked THEN WhileLocked(guesses, count, v', a', s', y + N)
                      ELSE WhileOpen(guesses, count, a', i', l', s', y + N)
    BY <1>2, <1>5 DEF GuessInv
  <2> HIDE DEF v, a, i, l, s, y
  <2>6. CASE locked
    <3>1. WhileLocked(guesses, count, v', a', s', y + N)
      BY <2>3, <2>4, <2>6, LockedMishap
    <3>. QED  BY <2>5, <2>6, <3>1
  <2>7. CASE ~locked
    <3>1. WhileOpen(guesses, count, a', i', l', s', y + N)
      BY <2>3, <2>4, <2>7, OpenMishap
    <3>. QED  BY <2>5, <2>7, <3>1
  <2>. QED  BY <2>6, <2>7
<1>. QED  BY <1>4, <1>5

LEMMA AnswerKeepsGuess ==
  ASSUME RestInv, GuessInv, NEW b \in Browsers, Answer(b)
  PROVE  GuessInv'
<1>1. CASE (\E s \in Window \union {NoStep} : Verify(b, s)) \/ (\E right \in BOOLEAN : Recover(b, right))
  BY <1>1, TryKeepsGuess
<1>2. CASE CountFailure(b)
  BY <1>2, CountKeepsGuess
<1>3. CASE \/ \E s \in Window \union {NoStep} : Confirm(b, s) \/ Revoke(b, s)
           \/ LogIn(b) \/ ForgetAfterStepUp(b) \/ Consume(b) \/ RefuseCapability(b)
           \/ \E remember \in {"yes", "no", "as it was"} : Finish(b, remember)
           \/ Start(b) \/ MarkConfirmed(b)
  <2>1. /\ \E p, q \in Quiet : Moves(b, p, q)
        /\ UNCHANGED budget
        /\ UNCHANGED <<count, locked, guesses>> \/ (count' = 0 /\ guesses' = 0 /\ locked' = FALSE)
    BY <1>3, QuietAnswers
  <2>2. Spent' = Spent /\ Spent \in Nat
    BY <2>1, SpentSteps
  <2>. QED  BY <2>1, <2>2, QuietKeeps, ForgetKeeps
<1>. QED  BY <1>1, <1>2, <1>3 DEF Answer

LEMMA StepGuess ==
  ASSUME RestInv, GuessInv, [Next]_vars
  PROVE  GuessInv'
<1>1. CASE UNCHANGED vars
  <2>1. /\ \A pc : In(pc)' = In(pc)
        /\ UNCHANGED <<count, locked, guesses>> /\ Spent' = Spent
    BY <1>1 DEF vars, In, Spent
  <2>. QED  BY <2>1 DEF GuessInv
<1>2. ASSUME NEW b \in Browsers, Arrive(b)
      PROVE  GuessInv'
  BY <1>2, ArriveKeepsGuess
<1>3. ASSUME NEW b \in Browsers, Answer(b)
      PROVE  GuessInv'
  BY <1>3, AnswerKeepsGuess
<1>4. ASSUME NEW b \in Browsers, Lapse(b) \/ BreakOff(b)
      PROVE  GuessInv'
  BY <1>4, MishapKeepsGuess DEF Lapse, BreakOff, cache, RestInv
<1>5. CASE Tick \/ Bind
  <2>1. /\ \A pc : In(pc)' = In(pc)
        /\ UNCHANGED <<count, locked, guesses>> /\ Spent' = Spent
    BY <1>5 DEF Tick, Bind, cache, In, Spent
  <2>. QED  BY <2>1 DEF GuessInv
<1>6. CASE PendingExpires \/ LockExpires \/ RevokeByOperator \/ RevokeCertificate
  BY <1>6, MishapKeepsGuess
     DEF PendingExpires, LockExpires, RevokeByOperator, RevokeCertificate, cache, RestInv
<1>7. CASE CountExpires
  <2>1. count' = 0 /\ guesses' = 0 /\ locked' \in BOOLEAN /\ Spent' \in Nat
    BY <1>7, SpentSteps DEF CountExpires, RestInv
  <2>. QED  BY <2>1, ForgetKeeps
<1>. QED  BY <1>1, <1>2, <1>3, <1>4, <1>5, <1>6, <1>7 DEF Next

(* challenge_is_locked, record_challenge_failure: between two moments at   *)
(* which the failures are forgotten, however many browsers try and however *)
(* their calls overlap, the wrong codes tried stay within what the count,  *)
(* the tries under way, late sets and mishaps can account for.             *)
THEOREM CodeTriesAreBounded == Spec => []GuessesBounded
<1>1. Init => DeviceInv /\ RestInv /\ GuessInv
  BY InitDevice, InitRest, InitGuess
<1>2. DeviceInv /\ RestInv /\ GuessInv /\ [Next]_vars => (DeviceInv /\ RestInv /\ GuessInv)'
  BY StepDevice, StepRest, StepGuess
<1>3. RestInv /\ GuessInv => GuessesBounded
  <2>. SUFFICES ASSUME RestInv, GuessInv PROVE GuessesBounded
    OBVIOUS
  <2>1. guesses <= MaxAttempts - 1 + N + (N - 1) * LostBySet + N * Spent
    BY GuessSizes, BothBound DEF GuessInv
  <2>. QED  BY <2>1 DEF GuessesBounded, N, Spent
<1>. QED  BY <1>1, <1>2, <1>3, PTL DEF Spec

-----------------------------------------------------------------------------
(* Sessions follow the seed *)

(* b may still act as the browser that was logged in last. *)
Newest(b) == session[b].newest \/ request[b].newest

(* An entry of the version the device has. *)
Holds(b) ==
  \/ session[b].mode = "full" /\ session[b].version = device.version
  \/ session[b].remembered = device.version

(* b has shown the seed in force; and if one waits for its confirmation, no *)
(* other browser is about to confirm it.                                    *)
Shown(b) ==
  /\ Active => device.seed \in proved[b]
  /\ device.status = "pending" =>
       \A c \in Browsers \ {b} : request[c].pc = "confirm" => request[c].seed # device.seed

(* A login under way: what it has verified is of the device, unless that    *)
(* has been erased since; what the session remembers is older than what a   *)
(* recovery has erased.                                                     *)
LoginHolds(b) ==
  /\ request[b].kind \in {"challenge", "recovery"} /\ request[b].version <= device.version
  /\ request[b].kind = "challenge" =>
       /\ request[b].seed \in proved[b]
       /\ request[b].version = device.version => Active /\ device.seed = request[b].seed
       /\ request[b].newest => session[b].newest \/ session[b].remembered = NoVersion
  /\ request[b].kind = "recovery" => session[b].remembered < request[b].version

(* An entry of the version of the device belongs to its seed, in the newest *)
(* session; a step-up was asked for under the seed of its entries.          *)
GrantOf(b) ==
  /\ session[b].version <= device.version /\ session[b].remembered <= device.version
  /\ request[b].seed <= device.seed
  /\ ~session[b].user => session[b].remembered = NoVersion
  /\ request[b].pc \in {"login", "finish"} => LoginHolds(b)
  /\ request[b].pc \in {"forget", "consume"} => request[b].kind = "stepup"
  /\ request[b].newest => request[b].pc = "finish"
  /\ request[b].kind = "stepup" /\ Holds(b) =>
       Active /\ device.seed = request[b].seed
  /\ session[b].newest /\ (request[b].pc = "mark" \/ Holds(b)) => Shown(b)

OneNewest == \A b, c \in Browsers : Newest(b) /\ Newest(c) => b = c

GrantInv == OneNewest /\ \A b \in Browsers : GrantOf(b)

(* What a step may do to the device, ... *)
DeviceSame == device'.version = device.version /\ device'.seed = device.seed
              /\ device'.status = device.status
DeviceErased == device'.version = device.version + 1 /\ device'.seed = device.seed
                /\ device'.status = "revoked"
DeviceStarted == device'.version = device.version /\ device'.seed = device.seed + 1
                 /\ device'.status = "pending" /\ ~Active
DeviceConfirmed(b) ==
  /\ device'.version = device.version /\ device'.seed = device.seed
  /\ device'.status = "active" /\ device.status = "pending"
  /\ request[b].pc = "confirm" /\ request[b].seed = device.seed

(* ... and to a browser that takes no part in it. *)
LeftAlone(c) ==
  /\ session'[c].user = session[c].user /\ session'[c].mode = session[c].mode
  /\ session'[c].version = session[c].version /\ session'[c].remembered = session[c].remembered
  /\ request'[c].pc = request[c].pc /\ request'[c].kind = request[c].kind
  /\ request'[c].version = request[c].version /\ request'[c].seed = request[c].seed
  /\ \/ session'[c].newest = session[c].newest /\ request'[c].newest = request[c].newest
     \/ session'[c].newest = FALSE /\ request'[c].newest = FALSE
  /\ proved'[c] = proved[c]

(* Only the newest browser asks for a confirmation. *)
ConfirmsOld ==
  \A d \in Browsers : request'[d].pc = "confirm" =>
    \/ request[d].pc = "confirm" /\ request'[d].seed = request[d].seed
    \/ session[d].newest

Types == DeviceInv /\ RestInv

LEMMA GrantTypes ==
  ASSUME Types, NEW b \in Browsers
  PROVE  /\ session[b] \in SessionEntry /\ request[b] \in Answering
         /\ session[b].version \in Int /\ session[b].remembered \in Int /\ request[b].version \in Int
         /\ request[b].seed \in Nat
         /\ session[b].newest \in BOOLEAN /\ session[b].user \in BOOLEAN /\ request[b].newest \in BOOLEAN
         /\ device.version \in Nat /\ device.seed \in Nat /\ NoVersion \in Int /\ NoVersion < 0
<1>1. session[b] \in SessionEntry /\ request[b] \in Answering
  BY DEF Types, RestInv
<1>2. session[b].version \in Versions /\ session[b].remembered \in Versions
      /\ session[b].newest \in BOOLEAN /\ session[b].user \in BOOLEAN
  BY <1>1 DEF SessionEntry
<1>3. request[b].version \in Versions /\ request[b].seed \in {0} \union Seeds
      /\ request[b].newest \in BOOLEAN
  BY <1>1 DEF Answering
<1>4. device.version \in Nat /\ device.seed \in {0} \union Seeds
  BY DEF Types, DeviceInv, Device
<1>. QED  BY <1>1, <1>2, <1>3, <1>4 DEF Versions, NoVersion, Seeds

(* A browser that takes no part in a step keeps what it has. *)
LEMMA OthersKeepGrants ==
  ASSUME Types, Types', GrantInv, NEW c \in Browsers, LeftAlone(c), ConfirmsOld,
         DeviceSame \/ DeviceErased \/ DeviceStarted \/ (\E b \in Browsers \ {c} : DeviceConfirmed(b))
  PROVE  GrantOf(c)'
<1>1. GrantOf(c)
  BY DEF GrantInv
<1>2. /\ session[c].version \in Int /\ session[c].remembered \in Int /\ request[c].version \in Int
      /\ request[c].seed \in Nat /\ device.version \in Nat /\ device.seed \in Nat
      /\ NoVersion \in Int /\ NoVersion < 0 /\ device'.version \in Nat
      /\ device'.seed \in Nat
  <2>1. device'.version \in Nat /\ device'.seed \in Nat
    BY DEF Types, DeviceInv, Device, Seeds
  <2>. QED  BY <2>1, GrantTypes
<1>a. DeviceSame \/ DeviceErased \/ DeviceStarted
      \/ (device'.version = device.version /\ device'.seed = device.seed /\ device.status = "pending")
  BY DEF DeviceConfirmed
<1>3. /\ device.version <= device'.version /\ device.seed <= device'.seed
      /\ device'.version = device.version => Holds(c)' = Holds(c)
      /\ device'.version # device.version => DeviceErased /\ ~Holds(c)'
  <2>a. DeviceErased => device.version < device'.version /\ device.seed <= device'.seed
    BY <1>2 DEF DeviceErased
  <2>b. ~DeviceErased => device.version = device'.version /\ device.seed <= device'.seed
    BY <1>2, <1>a DEF DeviceStarted, DeviceSame
  <2>1. device.version <= device'.version /\ device.seed <= device'.seed
        /\ (device'.version = device.version \/ (DeviceErased /\ device.version < device'.version))
    BY <1>2, <2>a, <2>b
  <2>2. device'.version = device.version => Holds(c)' = Holds(c)
    BY DEF LeftAlone, Holds
  <2>3. device.version < device'.version => ~Holds(c)'
    BY <1>1, <1>2 DEF LeftAlone, Holds, GrantOf
  <2>. QED  BY <1>2, <2>1, <2>2, <2>3
<1>4. /\ session'[c].version <= device'.version /\ session'[c].remembered <= device'.version
      /\ request'[c].seed <= device'.seed
  <2>1. /\ session[c].version <= device.version /\ session[c].remembered <= device.version
        /\ request[c].seed <= device.seed /\ device'.version \in Nat /\ device'.seed \in Nat
    BY <1>1, <1>2 DEF GrantOf
  <2>2. /\ session'[c].version = session[c].version /\ session'[c].remembered = session[c].remembered
        /\ request'[c].seed = request[c].seed
    BY DEF LeftAlone
  <2>. QED  BY <1>2, <1>3, <2>1, <2>2
<1>5. ~session'[c].user => session'[c].remembered = NoVersion
  BY <1>1 DEF GrantOf, LeftAlone
<1>6. ASSUME request'[c].pc \in {"login", "finish"} PROVE LoginHolds(c)'
  <2>1. LoginHolds(c)
    BY <1>1, <1>6 DEF GrantOf, LeftAlone
  <2>2. request'[c].kind \in {"challenge", "recovery"} /\ request'[c].version <= device'.version
    BY <1>2, <1>3, <2>1 DEF LoginHolds, LeftAlone
  <2>3. request'[c].kind = "recovery" => session'[c].remembered < request'[c].version
    BY <2>1 DEF LoginHolds, LeftAlone
  <2>4. ASSUME request'[c].kind = "challenge", request'[c].version = device'.version
        PROVE  Active' /\ device'.seed = request'[c].seed
    <3>1. request[c].version = device.version
      BY <1>2, <1>3, <2>1, <2>4 DEF LoginHolds, LeftAlone, DeviceErased
    <3>2. Active /\ device.seed = request[c].seed
      BY <2>1, <2>4, <3>1 DEF LoginHolds, LeftAlone
    <3>3. DeviceSame
      <4>1. ~DeviceErased
        <5>1. device'.version = device.version
          BY <2>4, <3>1 DEF LeftAlone
        <5>. QED  BY <1>2, <5>1 DEF DeviceErased
      <4>. QED  BY <1>a, <3>2, <4>1 DEF DeviceStarted, Active
    <3>. QED  BY <3>2, <3>3 DEF DeviceSame, Active, LeftAlone
  <2>5. request'[c].kind = "challenge" =>
          /\ request'[c].seed \in proved'[c]
          /\ request'[c].newest => session'[c].newest \/ session'[c].remembered = NoVersion
    BY <2>1 DEF LoginHolds, LeftAlone
  <2>. QED  BY <2>2, <2>3, <2>4, <2>5 DEF LoginHolds
<1>7. ASSUME request'[c].kind = "stepup", Holds(c)'
      PROVE  Active' /\ device'.seed = request'[c].seed
  <2>1. device'.version = device.version /\ Holds(c)
    BY <1>3, <1>7
  <2>2. Active /\ device.seed = request[c].seed
    BY <1>1, <1>7, <2>1 DEF GrantOf, LeftAlone
  <2>3. DeviceSame
    BY <1>2, <2>1, <2>2 DEF DeviceErased, DeviceStarted, DeviceConfirmed, Active
  <2>. QED  BY <2>2, <2>3 DEF DeviceSame, Active, LeftAlone
<1>8. ASSUME session'[c].newest, request'[c].pc = "mark" \/ Holds(c)'
      PROVE  Shown(c)'
  <2>1. session[c].newest
    BY <1>8 DEF LeftAlone
  <2>2. CASE DeviceErased
    BY <2>2 DEF DeviceErased, Shown, Active
  <2>3. ASSUME ~DeviceErased PROVE Shown(c)
    BY <1>1, <1>3, <1>8, <2>1, <2>3 DEF GrantOf, LeftAlone
  <2>4. ASSUME NEW d \in Browsers \ {c}, request'[d].pc = "confirm"
        PROVE  request[d].pc = "confirm" /\ request'[d].seed = request[d].seed
               /\ request[d].seed \in Nat /\ request[d].seed <= device.seed
    <3>1. ~session[d].newest
      BY <2>1 DEF GrantInv, OneNewest, Newest
    <3>2. GrantOf(d)
      BY DEF GrantInv
    <3>. QED  BY <2>4, <3>1, <3>2, GrantTypes DEF ConfirmsOld, GrantOf
  <2>5. CASE DeviceSame
    <3>1. Shown(c)
      BY <1>2, <2>3, <2>5 DEF DeviceSame, DeviceErased
    <3>. QED  BY <2>4, <2>5, <3>1 DEF DeviceSame, Shown, Active, LeftAlone
  <2>6. CASE DeviceStarted
    BY <1>2, <2>4, <2>6 DEF DeviceStarted, Shown, Active
  <2>7. ASSUME NEW b \in Browsers \ {c}, DeviceConfirmed(b) PROVE FALSE
    BY <2>3, <2>7 DEF DeviceConfirmed, DeviceErased, Shown
  <2>. QED  BY <2>2, <2>5, <2>6, <2>7
<1>9. /\ request'[c].pc \in {"forget", "consume"} => request'[c].kind = "stepup"
      /\ request'[c].newest => request'[c].pc = "finish"
  BY <1>1 DEF GrantOf, LeftAlone
<1>. QED  BY <1>4, <1>5, <1>6, <1>7, <1>8, <1>9 DEF GrantOf

(* A session entry goes or stays, ... *)
SessionShrinks(b) ==
  /\ session'[b].newest => session[b].newest /\ proved[b] \subseteq proved'[b]
  /\ session'[b].mode = "full" =>
       session[b].mode = "full" /\ session'[b].version = session[b].version
  /\ session'[b].version \in {session[b].version, NoVersion}
  /\ session'[b].remembered \in {session[b].remembered, NoVersion}
  /\ session'[b].remembered # NoVersion => session'[b].user = session[b].user

(* ... and a request goes on or ends. *)
RequestMoves(b) ==
  /\ request'[b].pc \notin {"login", "finish", "mark"} /\ ~request'[b].newest
  /\ request'[b].pc \in {"forget", "consume"} => request'[b].kind = "stepup"
  /\ request'[b].pc = "confirm" => session[b].newest
  /\ request'[b].seed \in {request[b].seed, device.seed, 0}
  /\ request'[b].kind = "stepup" => request[b].kind = "stepup" /\ request'[b].seed = request[b].seed

(* One browser acts, and the others go on as they were or are overtaken. *)
LEMMA GrantStep ==
  ASSUME Types, Types', GrantInv, NEW b \in Browsers,
         \A c \in Browsers \ {b} : LeftAlone(c),
         request'[b].pc = "confirm" => session[b].newest,
         DeviceSame \/ DeviceErased \/ DeviceStarted \/ DeviceConfirmed(b),
         \/ Newest(b)' => Newest(b)
         \/ \A c \in Browsers \ {b} : ~Newest(c)',
         GrantOf(b)'
  PROVE  GrantInv'
<1>1. ConfirmsOld
  <2>. SUFFICES ASSUME NEW d \in Browsers, request'[d].pc = "confirm"
                PROVE  \/ request[d].pc = "confirm" /\ request'[d].seed = request[d].seed
                       \/ session[d].newest
    BY DEF ConfirmsOld
  <2>. QED  BY DEF LeftAlone
<1>2. ASSUME NEW c \in Browsers \ {b} PROVE GrantOf(c)'
  <2>1. DeviceSame \/ DeviceErased \/ DeviceStarted \/ (\E d \in Browsers \ {c} : DeviceConfirmed(d))
    BY <1>2
  <2>. QED  BY <1>1, <1>2, <2>1, OthersKeepGrants
<1>3. OneNewest'
  <2>1. ASSUME NEW c \in Browsers \ {b}, Newest(c)' PROVE Newest(c)
    <3>1. LeftAlone(c)
      OBVIOUS
    <3>. QED  BY <2>1, <3>1 DEF LeftAlone, Newest
  <2>2. OneNewest
    BY DEF GrantInv
  <2>. SUFFICES ASSUME NEW c \in Browsers, NEW d \in Browsers, Newest(c)', Newest(d)'
                PROVE  c = d
    BY DEF OneNewest
  <2>3. CASE c # b /\ d # b
    BY <2>1, <2>2, <2>3 DEF OneNewest
  <2>4. CASE c = b \/ d = b
    BY <2>1, <2>2, <2>4 DEF OneNewest
  <2>. QED  BY <2>3, <2>4
<1>4. \A c \in Browsers : GrantOf(c)'
  BY <1>2
<1>. QED  BY <1>3, <1>4 DEF GrantInv

(* What the acting browser holds, as long as it gets nothing new. *)
LEMMA ShrinkKeepsGrants ==
  ASSUME Types, Types', GrantInv, NEW b \in Browsers,
         SessionShrinks(b), RequestMoves(b),
         DeviceSame \/ DeviceErased \/ DeviceStarted,
         \A c \in Browsers \ {b} : LeftAlone(c)
  PROVE  GrantInv'
<1>1. GrantOf(b)
  BY DEF GrantInv
<1>2. /\ session[b].version \in Int /\ session[b].remembered \in Int
      /\ request[b].seed \in Nat /\ device.version \in Nat /\ device.seed \in Nat
      /\ NoVersion \in Int /\ NoVersion < 0 /\ device'.version \in Nat /\ device'.seed \in Nat
  <2>1. device'.version \in Nat /\ device'.seed \in Nat
    BY DEF Types, DeviceInv, Device, Seeds
  <2>. QED  BY <2>1, GrantTypes
<1>3. /\ device.version <= device'.version /\ device.seed <= device'.seed
      /\ device'.version = device.version /\ Holds(b)' => Holds(b)
      /\ device'.version # device.version => DeviceErased /\ ~Holds(b)'
  <2>1. DeviceErased => device.version < device'.version /\ device.seed <= device'.seed
    BY <1>2 DEF DeviceErased
  <2>2. ~DeviceErased => device.version = device'.version /\ device.seed <= device'.seed
    BY <1>2 DEF DeviceStarted, DeviceSame
  <2>3. device'.version = device.version /\ Holds(b)' => Holds(b)
    BY <1>2 DEF SessionShrinks, Holds
  <2>4. device.version < device'.version => ~Holds(b)'
    BY <1>1, <1>2 DEF SessionShrinks, Holds, GrantOf
  <2>. QED  BY <1>2, <2>1, <2>2, <2>3, <2>4
<1>4. /\ session'[b].version <= device'.version /\ session'[b].remembered <= device'.version
      /\ request'[b].seed <= device'.seed
  <2>1. /\ session[b].version <= device.version /\ session[b].remembered <= device.version
        /\ request[b].seed <= device.seed
    BY <1>1 DEF GrantOf
  <2>2. session'[b].version <= device'.version /\ session'[b].remembered <= device'.version
    BY <1>2, <1>3, <2>1 DEF SessionShrinks
  <2>3. request'[b].seed <= device'.seed
    BY <1>2, <1>3, <2>1 DEF RequestMoves
  <2>. QED  BY <2>2, <2>3
<1>5. ~session'[b].user => session'[b].remembered = NoVersion
  BY <1>1 DEF GrantOf, SessionShrinks
<1>6. ASSUME request'[b].kind = "stepup", Holds(b)' PROVE Active' /\ device'.seed = request'[b].seed
  <2>1. device'.version = device.version /\ Holds(b)
    BY <1>3, <1>6
  <2>2. Active /\ device.seed = request[b].seed /\ request'[b].seed = request[b].seed
    BY <1>1, <1>6, <2>1 DEF GrantOf, RequestMoves
  <2>3. DeviceSame
    BY <1>2, <2>1, <2>2 DEF DeviceErased, DeviceStarted
  <2>. QED  BY <2>2, <2>3 DEF DeviceSame, Active
<1>7. ASSUME session'[b].newest, Holds(b)' PROVE Shown(b)'
  <2>1. session[b].newest /\ Holds(b) /\ proved[b] \subseteq proved'[b] /\ Shown(b) /\ ~DeviceErased
    <3>1. session[b].newest /\ Holds(b) /\ proved[b] \subseteq proved'[b] /\ device'.version = device.version
      BY <1>3, <1>7 DEF SessionShrinks
    <3>. QED  BY <1>1, <1>2, <3>1 DEF GrantOf, DeviceErased
  <2>2. ASSUME NEW d \in Browsers \ {b}, request'[d].pc = "confirm"
        PROVE  request[d].pc = "confirm" /\ request'[d].seed = request[d].seed
               /\ request[d].seed \in Nat /\ request[d].seed <= device.seed
    <3>1. LeftAlone(d) /\ GrantOf(d)
      BY DEF GrantInv
    <3>. QED  BY <2>2, <3>1, GrantTypes DEF LeftAlone, GrantOf
  <2>3. CASE DeviceSame
    <3>1. Active' => device'.seed \in proved'[b]
      BY <2>1, <2>3 DEF DeviceSame, Shown, Active
    <3>2. ASSUME device'.status = "pending", NEW d \in Browsers \ {b}, request'[d].pc = "confirm"
          PROVE  request'[d].seed # device'.seed
      BY <2>1, <2>2, <2>3, <3>2 DEF DeviceSame, Shown
    <3>. QED  BY <3>1, <3>2 DEF Shown
  <2>4. CASE DeviceStarted
    <3>1. ~Active'
      BY <2>4 DEF DeviceStarted, Active
    <3>2. ASSUME NEW d \in Browsers \ {b}, request'[d].pc = "confirm"
          PROVE  request'[d].seed # device'.seed
      BY <1>2, <2>2, <2>4, <3>2 DEF DeviceStarted
    <3>. QED  BY <3>1, <3>2 DEF Shown
  <2>. QED  BY <2>1, <2>3, <2>4
<1>8. GrantOf(b)'
  <2>1. /\ request'[b].pc \notin {"login", "finish", "mark"} /\ ~request'[b].newest
        /\ request'[b].pc \in {"forget", "consume"} => request'[b].kind = "stepup"
    BY DEF RequestMoves
  <2>. QED  BY <1>4, <1>5, <1>6, <1>7, <2>1 DEF GrantOf
<1>9. /\ Newest(b)' => Newest(b)
      /\ request'[b].pc = "confirm" => session[b].newest
  BY DEF Newest, SessionShrinks, RequestMoves
<1>. QED  BY <1>8, <1>9, GrantStep

(* The entries of a session that are part of another. *)
Shrunk(e, s) ==
  /\ e.newest => s.newest
  /\ e.mode = "full" => s.mode = "full" /\ e.version = s.version
  /\ e.version \in {s.version, NoVersion}
  /\ e.remembered \in {s.remembered, NoVersion}
  /\ e.remembered # NoVersion => e.user = s.user

LEMMA Shrinkings ==
  ASSUME NEW s \in SessionEntry, NEW certificate
  PROVE  /\ Shrunk(s, s) /\ Shrunk(Anonymous, s)
         /\ Shrunk(WithoutMode(s), s) /\ Shrunk(Pending(s, certificate), s)
         /\ Shrunk([s EXCEPT !.remembered = NoVersion], s)
         /\ Shrunk([WithoutMode(s) EXCEPT !.remembered = NoVersion], s)
         /\ Shrunk([Pending(s, certificate) EXCEPT !.remembered = NoVersion], s)
         /\ \A m \in {"none", "pending", "enrollment", "recovery"} :
              Shrunk([s EXCEPT !.remembered = NoVersion, !.mode = m], s)
<1>1. Shrunk(s, s) /\ Shrunk(Anonymous, s)
  BY DEF Shrunk, Anonymous
<1>2. Shrunk(WithoutMode(s), s) /\ Shrunk(Pending(s, certificate), s)
  BY DEF Shrunk, WithoutMode, Pending, SessionEntry
<1>3. Shrunk([s EXCEPT !.remembered = NoVersion], s)
  BY DEF Shrunk, SessionEntry
<1>4. Shrunk([WithoutMode(s) EXCEPT !.remembered = NoVersion], s)
  BY DEF Shrunk, WithoutMode, SessionEntry
<1>5. Shrunk([Pending(s, certificate) EXCEPT !.remembered = NoVersion], s)
  BY DEF Shrunk, Pending, SessionEntry
<1>6. ASSUME NEW m \in {"none", "pending", "enrollment", "recovery"}
      PROVE  Shrunk([s EXCEPT !.remembered = NoVersion, !.mode = m], s)
  BY DEF Shrunk, SessionEntry
<1>. QED  BY <1>1, <1>2, <1>3, <1>4, <1>5, <1>6

LEMMA IdleFields ==
  /\ Idle.pc = "idle" /\ Idle.kind = "none" /\ Idle.version = NoVersion /\ Idle.seed = 0
  /\ ~Idle.newest
  /\ [Idle EXCEPT !.newest = FALSE] = Idle
<1>1. Idle.pc = "idle" /\ Idle.kind = "none" /\ Idle.version = NoVersion /\ Idle.seed = 0
  BY DEF Idle
<1>2. ~Idle.newest
  BY DEF Idle
<1>3. Idle \in [pc : {"idle"}, kind : {"none"}, version : {NoVersion}, seed : {0}, newest : {FALSE}]
  BY DEF Idle
<1>4. [Idle EXCEPT !.newest = FALSE] \in
        [pc : {"idle"}, kind : {"none"}, version : {NoVersion}, seed : {0}, newest : {FALSE}]
  BY <1>3
<1>5. [Idle EXCEPT !.newest = FALSE] = Idle
  BY <1>3, <1>4
<1>. QED  BY <1>1, <1>2, <1>5

LEMMA RequestForms ==
  ASSUME Types, GrantInv, NEW b \in Browsers,
         \/ request' = [request EXCEPT ![b] = Idle]
         \/ request' = request /\ request[b] = Idle
         \/ \E kind \in {"none", "challenge", "recovery"}, pc \in {"verify", "start", "confirm", "revoke"} :
              /\ request' = [request EXCEPT ![b] = Asking(pc, kind)]
              /\ pc = "confirm" => session[b].newest
         \/ /\ request[b].pc # "finish"
            /\ \E pc \in {"add", "incr", "set", "lock"} : request' = [request EXCEPT ![b].pc = pc]
         \/ /\ request[b].pc # "finish" /\ request[b].kind = "stepup"
            /\ \E r : /\ request' = [request EXCEPT ![b] = r]
                      /\ r.pc \in {"forget", "consume"} /\ r.kind = request[b].kind
                      /\ r.seed = request[b].seed /\ r.newest = request[b].newest
  PROVE  RequestMoves(b) /\ \A c \in Browsers \ {b} : request'[c] = request[c]
<1>1. request \in [Browsers -> Answering] /\ request[b] \in Answering
  BY DEF Types, RestInv
<1>2. ASSUME NEW r, request' = [request EXCEPT ![b] = r]
      PROVE  request'[b] = r /\ \A c \in Browsers \ {b} : request'[c] = request[c]
  BY <1>1, <1>2
<1>3. request[b].pc # "finish" => ~request[b].newest
  BY DEF GrantInv, GrantOf
<1>4. CASE request' = [request EXCEPT ![b] = Idle]
  <2>1. request'[b] = Idle /\ \A c \in Browsers \ {b} : request'[c] = request[c]
    BY <1>2, <1>4
  <2>2. /\ request'[b].pc = "idle" /\ request'[b].kind = "none"
        /\ request'[b].seed = 0 /\ ~request'[b].newest
    BY <2>1, IdleFields
  <2>. QED  BY <2>1, <2>2 DEF RequestMoves
<1>5. CASE request' = request /\ request[b] = Idle
  BY <1>5 DEF Idle, RequestMoves
<1>6. ASSUME NEW kind \in {"none", "challenge", "recovery"},
             NEW pc \in {"verify", "start", "confirm", "revoke"},
             request' = [request EXCEPT ![b] = Asking(pc, kind)], pc = "confirm" => session[b].newest
      PROVE  RequestMoves(b) /\ \A c \in Browsers \ {b} : request'[c] = request[c]
  <2>1. request'[b] = Asking(pc, kind) /\ \A c \in Browsers \ {b} : request'[c] = request[c]
    BY <1>2, <1>6
  <2>2. request'[b].pc = pc /\ request'[b].kind = kind /\ request'[b].seed = device.seed
        /\ request'[b].newest = FALSE
    BY <2>1 DEF Asking, Idle
  <2>. QED  BY <1>6, <2>1, <2>2 DEF RequestMoves
<1>7. ASSUME request[b].pc # "finish", NEW pc \in {"add", "incr", "set", "lock"},
             request' = [request EXCEPT ![b].pc = pc]
      PROVE  RequestMoves(b) /\ \A c \in Browsers \ {b} : request'[c] = request[c]
  <2>1. /\ request'[b] = [request[b] EXCEPT !.pc = pc]
        /\ \A c \in Browsers \ {b} : request'[c] = request[c]
    BY <1>1, <1>7
  <2>2. request'[b].pc = pc /\ request'[b].kind = request[b].kind
        /\ request'[b].seed = request[b].seed /\ request'[b].newest = request[b].newest
    BY <1>1, <2>1 DEF Answering
  <2>. QED  BY <1>3, <1>7, <2>1, <2>2 DEF RequestMoves
<1>8. ASSUME request[b].pc # "finish", request[b].kind = "stepup", NEW r,
             request' = [request EXCEPT ![b] = r],
             r.pc \in {"forget", "consume"}, r.kind = request[b].kind,
             r.seed = request[b].seed, r.newest = request[b].newest
      PROVE  RequestMoves(b) /\ \A c \in Browsers \ {b} : request'[c] = request[c]
  <2>1. request'[b] = r /\ \A c \in Browsers \ {b} : request'[c] = request[c]
    BY <1>2, <1>8
  <2>. QED  BY <1>3, <1>8, <2>1 DEF RequestMoves
<1>. QED  BY <1>4, <1>5, <1>6, <1>7, <1>8

LEMMA ShrinkingStep ==
  ASSUME Types, Types', GrantInv, NEW b \in Browsers, NEW e, NEW q,
         (session' = session /\ e = session[b]) \/ session' = [session EXCEPT ![b] = e],
         Shrunk(e, session[b]),
         RequestMoves(b), \A c \in Browsers \ {b} : request'[c] = request[c],
         (proved' = proved /\ q = proved[b]) \/ proved' = [proved EXCEPT ![b] = q],
         e.newest => proved[b] \subseteq q,
         DeviceSame \/ DeviceErased \/ DeviceStarted
  PROVE  GrantInv'
<1>1. session'[b] = e /\ \A c \in Browsers \ {b} : session'[c] = session[c]
  BY DEF Types, RestInv
<1>2. proved'[b] = q /\ \A c \in Browsers \ {b} : proved'[c] = proved[c]
  BY DEF Types, DeviceInv
<1>3. SessionShrinks(b)
  BY <1>1, <1>2 DEF Shrunk, SessionShrinks
<1>4. \A c \in Browsers \ {b} : LeftAlone(c)
  BY <1>1, <1>2 DEF LeftAlone
<1>. QED  BY <1>3, <1>4, ShrinkKeepsGrants

(* Most steps leave the session, what it has proved and the device alone. *)
LEMMA OnlyRequest ==
  ASSUME Types, Types', GrantInv, NEW b \in Browsers,
         UNCHANGED <<session, proved, device>>,
         RequestMoves(b), \A c \in Browsers \ {b} : request'[c] = request[c]
  PROVE  GrantInv'
<1>1. Shrunk(session[b], session[b])
  BY Shrinkings DEF Types, RestInv
<1>2. DeviceSame
  BY DEF DeviceSame
<1>. QED  BY <1>1, <1>2, ShrinkingStep

-----------------------------------------------------------------------------
(* The requests that come *)

(* A browser logs out, or its entry lapses. *)
LEMMA AnonymousGrants ==
  ASSUME Types, Types', GrantInv, NEW b \in Browsers, BecomesAnonymous(b), UNCHANGED <<device, request>>,
         request[b] = Idle
  PROVE  GrantInv'
<1>1. Shrunk(Anonymous, session[b])
  BY Shrinkings DEF Types, RestInv
<1>2. RequestMoves(b) /\ \A c \in Browsers \ {b} : request'[c] = request[c]
  BY RequestForms
<1>3. DeviceSame /\ Anonymous.newest = FALSE
  BY DEF DeviceSame, Anonymous
<1>. QED  BY <1>1, <1>2, <1>3, ShrinkingStep DEF BecomesAnonymous

(* A session loses entries while no request is answered. *)
LEMMA EntriesGo ==
  ASSUME Types, Types', GrantInv, NEW b \in Browsers, NEW e,
         session' = [session EXCEPT ![b] = e], Shrunk(e, session[b]),
         UNCHANGED <<device, request, proved>>, request[b] = Idle
  PROVE  GrantInv'
<1>1. RequestMoves(b) /\ \A c \in Browsers \ {b} : request'[c] = request[c]
  BY RequestForms
<1>2. DeviceSame
  BY DEF DeviceSame
<1>. QED  BY <1>1, <1>2, ShrinkingStep

LEMMA VisitGrants ==
  ASSUME Types, Types', GrantInv, NEW b \in Browsers, NEW onAdmin \in BOOLEAN, Visit(b, onAdmin)
  PROVE  GrantInv'
<1>1. request[b] = Idle /\ UNCHANGED <<device, request, proved>>
  BY DEF Visit, Request
<1>2. session[b] \in SessionEntry
  BY DEF Types, RestInv
<1>3. PICK e : session' = [session EXCEPT ![b] = e] /\ Shrunk(e, session[b])
  <2>1. CASE FullValid(b, onAdmin)
    BY <1>2, <2>1, Shrinkings DEF Visit
  <2>2. CASE ~FullValid(b, onAdmin) /\ Opens(b, onAdmin)
    BY <1>2, <2>2, Shrinkings DEF Visit
  <2>3. CASE ~FullValid(b, onAdmin) /\ ~Opens(b, onAdmin)
    <3>1. PICK certificate : Challenged(b, onAdmin) \in
            {WithoutMode(session[b]), Pending(session[b], certificate),
             [WithoutMode(session[b]) EXCEPT !.remembered = NoVersion],
             [Pending(session[b], certificate) EXCEPT !.remembered = NoVersion]}
      BY DEF Challenged
    <3>2. Shrunk(Challenged(b, onAdmin), session[b])
      BY <1>2, <3>1, Shrinkings
    <3>3. session' = [session EXCEPT ![b] = Challenged(b, onAdmin)]
      BY <2>3 DEF Visit
    <3>. QED  BY <3>2, <3>3
  <2>. QED  BY <2>1, <2>2, <2>3
<1>. QED  BY <1>1, <1>3, EntriesGo

(* The login of an account without an active device: whatever the browser  *)
(* had is of no use.                                                       *)
LEMMA EnrollmentGrants ==
  ASSUME Types, Types', GrantInv, NEW b \in Browsers, NEW onAdmin \in BOOLEAN, Login(b, onAdmin), ~Active
  PROVE  GrantInv'
<1>1. /\ request[b] = Idle /\ ~session[b].user /\ UNCHANGED <<device, proved>>
      /\ session' = NewestIs(b, [WithoutMode(session[b]) EXCEPT
                !.user = TRUE, !.newest = TRUE, !.mode = "enrollment"])
      /\ request' = [c \in Browsers |-> [request[c] EXCEPT !.newest = FALSE]]
  BY DEF Login, Request
<1>2. session[b] \in SessionEntry /\ GrantOf(b)
  BY DEF Types, RestInv, GrantInv
<1>3. session[b].remembered = NoVersion
  BY <1>1, <1>2 DEF GrantOf
<1>4. session'[b].mode = "enrollment" /\ session'[b].version = NoVersion /\ session'[b].user = TRUE
      /\ session'[b].remembered = NoVersion
  BY <1>1, <1>2, <1>3 DEF NewestIs, WithoutMode, SessionEntry
<1>5. request'[b] = Idle
  <2>2. request'[b] = [request[b] EXCEPT !.newest = FALSE]
    BY <1>1
  <2>. QED  BY <1>1, <2>2, IdleFields
<1>6. ASSUME NEW c \in Browsers \ {b} PROVE LeftAlone(c) /\ ~Newest(c)'
  <2>1. session[c] \in SessionEntry /\ request[c] \in Answering
    BY DEF Types, RestInv
  <2>2. /\ session'[c] = [session[c] EXCEPT !.newest = FALSE]
        /\ request'[c] = [request[c] EXCEPT !.newest = FALSE]
    BY <1>1, <1>6 DEF NewestIs
  <2>. QED  BY <1>1, <2>1, <2>2 DEF LeftAlone, Newest, SessionEntry, Answering
<1>7. GrantOf(b)'
  <2>1. ~Holds(b)' /\ session'[b].version <= device'.version /\ session'[b].remembered <= device'.version
        /\ request'[b].seed <= device'.seed
    <3>1. device'.version \in Nat /\ device'.seed \in Nat /\ NoVersion < 0 /\ NoVersion \in Int
      BY DEF Types, DeviceInv, Device, Seeds, NoVersion
    <3>. QED  BY <1>4, <1>5, <3>1 DEF Holds, Idle
  <2>. QED  BY <1>4, <1>5, <2>1 DEF GrantOf, Idle
<1>8. DeviceSame
  BY <1>1 DEF DeviceSame
<1>9. request'[b].pc = "idle"
  BY <1>5 DEF Idle
<1>. QED  BY <1>6, <1>7, <1>8, <1>9, GrantStep

LEMMA StepUpGrants ==
  ASSUME Types, Types', GrantInv, NEW b \in Browsers, StepUp(b)
  PROVE  GrantInv'
<1>1. /\ request[b] = Idle /\ LetIn(b) /\ DashboardValid(b) /\ UNCHANGED <<device, session, proved>>
      /\ request' = [request EXCEPT ![b] = Asking("verify", "stepup")]
  BY DEF StepUp, Request
<1>2. GrantOf(b)
  BY DEF GrantInv
<1>3. request'[b] = Asking("verify", "stepup") /\ \A c \in Browsers \ {b} : request'[c] = request[c]
  BY <1>1 DEF Types, RestInv
<1>4. request'[b].pc = "verify" /\ request'[b].kind = "stepup" /\ request'[b].seed = device.seed
      /\ request'[b].newest = FALSE
  BY <1>3 DEF Asking, Idle
<1>5. Active
  BY <1>1 DEF DashboardValid, FullValid, RememberedValid
<1>6. GrantOf(b)'
  <2>1. Holds(b)' <=> Holds(b)
    BY <1>1 DEF Holds
  <2>2. Holds(b) /\ session[b].newest => Shown(b)'
    BY <1>1, <1>2, <1>3, <1>5 DEF GrantOf, Shown, Active
  <2>3. device.seed \in Nat
    BY GrantTypes
  <2>4. request'[b].seed <= device'.seed
    BY <1>1, <1>4, <2>3
  <2>. QED  BY <1>1, <1>2, <1>4, <1>5, <2>1, <2>2, <2>4 DEF GrantOf, Active
<1>7. \A c \in Browsers \ {b} : LeftAlone(c)
  BY <1>1, <1>3 DEF LeftAlone
<1>8. DeviceSame /\ request'[b].pc # "confirm" /\ (Newest(b)' => Newest(b))
  BY <1>1, <1>4 DEF DeviceSame, Newest
<1>. QED  BY <1>6, <1>7, <1>8, GrantStep

LEMMA ArriveGrants ==
  ASSUME Types, Types', GrantInv, NEW b \in Browsers, Arrive(b)
  PROVE  GrantInv'
<1>0. session[b] \in SessionEntry
  BY DEF Types, RestInv
<1>1. ASSUME NEW onAdmin \in BOOLEAN, Login(b, onAdmin) PROVE GrantInv'
  <2>1. CASE ~Active
    BY <1>1, <2>1, EnrollmentGrants
  <2>2. CASE Active
    <3>1. PICK certificate : session' = [session EXCEPT ![b] = Pending(session[b], certificate)]
      BY <1>1, <2>2 DEF Login
    <3>2. UNCHANGED <<device, request, proved>> /\ request[b] = Idle
      BY <1>1, <2>2 DEF Login, Request
    <3>3. Shrunk(Pending(session[b], certificate), session[b])
      BY <1>0, Shrinkings
    <3>. QED  BY <3>1, <3>2, <3>3, EntriesGo
  <2>. QED  BY <2>1, <2>2
<1>2. ASSUME NEW kind \in {"challenge", "recovery"}, Submit(b, kind) PROVE GrantInv'
  <2>1. request' = [request EXCEPT ![b] = Asking("verify", kind)] /\ UNCHANGED <<session, proved, device>>
    BY <1>2 DEF Submit
  <2>2. RequestMoves(b) /\ \A c \in Browsers \ {b} : request'[c] = request[c]
    BY <2>1, RequestForms
  <2>. QED  BY <2>1, <2>2, OnlyRequest
<1>3. ASSUME NEW pc \in {"start", "confirm", "revoke"}, Ask(b, pc) PROVE GrantInv'
  <2>1. /\ request' = [request EXCEPT ![b] = Asking(pc, "none")] /\ UNCHANGED <<session, proved, device>>
        /\ session[b].newest
    BY <1>3 DEF Ask, LetIn
  <2>2. RequestMoves(b) /\ \A c \in Browsers \ {b} : request'[c] = request[c]
    BY <2>1, RequestForms
  <2>. QED  BY <2>1, <2>2, OnlyRequest
<1>4. CASE DropPending(b)
  <2>1. session' = [session EXCEPT ![b] = WithoutMode(session[b])] /\ UNCHANGED <<device, request, proved>>
        /\ request[b] = Idle
    BY <1>4 DEF DropPending, Request
  <2>2. Shrunk(WithoutMode(session[b]), session[b])
    BY <1>0, Shrinkings
  <2>. QED  BY <2>1, <2>2, EntriesGo
<1>5. CASE Overtaken(b) \/ Logout(b)
  BY <1>5, AnonymousGrants DEF Overtaken, Logout, Request
<1>. QED  BY <1>1, <1>2, <1>3, <1>4, <1>5, VisitGrants, StepUpGrants DEF Arrive

-----------------------------------------------------------------------------
(* The answers *)

(* What the steps of an answer need to know of their browser. *)
LEMMA OwnGrant ==
  ASSUME Types, GrantInv, NEW b \in Browsers
  PROVE  /\ GrantOf(b) /\ Shrunk(session[b], session[b])
         /\ request[b].pc # "finish" => ~request[b].newest
         /\ session[b] \in SessionEntry /\ request[b] \in Answering
         /\ \A e : session' = [session EXCEPT ![b] = e] =>
              session'[b] = e /\ \A c \in Browsers \ {b} : session'[c] = session[c]
         /\ \A r : request' = [request EXCEPT ![b] = r] =>
              request'[b] = r /\ \A c \in Browsers \ {b} : request'[c] = request[c]
         /\ \A q : proved' = [proved EXCEPT ![b] = q] =>
              proved'[b] = q /\ \A c \in Browsers \ {b} : proved'[c] = proved[c]
<1>1. GrantOf(b)
  BY DEF GrantInv
<1>2. session[b] \in SessionEntry /\ request[b] \in Answering
  BY DEF Types, RestInv
<1>3. Shrunk(session[b], session[b])
  BY <1>2, Shrinkings
<1>4. ASSUME NEW e, session' = [session EXCEPT ![b] = e]
      PROVE  session'[b] = e /\ \A c \in Browsers \ {b} : session'[c] = session[c]
  BY <1>4 DEF Types, RestInv
<1>5. ASSUME NEW r, request' = [request EXCEPT ![b] = r]
      PROVE  request'[b] = r /\ \A c \in Browsers \ {b} : request'[c] = request[c]
  BY <1>5 DEF Types, RestInv
<1>6. ASSUME NEW q, proved' = [proved EXCEPT ![b] = q]
      PROVE  proved'[b] = q /\ \A c \in Browsers \ {b} : proved'[c] = proved[c]
  BY <1>6 DEF Types, DeviceInv
<1>. QED  BY <1>1, <1>2, <1>3, <1>4, <1>5, <1>6 DEF GrantOf

(* An accepted code adds its seed to what the browser has shown. *)
LEMMA AcceptShows ==
  ASSUME Types, NEW b \in Browsers, NEW s, Accept(b, <<device.seed, s>>)
  PROVE  /\ proved' = [proved EXCEPT ![b] = proved[b] \union {device.seed}]
         /\ proved'[b] = proved[b] \union {device.seed}
         /\ \A c \in Browsers \ {b} : proved'[c] = proved[c]
  BY DEF Types, DeviceInv, Accept

LEMMA CodeFails ==
  ASSUME Types, Types', GrantInv, NEW b \in Browsers, request[b].pc = "verify",
         request' = [request EXCEPT ![b].pc = "add"], UNCHANGED <<session, proved, device>>
  PROVE  GrantInv'
<1>1. RequestMoves(b) /\ \A c \in Browsers \ {b} : request'[c] = request[c]
  BY RequestForms
<1>. QED  BY <1>1, OnlyRequest

LEMMA VerifyGrants ==
  ASSUME Types, Types', GrantInv, NEW b \in Browsers, NEW s, Verify(b, s)
  PROVE  GrantInv'
<1>1. CASE ~(Active /\ Fresh(b, s))
  BY <1>1, CodeFails DEF Verify
<1>2. ASSUME Active, Fresh(b, s) PROVE GrantInv'
  <2>1. /\ device' = [device EXCEPT !.last = s]
        /\ Accept(b, <<device.seed, s>>)
        /\ request[b].pc = "verify" /\ request[b].kind \in {"challenge", "stepup"}
        /\ request[b].seed = device.seed
        /\ session' = session
    BY <1>2 DEF Verify, Fresh, Matches
  <2>2. device'.version = device.version /\ device'.seed = device.seed /\ device'.status = device.status
    BY <2>1 DEF Types, DeviceInv, Device
  <2>3. DeviceSame
    BY <2>2 DEF DeviceSame
  <2>4. GrantOf(b) /\ Shrunk(session[b], session[b]) /\ ~request[b].newest /\ request[b] \in Answering
    BY <2>1, OwnGrant
  <2>5. /\ proved' = [proved EXCEPT ![b] = proved[b] \union {device.seed}]
        /\ proved'[b] = proved[b] \union {device.seed}
        /\ \A c \in Browsers \ {b} : proved'[c] = proved[c]
    BY <2>1, AcceptShows
  <2>6. CASE request[b].kind = "stepup"
    <3>. DEFINE r == [request[b] EXCEPT !.version = device.version, !.pc = "forget"]
    <3>1. request' = [request EXCEPT ![b] = r]
      BY <1>2, <2>6 DEF Verify, Types, RestInv
    <3>2. /\ r.pc \in {"forget", "consume"} /\ r.kind = request[b].kind
          /\ r.seed = request[b].seed /\ r.newest = request[b].newest
      BY <2>4 DEF Answering
    <3>. HIDE DEF r
    <3>3. RequestMoves(b) /\ \A c \in Browsers \ {b} : request'[c] = request[c]
      BY <2>1, <2>6, <3>1, <3>2, RequestForms
    <3>. QED  BY <2>1, <2>3, <2>4, <2>5, <3>3, ShrinkingStep
  <2>7. CASE request[b].kind = "challenge"
    <3>. DEFINE r == [request[b] EXCEPT !.version = device.version, !.pc = "login"]
    <3>1. request' = [request EXCEPT ![b] = r]
      BY <1>2, <2>7 DEF Verify, Types, RestInv
    <3>2. r.pc = "login" /\ r.kind = "challenge" /\ r.version = device.version
          /\ r.seed = device.seed /\ ~r.newest
      BY <2>1, <2>4, <2>7 DEF Answering
    <3>. HIDE DEF r
    <3>3. request'[b] = r /\ \A c \in Browsers \ {b} : request'[c] = request[c]
      BY <3>1, OwnGrant
    <3>4. LoginHolds(b)'
      <4>1. request'[b].version <= device'.version
        BY <2>2, <3>2, <3>3, GrantTypes
      <4>. QED  BY <1>2, <2>2, <2>5, <3>2, <3>3, <4>1 DEF LoginHolds, Active
    <3>5. session[b].newest /\ Holds(b) => Shown(b)'
      BY <2>2, <2>4, <2>5, <3>3 DEF GrantOf, Shown, Active
    <3>6. Holds(b)' => Holds(b)
      BY <2>1, <2>2 DEF Holds
    <3>7. device'.seed = device.seed /\ request'[b].seed <= device'.seed
      BY <2>2, <3>2, <3>3, GrantTypes
    <3>8. GrantOf(b)'
      BY <2>1, <2>2, <2>4, <3>2, <3>3, <3>4, <3>5, <3>6, <3>7 DEF GrantOf
    <3>9. \A c \in Browsers \ {b} : LeftAlone(c)
      BY <2>1, <2>5, <3>3 DEF LeftAlone
    <3>10. request'[b].pc # "confirm" /\ (Newest(b)' => Newest(b))
      BY <2>1, <3>2, <3>3 DEF Newest
    <3>. QED  BY <2>3, <3>8, <3>9, <3>10, GrantStep
  <2>. QED  BY <2>1, <2>6, <2>7
<1>. QED  BY <1>1, <1>2

LEMMA ErasedDevice ==
  ASSUME Types, Erase
  PROVE  DeviceErased
  BY DEF Types, DeviceInv, Device, Erase, Erased, DeviceErased

LEMMA RecoverGrants ==
  ASSUME Types, Types', GrantInv, NEW b \in Browsers, NEW right \in BOOLEAN, Recover(b, right)
  PROVE  GrantInv'
<1>1. CASE ~(Active /\ right /\ request[b].seed \in codes)
  BY <1>1, CodeFails DEF Recover
<1>2. ASSUME Active, right, request[b].seed \in codes PROVE GrantInv'
  <2>1. /\ Accept(b, <<device.seed, Recovery>>) /\ Erase /\ session' = session
        /\ request[b].pc = "verify" /\ request[b].kind = "recovery"
        /\ request' = [request EXCEPT ![b].pc = "login", ![b].version = device'.version]
    BY <1>2 DEF Recover
  <2>2. DeviceErased
    BY <2>1, ErasedDevice
  <2>3. GrantOf(b) /\ ~request[b].newest /\ request[b] \in Answering
    BY <2>1, OwnGrant
  <2>. DEFINE r == [request[b] EXCEPT !.pc = "login", !.version = device'.version]
  <2>4. request' = [request EXCEPT ![b] = r]
    BY <2>1 DEF Types, RestInv
  <2>5. r.pc = "login" /\ r.kind = "recovery" /\ r.version = device'.version
        /\ r.seed = request[b].seed /\ ~r.newest
    BY <2>1, <2>3 DEF Answering
  <2>. HIDE DEF r
  <2>6. request'[b] = r /\ \A c \in Browsers \ {b} : request'[c] = request[c]
    BY <2>4, OwnGrant
  <2>7. /\ session[b].version <= device.version /\ session[b].remembered <= device.version
        /\ request[b].seed <= device.seed
        /\ device.version < device'.version /\ device'.seed = device.seed
        /\ session[b].version \in Int /\ session[b].remembered \in Int
        /\ device.version \in Int /\ device'.version \in Int
    BY <2>2, <2>3, GrantTypes DEF GrantOf, DeviceErased
  <2>8. ~Holds(b)' /\ session'[b].version <= device'.version /\ session'[b].remembered <= device'.version
        /\ session'[b].remembered < request'[b].version /\ request'[b].seed <= device'.seed
        /\ request'[b].version <= device'.version
    BY <2>1, <2>5, <2>6, <2>7 DEF Holds
  <2>9. LoginHolds(b)'
    BY <2>5, <2>6, <2>8 DEF LoginHolds
  <2>10. GrantOf(b)'
    BY <2>1, <2>3, <2>5, <2>6, <2>8, <2>9 DEF GrantOf
  <2>11. \A c \in Browsers \ {b} : LeftAlone(c)
    <3>1. \A c \in Browsers \ {b} : proved'[c] = proved[c]
      BY <2>1, AcceptShows DEF Accept
    <3>. QED  BY <2>1, <2>6, <3>1 DEF LeftAlone
  <2>12. request'[b].pc # "confirm" /\ (Newest(b)' => Newest(b))
    BY <2>1, <2>5, <2>6 DEF Newest
  <2>. QED  BY <2>2, <2>10, <2>11, <2>12, GrantStep
<1>. QED  BY <1>1, <1>2

LEMMA LogInGrants ==
  ASSUME Types, Types', GrantInv, NEW b \in Browsers, LogIn(b)
  PROVE  GrantInv'
<1>1. GrantOf(b) /\ request[b].pc = "login" /\ ~request[b].newest /\ LoginHolds(b)
      /\ request[b] \in Answering /\ session[b] \in SessionEntry
  BY OwnGrant DEF LogIn, GrantOf
<1>2. device' = device /\ proved' = proved /\ DeviceSame
  BY DEF LogIn, DeviceSame
<1>3. CASE session[b].user /\ request[b].kind = "challenge"
  <2>. DEFINE r == [request[b] EXCEPT !.pc = "finish", !.newest = session[b].newest]
  <2>1. request' = [request EXCEPT ![b] = r] /\ session' = session
    BY <1>3 DEF LogIn, Types, RestInv
  <2>2. /\ r.pc = "finish" /\ r.kind = request[b].kind /\ r.seed = request[b].seed
        /\ r.version = request[b].version
        /\ r.newest = session[b].newest
    BY <1>1 DEF Answering
  <2>. HIDE DEF r
  <2>3. request'[b] = r /\ \A c \in Browsers \ {b} : request'[c] = request[c]
    BY <2>1, OwnGrant
  <2>4. LoginHolds(b)'
    BY <1>1, <1>2, <2>1, <2>2, <2>3 DEF LoginHolds, Active
  <2>5. Shown(b) => Shown(b)'
    BY <1>2, <2>3 DEF Shown, Active
  <2>6. GrantOf(b)'
    BY <1>1, <1>2, <1>3, <2>1, <2>2, <2>3, <2>4, <2>5 DEF GrantOf, Holds
  <2>7. \A c \in Browsers \ {b} : LeftAlone(c)
    BY <1>2, <2>1, <2>3 DEF LeftAlone
  <2>8. request'[b].pc # "confirm" /\ (Newest(b)' => Newest(b))
    BY <2>1, <2>2, <2>3 DEF Newest
  <2>. QED  BY <1>2, <2>6, <2>7, <2>8, GrantStep
<1>4. CASE ~(session[b].user /\ request[b].kind = "challenge")
  <2>1. /\ request' = [c \in Browsers |->
               IF c = b THEN [request[b] EXCEPT !.pc = "finish", !.newest = TRUE]
               ELSE [request[c] EXCEPT !.newest = FALSE]]
        /\ session' = [c \in Browsers |-> [session[c] EXCEPT !.newest = FALSE]]
    BY <1>4 DEF LogIn
  <2>2. /\ request'[b].pc = "finish" /\ request'[b].kind = request[b].kind
        /\ request'[b].seed = request[b].seed /\ request'[b].version = request[b].version
    BY <1>1, <2>1 DEF Answering
  <2>3. /\ session'[b].user = session[b].user /\ session'[b].mode = session[b].mode
        /\ session'[b].version = session[b].version
        /\ session'[b].remembered = session[b].remembered /\ ~session'[b].newest
    BY <1>1, <2>1 DEF SessionEntry
  <2>4. LoginHolds(b)'
    <3>1. request[b].kind = "challenge" => session[b].remembered = NoVersion
      BY <1>1, <1>4 DEF GrantOf
    <3>. QED  BY <1>1, <1>2, <2>2, <2>3, <3>1 DEF LoginHolds, Active
  <2>5. GrantOf(b)'
    <3>1. request[b].kind \in {"challenge", "recovery"}
      BY <1>1 DEF LoginHolds
    <3>. QED  BY <1>1, <1>2, <2>2, <2>3, <2>4, <3>1 DEF GrantOf
  <2>6. ASSUME NEW c \in Browsers \ {b} PROVE LeftAlone(c) /\ ~Newest(c)'
    <3>1. session[c] \in SessionEntry /\ request[c] \in Answering
      BY DEF Types, RestInv
    <3>2. /\ session'[c] = [session[c] EXCEPT !.newest = FALSE]
          /\ request'[c] = [request[c] EXCEPT !.newest = FALSE]
      BY <2>1, <2>6
    <3>. QED  BY <1>2, <3>1, <3>2 DEF LeftAlone, Newest, SessionEntry, Answering
  <2>7. request'[b].pc # "confirm"
    BY <2>2
  <2>. QED  BY <1>2, <2>5, <2>6, <2>7, GrantStep
<1>. QED  BY <1>3, <1>4

(* The answer of a login writes its session. *)
LEMMA FinishGrants ==
  ASSUME Types, Types', GrantInv, NEW b \in Browsers, NEW remember,
         Finish(b, remember)
  PROVE  GrantInv'
<1>1. GrantOf(b) /\ request[b].pc = "finish" /\ LoginHolds(b)
      /\ request[b] \in Answering /\ session[b] \in SessionEntry
  BY OwnGrant DEF Finish, GrantOf
<1>2. device' = device /\ proved' = proved /\ DeviceSame
      /\ request' = [request EXCEPT ![b] = Idle]
  BY DEF Finish, DeviceSame
<1>3. request'[b] = Idle /\ \A c \in Browsers \ {b} : request'[c] = request[c]
  BY <1>2, OwnGrant
<1>4. /\ session'[b].user /\ session'[b].newest = request[b].newest
      /\ session'[b].version = request[b].version
      /\ session'[b].remembered \in {session[b].remembered, NoVersion, request[b].version}
      /\ request[b].kind = "recovery" =>
           session'[b].mode = "recovery" /\ session'[b].remembered = session[b].remembered
      /\ \A c \in Browsers \ {b} : session'[c] = session[c]
  <2>. DEFINE s == [session[b] EXCEPT !.user = TRUE, !.newest = request[b].newest,
                                      !.version = request[b].version]
  <2>1. s \in SessionEntry
    BY <1>1, <1>2 DEF SessionEntry, Answering
  <2>2. s.user /\ s.newest = request[b].newest /\ s.version = request[b].version
        /\ s.remembered = session[b].remembered
    BY <1>1 DEF SessionEntry
  <2>3. PICK e : session' = [session EXCEPT ![b] = e]
                 /\ \/ /\ request[b].kind = "recovery"
                       /\ e = [s EXCEPT !.mode = "recovery", !.certificate = NoCertificate]
                    \/ /\ request[b].kind # "recovery"
                       /\ \E v \in {session[b].remembered, NoVersion, request[b].version} :
                            e = [s EXCEPT !.mode = "full", !.remembered = v]
    <3>1. CASE request[b].kind = "recovery"
      BY <3>1 DEF Finish
    <3>2. CASE request[b].kind # "recovery"
      <4>1. PICK v : /\ session' = [session EXCEPT ![b] = [s EXCEPT !.mode = "full", !.remembered = v]]
                     /\ v = CASE remember = "yes" /\ s.certificate = NoCertificate -> request[b].version
                                [] remember = "no" /\ s.certificate = NoCertificate -> NoVersion
                                [] OTHER -> s.remembered
        BY <3>2 DEF Finish
      <4>2. v \in {session[b].remembered, NoVersion, request[b].version}
        <5>. HIDE DEF s
        <5>. QED  BY <2>2, <4>1
      <4>. QED  BY <3>2, <4>1, <4>2
    <3>. QED  BY <3>1, <3>2
  <2>. HIDE DEF s
  <2>4. /\ e.user /\ e.newest = request[b].newest /\ e.version = request[b].version
        /\ e.remembered \in {session[b].remembered, NoVersion, request[b].version}
        /\ request[b].kind = "recovery" => e.mode = "recovery" /\ e.remembered = session[b].remembered
    <3>1. CASE request[b].kind = "recovery"
      BY <2>1, <2>2, <2>3, <3>1 DEF SessionEntry
    <3>2. ASSUME NEW v \in {session[b].remembered, NoVersion, request[b].version},
                 e = [s EXCEPT !.mode = "full", !.remembered = v], request[b].kind # "recovery"
          PROVE  /\ e.user /\ e.newest = request[b].newest /\ e.version = request[b].version
                 /\ e.remembered \in {session[b].remembered, NoVersion, request[b].version}
      BY <2>1, <2>2, <3>2 DEF SessionEntry
    <3>. QED  BY <2>3, <3>1, <3>2
  <2>5. session'[b] = e /\ \A c \in Browsers \ {b} : session'[c] = session[c]
    BY <2>3, OwnGrant
  <2>. QED  BY <2>4, <2>5
<1>5. /\ session[b].version <= device.version /\ session[b].remembered <= device.version
      /\ request[b].version <= device.version /\ request[b].seed <= device.seed
      /\ session[b].version \in Int /\ session[b].remembered \in Int /\ request[b].version \in Int
      /\ request[b].seed \in Nat /\ device.version \in Nat /\ device.seed \in Nat
      /\ NoVersion \in Int /\ NoVersion < 0
  BY <1>1, GrantTypes DEF GrantOf, LoginHolds
<1>a. /\ session'[b].version = request[b].version
      /\ session'[b].remembered \in {session[b].remembered, NoVersion, request[b].version}
      /\ device'.version = device.version /\ device'.seed = device.seed
  BY <1>2, <1>4
<1>6. session'[b].version <= device'.version /\ session'[b].remembered <= device'.version
  BY <1>5, <1>a
<1>7. ASSUME session'[b].newest, Holds(b)' PROVE Shown(b)'
  <2>1. request[b].newest
    BY <1>4, <1>7
  <2>2. request[b].kind # "recovery"
    <3>1. CASE request[b].kind = "recovery"
      <4>1. session[b].remembered < request[b].version
        BY <1>1, <3>1 DEF LoginHolds
      <4>2. session'[b].mode = "recovery" /\ session'[b].remembered = session[b].remembered
        BY <1>4, <3>1
      <4>3. session'[b].remembered = device'.version
        BY <1>7, <4>2 DEF Holds
      <4>. QED  BY <1>5, <1>a, <4>1, <4>2, <4>3
    <3>. QED  BY <3>1
  <2>3. request[b].kind = "challenge"
    BY <1>1, <2>2 DEF LoginHolds
  <2>4. CASE request[b].version = device.version
    <3>1. Active /\ device.seed \in proved[b]
      BY <1>1, <2>3, <2>4 DEF LoginHolds
    <3>. QED  BY <1>2, <3>1 DEF Shown, Active
  <2>5. CASE request[b].version # device.version
    <3>1. session[b].remembered = device.version
      BY <1>5, <1>7, <1>a, <2>5 DEF Holds
    <3>2. session[b].newest
      <4>1. session[b].remembered # NoVersion
        BY <1>5, <3>1
      <4>. QED  BY <1>1, <2>1, <2>3, <4>1 DEF LoginHolds
    <3>3. Shown(b)
      BY <1>1, <3>1, <3>2 DEF GrantOf, Holds
    <3>. QED  BY <1>2, <1>3, <3>3 DEF Shown, Active
  <2>. QED  BY <2>4, <2>5
<1>8. GrantOf(b)'
  <2>1. request'[b].pc = "idle" /\ request'[b].kind = "none" /\ request'[b].seed = 0 /\ ~request'[b].newest
    BY <1>3, IdleFields
  <2>2. request'[b].seed <= device'.seed
    <3>1. request'[b].seed = 0
      BY <2>1
    <3>. QED  BY <1>5, <1>a, <3>1
  <2>. QED  BY <1>4, <1>6, <1>7, <2>1, <2>2 DEF GrantOf
<1>9. request'[b].pc # "confirm" /\ (Newest(b)' => Newest(b))
  BY <1>3, <1>4, IdleFields DEF Newest
<1>10. \A c \in Browsers \ {b} : LeftAlone(c)
  BY <1>2, <1>3, <1>4 DEF LeftAlone
<1>. QED  BY <1>2, <1>8, <1>9, <1>10, GrantStep

(* The step-up, the count and the settings page. *)
LEMMA StepUpAnswers ==
  ASSUME Types, Types', GrantInv, NEW b \in Browsers,
         ForgetAfterStepUp(b) \/ Consume(b) \/ RefuseCapability(b)
  PROVE  GrantInv'
<1>1. GrantOf(b) /\ request[b] \in Answering /\ session[b] \in SessionEntry
  BY OwnGrant
<1>2. request[b].pc \in {"forget", "consume"} /\ request[b].kind = "stepup"
      /\ device' = device /\ proved' = proved
  BY <1>1 DEF ForgetAfterStepUp, Consume, RefuseCapability, GrantOf
<1>3. CASE ForgetAfterStepUp(b)
  <2>. DEFINE r == [request[b] EXCEPT !.pc = "consume"]
  <2>1. request' = [request EXCEPT ![b] = r] /\ session' = session
    BY <1>3 DEF ForgetAfterStepUp, Types, RestInv
  <2>2. /\ r.pc \in {"forget", "consume"} /\ r.kind = request[b].kind
        /\ r.seed = request[b].seed /\ r.newest = request[b].newest
    BY <1>1 DEF Answering
  <2>. HIDE DEF r
  <2>3. request[b].pc # "finish"
    BY <1>2
  <2>4. RequestMoves(b) /\ \A c \in Browsers \ {b} : request'[c] = request[c]
    BY <1>2, <2>1, <2>2, <2>3, RequestForms
  <2>. QED  BY <1>2, <2>1, <2>4, OnlyRequest
<1>4. ASSUME request' = [request EXCEPT ![b] = Idle]
      PROVE  RequestMoves(b) /\ \A c \in Browsers \ {b} : request'[c] = request[c]
  BY <1>4, RequestForms
<1>5. CASE Consume(b)
  BY <1>2, <1>4, <1>5, OnlyRequest DEF Consume
<1>6. CASE RefuseCapability(b)
  <2>1. RequestMoves(b) /\ \A c \in Browsers \ {b} : request'[c] = request[c]
    BY <1>4, <1>6 DEF RefuseCapability
  <2>2. PICK m : m = IF session[b].mode = "full" THEN "none" ELSE session[b].mode
    OBVIOUS
  <2>3. m \in {"none", "pending", "enrollment", "recovery"}
    BY <1>1, <2>2 DEF SessionEntry
  <2>4. session' = [session EXCEPT ![b] = [session[b] EXCEPT !.remembered = NoVersion, !.mode = m]]
    BY <1>1, <1>6, <2>2 DEF RefuseCapability, Types, RestInv, SessionEntry
  <2>5. Shrunk([session[b] EXCEPT !.remembered = NoVersion, !.mode = m], session[b])
    BY <1>1, <2>3, Shrinkings
  <2>6. DeviceSame
    BY <1>2 DEF DeviceSame
  <2>. QED  BY <1>2, <2>1, <2>4, <2>5, <2>6, ShrinkingStep
<1>. QED  BY <1>3, <1>5, <1>6

LEMMA CountGrants ==
  ASSUME Types, Types', GrantInv, NEW b \in Browsers, CountFailure(b)
  PROVE  GrantInv'
<1>1. request[b].pc # "finish" /\ UNCHANGED <<session, proved, device>>
  BY DEF CountFailure, CountFirst, CountExists, CountNext, CountGone, CountAgain, Counted, Lock
<1>2. \/ request' = [request EXCEPT ![b] = Idle]
      \/ \E pc \in {"add", "incr", "set", "lock"} : request' = [request EXCEPT ![b].pc = pc]
  <2>1. ASSUME NEW n, Counted(b, n)
        PROVE  \/ request' = [request EXCEPT ![b] = Idle]
               \/ request' = [request EXCEPT ![b].pc = "lock"]
    BY <2>1 DEF Counted
  <2>2. CASE CountFirst(b) \/ CountNext(b) \/ CountAgain(b)
    BY <2>1, <2>2 DEF CountFirst, CountNext, CountAgain
  <2>3. CASE CountExists(b) \/ CountGone(b) \/ Lock(b)
    BY <2>3 DEF CountExists, CountGone, Lock
  <2>. QED  BY <2>2, <2>3 DEF CountFailure
<1>3. RequestMoves(b) /\ \A c \in Browsers \ {b} : request'[c] = request[c]
  BY <1>1, <1>2, RequestForms
<1>. QED  BY <1>1, <1>3, OnlyRequest

LEMMA StartGrants ==
  ASSUME Types, Types', GrantInv, NEW b \in Browsers, Start(b)
  PROVE  GrantInv'
<1>1. RequestMoves(b) /\ \A c \in Browsers \ {b} : request'[c] = request[c]
  BY RequestForms DEF Start
<1>2. CASE Active
  BY <1>1, <1>2, OnlyRequest DEF Start
<1>3. CASE ~Active
  <2>1. PICK e : session' = [session EXCEPT ![b] = e] /\ Shrunk(e, session[b])
    <3>1. Shrunk(session[b], session[b]) /\ Shrunk(WithoutMode(session[b]), session[b])
      BY Shrinkings, OwnGrant
    <3>. QED  BY <1>3, <3>1 DEF Start
  <2>2. DeviceStarted
    BY <1>3 DEF Start, NextSeed, DeviceStarted, Types, DeviceInv, Device
  <2>3. proved' = proved
    BY DEF Start
  <2>. QED  BY <1>1, <2>1, <2>2, <2>3, ShrinkingStep
<1>. QED  BY <1>2, <1>3

LEMMA ConfirmGrants ==
  ASSUME Types, Types', GrantInv, NEW b \in Browsers, NEW s, Confirm(b, s)
  PROVE  GrantInv'
<1>1. CASE ~(device.status = "pending" /\ ~device.expired /\ Matches(b, s))
  <2>1. request' = [request EXCEPT ![b] = Idle] /\ session' = session /\ proved' = proved
        /\ (Erase \/ device' = device)
    BY <1>1 DEF Confirm
  <2>2. RequestMoves(b) /\ \A c \in Browsers \ {b} : request'[c] = request[c]
    BY <2>1, RequestForms
  <2>3. DeviceErased \/ DeviceSame
    BY <2>1, ErasedDevice DEF DeviceSame
  <2>4. Shrunk(session[b], session[b])
    BY OwnGrant
  <2>. QED  BY <2>1, <2>2, <2>3, <2>4, ShrinkingStep
<1>2. ASSUME device.status = "pending", ~device.expired, Matches(b, s) PROVE GrantInv'
  <2>1. /\ device' = [device EXCEPT !.status = "active", !.last = s]
        /\ Accept(b, <<device.seed, s>>)
        /\ request[b].pc = "confirm" /\ request[b].seed = device.seed
        /\ request' = [request EXCEPT ![b].pc = "mark"] /\ session' = session
    BY <1>2 DEF Confirm, Matches
  <2>2. device'.version = device.version /\ device'.seed = device.seed /\ device'.status = "active"
    BY <2>1 DEF Types, DeviceInv, Device
  <2>3. DeviceConfirmed(b)
    BY <1>2, <2>1, <2>2 DEF DeviceConfirmed
  <2>4. GrantOf(b) /\ ~request[b].newest /\ request[b] \in Answering
    BY <2>1, OwnGrant
  <2>. DEFINE r == [request[b] EXCEPT !.pc = "mark"]
  <2>5. request' = [request EXCEPT ![b] = r]
    BY <2>1 DEF Types, RestInv
  <2>6. r.pc = "mark" /\ r.kind = request[b].kind /\ r.seed = request[b].seed /\ ~r.newest
    BY <2>4 DEF Answering
  <2>. HIDE DEF r
  <2>7. request'[b] = r /\ \A c \in Browsers \ {b} : request'[c] = request[c]
    BY <2>5, OwnGrant
  <2>8. proved'[b] = proved[b] \union {device.seed} /\ \A c \in Browsers \ {b} : proved'[c] = proved[c]
    BY <2>1, AcceptShows
  <2>9. Shown(b)' /\ Active'
    BY <2>2, <2>8 DEF Shown, Active
  <2>10. GrantOf(b)'
    <3>1. session'[b].version <= device'.version /\ session'[b].remembered <= device'.version
          /\ request'[b].seed <= device'.seed
      BY <2>1, <2>2, <2>4, <2>6, <2>7 DEF GrantOf
    <3>2. device'.seed = request'[b].seed
      BY <2>1, <2>2, <2>6, <2>7
    <3>. QED  BY <2>1, <2>2, <2>4, <2>6, <2>7, <2>9, <3>1, <3>2 DEF GrantOf
  <2>11. \A c \in Browsers \ {b} : LeftAlone(c)
    BY <2>1, <2>7, <2>8 DEF LeftAlone
  <2>12. request'[b].pc # "confirm" /\ (Newest(b)' => Newest(b))
    BY <2>1, <2>6, <2>7 DEF Newest
  <2>. QED  BY <2>3, <2>10, <2>11, <2>12, GrantStep
<1>. QED  BY <1>1, <1>2

(* The browser that was logged in last has shown what it confirmed. *)
LEMMA MarkGrants ==
  ASSUME Types, Types', GrantInv, NEW b \in Browsers, MarkConfirmed(b)
  PROVE  GrantInv'
<1>1. GrantOf(b) /\ request[b].pc = "mark" /\ session[b] \in SessionEntry
      /\ device' = device /\ proved' = proved
  BY OwnGrant DEF MarkConfirmed
<1>2. request'[b] = Idle /\ \A c \in Browsers \ {b} : request'[c] = request[c]
  BY OwnGrant DEF MarkConfirmed
<1>3. /\ session'[b].user = session[b].user /\ session'[b].newest = session[b].newest
      /\ session'[b].remembered = session[b].remembered /\ session'[b].version = device.version
      /\ \A c \in Browsers \ {b} : session'[c] = session[c]
  <2>. DEFINE e == [session[b] EXCEPT !.mode = "full", !.certificate = NoCertificate,
                                      !.version = device.version]
  <2>1. session' = [session EXCEPT ![b] = e]
    BY DEF MarkConfirmed
  <2>2. e.user = session[b].user /\ e.newest = session[b].newest
        /\ e.remembered = session[b].remembered /\ e.version = device.version
    BY <1>1 DEF SessionEntry
  <2>. HIDE DEF e
  <2>3. session'[b] = e /\ \A c \in Browsers \ {b} : session'[c] = session[c]
    BY <2>1, OwnGrant
  <2>. QED  BY <2>2, <2>3
<1>4. request'[b].pc = "idle" /\ request'[b].kind = "none" /\ request'[b].seed = 0 /\ ~request'[b].newest
  BY <1>2, IdleFields
<1>5. session'[b].newest => Shown(b)'
  <2>1. session[b].newest => Shown(b)
    BY <1>1 DEF GrantOf
  <2>. QED  BY <1>1, <1>2, <1>3, <2>1 DEF Shown, Active
<1>6. session'[b].version <= device'.version /\ session'[b].remembered <= device'.version
      /\ request'[b].seed <= device'.seed
  <2>1. session'[b].version = device.version /\ session'[b].remembered = session[b].remembered
        /\ request'[b].seed = 0 /\ device' = device
    BY <1>1, <1>3, <1>4
  <2>2. session[b].remembered <= device.version
    BY <1>1 DEF GrantOf
  <2>. QED  BY <2>1, <2>2, GrantTypes
<1>7. GrantOf(b)'
  BY <1>1, <1>3, <1>4, <1>5, <1>6 DEF GrantOf
<1>8. DeviceSame /\ request'[b].pc # "confirm" /\ (Newest(b)' => Newest(b))
  BY <1>1, <1>3, <1>4 DEF DeviceSame, Newest
<1>9. \A c \in Browsers \ {b} : LeftAlone(c)
  BY <1>1, <1>2, <1>3 DEF LeftAlone
<1>. QED  BY <1>7, <1>8, <1>9, GrantStep

LEMMA RevokeGrants ==
  ASSUME Types, Types', GrantInv, NEW b \in Browsers, NEW s, Revoke(b, s)
  PROVE  GrantInv'
<1>1. RequestMoves(b) /\ (\A c \in Browsers \ {b} : request'[c] = request[c]) /\ session' = session
  BY RequestForms DEF Revoke
<1>2. Shrunk(session[b], session[b])
  BY OwnGrant
<1>3. CASE device.status \in {"pending", "active"} /\ Fresh(b, s)
  <2>1. DeviceErased /\ proved' = [proved EXCEPT ![b] = proved[b] \union {device.seed}]
    BY <1>3, ErasedDevice, AcceptShows DEF Revoke
  <2>. QED  BY <1>1, <1>2, <2>1, ShrinkingStep
<1>4. CASE ~(device.status \in {"pending", "active"} /\ Fresh(b, s))
  BY <1>1, <1>4, OnlyRequest DEF Revoke
<1>. QED  BY <1>3, <1>4

LEMMA AnswerGrants ==
  ASSUME Types, Types', GrantInv, NEW b \in Browsers, Answer(b)
  PROVE  GrantInv'
<1>1. ASSUME NEW s \in Window \union {NoStep}, Verify(b, s) \/ Confirm(b, s) \/ Revoke(b, s)
      PROVE  GrantInv'
  BY <1>1, VerifyGrants, ConfirmGrants, RevokeGrants
<1>2. ASSUME NEW right \in BOOLEAN, Recover(b, right) PROVE GrantInv'
  BY <1>2, RecoverGrants
<1>3. ASSUME NEW remember \in {"yes", "no", "as it was"}, Finish(b, remember) PROVE GrantInv'
  BY <1>3, FinishGrants
<1>. QED  BY <1>1, <1>2, <1>3, LogInGrants, StepUpAnswers, CountGrants, StartGrants, MarkGrants
          DEF Answer

-----------------------------------------------------------------------------
(* Every step *)

LEMMA LapseGrants ==
  ASSUME Types, Types', GrantInv, NEW b \in Browsers, Lapse(b) \/ BreakOff(b)
  PROVE  GrantInv'
<1>1. CASE BreakOff(b)
  <2>1. RequestMoves(b) /\ \A c \in Browsers \ {b} : request'[c] = request[c]
    BY <1>1, RequestForms DEF BreakOff
  <2>. QED  BY <1>1, <2>1, OnlyRequest DEF BreakOff
<1>2. CASE Lapse(b)
  <2>1. request[b] = Idle /\ UNCHANGED <<device, request>>
    BY <1>2 DEF Lapse
  <2>2. session[b] \in SessionEntry
    BY OwnGrant
  <2>3. CASE BecomesAnonymous(b)
    BY <2>1, <2>3, AnonymousGrants
  <2>4. CASE ~BecomesAnonymous(b)
    <3>1. PICK e : session' = [session EXCEPT ![b] = e] /\ Shrunk(e, session[b]) /\ proved' = proved
      <4>1. Shrunk(WithoutMode(session[b]), session[b])
            /\ Shrunk([session[b] EXCEPT !.remembered = NoVersion], session[b])
        BY <2>2, Shrinkings
      <4>2. proved' = proved
            /\ \/ session' = [session EXCEPT ![b] = WithoutMode(session[b])]
               \/ session' = [session EXCEPT ![b] = [session[b] EXCEPT !.remembered = NoVersion]]
        BY <1>2, <2>4 DEF Lapse, Types, RestInv
      <4>. QED  BY <4>1, <4>2
    <3>. QED  BY <2>1, <3>1, EntriesGo
  <2>. QED  BY <2>3, <2>4
<1>. QED  BY <1>1, <1>2

LEMMA SurroundingsGrants ==
  ASSUME Types, Types', GrantInv, UNCHANGED <<session, request, proved>>, DeviceSame \/ DeviceErased
  PROVE  GrantInv'
<1>1. \A c \in Browsers : LeftAlone(c)
  BY DEF LeftAlone
<1>2. ConfirmsOld
  BY DEF ConfirmsOld
<1>3. \A c \in Browsers : GrantOf(c)'
  BY <1>1, <1>2, OthersKeepGrants
<1>4. OneNewest'
  BY DEF GrantInv, OneNewest, Newest
<1>. QED  BY <1>3, <1>4 DEF GrantInv

LEMMA StepGrants ==
  ASSUME Types, Types', GrantInv, [Next]_vars
  PROVE  GrantInv'
<1>1. ASSUME NEW b \in Browsers, Arrive(b) \/ Answer(b) \/ Lapse(b) \/ BreakOff(b)
      PROVE  GrantInv'
  BY <1>1, ArriveGrants, AnswerGrants, LapseGrants
<1>2. CASE RevokeByOperator
  <2>1. DeviceErased
    BY <1>2, ErasedDevice DEF RevokeByOperator
  <2>. QED  BY <1>2, <2>1, SurroundingsGrants DEF RevokeByOperator
<1>3. CASE PendingExpires
  <2>1. DeviceSame
    BY <1>3 DEF PendingExpires, DeviceSame, Types, DeviceInv, Device
  <2>. QED  BY <1>3, <2>1, SurroundingsGrants DEF PendingExpires
<1>4. CASE Tick \/ CountExpires \/ LockExpires \/ Bind \/ RevokeCertificate \/ UNCHANGED vars
  <2>1. UNCHANGED <<device, session, request, proved>>
    BY <1>4 DEF Tick, CountExpires, LockExpires, Bind, RevokeCertificate, vars
  <2>2. DeviceSame
    BY <2>1 DEF DeviceSame
  <2>. QED  BY <2>1, <2>2, SurroundingsGrants
<1>. QED  BY <1>1, <1>2, <1>3, <1>4 DEF Next

LEMMA InitGrants ==
  ASSUME Init, Types
  PROVE  GrantInv
<1>1. ASSUME NEW b \in Browsers
      PROVE  /\ session[b].mode = "none" /\ session[b].version = NoVersion
             /\ session[b].remembered = NoVersion /\ ~session[b].newest /\ request[b] = Idle
  BY DEF Init, Anonymous
<1>2. ASSUME NEW b \in Browsers PROVE GrantOf(b)
  <2>1. device.version \in Nat /\ device.seed \in Nat /\ NoVersion < 0 /\ NoVersion \in Int
    BY GrantTypes
  <2>2. session[b].version <= device.version /\ session[b].remembered <= device.version
        /\ request[b].seed <= device.seed
    <3>1. request[b].seed = 0 /\ session[b].version = NoVersion /\ session[b].remembered = NoVersion
      BY <1>1, IdleFields
    <3>. QED  BY <2>1, <3>1
  <2>. QED  BY <1>1, <2>2, IdleFields DEF GrantOf
<1>3. OneNewest
  BY <1>1, IdleFields DEF OneNewest, Newest
<1>. QED  BY <1>2, <1>3 DEF GrantInv

(* Whatever is entered, revoked and enrolled from other browsers: who      *)
(* opens a protected page has shown the seed that is in force, and a       *)
(* membership operation happens under the seed of the code given for it.   *)
THEOREM GrantsAreOfTheSeed == Spec => GrantsFollowSeed
<1>1. Init => Types /\ GrantInv
  BY InitDevice, InitRest, InitGrants DEF Types
<1>2. Types /\ GrantInv /\ [Next]_vars => (Types /\ GrantInv)'
  <2>1. Types /\ [Next]_vars => Types'
    BY StepDevice, StepRest DEF Types
  <2>. QED  BY <2>1, StepGrants
<1>3. Types /\ GrantInv => \A b \in Browsers : LetIn(b) /\ DashboardValid(b) => device.seed \in proved[b]
  <2>. SUFFICES ASSUME Types, GrantInv, NEW b \in Browsers, LetIn(b), DashboardValid(b)
                PROVE  device.seed \in proved[b]
    OBVIOUS
  <2>1. session[b].newest /\ Holds(b) /\ Active
    BY DEF LetIn, DashboardValid, FullValid, RememberedValid, Holds
  <2>2. GrantOf(b)
    BY DEF GrantInv
  <2>. QED  BY <2>1, <2>2 DEF GrantOf, Shown
<1>4. Types /\ GrantInv /\ [Next]_vars =>
        [\A b \in Browsers : Consume(b) => Active /\ request[b].seed = device.seed]_vars
  <2>. SUFFICES ASSUME Types, GrantInv, NEW b \in Browsers, Consume(b)
                PROVE  Active /\ request[b].seed = device.seed
    OBVIOUS
  <2>1. request[b].pc = "consume" /\ Active /\ Holds(b)
    BY DEF Consume, Consumable, DashboardValid, FullValid, RememberedValid, Holds
  <2>2. GrantOf(b)
    BY DEF GrantInv
  <2>. QED  BY <2>1, <2>2 DEF GrantOf
<1>. QED  BY <1>1, <1>2, <1>3, <1>4, PTL DEF Spec, GrantsFollowSeed
=============================================================================
