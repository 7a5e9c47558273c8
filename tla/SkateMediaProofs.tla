-------------------------- MODULE SkateMediaProofs --------------------------
(* Proofs about SkateMedia, for every set of clips, workers and uploads and  *)
(* every budget of disturbances.                                             *)
EXTENDS SkateMediaInv, TLAPS

-----------------------------------------------------------------------------
(* Types *)

(* The index of the asset to move next stays inside Assets. *)
IndexInv ==
  \A w \in Workers :
    /\ worker[w].pc \in {"start", "derive"} => worker[w].k = 1
    /\ worker[w].pc = "publish" => worker[w].k \in 1..3

LEMMA AnyClipIsClip == AnyClip \in Clips
BY ClipsAssumption DEF AnyClip

(* A worker that is idle, and a request that is over, is a legal record. *)
LEMMA IdleTypes == IdleWorker \in Worker /\ IdleUpload \in Upload
BY AnyClipIsClip DEF IdleWorker, IdleUpload, Worker, WorkerPc, Upload, Version, NoVersion, NoSource, FileSet

LEMMA FilesType ==
  ASSUME NEW v \in Version
  PROVE  Files(v) \in FileSet
BY DEF Files, FileSet

LEMMA EmptyFiles == {} \in FileSet
BY DEF FileSet

LEMMA OwnVersionType ==
  ASSUME TypeOK, NEW w \in Workers
  PROVE  OwnVersion(w) \in Version
BY DEF TypeOK, OwnVersion, Version, Worker

LEMMA GenTypes ==
  ASSUME TypeOK, NEW c \in Clips
  PROVE  NextGen(row[c]) \in Nat /\ InvalidatedGen(row[c]) \in Nat
BY DEF TypeOK, Row, NextGen, InvalidatedGen

(* A row that is queued again stays a row. *)
LEMMA RowQueued ==
  ASSUME row \in [Clips -> Row], NEW c \in Clips, NEW g \in Nat, NEW n \in Nat
  PROVE  [row EXCEPT ![c].state = "uploaded", ![c].gen = g, ![c].source = n] \in [Clips -> Row]
<1>1. [row[c] EXCEPT !.state = "uploaded", !.gen = g, !.source = n] \in Row
  BY DEF Row, States
<1> QED
  BY <1>1 DEF Row

LEMMA RowClaimed ==
  ASSUME row \in [Clips -> Row], NEW c \in Clips, NEW st \in States, NEW g \in Nat
  PROVE  [row EXCEPT ![c].state = st, ![c].gen = g, ![c].stuck = FALSE] \in [Clips -> Row]
<1>1. [row[c] EXCEPT !.state = st, !.gen = g, !.stuck = FALSE] \in Row
  BY DEF Row
<1> QED
  BY <1>1 DEF Row

(* A worker that moves on stays a worker. *)
LEMMA WorkerMoved ==
  ASSUME worker \in [Workers -> Worker], NEW w \in Workers, NEW j \in 1..4, NEW pc \in WorkerPc
  PROVE  [worker EXCEPT ![w].k = j, ![w].pc = pc] \in [Workers -> Worker]
<1>1. [worker[w] EXCEPT !.k = j, !.pc = pc] \in Worker
  BY DEF Worker
<1> QED
  BY <1>1 DEF Worker

LEMMA WorkerDooms ==
  ASSUME worker \in [Workers -> Worker], NEW w \in Workers, NEW d \in FileSet, NEW pc \in WorkerPc
  PROVE  /\ [worker EXCEPT ![w].doomed = d, ![w].pc = pc] \in [Workers -> Worker]
         /\ [worker EXCEPT ![w].pc = pc, ![w].doomed = d] \in [Workers -> Worker]
<1>1. [worker[w] EXCEPT !.doomed = d, !.pc = pc] \in Worker
  BY DEF Worker
<1>2. [worker[w] EXCEPT !.pc = pc, !.doomed = d] \in Worker
  BY DEF Worker
<1> QED
  BY <1>1, <1>2 DEF Worker

LEMMA SpendType ==
  ASSUME TypeOK, NEW d \in Disturbances, Spend(d)
  PROVE  budget' \in [Disturbances -> Nat]
BY DEF TypeOK, Spend

LEMMA InitTypes == Init => TypeOK /\ IndexInv
<1> SUFFICES ASSUME Init PROVE TypeOK /\ IndexInv
  OBVIOUS
<1>1. row \in [Clips -> Row]
  BY DEF Init, Row, States, Version, NoVersion, NoSource
<1>2. worker \in [Workers -> Worker] /\ upload \in [Uploaders -> Upload]
  BY IdleTypes DEF Init
<1>3. budget \in [Disturbances -> Nat]
  BY BudgetAssumption DEF Init
<1>4. derived \in [Clips -> FileSet] /\ tmp \in [Clips -> SUBSET Nat]
  BY EmptyFiles DEF Init
<1>5. sources \in SUBSET Nat /\ nextSource \in Nat \ {0}
  BY DEF Init
<1>6. IndexInv
  BY DEF Init, IndexInv, IdleWorker
<1> QED
  BY <1>1, <1>2, <1>3, <1>4, <1>5, <1>6 DEF TypeOK

(* Each action keeps every variable in its set: one lemma per group. *)
LEMMA UploadTypes ==
  ASSUME TypeOK, IndexInv, NEW u \in Uploaders,
         UploadStep(u) \/ CrashUpload(u) \/ \E c \in Clips : SaveSource(u, c)
  PROVE  TypeOK' /\ IndexInv'
<1> USE IdleTypes DEF TypeOK, IndexInv, NoSource
<1>1. CASE \E c \in Clips : SaveSource(u, c)
  <2> PICK c \in Clips : SaveSource(u, c)
    BY <1>1
  <2>1. budget' \in [Disturbances -> Nat]
    BY SpendType DEF SaveSource, Disturbances
  <2>2. upload' \in [Uploaders -> Upload]
    BY DEF SaveSource, Upload
  <2> QED
    BY <2>1, <2>2 DEF SaveSource
<1>2. CASE RejectSource(u)
  <2>1. budget' \in [Disturbances -> Nat]
    BY <1>2, SpendType DEF RejectSource, Disturbances
  <2> QED
    BY <1>2, <2>1 DEF RejectSource
<1>3. CASE AttachSource(u)
  <2>1. upload' \in [Uploaders -> Upload]
    BY <1>3 DEF AttachSource, Upload, Row
  <2>2. row' \in [Clips -> Row]
    <3>1. PICK c \in Clips, n \in Nat : c = upload[u].clip /\ n = upload[u].name
      BY DEF Upload
    <3>2. PICK g \in Nat : g = InvalidatedGen(row[c])
      BY GenTypes
    <3>3. row' = [row EXCEPT ![c].state = "uploaded", ![c].gen = g, ![c].source = n]
      BY <1>3, <3>1, <3>2 DEF AttachSource
    <3> QED
      BY <3>3, RowQueued
  <2> QED
    BY <1>3, <2>1, <2>2 DEF AttachSource
<1>4. CASE DeleteReplacedSource(u)
  <2>1. budget' \in [Disturbances -> Nat]
    BY <1>4, SpendType DEF DeleteReplacedSource, Disturbances
  <2> QED
    BY <1>4, <2>1 DEF DeleteReplacedSource
<1>5. CASE CrashUpload(u)
  <2>1. budget' \in [Disturbances -> Nat]
    BY <1>5, SpendType DEF CrashUpload, Disturbances
  <2> QED
    BY <1>5, <2>1 DEF CrashUpload
<1> QED
  BY <1>1, <1>2, <1>3, <1>4, <1>5 DEF UploadStep

LEMMA ClipTypes ==
  ASSUME TypeOK, IndexInv, NEW c \in Clips,
         Requeue(c) \/ DeleteClip(c) \/ ClaimAges(c) \/ ResetStuck(c)
  PROVE  TypeOK' /\ IndexInv'
<1> USE DEF TypeOK, IndexInv
<1>1. budget' \in [Disturbances -> Nat]
  BY SpendType DEF Requeue, DeleteClip, ClaimAges, ResetStuck, Disturbances
<1>2. row' \in [Clips -> Row]
  <2>1. PICK g \in Nat : g = InvalidatedGen(row[c])
    BY GenTypes
  <2>2. Requeue(c) => row' = [row EXCEPT ![c].state = "uploaded", ![c].gen = g, ![c].stuck = FALSE]
    BY <2>1 DEF Requeue
  <2> QED
    <3>1. CASE Requeue(c)
      <4>1. "uploaded" \in States /\ row \in [Clips -> Row]
        BY DEF States
      <4>2. [row EXCEPT ![c].state = "uploaded", ![c].gen = g, ![c].stuck = FALSE] \in [Clips -> Row]
        BY ONLY <4>1, g \in Nat, c \in Clips, RowClaimed
      <4> QED
        BY ONLY <2>2, <3>1, <4>2
    <3>2. CASE DeleteClip(c)
      BY <3>2 DEF DeleteClip, Row, States
    <3>3. CASE ClaimAges(c)
      BY <3>3 DEF ClaimAges, Row
    <3>4. CASE ResetStuck(c)
      BY <3>4 DEF ResetStuck, Row, States
    <3> QED
      BY <3>1, <3>2, <3>3, <3>4
<1> QED
  BY <1>1, <1>2 DEF Requeue, DeleteClip, ClaimAges, ResetStuck

LEMMA WorkerTypes ==
  ASSUME TypeOK, IndexInv, NEW w \in Workers,
         WorkerStep(w) \/ CrashWorker(w) \/ \E c \in Clips : Claim(w, c)
  PROVE  TypeOK' /\ IndexInv'
<1> USE DEF TypeOK, IndexInv
<1>1. CASE \E c \in Clips : Claim(w, c)
  <2> PICK c \in Clips : Claim(w, c)
    BY <1>1
  <2>1. row' \in [Clips -> Row]
    <3>1. PICK g \in Nat : g = NextGen(row[c])
      BY GenTypes
    <3>2. row' = [row EXCEPT ![c].state = "processing", ![c].gen = g, ![c].stuck = FALSE]
      BY <3>1 DEF Claim
    <3> QED
      BY <3>2, RowClaimed DEF States
  <2>2. worker' \in [Workers -> Worker]
    <3>1. PICK g \in Nat, r \in Row : g = NextGen(row[c]) /\ r = row[c]
      BY GenTypes
    <3>2. [pc |-> "start", clip |-> c, gen |-> g, source |-> r.source,
           old |-> r.version, k |-> 1, doomed |-> {}] \in Worker
      BY EmptyFiles DEF Row, Worker, WorkerPc
    <3> QED
      BY <3>1, <3>2 DEF Claim
  <2> QED
    BY <2>1, <2>2 DEF Claim
<1>2. CASE CheckSource(w)
  <2>1. worker' \in [Workers -> Worker]
    BY <1>2 DEF CheckSource, Goto, Worker, WorkerPc
  <2>2. tmp' \in [Clips -> SUBSET Nat]
    BY <1>2 DEF CheckSource, Worker
  <2> QED
    BY <1>2, <2>1, <2>2 DEF CheckSource, Goto, Worker
<1>3. CASE Derive(w)
  <2>1. worker' \in [Workers -> Worker]
    BY <1>3, SMTT(30) DEF Derive, Goto, Worker, WorkerPc
  <2>2. IndexInv'
    BY <1>3, SMTT(30) DEF Derive, Goto, Worker
  <2>3. UNCHANGED <<row, sources, nextSource, derived, tmp, upload, budget>>
    BY <1>3 DEF Derive
  <2> QED
    BY <2>1, <2>2, <2>3
<1>4. CASE Publish(w)
  <2>1. worker[w].k \in 1..3 /\ Assets[worker[w].k] \in Asset /\ Len(Assets) = 3
    BY <1>4 DEF Publish, Assets, Asset
  <2>2. OwnVersion(w) \in Version
    BY OwnVersionType
  <2>3. derived' \in [Clips -> FileSet]
    BY <1>4, <2>1, <2>2 DEF Publish, Worker, FileSet
  <2>4. worker' \in [Workers -> Worker]
    <3>1. PICK j \in 1..4 : j = worker[w].k + 1
      BY <2>1
    <3>2. PICK pc \in WorkerPc : pc = IF worker[w].k = Len(Assets) THEN "finish" ELSE "publish"
      BY DEF WorkerPc
    <3>3. worker' = [worker EXCEPT ![w].k = j, ![w].pc = pc]
      BY <1>4, <3>1, <3>2 DEF Publish
    <3> QED
      BY <3>3, WorkerMoved
  <2>5. IndexInv'
    BY <1>4, <2>1 DEF Publish
  <2> QED
    BY <1>4, <2>3, <2>4, <2>5 DEF Publish
<1>5. CASE PublishFails(w)
  <2>1. Files(OwnVersion(w)) \in FileSet
    BY OwnVersionType, FilesType
  <2>2. worker' \in [Workers -> Worker]
    BY <1>5, <2>1, WorkerDooms DEF PublishFails, WorkerPc
  <2>3. budget' \in [Disturbances -> Nat]
    BY <1>5, SpendType DEF PublishFails, Disturbances
  <2> QED
    BY <1>5, <2>2, <2>3 DEF PublishFails
<1>6. CASE Finish(w)
  <2>1. SupersededFiles(w) \in FileSet
    BY OwnVersionType, FilesType, EmptyFiles DEF SupersededFiles, Worker
  <2>2. worker' \in [Workers -> Worker]
    BY <1>6, <2>1 DEF Finish, Worker, WorkerPc
  <2>3. row' \in [Clips -> Row]
    BY <1>6, OwnVersionType DEF Finish, FinishedRow, Row, States, Worker
  <2> QED
    BY <1>6, <2>2, <2>3 DEF Finish
<1>7. CASE FinishRaises(w)
  <2>1. worker' \in [Workers -> Worker]
    BY <1>7 DEF FinishRaises, Goto, Worker, WorkerPc
  <2>2. row' \in [Clips -> Row]
    <3>1. PICK v \in Version, c \in Clips : v = OwnVersion(w) /\ c = worker[w].clip
      BY OwnVersionType DEF Worker
    <3>2. \/ row' = row
          \/ row' = [row EXCEPT ![c].state = "ready", ![c].version = v, ![c].stuck = FALSE]
      BY <1>7, <3>1 DEF FinishRaises, FinishedRow
    <3> QED
      BY <3>2 DEF Row, States
  <2>3. budget' \in [Disturbances -> Nat]
    BY <1>7, SpendType DEF FinishRaises, Disturbances
  <2> QED
    BY <1>7, <2>1, <2>2, <2>3 DEF FinishRaises, Goto
<1>8. CASE CleanKey(w)
  <2>1. worker' \in [Workers -> Worker]
    <3>1. PICK f \in worker[w].doomed :
             worker' = [worker EXCEPT ![w].doomed = @ \ {f},
                                      ![w].pc = IF worker[w].doomed = {f} THEN AfterCleanup(@) ELSE @]
      BY <1>8 DEF CleanKey
    <3>2. PICK d \in FileSet : d = worker[w].doomed \ {f}
      BY DEF Worker, FileSet
    <3>3. PICK pc \in WorkerPc : pc = IF worker[w].doomed = {f} THEN AfterCleanup(worker[w].pc)
                                                              ELSE worker[w].pc
      BY DEF Worker, AfterCleanup, WorkerPc
    <3>4. worker' = [worker EXCEPT ![w].doomed = d, ![w].pc = pc]
      BY <3>1, <3>2, <3>3
    <3> QED
      BY <3>4, WorkerDooms
  <2>2. budget' \in [Disturbances -> Nat]
    BY <1>8, SpendType DEF CleanKey, Disturbances
  <2>3. derived' \in [Clips -> FileSet]
    BY <1>8 DEF CleanKey, Worker, FileSet
  <2>4. IndexInv'
    BY <1>8 DEF CleanKey, AfterCleanup
  <2> QED
    BY <1>8, <2>1, <2>2, <2>3, <2>4 DEF CleanKey
<1>9. CASE FailMedia(w)
  <2>1. worker' \in [Workers -> Worker]
    BY <1>9 DEF FailMedia, Goto, Worker, WorkerPc
  <2>2. row' \in [Clips -> Row]
    <3>1. PICK c \in Clips : c = worker[w].clip
      BY DEF Worker
    <3>2. row' = row \/ row' = [row EXCEPT ![c].state = "failed", ![c].stuck = FALSE]
      BY <1>9, <3>1 DEF FailMedia
    <3> QED
      BY <3>2 DEF Row, States
  <2>3. budget' \in [Disturbances -> Nat]
    BY <1>9, SpendType DEF FailMedia, Disturbances
  <2> QED
    BY <1>9, <2>1, <2>2, <2>3 DEF FailMedia, Goto
<1>10. CASE CleanTmp(w)
  <2>1. worker' \in [Workers -> Worker]
    BY <1>10, IdleTypes DEF CleanTmp
  <2>2. budget' \in [Disturbances -> Nat]
    BY <1>10, SpendType DEF CleanTmp, Disturbances
  <2>3. tmp' \in [Clips -> SUBSET Nat]
    BY <1>10 DEF CleanTmp
  <2> QED
    BY <1>10, <2>1, <2>2, <2>3 DEF CleanTmp, IdleWorker
<1>11. CASE CrashWorker(w)
  <2>1. worker' \in [Workers -> Worker]
    BY <1>11, IdleTypes DEF CrashWorker
  <2>2. budget' \in [Disturbances -> Nat]
    BY <1>11, SpendType DEF CrashWorker, Disturbances
  <2> QED
    BY <1>11, <2>1, <2>2 DEF CrashWorker, IdleWorker
<1> QED
  BY <1>1, <1>2, <1>3, <1>4, <1>5, <1>6, <1>7, <1>8, <1>9, <1>10, <1>11 DEF WorkerStep

LEMMA NextTypes ==
  ASSUME TypeOK, IndexInv, [Next]_vars
  PROVE  TypeOK' /\ IndexInv'
<1>1. CASE UNCHANGED vars
  BY <1>1 DEF vars, TypeOK, IndexInv
<1> QED
  BY <1>1, UploadTypes, ClipTypes, WorkerTypes DEF Next

(* Every reachable state is well typed, and no worker runs past the third   *)
(* asset (process_media, _publish_to_final).                                *)
THEOREM TypeCorrect == Spec => [](TypeOK /\ IndexInv)
<1>1. TypeOK /\ IndexInv /\ [Next]_vars => (TypeOK /\ IndexInv)'
  BY NextTypes
<1> QED
  BY <1>1, InitTypes, PTL DEF Spec

-----------------------------------------------------------------------------
(* Claims, versions and published files *)

OthersKeep(w) == \A v \in Workers \ {w} : worker'[v] = worker[v]

OtherRowsKeep(c) == \A d \in Clips \ {c} : row'[d] = row[d]

(* w goes on under the claim it has. *)
KeepsClaim(w) ==
  /\ worker[w].pc # "idle"
  /\ worker'[w].clip = worker[w].clip
  /\ worker'[w].gen = worker[w].gen
  /\ worker'[w].source = worker[w].source
  /\ worker'[w].old = worker[w].old

Stops(w) == worker'[w].pc = "idle" /\ worker'[w].doomed = {}

(* Steps that change neither a row, a published file nor a worker. *)
LEMMA ClaimStutter ==
  ASSUME ClaimInv, UNCHANGED <<row, derived, worker>>
  PROVE  ClaimInv'
BY DEF ClaimInv, ClaimOrder, OneWorkerPerClaim, DoomedUnreferenced, PublishedSoFar,
       VersionsComplete, ReadyShowsCurrentSource, Active, Working, SameClip,
       ClaimIsCurrent, OwnVersion

(* A row may be queued again, deleted or found stuck: its claim is at most   *)
(* withdrawn, and its version stays.                                         *)
LEMMA ClaimWithdrawn ==
  ASSUME TypeOK, TypeOK', ClaimInv, NEW c \in Clips, UNCHANGED <<derived, worker>>,
         OtherRowsKeep(c),
         row'[c].version = row[c].version,
         row'[c].gen >= row[c].gen,
         row'[c].state # "ready",
         row'[c].state = "processing" => /\ row[c].state = "processing"
                                         /\ row'[c].gen = row[c].gen
                                         /\ row'[c].source = row[c].source
  PROVE  ClaimInv'
<1>1. ClaimOrder'
  <2> SUFFICES ASSUME NEW w \in Workers, Active(w)'
               PROVE  LET r == row'[worker'[w].clip] IN
                      /\ worker'[w].gen \in 1..r.gen
                      /\ worker'[w].old.gen < worker'[w].gen
                      /\ ClaimIsCurrent(w)' => /\ Working(w)' \/ worker'[w].pc \in {"fail", "tmp"}
                                               /\ worker'[w].source = r.source
                                               /\ worker'[w].old = r.version
                      /\ Working(w)' => r.version.gen # worker'[w].gen
    BY DEF ClaimOrder
  <2>1. worker[w].clip \in Clips /\ row[c].gen \in Nat /\ row'[c].gen \in Nat
    BY DEF TypeOK, Row, Worker
  <2>2. CASE worker[w].clip = c
    BY <2>1, <2>2 DEF ClaimInv, ClaimOrder, ClaimIsCurrent, Active, Working
  <2>3. CASE worker[w].clip # c
    BY <2>1, <2>3 DEF ClaimInv, ClaimOrder, ClaimIsCurrent, Active, Working, OtherRowsKeep
  <2> QED
    BY <2>2, <2>3
<1>2. OneWorkerPerClaim'
  BY DEF ClaimInv, OneWorkerPerClaim
<1>3. \A d \in Clips : row'[d].version = row[d].version
  BY DEF OtherRowsKeep
<1>4. DoomedUnreferenced'
  BY <1>3 DEF ClaimInv, DoomedUnreferenced, Active, Working, SameClip, TypeOK, Worker
<1>5. PublishedSoFar'
  BY DEF ClaimInv, PublishedSoFar, OwnVersion
<1>6. VersionsComplete'
  <2>1. \A d \in Clips : row'[d].gen >= row[d].gen
    BY DEF OtherRowsKeep, TypeOK, Row
  <2> QED
    BY <1>3, <2>1 DEF ClaimInv, VersionsComplete, TypeOK, Row, Version
<1>7. ReadyShowsCurrentSource'
  BY DEF ClaimInv, ReadyShowsCurrentSource, OtherRowsKeep
<1> QED
  BY <1>1, <1>2, <1>4, <1>5, <1>6, <1>7 DEF ClaimInv

(* A worker that goes on under its claim, or stops, keeps the order of claims. *)
LEMMA OrderKept ==
  ASSUME TypeOK, ClaimOrder, OneWorkerPerClaim, NEW w \in Workers,
         UNCHANGED row, OthersKeep(w), KeepsClaim(w) \/ Stops(w),
         Working(w)' => Working(w),
         ClaimIsCurrent(w) => Working(w)' \/ worker'[w].pc \in {"fail", "tmp", "idle"}
  PROVE  ClaimOrder' /\ OneWorkerPerClaim'
<1>1. ClaimOrder'
  <2> SUFFICES ASSUME NEW v \in Workers, Active(v)'
               PROVE  LET r == row'[worker'[v].clip] IN
                      /\ worker'[v].gen \in 1..r.gen
                      /\ worker'[v].old.gen < worker'[v].gen
                      /\ ClaimIsCurrent(v)' => /\ Working(v)' \/ worker'[v].pc \in {"fail", "tmp"}
                                               /\ worker'[v].source = r.source
                                               /\ worker'[v].old = r.version
                      /\ Working(v)' => r.version.gen # worker'[v].gen
    BY DEF ClaimOrder
  <2>1. CASE v = w
    BY <2>1 DEF ClaimOrder, ClaimIsCurrent, Active, KeepsClaim, Stops
  <2>2. CASE v # w
    BY <2>2 DEF ClaimOrder, ClaimIsCurrent, Active, OthersKeep, Working
  <2> QED
    BY <2>1, <2>2
<1>2. OneWorkerPerClaim'
  BY DEF OneWorkerPerClaim, OthersKeep, KeepsClaim, Stops
<1> QED
  BY <1>1, <1>2

(* No key becomes doomed, and no worker starts to publish. *)
LEMMA DoomedKept ==
  ASSUME TypeOK, DoomedUnreferenced, NEW w \in Workers,
         UNCHANGED row, OthersKeep(w), KeepsClaim(w) \/ Stops(w),
         Working(w)' => Working(w),
         worker'[w].doomed \subseteq worker[w].doomed,
         worker'[w].pc \notin {"unpublish", "clean"} => worker'[w].doomed = {}
  PROVE  DoomedUnreferenced'
<1> SUFFICES ASSUME NEW v \in Workers
             PROVE  /\ worker'[v].pc \notin {"unpublish", "clean"} => worker'[v].doomed = {}
                    /\ Active(v)' => \A f \in worker'[v].doomed :
                         /\ f[1].gen <= worker'[v].gen
                         /\ f[1].gen # row'[worker'[v].clip].version.gen
                         /\ \A t \in Workers : t # v /\ Working(t)' /\ SameClip(t, v)'
                              => f[1].gen # worker'[t].gen
  BY DEF DoomedUnreferenced
<1>1. CASE v = w
  BY <1>1 DEF DoomedUnreferenced, Active, Working, SameClip, OthersKeep, KeepsClaim, Stops
<1>2. CASE v # w
  <2>1. worker'[v] = worker[v]
    BY <1>2 DEF OthersKeep
  <2>2. worker[v].pc \notin {"unpublish", "clean"} => worker[v].doomed = {}
    BY DEF DoomedUnreferenced
  <2>3. ASSUME Active(v)', NEW f \in worker[v].doomed,
               NEW t \in Workers, t # v, Working(t)', SameClip(t, v)'
        PROVE  f[1].gen # worker'[t].gen
    <3>1. Working(t) /\ SameClip(t, v) /\ worker'[t].gen = worker[t].gen
      BY <2>1, <2>3 DEF OthersKeep, KeepsClaim, Stops, Working, SameClip
    <3> QED
      BY <3>1, <2>1, <2>3 DEF DoomedUnreferenced, Active
  <2> QED
    BY <2>1, <2>2, <2>3 DEF DoomedUnreferenced, Active
<1> QED
  BY <1>1, <1>2

(* With rows and published files unchanged, w may drop its work, or begin to  *)
(* publish from the first asset on.                                           *)
LEMMA WorkDropped ==
  ASSUME TypeOK, ClaimInv, NEW w \in Workers,
         UNCHANGED <<row, derived>>, OthersKeep(w), KeepsClaim(w) \/ Stops(w),
         Working(w)' => Working(w),
         ClaimIsCurrent(w) => Working(w)' \/ worker'[w].pc \in {"fail", "tmp", "idle"},
         worker'[w].doomed \subseteq worker[w].doomed,
         worker'[w].pc \notin {"unpublish", "clean"} => worker'[w].doomed = {},
         worker'[w].pc # "finish",
         worker'[w].pc = "publish" => worker'[w].k = 1
  PROVE  ClaimInv'
<1>1. ClaimOrder' /\ OneWorkerPerClaim'
  BY OrderKept DEF ClaimInv
<1>2. DoomedUnreferenced'
  BY DoomedKept DEF ClaimInv
<1>3. PublishedSoFar'
  <2> SUFFICES ASSUME NEW v \in Workers
               PROVE  /\ worker'[v].pc = "publish" =>
                           /\ worker'[v].k \in 1..3
                           /\ \A i \in 1..(worker'[v].k - 1) :
                                <<OwnVersion(v)', Assets[i]>> \in derived'[worker'[v].clip]
                      /\ worker'[v].pc = "finish" => Files(OwnVersion(v)') \subseteq derived'[worker'[v].clip]
    BY DEF PublishedSoFar, Files, OwnVersion, Assets
  <2>1. CASE v = w
    BY <2>1
  <2>2. CASE v # w
    BY <2>2 DEF ClaimInv, PublishedSoFar, OthersKeep, OwnVersion
  <2> QED
    BY <2>1, <2>2
<1>4. VersionsComplete' /\ ReadyShowsCurrentSource'
  BY DEF ClaimInv, VersionsComplete, ReadyShowsCurrentSource
<1> QED
  BY <1>1, <1>2, <1>3, <1>4 DEF ClaimInv

LEMMA WorkDroppedSteps ==
  ASSUME TypeOK, IndexInv, ClaimInv, NEW w \in Workers,
         CheckSource(w) \/ Derive(w) \/ CleanTmp(w) \/ CrashWorker(w)
  PROVE  ClaimInv'
<1>1. UNCHANGED <<row, derived>> /\ OthersKeep(w)
  BY DEF CheckSource, Derive, CleanTmp, CrashWorker, Goto, OthersKeep, TypeOK
<1>2. worker[w].pc \notin {"unpublish", "clean"} => worker[w].doomed = {}
  BY DEF ClaimInv, DoomedUnreferenced
<1>3. CASE CheckSource(w)
  BY <1>1, <1>2, <1>3, WorkDropped DEF CheckSource, Goto, TypeOK, Worker, KeepsClaim, Working
<1>4. CASE Derive(w)
  BY <1>1, <1>2, <1>4, WorkDropped DEF Derive, Goto, TypeOK, Worker, KeepsClaim, Working, IndexInv
<1>5. CASE CleanTmp(w)
  BY <1>1, <1>5, WorkDropped DEF CleanTmp, TypeOK, Stops, Working, IdleWorker
<1>6. CASE CrashWorker(w)
  BY <1>1, <1>6, WorkDropped DEF CrashWorker, TypeOK, Stops, Working, IdleWorker
<1> QED
  BY <1>3, <1>4, <1>5, <1>6

(* A claim is a new generation, above that of every worker on the clip. *)
LEMMA ClaimStep ==
  ASSUME TypeOK, TypeOK', ClaimInv, NEW w \in Workers, NEW c \in Clips, Claim(w, c)
  PROVE  ClaimInv'
<1>1. /\ OthersKeep(w) /\ OtherRowsKeep(c) /\ UNCHANGED derived
      /\ row'[c].version = row[c].version
      /\ row'[c].source = row[c].source
      /\ row'[c].state = "processing"
      /\ row'[c].gen = row[c].gen + 1
  BY DEF Claim, NextGen, OthersKeep, OtherRowsKeep, TypeOK, Row
<1>2. /\ worker'[w].pc = "start"
      /\ worker'[w].clip = c
      /\ worker'[w].gen = row[c].gen + 1
      /\ worker'[w].source = row[c].source
      /\ worker'[w].old = row[c].version
      /\ worker'[w].doomed = {}
  BY DEF Claim, NextGen, TypeOK
<1>3. \A v \in Workers : Active(v) => worker[v].gen \in 1..row[worker[v].clip].gen
  BY DEF ClaimInv, ClaimOrder
<1>4. row[c].gen \in Nat /\ row[c].version.gen \in Nat /\ row[c].version.gen <= row[c].gen
  BY DEF TypeOK, Row, Version, ClaimInv, VersionsComplete
<1>5. \A d \in Clips : row'[d].version = row[d].version
  BY <1>1 DEF OtherRowsKeep
<1>6. ClaimOrder'
  <2> SUFFICES ASSUME NEW v \in Workers, Active(v)'
               PROVE  LET r == row'[worker'[v].clip] IN
                      /\ worker'[v].gen \in 1..r.gen
                      /\ worker'[v].old.gen < worker'[v].gen
                      /\ ClaimIsCurrent(v)' => /\ Working(v)' \/ worker'[v].pc \in {"fail", "tmp"}
                                               /\ worker'[v].source = r.source
                                               /\ worker'[v].old = r.version
                      /\ Working(v)' => r.version.gen # worker'[v].gen
    BY DEF ClaimOrder
  <2>1. CASE v = w
    BY <2>1, <1>1, <1>2, <1>4 DEF Working
  <2>2. CASE v # w
    <3>1. worker'[v] = worker[v] /\ Active(v) /\ worker[v].clip \in Clips
      BY <2>2, <1>1 DEF OthersKeep, Active, TypeOK, Worker
    <3>2. CASE worker[v].clip = c
      BY <3>1, <3>2, <1>1, <1>3, <1>4 DEF ClaimInv, ClaimOrder, ClaimIsCurrent, Working
    <3>3. CASE worker[v].clip # c
      BY <3>1, <3>3, <1>1 DEF ClaimInv, ClaimOrder, ClaimIsCurrent, Working, OtherRowsKeep
    <3> QED
      BY <3>2, <3>3
  <2> QED
    BY <2>1, <2>2
<1>7. OneWorkerPerClaim'
  BY <1>1, <1>2, <1>3, <1>4 DEF ClaimInv, OneWorkerPerClaim, OthersKeep, Active
<1>8. DoomedUnreferenced'
  <2> SUFFICES ASSUME NEW v \in Workers
               PROVE  /\ worker'[v].pc \notin {"unpublish", "clean"} => worker'[v].doomed = {}
                      /\ Active(v)' => \A f \in worker'[v].doomed :
                           /\ f[1].gen <= worker'[v].gen
                           /\ f[1].gen # row'[worker'[v].clip].version.gen
                           /\ \A t \in Workers : t # v /\ Working(t)' /\ SameClip(t, v)'
                                => f[1].gen # worker'[t].gen
    BY DEF DoomedUnreferenced
  <2>1. CASE v = w
    BY <2>1, <1>2
  <2>2. CASE v # w
    <3>1. worker'[v] = worker[v] /\ worker[v].clip \in Clips
      BY <2>2, <1>1 DEF OthersKeep, TypeOK, Worker
    <3>2. ASSUME Active(v), NEW f \in worker[v].doomed, worker[v].clip = c
          PROVE  f[1].gen # worker'[w].gen
      <4>1. f[1].gen \in Nat /\ worker[v].gen \in Nat
        BY DEF TypeOK, Worker, FileSet, Version
      <4>2. f[1].gen <= worker[v].gen /\ worker[v].gen <= row[c].gen
        BY <3>2, <1>3 DEF ClaimInv, DoomedUnreferenced
      <4> QED
        BY <4>1, <4>2, <1>2, <1>4
    <3>3. ASSUME Active(v), NEW f \in worker[v].doomed,
                 NEW t \in Workers, t # v, Working(t)', SameClip(t, v)'
          PROVE  f[1].gen # worker'[t].gen
      <4>1. CASE t = w
        BY <4>1, <3>1, <3>2, <3>3, <1>2 DEF SameClip
      <4>2. CASE t # w
        BY <4>2, <3>1, <3>3, <1>1 DEF OthersKeep, Working, SameClip, ClaimInv, DoomedUnreferenced
      <4> QED
        BY <4>1, <4>2
    <3> QED
      BY <3>1, <3>3, <1>5 DEF Active, ClaimInv, DoomedUnreferenced
  <2> QED
    BY <2>1, <2>2
<1>9. PublishedSoFar'
  BY <1>1, <1>2 DEF ClaimInv, PublishedSoFar, OthersKeep, OwnVersion
<1>10. VersionsComplete'
  <2> SUFFICES ASSUME NEW d \in Clips
               PROVE  row'[d].version.gen <= row'[d].gen
    BY <1>1, <1>5 DEF ClaimInv, VersionsComplete
  <2> QED
    BY <1>1, <1>4 DEF OtherRowsKeep, ClaimInv, VersionsComplete
<1>11. ReadyShowsCurrentSource'
  BY <1>1 DEF OtherRowsKeep, ClaimInv, ReadyShowsCurrentSource
<1> QED
  BY <1>6, <1>7, <1>8, <1>9, <1>10, <1>11 DEF ClaimInv

(* Moving an asset adds a file under the claim's own key. *)
LEMMA PublishStep ==
  ASSUME TypeOK, ClaimInv, NEW w \in Workers, Publish(w)
  PROVE  ClaimInv'
<1>1. /\ OthersKeep(w) /\ KeepsClaim(w) /\ UNCHANGED row
      /\ worker[w].pc = "publish"
      /\ worker'[w].k = worker[w].k + 1
      /\ worker'[w].pc = IF worker[w].k = 3 THEN "finish" ELSE "publish"
      /\ worker'[w].doomed = worker[w].doomed
  BY DEF Publish, OthersKeep, KeepsClaim, TypeOK, Worker, Assets
<1>2. /\ \A c \in Clips : derived[c] \subseteq derived'[c]
      /\ <<OwnVersion(w), Assets[worker[w].k]>> \in derived'[worker[w].clip]
  BY DEF Publish, TypeOK, Worker
<1>3. worker[w].k \in 1..3 /\ worker[w].clip \in Clips
  BY <1>1 DEF ClaimInv, PublishedSoFar, TypeOK, Worker
<1>4. ClaimOrder' /\ OneWorkerPerClaim'
  BY <1>1, OrderKept DEF ClaimInv, Working
<1>5. DoomedUnreferenced'
  <2>1. worker[w].doomed = {}
    BY <1>1 DEF ClaimInv, DoomedUnreferenced
  <2> QED
    BY <1>1, <2>1, DoomedKept DEF ClaimInv, Working
<1>6. PublishedSoFar'
  <2> SUFFICES ASSUME NEW v \in Workers
               PROVE  /\ worker'[v].pc = "publish" =>
                           /\ worker'[v].k \in 1..3
                           /\ \A i \in 1..(worker'[v].k - 1) :
                                <<OwnVersion(v)', Assets[i]>> \in derived'[worker'[v].clip]
                      /\ worker'[v].pc = "finish" => Files(OwnVersion(v)') \subseteq derived'[worker'[v].clip]
    BY DEF PublishedSoFar, Files, OwnVersion, Assets
  <2>1. CASE v # w
    <3>1. worker'[v] = worker[v] /\ worker[v].clip \in Clips
      BY <2>1, <1>1 DEF OthersKeep, TypeOK, Worker
    <3> QED
      BY <3>1, <1>2 DEF ClaimInv, PublishedSoFar, OwnVersion
  <2>2. CASE v = w
    <3>1. \A i \in 1..worker[w].k : <<OwnVersion(w), Assets[i]>> \in derived'[worker[w].clip]
      BY <1>1, <1>2, <1>3 DEF ClaimInv, PublishedSoFar
    <3>2. OwnVersion(w)' = OwnVersion(w) /\ worker'[w].clip = worker[w].clip
      BY <1>1 DEF OwnVersion, KeepsClaim
    <3>3. CASE worker[w].k = 3
      <4>1. /\ <<OwnVersion(w), "main">> \in derived'[worker[w].clip]
            /\ <<OwnVersion(w), "preview">> \in derived'[worker[w].clip]
            /\ <<OwnVersion(w), "poster">> \in derived'[worker[w].clip]
        BY <3>1, <3>3 DEF Assets
      <4>2. Files(OwnVersion(w)) \subseteq derived'[worker[w].clip]
        BY <4>1 DEF Files, Asset
      <4> QED
        BY <2>2, <3>2, <3>3, <4>2, <1>1
    <3>4. CASE worker[w].k # 3
      BY <2>2, <3>1, <3>2, <3>4, <1>1, <1>3
    <3> QED
      BY <3>3, <3>4
  <2> QED
    BY <2>1, <2>2
<1>7. VersionsComplete'
  BY <1>1, <1>2 DEF ClaimInv, VersionsComplete
<1>8. ReadyShowsCurrentSource'
  BY <1>1 DEF ClaimInv, ReadyShowsCurrentSource
<1> QED
  BY <1>4, <1>5, <1>6, <1>7, <1>8 DEF ClaimInv

(* The keys a worker gives up are those of its own claim. *)
LEMMA OwnKeysDoomed ==
  ASSUME TypeOK, ClaimInv, NEW w \in Workers, UNCHANGED row,
         OthersKeep(w), KeepsClaim(w), Working(w),
         worker'[w].pc \in {"unpublish", "clean"},
         worker'[w].doomed = Files(OwnVersion(w))
  PROVE  DoomedUnreferenced'
<1> SUFFICES ASSUME NEW v \in Workers
             PROVE  /\ worker'[v].pc \notin {"unpublish", "clean"} => worker'[v].doomed = {}
                    /\ Active(v)' => \A f \in worker'[v].doomed :
                         /\ f[1].gen <= worker'[v].gen
                         /\ f[1].gen # row'[worker'[v].clip].version.gen
                         /\ \A t \in Workers : t # v /\ Working(t)' /\ SameClip(t, v)'
                              => f[1].gen # worker'[t].gen
  BY DEF DoomedUnreferenced
<1>1. \A t \in Workers : Working(t)' => Working(t) /\ worker'[t].gen = worker[t].gen
                                                   /\ worker'[t].clip = worker[t].clip
  BY DEF OthersKeep, KeepsClaim, Working
<1>2. CASE v = w
  <2>1. \A f \in worker'[w].doomed : f[1].gen = worker[w].gen
    BY DEF Files, OwnVersion
  <2>2. \A t \in Workers : t # w /\ Working(t) /\ SameClip(t, w) => worker[t].gen # worker[w].gen
    BY DEF ClaimInv, OneWorkerPerClaim, Working, SameClip
  <2>3. row[worker[w].clip].version.gen # worker[w].gen
    BY DEF ClaimInv, ClaimOrder, Active, Working
  <2>4. worker[w].gen \in Nat
    BY DEF TypeOK, Worker
  <2> QED
    BY <1>1, <1>2, <2>1, <2>2, <2>3, <2>4 DEF KeepsClaim, SameClip
<1>3. CASE v # w
  <2>1. worker'[v] = worker[v]
    BY <1>3 DEF OthersKeep
  <2>2. \A t \in Workers : SameClip(t, v)' /\ Working(t)' => SameClip(t, v)
    BY <2>1, <1>1 DEF SameClip
  <2> QED
    BY <1>1, <2>1, <2>2 DEF ClaimInv, DoomedUnreferenced, Active
<1> QED
  BY <1>2, <1>3

LEMMA PublishFailsStep ==
  ASSUME TypeOK, ClaimInv, NEW w \in Workers, PublishFails(w)
  PROVE  ClaimInv'
<1>1. /\ OthersKeep(w) /\ KeepsClaim(w) /\ UNCHANGED <<row, derived>>
      /\ worker[w].pc = "publish"
      /\ worker'[w].pc = "unpublish"
      /\ worker'[w].doomed = Files(OwnVersion(w))
  BY DEF PublishFails, OthersKeep, KeepsClaim, TypeOK, Worker
<1>2. ClaimOrder' /\ OneWorkerPerClaim'
  BY <1>1, OrderKept DEF ClaimInv, Working
<1>3. DoomedUnreferenced'
  BY <1>1, OwnKeysDoomed DEF Working
<1>4. PublishedSoFar'
  BY <1>1 DEF ClaimInv, PublishedSoFar, OthersKeep, OwnVersion
<1>5. VersionsComplete' /\ ReadyShowsCurrentSource'
  BY <1>1 DEF ClaimInv, VersionsComplete, ReadyShowsCurrentSource
<1> QED
  BY <1>2, <1>3, <1>4, <1>5 DEF ClaimInv

(* A file is deleted only while no row and no other worker needs its key. *)
LEMMA CleanKeyStep ==
  ASSUME TypeOK, ClaimInv, NEW w \in Workers, CleanKey(w)
  PROVE  ClaimInv'
<1>1. PICK f \in worker[w].doomed :
        /\ \A d \in Clips \ {worker[w].clip} : derived'[d] = derived[d]
        /\ derived[worker[w].clip] \ {f} \subseteq derived'[worker[w].clip]
        /\ worker'[w].doomed = worker[w].doomed \ {f}
        /\ worker'[w].pc = IF worker[w].doomed = {f} THEN AfterCleanup(worker[w].pc) ELSE worker[w].pc
  BY DEF CleanKey, TypeOK, Worker
<1>2. /\ OthersKeep(w) /\ KeepsClaim(w) /\ UNCHANGED row
      /\ worker[w].pc \in {"unpublish", "clean"}
      /\ worker[w].clip \in Clips
  BY DEF CleanKey, OthersKeep, KeepsClaim, TypeOK, Worker
<1>3. /\ Working(w)' => Working(w)
      /\ ClaimIsCurrent(w) => Working(w)' \/ worker'[w].pc \in {"fail", "tmp", "idle"}
      /\ worker'[w].pc \notin {"publish", "finish"}
      /\ worker'[w].pc \notin {"unpublish", "clean"} => worker'[w].doomed = {}
  BY <1>1, <1>2 DEF Working, AfterCleanup, ClaimInv, ClaimOrder, Active
<1>4. ClaimOrder' /\ OneWorkerPerClaim'
  BY <1>2, <1>3, OrderKept DEF ClaimInv
<1>5. DoomedUnreferenced'
  BY <1>1, <1>2, <1>3, DoomedKept DEF ClaimInv
<1>6. /\ f[1].gen # row[worker[w].clip].version.gen
      /\ \A v \in Workers : v # w /\ Working(v) /\ SameClip(v, w) => f[1].gen # worker[v].gen
  BY <1>1, <1>2 DEF ClaimInv, DoomedUnreferenced, Active
<1>7. ASSUME NEW d \in Clips, NEW v, NEW a, <<v, a>> \in derived[d],
             d = worker[w].clip => v.gen # f[1].gen
      PROVE  <<v, a>> \in derived'[d]
  BY <1>1, <1>2, <1>7
<1>8. PublishedSoFar'
  <2> SUFFICES ASSUME NEW v \in Workers
               PROVE  /\ worker'[v].pc = "publish" =>
                           /\ worker'[v].k \in 1..3
                           /\ \A i \in 1..(worker'[v].k - 1) :
                                <<OwnVersion(v)', Assets[i]>> \in derived'[worker'[v].clip]
                      /\ worker'[v].pc = "finish" => Files(OwnVersion(v)') \subseteq derived'[worker'[v].clip]
    BY DEF PublishedSoFar, Files, OwnVersion, Assets
  <2>1. CASE v = w
    BY <2>1, <1>3
  <2>2. CASE v # w
    <3>1. worker'[v] = worker[v] /\ worker[v].clip \in Clips /\ OwnVersion(v)' = OwnVersion(v)
      BY <2>2, <1>2 DEF OthersKeep, TypeOK, Worker, OwnVersion
    <3>2. Working(v) /\ worker[v].clip = worker[w].clip => OwnVersion(v).gen # f[1].gen
      BY <1>6, <2>2 DEF SameClip, OwnVersion
    <3>3. CASE worker[v].pc = "publish"
      BY <1>7, <3>1, <3>2, <3>3 DEF ClaimInv, PublishedSoFar, Working
    <3>4. CASE worker[v].pc = "finish"
      BY <1>7, <3>1, <3>2, <3>4 DEF ClaimInv, PublishedSoFar, Working, Files
    <3> QED
      BY <3>1, <3>3, <3>4
  <2> QED
    BY <2>1, <2>2
<1>9. VersionsComplete'
  <2> SUFFICES ASSUME NEW d \in Clips, row[d].version # NoVersion
               PROVE  Files(row[d].version) \subseteq derived'[d]
    BY <1>2 DEF ClaimInv, VersionsComplete, Files, Asset
  <2> QED
    BY <1>6, <1>7 DEF ClaimInv, VersionsComplete, Files
<1>10. ReadyShowsCurrentSource'
  BY <1>2 DEF ClaimInv, ReadyShowsCurrentSource
<1> QED
  BY <1>4, <1>5, <1>8, <1>9, <1>10 DEF ClaimInv

(* The conditional UPDATE of a current claim switches the row to files that  *)
(* are all in place, derived from the source the row has.                    *)
LEMMA RowSwitched ==
  ASSUME TypeOK, TypeOK', ClaimInv, NEW w \in Workers,
         worker[w].pc = "finish", ClaimIsCurrent(w), row' = FinishedRow(w),
         OthersKeep(w), KeepsClaim(w), UNCHANGED derived,
         worker'[w].pc \in {"clean", "tmp", "fail"},
         \A f \in worker'[w].doomed : f[1] = worker[w].old,
         worker'[w].pc # "clean" => worker'[w].doomed = {}
  PROVE  ClaimInv'
<1> DEFINE c == worker[w].clip
<1>1. /\ c \in Clips /\ OtherRowsKeep(c)
      /\ row'[c].version = OwnVersion(w)
      /\ row'[c].state = "ready"
      /\ row'[c].gen = row[c].gen
      /\ row'[c].source = row[c].source
  BY DEF FinishedRow, OtherRowsKeep, TypeOK, Row, Worker
<1>2. /\ row[c].gen = worker[w].gen
      /\ row[c].source = worker[w].source
      /\ row[c].version = worker[w].old
      /\ worker[w].old.gen < worker[w].gen
      /\ row[c].version.gen # worker[w].gen
  BY DEF ClaimInv, ClaimOrder, ClaimIsCurrent, Active, Working
<1>3. OwnVersion(w).gen = worker[w].gen /\ OwnVersion(w).from = worker[w].source
  BY DEF OwnVersion
<1>4. \A v \in Workers : v # w /\ Active(v) /\ worker[v].clip = c => worker[v].gen # worker[w].gen
  BY DEF ClaimInv, OneWorkerPerClaim, Active
<1>5. ClaimOrder'
  <2> SUFFICES ASSUME NEW v \in Workers, Active(v)'
               PROVE  LET r == row'[worker'[v].clip] IN
                      /\ worker'[v].gen \in 1..r.gen
                      /\ worker'[v].old.gen < worker'[v].gen
                      /\ ClaimIsCurrent(v)' => /\ Working(v)' \/ worker'[v].pc \in {"fail", "tmp"}
                                               /\ worker'[v].source = r.source
                                               /\ worker'[v].old = r.version
                      /\ Working(v)' => r.version.gen # worker'[v].gen
    BY DEF ClaimOrder
  <2>1. CASE v = w
    BY <2>1, <1>1 DEF ClaimInv, ClaimOrder, ClaimIsCurrent, Active, Working, KeepsClaim
  <2>2. CASE v # w
    <3>1. worker'[v] = worker[v] /\ Active(v) /\ worker[v].clip \in Clips
      BY <2>2 DEF OthersKeep, Active, TypeOK, Worker
    <3>2. CASE worker[v].clip = c
      BY <2>2, <3>1, <3>2, <1>1, <1>2, <1>3, <1>4 DEF ClaimInv, ClaimOrder, ClaimIsCurrent, Working
    <3>3. CASE worker[v].clip # c
      BY <3>1, <3>3, <1>1 DEF ClaimInv, ClaimOrder, ClaimIsCurrent, Working, OtherRowsKeep
    <3> QED
      BY <3>2, <3>3
  <2> QED
    BY <2>1, <2>2
<1>6. OneWorkerPerClaim'
  BY DEF ClaimInv, OneWorkerPerClaim, OthersKeep, KeepsClaim
<1>7. DoomedUnreferenced'
  <2> SUFFICES ASSUME NEW v \in Workers
               PROVE  /\ worker'[v].pc \notin {"unpublish", "clean"} => worker'[v].doomed = {}
                      /\ Active(v)' => \A f \in worker'[v].doomed :
                           /\ f[1].gen <= worker'[v].gen
                           /\ f[1].gen # row'[worker'[v].clip].version.gen
                           /\ \A t \in Workers : t # v /\ Working(t)' /\ SameClip(t, v)'
                                => f[1].gen # worker'[t].gen
    BY DEF DoomedUnreferenced
  <2>1. \A t \in Workers : Working(t)' => /\ Working(t) /\ t # w
                                          /\ worker'[t] = worker[t]
    BY DEF OthersKeep, Working
  <2>2. CASE v = w
    <3>1. \A f \in worker'[w].doomed : f[1].gen = worker[w].old.gen
      OBVIOUS
    <3>2. worker[w].old.gen \in Nat /\ worker[w].gen \in Nat
      BY DEF TypeOK, Worker, Version
    <3>3. \A t \in Workers : Working(t) /\ SameClip(t, w) => worker[t].gen # worker[w].old.gen
      BY <1>2 DEF ClaimInv, ClaimOrder, Working, Active, SameClip
    <3> QED
      BY <1>1, <1>2, <1>3, <2>1, <2>2, <3>1, <3>2, <3>3 DEF KeepsClaim, SameClip
  <2>3. CASE v # w
    <3>1. worker'[v] = worker[v] /\ worker[v].clip \in Clips
      BY <2>3 DEF OthersKeep, TypeOK, Worker
    <3>2. ASSUME Active(v), NEW f \in worker[v].doomed
          PROVE  f[1].gen # row'[worker[v].clip].version.gen
      <4>1. CASE worker[v].clip = c
        BY <2>3, <3>2, <4>1, <1>1, <1>3 DEF ClaimInv, DoomedUnreferenced, SameClip, Working
      <4>2. CASE worker[v].clip # c
        BY <3>1, <3>2, <4>2, <1>1 DEF ClaimInv, DoomedUnreferenced, OtherRowsKeep
      <4> QED
        BY <4>1, <4>2
    <3>3. \A t \in Workers : SameClip(t, v)' /\ Working(t)' => SameClip(t, v)
      BY <3>1, <2>1 DEF SameClip
    <3> QED
      BY <2>1, <3>1, <3>2, <3>3 DEF ClaimInv, DoomedUnreferenced, Active
  <2> QED
    BY <2>2, <2>3
<1>8. PublishedSoFar'
  BY DEF ClaimInv, PublishedSoFar, OthersKeep, OwnVersion
<1>9. VersionsComplete'
  <2>1. Files(OwnVersion(w)) \subseteq derived[c]
    BY DEF ClaimInv, PublishedSoFar
  <2>2. row'[c].version.gen <= row'[c].gen
    BY <1>1, <1>2, <1>3 DEF TypeOK, Row
  <2> QED
    BY <1>1, <2>1, <2>2 DEF ClaimInv, VersionsComplete, OtherRowsKeep
<1>10. ReadyShowsCurrentSource'
  BY <1>1, <1>2, <1>3 DEF ClaimInv, ReadyShowsCurrentSource, OtherRowsKeep
<1> QED
  BY <1>5, <1>6, <1>7, <1>8, <1>9, <1>10 DEF ClaimInv

LEMMA FinishStep ==
  ASSUME TypeOK, TypeOK', ClaimInv, NEW w \in Workers, Finish(w)
  PROVE  ClaimInv'
<1>1. /\ OthersKeep(w) /\ KeepsClaim(w) /\ UNCHANGED derived
      /\ worker[w].pc = "finish"
      /\ worker'[w].doomed = SupersededFiles(w)
      /\ worker'[w].pc = IF SupersededFiles(w) = {} THEN "tmp" ELSE "clean"
  BY DEF Finish, OthersKeep, KeepsClaim, TypeOK, Worker
<1>2. CASE ClaimIsCurrent(w)
  <2>1. row' = FinishedRow(w)
    BY <1>2 DEF Finish
  <2>2. \A f \in SupersededFiles(w) : f[1] = worker[w].old
    BY <1>2 DEF SupersededFiles, Files
  <2> QED
    BY <1>1, <1>2, <2>1, <2>2, RowSwitched
<1>3. CASE ~ClaimIsCurrent(w)
  <2>1. UNCHANGED row /\ worker'[w].doomed = Files(OwnVersion(w))
    BY <1>1, <1>3 DEF Finish, SupersededFiles
  <2>2. ClaimOrder' /\ OneWorkerPerClaim'
    BY <1>1, <1>3, <2>1, OrderKept DEF ClaimInv, Working
  <2>3. DoomedUnreferenced'
    <3>1. <<OwnVersion(w), "main">> \in Files(OwnVersion(w))
      BY DEF Files, Asset
    <3> QED
      BY <1>1, <2>1, <3>1, OwnKeysDoomed DEF Working
  <2>4. PublishedSoFar'
    BY <1>1 DEF ClaimInv, PublishedSoFar, OthersKeep, OwnVersion
  <2>5. VersionsComplete' /\ ReadyShowsCurrentSource'
    BY <1>1, <2>1 DEF ClaimInv, VersionsComplete, ReadyShowsCurrentSource
  <2> QED
    BY <2>2, <2>3, <2>4, <2>5 DEF ClaimInv
<1> QED
  BY <1>2, <1>3

LEMMA FinishRaisesStep ==
  ASSUME TypeOK, TypeOK', ClaimInv, NEW w \in Workers, FinishRaises(w)
  PROVE  ClaimInv'
<1>1. /\ OthersKeep(w) /\ KeepsClaim(w) /\ UNCHANGED derived
      /\ worker[w].pc = "finish"
      /\ worker'[w].pc = "fail"
      /\ worker'[w].doomed = worker[w].doomed
  BY DEF FinishRaises, Goto, OthersKeep, KeepsClaim, TypeOK, Worker
<1>2. worker'[w].doomed = {}
  BY <1>1 DEF ClaimInv, DoomedUnreferenced
<1>3. CASE UNCHANGED row
  BY <1>1, <1>2, <1>3, WorkDropped DEF Working
<1>4. CASE ClaimIsCurrent(w) /\ row' = FinishedRow(w)
  BY <1>1, <1>2, <1>4, RowSwitched
<1> QED
  BY <1>3, <1>4 DEF FinishRaises

(* processing -> failed ends the claim of this worker and of no other. *)
LEMMA FailMediaStep ==
  ASSUME TypeOK, TypeOK', ClaimInv, NEW w \in Workers, FailMedia(w)
  PROVE  ClaimInv'
<1> DEFINE c == worker[w].clip
<1>1. /\ OthersKeep(w) /\ KeepsClaim(w) /\ UNCHANGED derived
      /\ worker[w].pc = "fail" /\ worker'[w].pc = "tmp"
      /\ worker'[w].doomed = worker[w].doomed
      /\ c \in Clips
  BY DEF FailMedia, Goto, OthersKeep, KeepsClaim, TypeOK, Worker
<1>2. worker'[w].doomed = {}
  BY <1>1 DEF ClaimInv, DoomedUnreferenced
<1>3. CASE UNCHANGED row
  BY <1>1, <1>2, <1>3, WorkDropped DEF Working
<1>4. CASE ClaimIsCurrent(w) /\ row' # row
  <2>1. /\ OtherRowsKeep(c)
        /\ row'[c].version = row[c].version
        /\ row'[c].gen = row[c].gen
        /\ row'[c].source = row[c].source
        /\ row'[c].state = "failed"
    BY <1>1, <1>4 DEF FailMedia, OtherRowsKeep, TypeOK, Row, Spend
  <2>2. \A d \in Clips : row'[d].version = row[d].version /\ row'[d].gen = row[d].gen
    BY <2>1 DEF OtherRowsKeep
  <2>3. \A v \in Workers : worker[v].clip \in Clips /\ worker'[v].clip = worker[v].clip
    BY <1>1 DEF TypeOK, Worker, OthersKeep, KeepsClaim
  <2>4. ClaimOrder'
    <3> SUFFICES ASSUME NEW v \in Workers, Active(v)'
                 PROVE  LET r == row'[worker'[v].clip] IN
                        /\ worker'[v].gen \in 1..r.gen
                        /\ worker'[v].old.gen < worker'[v].gen
                        /\ ClaimIsCurrent(v)' => /\ Working(v)' \/ worker'[v].pc \in {"fail", "tmp"}
                                                 /\ worker'[v].source = r.source
                                                 /\ worker'[v].old = r.version
                        /\ Working(v)' => r.version.gen # worker'[v].gen
      BY DEF ClaimOrder
    <3>1. CASE v = w
      <4>1. Active(w) /\ ~Working(w)' /\ ~ClaimIsCurrent(w)'
        BY <1>1, <2>1 DEF Active, Working, ClaimIsCurrent, KeepsClaim
      <4> QED
        BY <3>1, <4>1, <1>1, <2>2 DEF ClaimInv, ClaimOrder, KeepsClaim
    <3>2. CASE v # w
      <4>1. worker'[v] = worker[v] /\ Active(v)
        BY <3>2, <1>1 DEF OthersKeep, Active
      <4>2. CASE worker[v].clip = c
        BY <4>1, <4>2, <2>1 DEF ClaimInv, ClaimOrder, ClaimIsCurrent, Working
      <4>3. CASE worker[v].clip # c
        BY <4>1, <4>3, <2>1, <2>3 DEF ClaimInv, ClaimOrder, ClaimIsCurrent, Working, OtherRowsKeep
      <4> QED
        BY <4>2, <4>3
    <3> QED
      BY <3>1, <3>2
  <2>5. OneWorkerPerClaim'
    BY <1>1 DEF ClaimInv, OneWorkerPerClaim, OthersKeep, KeepsClaim
  <2>6. DoomedUnreferenced'
    <3> SUFFICES ASSUME NEW v \in Workers
                 PROVE  /\ worker'[v].pc \notin {"unpublish", "clean"} => worker'[v].doomed = {}
                        /\ Active(v)' => \A f \in worker'[v].doomed :
                             /\ f[1].gen <= worker'[v].gen
                             /\ f[1].gen # row'[worker'[v].clip].version.gen
                             /\ \A t \in Workers : t # v /\ Working(t)' /\ SameClip(t, v)'
                                  => f[1].gen # worker'[t].gen
      BY DEF DoomedUnreferenced
    <3>1. \A t \in Workers : Working(t)' => Working(t) /\ worker'[t] = worker[t]
      BY <1>1 DEF OthersKeep, Working
    <3>2. CASE v = w
      BY <3>2, <1>2
    <3>3. CASE v # w
      <4>1. worker'[v] = worker[v]
        BY <3>3, <1>1 DEF OthersKeep
      <4>2. \A t \in Workers : SameClip(t, v)' => SameClip(t, v)
        BY <2>3 DEF SameClip
      <4> QED
        BY <3>1, <4>1, <4>2, <2>2, <2>3 DEF ClaimInv, DoomedUnreferenced, Active
    <3> QED
      BY <3>2, <3>3
  <2>7. PublishedSoFar'
    BY <1>1 DEF ClaimInv, PublishedSoFar, OthersKeep, OwnVersion
  <2>8. VersionsComplete'
    BY <1>1, <2>2 DEF ClaimInv, VersionsComplete
  <2>9. ReadyShowsCurrentSource'
    BY <2>1 DEF ClaimInv, ReadyShowsCurrentSource, OtherRowsKeep
  <2> QED
    BY <2>4, <2>5, <2>6, <2>7, <2>8, <2>9 DEF ClaimInv
<1> QED
  BY <1>3, <1>4 DEF FailMedia

(* What requests, managers and time do to a row withdraws its claim at most. *)
LEMMA UploadClaims ==
  ASSUME TypeOK, TypeOK', ClaimInv, NEW u \in Uploaders,
         UploadStep(u) \/ CrashUpload(u) \/ \E c \in Clips : SaveSource(u, c)
  PROVE  ClaimInv'
<1>1. CASE AttachSource(u)
  <2> DEFINE c == upload[u].clip
  <2>1. /\ c \in Clips /\ OtherRowsKeep(c) /\ UNCHANGED <<derived, worker>>
        /\ row'[c].version = row[c].version
        /\ row'[c].gen = InvalidatedGen(row[c])
        /\ row'[c].state = "uploaded"
    BY <1>1 DEF AttachSource, OtherRowsKeep, TypeOK, Row, Upload
  <2>2. InvalidatedGen(row[c]) >= row[c].gen
    BY <2>1 DEF InvalidatedGen, TypeOK, Row
  <2> QED
    BY <2>1, <2>2, ClaimWithdrawn
<1>2. CASE ~AttachSource(u)
  <2>1. UNCHANGED <<row, derived, worker>>
    BY <1>2 DEF UploadStep, RejectSource, DeleteReplacedSource, CrashUpload, SaveSource
  <2> QED
    BY <2>1, ClaimStutter
<1> QED
  BY <1>1, <1>2

LEMMA ClipClaims ==
  ASSUME TypeOK, TypeOK', ClaimInv, NEW c \in Clips,
         Requeue(c) \/ DeleteClip(c) \/ ClaimAges(c) \/ ResetStuck(c)
  PROVE  ClaimInv'
<1>1. OtherRowsKeep(c) /\ UNCHANGED <<derived, worker>> /\ row'[c].version = row[c].version
  BY DEF Requeue, DeleteClip, ClaimAges, ResetStuck, OtherRowsKeep, TypeOK, Row
<1>2. row[c].gen \in Nat
  BY DEF TypeOK, Row
<1>3. CASE Requeue(c)
  <2>1. row'[c].state = "uploaded" /\ row'[c].gen = InvalidatedGen(row[c])
    BY <1>3 DEF Requeue, TypeOK, Row
  <2>2. InvalidatedGen(row[c]) >= row[c].gen
    BY <1>2 DEF InvalidatedGen
  <2> QED
    BY <1>1, <2>1, <2>2, ClaimWithdrawn
<1>4. CASE DeleteClip(c) \/ ClaimAges(c) \/ ResetStuck(c)
  <2>1. /\ row'[c].gen = row[c].gen /\ row'[c].source = row[c].source
        /\ row'[c].state # "ready"
        /\ row'[c].state = "processing" => row[c].state = "processing"
    BY <1>4 DEF DeleteClip, ClaimAges, ResetStuck, TypeOK, Row
  <2> QED
    BY <1>1, <1>2, <2>1, ClaimWithdrawn
<1> QED
  BY <1>3, <1>4

LEMMA WorkerClaims ==
  ASSUME TypeOK, IndexInv, TypeOK', ClaimInv, NEW w \in Workers,
         WorkerStep(w) \/ CrashWorker(w) \/ \E c \in Clips : Claim(w, c)
  PROVE  ClaimInv'
BY WorkDroppedSteps, ClaimStep, PublishStep, PublishFailsStep, FinishStep, FinishRaisesStep,
   CleanKeyStep, FailMediaStep DEF WorkerStep

LEMMA InitClaims == Init => ClaimInv
<1> SUFFICES ASSUME Init PROVE ClaimInv
  OBVIOUS
<1>1. \A w \in Workers : ~Active(w) /\ ~Working(w) /\ worker[w].pc = "idle" /\ worker[w].doomed = {}
  BY DEF Init, IdleWorker, Active, Working
<1>2. ClaimOrder /\ OneWorkerPerClaim /\ DoomedUnreferenced /\ PublishedSoFar
  BY <1>1 DEF ClaimOrder, OneWorkerPerClaim, DoomedUnreferenced, PublishedSoFar, Active
<1>3. VersionsComplete /\ ReadyShowsCurrentSource
  BY DEF Init, VersionsComplete, ReadyShowsCurrentSource, NoVersion
<1> QED
  BY <1>2, <1>3 DEF ClaimInv

LEMMA NextClaims ==
  ASSUME TypeOK, IndexInv, ClaimInv, [Next]_vars
  PROVE  ClaimInv'
<1>1. TypeOK' /\ IndexInv'
  BY NextTypes
<1>2. CASE UNCHANGED vars
  BY <1>1, <1>2, ClaimStutter DEF vars
<1>3. CASE Next
  BY <1>1, <1>3, UploadClaims, ClipClaims, WorkerClaims DEF Next
<1> QED
  BY <1>2, <1>3

(* The claim protocol: the conjunction that the theorems below follow from. *)
LEMMA ClaimInvariant == Spec => [](TypeOK /\ IndexInv /\ ClaimInv)
<1>1. Init => TypeOK /\ IndexInv /\ ClaimInv
  BY InitTypes, InitClaims
<1>2. TypeOK /\ IndexInv /\ ClaimInv /\ [Next]_vars => (TypeOK /\ IndexInv /\ ClaimInv)'
  BY NextTypes, NextClaims
<1> QED
  BY <1>1, <1>2, PTL DEF Spec

(* No failed, stale, duplicated or killed worker ever takes away a file of   *)
(* the version a row references (_publish_to_final, _cleanup_keys).          *)
THEOREM ReferencedAssetsArePresent == Spec => []ReferencedAssetsPresent
<1>1. ClaimInv => ReferencedAssetsPresent
  BY DEF ClaimInv, VersionsComplete, ReferencedAssetsPresent
<1> QED
  BY <1>1, ClaimInvariant, PTL

(* A ready clip shows output of its current source (finish, invalidate_claim). *)
THEOREM ReadyIsCurrent == Spec => []ReadyShowsCurrentSource
<1>1. ClaimInv => ReadyShowsCurrentSource
  BY DEF ClaimInv
<1> QED
  BY <1>1, ClaimInvariant, PTL

(* Every live worker on a clip has a claim of its own (claim, reset_stuck). *)
THEOREM ClaimsAreExclusive == Spec => []OneWorkerPerClaim
<1>1. ClaimInv => OneWorkerPerClaim
  BY DEF ClaimInv
<1> QED
  BY <1>1, ClaimInvariant, PTL

(* The references of a row change only through the claim it is held under.  *)
THEOREM OnlyCurrentPublishes == Spec => OnlyCurrentClaimPublishes
<1> DEFINE A == \A c \in Clips :
                  row'[c].version # row[c].version =>
                    /\ row[c].state = "processing" /\ row'[c].state = "ready"
                    /\ row'[c].version = [gen |-> row[c].gen, from |-> row[c].source]
<1>1. TypeOK /\ ClaimInv /\ [Next]_vars => [A]_vars
  <2> SUFFICES ASSUME TypeOK, ClaimInv, Next, NEW c \in Clips, row'[c].version # row[c].version
               PROVE  /\ row[c].state = "processing" /\ row'[c].state = "ready"
                      /\ row'[c].version = [gen |-> row[c].gen, from |-> row[c].source]
    OBVIOUS
  <2>1. ASSUME NEW w \in Workers, worker[w].pc = "finish", ClaimIsCurrent(w), row' = FinishedRow(w)
        PROVE  /\ row[c].state = "processing" /\ row'[c].state = "ready"
               /\ row'[c].version = [gen |-> row[c].gen, from |-> row[c].source]
    <3>1. worker[w].clip = c /\ row'[c].state = "ready" /\ row'[c].version = OwnVersion(w)
      BY <2>1 DEF FinishedRow, TypeOK, Row, Worker
    <3>2. worker[w].gen = row[c].gen /\ worker[w].source = row[c].source
      BY <2>1, <3>1 DEF ClaimInv, ClaimOrder, ClaimIsCurrent, Active
    <3> QED
      BY <2>1, <3>1, <3>2 DEF ClaimIsCurrent, OwnVersion
  <2>2. CASE \E w \in Workers : Finish(w) \/ FinishRaises(w)
    BY <2>1, <2>2 DEF Finish, FinishRaises
  <2>3. CASE \E w \in Workers : \/ CheckSource(w) \/ Derive(w) \/ Publish(w) \/ PublishFails(w)
                                \/ CleanKey(w) \/ CleanTmp(w) \/ CrashWorker(w)
    BY <2>3 DEF CheckSource, Derive, Publish, PublishFails, CleanKey, CleanTmp, CrashWorker
  <2>4. CASE \E w \in Workers : FailMedia(w) \/ \E d \in Clips : Claim(w, d)
    <3>1. PICK w \in Workers, d \in Clips : \/ FailMedia(w) /\ d = worker[w].clip
                                            \/ Claim(w, d)
      BY <2>4 DEF TypeOK, Worker
    <3>2. CASE FailMedia(w) /\ d = worker[w].clip
      <4>1. row' = row \/ row' = [row EXCEPT ![d].state = "failed", ![d].stuck = FALSE]
        BY <3>2 DEF FailMedia
      <4> QED
        BY <4>1 DEF TypeOK, Row
    <3>3. CASE Claim(w, d)
      <4>1. row' = [row EXCEPT ![d].state = "processing", ![d].gen = NextGen(row[d]), ![d].stuck = FALSE]
        BY <3>3 DEF Claim
      <4> QED
        BY <4>1 DEF TypeOK, Row
    <3> QED
      BY <3>1, <3>2, <3>3
  <2>5. CASE \E u \in Uploaders : UploadStep(u) \/ CrashUpload(u) \/ \E d \in Clips : SaveSource(u, d)
    BY <2>5, SMTT(30) DEF UploadStep, RejectSource, AttachSource, DeleteReplacedSource, CrashUpload,
                SaveSource, TypeOK, Row, Upload
  <2>6. CASE \E d \in Clips : Requeue(d) \/ DeleteClip(d) \/ ClaimAges(d) \/ ResetStuck(d)
    BY <2>6, SMTT(30) DEF Requeue, DeleteClip, ClaimAges, ResetStuck, TypeOK, Row
  <2> QED
    BY <2>2, <2>3, <2>4, <2>5, <2>6 DEF Next, WorkerStep
<1> QED
  BY <1>1, ClaimInvariant, PTL DEF Spec, OnlyCurrentClaimPublishes

-----------------------------------------------------------------------------
(* Private sources *)

(* What the steps of workers, managers and time leave of the sources: a row   *)
(* keeps its file, and a worker only ever takes a source from a row.          *)
SourcesKept ==
  /\ UNCHANGED <<sources, nextSource, upload>>
  /\ budget'["request"] <= budget["request"]
  /\ \A c \in Clips :
       /\ row'[c].source = row[c].source
       /\ row'[c].state \notin {"absent", "gone"} => Live(c)
       /\ row[c].state = "ready" /\ row[c].source = NoSource => row'[c].state \in {"ready", "gone"}
       /\ \/ row'[c].version.from = row[c].version.from
          \/ \E w \in Workers : row'[c].version.from = worker[w].source
  /\ \A w \in Workers : \/ worker'[w].source = worker[w].source
                        \/ worker'[w].source = NoSource
                        \/ \E c \in Clips : worker'[w].source = row[c].source

LEMMA SourceInvKept ==
  ASSUME TypeOK, TypeOK', SourceInv, SourcesKept
  PROVE  SourceInv'
<1> USE DEF SourceInv
<1>1. NamesFresh'
  <2>1. /\ budget["request"] \in Nat /\ budget'["request"] \in Nat /\ Budget["request"] \in Nat
        /\ nextSource \in Nat /\ nextSource' = nextSource
        /\ budget'["request"] <= budget["request"]
        /\ nextSource + budget["request"] <= Budget["request"] + 1
    BY BudgetAssumption DEF SourcesKept, NamesFresh, TypeOK, Disturbances
  <2>2. nextSource' + budget'["request"] <= Budget["request"] + 1
    BY <2>1
  <2>3. /\ \A c \in Clips : row[c].source < nextSource /\ row[c].version.from < nextSource
        /\ \A w \in Workers : worker[w].source < nextSource
        /\ \A u \in Uploaders : upload[u].name < nextSource /\ upload[u].old < nextSource
        /\ NoSource < nextSource
    BY DEF NamesFresh, TypeOK, NoSource
  <2>4. /\ \A c \in Clips : row'[c].source < nextSource' /\ row'[c].version.from < nextSource'
        /\ \A w \in Workers : worker'[w].source < nextSource'
        /\ \A u \in Uploaders : upload'[u].name < nextSource' /\ upload'[u].old < nextSource'
    BY <2>1, <2>3 DEF SourcesKept
  <2> QED
    BY <2>2, <2>4 DEF NamesFresh
<1>2. RowSourcesDistinct'
  BY DEF SourcesKept, RowSourcesDistinct
<1>3. PendingUnattached'
  BY DEF SourcesKept, PendingUnattached
<1>4. ReplacedUnattached'
  BY DEF SourcesKept, ReplacedUnattached
<1>5. SourceStored'
  BY DEF SourcesKept, SourceStored, Live
<1> QED
  BY <1>1, <1>2, <1>3, <1>4, <1>5

LEMMA WorkersKeepSources ==
  ASSUME TypeOK, NEW w \in Workers,
         WorkerStep(w) \/ CrashWorker(w) \/ \E c \in Clips : Claim(w, c)
  PROVE  SourcesKept
<1>1. UNCHANGED <<sources, nextSource, upload>>
  BY DEF WorkerStep, CheckSource, Derive, Publish, PublishFails, Finish, FinishRaises, CleanKey,
         FailMedia, CleanTmp, CrashWorker, Claim
<1>2. budget'["request"] = budget["request"]
  BY DEF WorkerStep, CheckSource, Derive, Publish, PublishFails, Finish, FinishRaises, CleanKey,
         FailMedia, CleanTmp, CrashWorker, Claim, Spend, TypeOK, Disturbances
<1>3. ASSUME NEW d \in Clips
      PROVE  /\ row'[d].source = row[d].source
             /\ row'[d].state \notin {"absent", "gone"} => Live(d)
             /\ row[d].state = "ready" /\ row[d].source = NoSource =>
                  row'[d].state \in {"ready", "gone"}
             /\ \/ row'[d].version.from = row[d].version.from
                \/ \E v \in Workers : row'[d].version.from = worker[v].source
  <2>1. CASE UNCHANGED row
    BY <2>1 DEF Live
  <2>2. CASE \E c \in Clips : Claim(w, c)
    <3>1. PICK c \in Clips : Claim(w, c)
      BY <2>2
    <3>2. row[c].state = "uploaded"
      BY <3>1 DEF Claim
    <3>3. row'[d].source = row[d].source /\ row'[d].version = row[d].version
      <4>1. row' = [row EXCEPT ![c].state = "processing", ![c].gen = NextGen(row[c]), ![c].stuck = FALSE]
        BY <3>1 DEF Claim
      <4> QED
        BY <4>1 DEF TypeOK, Row
    <3>4. d # c => row'[d] = row[d]
      BY <3>1 DEF Claim, TypeOK
    <3> QED
      BY <3>2, <3>3, <3>4 DEF Live
  <2>3. CASE ClaimIsCurrent(w) /\ row' = FinishedRow(w)
    <3>1. row[worker[w].clip].state = "processing" /\ OwnVersion(w).from = worker[w].source
      BY <2>3 DEF ClaimIsCurrent, OwnVersion
    <3> QED
      BY <2>3, <3>1 DEF FinishedRow, Live, TypeOK, Row
  <2>4. CASE FailMedia(w)
    BY <2>4 DEF FailMedia, ClaimIsCurrent, Live, TypeOK, Row, Worker
  <2> QED
    BY <2>1, <2>2, <2>3, <2>4
       DEF WorkerStep, CheckSource, Derive, Publish, PublishFails, Finish, FinishRaises,
           CleanKey, CleanTmp, CrashWorker
<1>4. ASSUME NEW v \in Workers
      PROVE  \/ worker'[v].source = worker[v].source
             \/ worker'[v].source = NoSource
             \/ \E c \in Clips : worker'[v].source = row[c].source
  <2>1. CASE \E c \in Clips : Claim(w, c)
    <3>1. PICK c \in Clips : Claim(w, c)
      BY <2>1
    <3>2. v = w => worker'[v].source = row[c].source
      BY <3>1 DEF Claim, TypeOK
    <3>3. v # w => worker'[v] = worker[v]
      BY <3>1 DEF Claim, TypeOK
    <3> QED
      BY <3>2, <3>3
  <2>2. CASE CleanTmp(w) \/ CrashWorker(w)
    BY <2>2 DEF CleanTmp, CrashWorker, IdleWorker, TypeOK
  <2>3. CASE \E pc \in WorkerPc : Goto(w, pc)
    BY <2>3 DEF Goto, TypeOK, Worker
  <2>4. CASE CheckSource(w) \/ Derive(w) \/ FinishRaises(w) \/ FailMedia(w)
    BY <2>3, <2>4 DEF CheckSource, Derive, FinishRaises, FailMedia, WorkerPc
  <2>5. CASE Publish(w)
    BY <2>5 DEF Publish, TypeOK, Worker
  <2>6. CASE PublishFails(w)
    BY <2>6 DEF PublishFails, TypeOK, Worker
  <2>7. CASE Finish(w)
    BY <2>7 DEF Finish, TypeOK, Worker
  <2>8. CASE CleanKey(w)
    BY <2>8 DEF CleanKey, TypeOK, Worker
  <2> QED
    BY <2>1, <2>2, <2>4, <2>5, <2>6, <2>7, <2>8 DEF WorkerStep
<1>5. budget["request"] \in Nat
  BY DEF TypeOK, Disturbances
<1> QED
  BY <1>1, <1>2, <1>3, <1>4, <1>5 DEF SourcesKept

LEMMA ClipsKeepSources ==
  ASSUME TypeOK, NEW c \in Clips,
         Requeue(c) \/ DeleteClip(c) \/ ClaimAges(c) \/ ResetStuck(c)
  PROVE  SourcesKept
<1>1. UNCHANGED <<sources, nextSource, upload, worker>>
  BY DEF Requeue, DeleteClip, ClaimAges, ResetStuck
<1>2. budget'["request"] <= budget["request"]
  <2>1. budget["request"] \in Nat
    BY DEF TypeOK, Disturbances
  <2>2. budget' = budget \/ Spend("request") \/ Spend("slow")
    BY DEF Requeue, DeleteClip, ClaimAges, ResetStuck
  <2>3. Spend("request") => budget'["request"] = budget["request"] - 1
    BY DEF Spend, TypeOK, Disturbances
  <2>4. Spend("slow") => budget'["request"] = budget["request"]
    BY DEF Spend, TypeOK, Disturbances
  <2> QED
    BY <2>1, <2>2, <2>3, <2>4
<1>3. ASSUME NEW d \in Clips
      PROVE  /\ row'[d].source = row[d].source
             /\ row'[d].version = row[d].version
             /\ row'[d].state \notin {"absent", "gone"} => Live(d)
             /\ row[d].state = "ready" /\ row[d].source = NoSource =>
                  row'[d].state \in {"ready", "gone"}
  BY SMTT(30) DEF Requeue, DeleteClip, ClaimAges, ResetStuck, TypeOK, Row, Live
<1> QED
  BY <1>1, <1>2, <1>3 DEF SourcesKept

(* A saved upload is a file of its own that nothing refers to yet. *)
LEMMA SaveSourceStep ==
  ASSUME TypeOK, TypeOK', SourceInv, NEW u \in Uploaders, NEW c \in Clips, SaveSource(u, c)
  PROVE  SourceInv'
<1>1. /\ UNCHANGED <<row, worker>>
      /\ sources' = sources \union {nextSource}
      /\ nextSource' = nextSource + 1
      /\ budget'["request"] = budget["request"] - 1
      /\ upload'[u].pc = "saved" /\ upload'[u].name = nextSource /\ upload'[u].old = NoSource
      /\ upload[u].pc = "idle"
      /\ \A t \in Uploaders \ {u} : upload'[t] = upload[t]
  BY DEF SaveSource, Spend, TypeOK, Disturbances
<1>2. nextSource \in Nat \ {0} /\ budget["request"] \in Nat /\ Budget["request"] \in Nat
  BY BudgetAssumption DEF TypeOK, Disturbances
<1>3. /\ \A d \in Clips : row[d].source \in Nat /\ row[d].version.from \in Nat
      /\ \A w \in Workers : worker[w].source \in Nat
      /\ \A t \in Uploaders : upload[t].name \in Nat /\ upload[t].old \in Nat
  BY DEF TypeOK, Row, Worker, Upload, Version
<1>4. /\ \A d \in Clips : row[d].source < nextSource /\ row[d].version.from < nextSource
      /\ \A w \in Workers : worker[w].source < nextSource
      /\ \A t \in Uploaders : upload[t].name < nextSource /\ upload[t].old < nextSource
  BY DEF SourceInv, NamesFresh
<1>5. NamesFresh'
  <2>1. \A t \in Uploaders : upload'[t].name < nextSource' /\ upload'[t].old < nextSource'
    BY <1>1, <1>2, <1>3, <1>4 DEF NoSource
  <2>2. /\ \A d \in Clips : row'[d].source < nextSource' /\ row'[d].version.from < nextSource'
        /\ \A w \in Workers : worker'[w].source < nextSource'
    BY <1>1, <1>2, <1>3, <1>4
  <2> QED
    BY <1>1, <1>2, <2>1, <2>2 DEF SourceInv, NamesFresh
<1>6. RowSourcesDistinct'
  BY <1>1 DEF SourceInv, RowSourcesDistinct
<1>7. PendingUnattached'
  BY <1>1, <1>2, <1>3, <1>4 DEF SourceInv, PendingUnattached, NoSource
<1>8. ReplacedUnattached'
  BY <1>1, <1>2, <1>3, <1>4 DEF SourceInv, ReplacedUnattached, NoSource
<1>9. SourceStored'
  BY <1>1 DEF SourceInv, SourceStored, Live
<1> QED
  BY <1>5, <1>6, <1>7, <1>8, <1>9 DEF SourceInv

(* A request that ends may take away a file that no row and no other request *)
(* refers to.                                                                *)
LEMMA UploadEnds ==
  ASSUME TypeOK, TypeOK', SourceInv, NEW u \in Uploaders,
         UNCHANGED <<row, worker, nextSource>>, budget'["request"] = budget["request"],
         upload' = [upload EXCEPT ![u] = IdleUpload],
         sources' \subseteq sources,
         \A s \in sources \ sources' :
           /\ \A c \in Clips : row[c].source # s
           /\ \A t \in Uploaders \ {u} : upload[t].pc = "saved" => upload[t].name # s
  PROVE  SourceInv'
<1>1. /\ upload'[u].pc = "idle" /\ upload'[u].name = NoSource /\ upload'[u].old = NoSource
      /\ \A t \in Uploaders \ {u} : upload'[t] = upload[t]
  BY DEF TypeOK, IdleUpload
<1>2. NamesFresh'
  BY <1>1 DEF SourceInv, NamesFresh, TypeOK, NoSource
<1>3. RowSourcesDistinct'
  BY DEF SourceInv, RowSourcesDistinct
<1>4. PendingUnattached'
  BY <1>1 DEF SourceInv, PendingUnattached
<1>5. ReplacedUnattached'
  BY <1>1 DEF SourceInv, ReplacedUnattached
<1>6. SourceStored'
  BY DEF SourceInv, SourceStored, Live
<1> QED
  BY <1>2, <1>3, <1>4, <1>5, <1>6 DEF SourceInv

(* The row takes the new file and the request remembers the one it replaces. *)
LEMMA AttachSourceStep ==
  ASSUME TypeOK, TypeOK', SourceInv, NEW u \in Uploaders, AttachSource(u)
  PROVE  SourceInv'
<1> DEFINE c == upload[u].clip
<1>1. /\ UNCHANGED <<sources, nextSource, worker, budget>>
      /\ c \in Clips
      /\ upload[u].pc = "saved"
      /\ row'[c].source = upload[u].name
      /\ \A d \in Clips : row'[d].version = row[d].version
      /\ \A d \in Clips \ {c} : row'[d] = row[d]
      /\ upload'[u].pc = "replace" /\ upload'[u].name = upload[u].name
      /\ upload'[u].old = row[c].source
      /\ \A t \in Uploaders \ {u} : upload'[t] = upload[t]
  <2>1. c \in Clips
    BY DEF TypeOK, Upload
  <2>2. row'[c].source = upload[u].name /\ row'[c].version = row[c].version
    BY <2>1 DEF AttachSource, TypeOK, Row
  <2>3. \A d \in Clips \ {c} : row'[d] = row[d]
    BY DEF AttachSource, TypeOK
  <2>4. /\ upload'[u].pc = "replace" /\ upload'[u].name = upload[u].name
        /\ upload'[u].old = row[c].source
        /\ \A t \in Uploaders \ {u} : upload'[t] = upload[t]
    BY DEF AttachSource, TypeOK, Upload
  <2> QED
    BY <2>1, <2>2, <2>3, <2>4 DEF AttachSource
<1>2. /\ upload[u].name \in sources
      /\ upload[u].name # NoSource
      /\ \A d \in Clips : upload[u].name \notin {row[d].source, row[d].version.from}
      /\ \A w \in Workers : worker[w].source # upload[u].name
      /\ \A t \in Uploaders : t # u /\ upload[t].pc = "saved" => upload[t].name # upload[u].name
  BY <1>1 DEF SourceInv, PendingUnattached
<1>3. NamesFresh'
  BY <1>1 DEF SourceInv, NamesFresh
<1>4. RowSourcesDistinct'
  BY <1>1, <1>2 DEF SourceInv, RowSourcesDistinct
<1>5. PendingUnattached'
  <2> SUFFICES ASSUME NEW t \in Uploaders, t # u, upload[t].pc = "saved"
               PROVE  /\ upload[t].name \in sources /\ upload[t].name # NoSource
                      /\ \A d \in Clips : upload[t].name \notin {row'[d].source, row'[d].version.from}
                      /\ \A w \in Workers : worker[w].source # upload[t].name
                      /\ \A r \in Uploaders : r # t /\ upload'[r].pc = "saved"
                           => upload'[r].name # upload[t].name
    BY <1>1 DEF PendingUnattached
  <2> QED
    BY <1>1, <1>2 DEF SourceInv, PendingUnattached
<1>6. ReplacedUnattached'
  <2> SUFFICES ASSUME NEW t \in Uploaders, upload'[t].pc = "replace", upload'[t].old # NoSource
               PROVE  /\ \A d \in Clips : row'[d].source # upload'[t].old
                      /\ \A r \in Uploaders : upload'[r].pc = "saved" => upload'[r].name # upload'[t].old
    BY DEF ReplacedUnattached
  <2>1. CASE t = u
    BY <2>1, <1>1, <1>2 DEF SourceInv, RowSourcesDistinct, PendingUnattached
  <2>2. CASE t # u
    BY <2>2, <1>1 DEF SourceInv, ReplacedUnattached
  <2> QED
    BY <2>1, <2>2
<1>7. SourceStored'
  BY <1>1, <1>2 DEF SourceInv, SourceStored, Live
<1> QED
  BY <1>3, <1>4, <1>5, <1>6, <1>7 DEF SourceInv

LEMMA UploadSources ==
  ASSUME TypeOK, TypeOK', SourceInv, NEW u \in Uploaders,
         UploadStep(u) \/ CrashUpload(u) \/ \E c \in Clips : SaveSource(u, c)
  PROVE  SourceInv'
<1>1. CASE \E c \in Clips : SaveSource(u, c)
  BY <1>1, SaveSourceStep
<1>2. CASE AttachSource(u)
  BY <1>2, AttachSourceStep
<1>3. CASE RejectSource(u)
  <2>1. UNCHANGED <<row, worker, nextSource>> /\ upload' = [upload EXCEPT ![u] = IdleUpload]
    BY <1>3 DEF RejectSource
  <2>2. budget'["request"] = budget["request"]
    BY <1>3 DEF RejectSource, Spend, TypeOK, Disturbances
  <2>3. sources' \subseteq sources /\ sources \ sources' \subseteq {upload[u].name}
    BY <1>3 DEF RejectSource
  <2>4. upload[u].pc = "saved"
    BY <1>3 DEF RejectSource
  <2> QED
    <3>1. ASSUME NEW s \in sources \ sources'
          PROVE  /\ \A c \in Clips : row[c].source # s
                 /\ \A t \in Uploaders \ {u} : upload[t].pc = "saved" => upload[t].name # s
      BY <2>3, <2>4 DEF SourceInv, PendingUnattached
    <3> QED
      BY <2>1, <2>2, <2>3, <3>1, UploadEnds
<1>4. CASE DeleteReplacedSource(u)
  <2>1. UNCHANGED <<row, worker, nextSource>> /\ upload' = [upload EXCEPT ![u] = IdleUpload]
    BY <1>4 DEF DeleteReplacedSource
  <2>2. budget'["request"] = budget["request"]
    BY <1>4 DEF DeleteReplacedSource, Spend, TypeOK, Disturbances
  <2>3. /\ sources' \subseteq sources
        /\ sources \ sources' \subseteq {upload[u].old} \ {NoSource}
    BY <1>4 DEF DeleteReplacedSource
  <2>4. upload[u].pc = "replace"
    BY <1>4 DEF DeleteReplacedSource
  <2> QED
    <3>1. ASSUME NEW s \in sources \ sources'
          PROVE  /\ \A c \in Clips : row[c].source # s
                 /\ \A t \in Uploaders \ {u} : upload[t].pc = "saved" => upload[t].name # s
      BY <2>3, <2>4 DEF SourceInv, ReplacedUnattached
    <3> QED
      BY <2>1, <2>2, <2>3, <3>1, UploadEnds
<1>5. CASE CrashUpload(u)
  <2>1. budget'["request"] = budget["request"]
    BY <1>5 DEF CrashUpload, Spend, TypeOK, Disturbances
  <2> QED
    BY <1>5, <2>1, UploadEnds DEF CrashUpload
<1> QED
  BY <1>1, <1>2, <1>3, <1>4, <1>5 DEF UploadStep

LEMMA InitSources == Init => SourceInv
<1> SUFFICES ASSUME Init PROVE SourceInv
  OBVIOUS
<1>1. /\ \A c \in Clips : row[c].source = 0 /\ row[c].version.from = 0 /\ ~Live(c)
      /\ \A w \in Workers : worker[w].source = 0
      /\ \A u \in Uploaders : upload[u].pc = "idle" /\ upload[u].name = 0 /\ upload[u].old = 0
      /\ nextSource = 1 /\ budget = Budget
  BY DEF Init, IdleWorker, IdleUpload, NoVersion, NoSource, Live
<1>2. NamesFresh
  BY <1>1, BudgetAssumption DEF NamesFresh, Disturbances
<1>3. RowSourcesDistinct /\ PendingUnattached /\ ReplacedUnattached /\ SourceStored
  BY <1>1 DEF RowSourcesDistinct, PendingUnattached, ReplacedUnattached, SourceStored, NoSource
<1> QED
  BY <1>2, <1>3 DEF SourceInv

LEMMA NextSources ==
  ASSUME TypeOK, IndexInv, SourceInv, [Next]_vars
  PROVE  SourceInv'
<1>1. TypeOK' /\ IndexInv'
  BY NextTypes
<1>2. SourcesKept => SourceInv'
  BY <1>1, SourceInvKept
<1>3. CASE UNCHANGED vars
  <2>1. UNCHANGED <<row, sources, nextSource, worker, upload, budget>>
    BY <1>3 DEF vars
  <2>2. SourcesKept
    BY <2>1 DEF SourcesKept, Live, TypeOK, Disturbances
  <2> QED
    BY <1>2, <2>2
<1>4. CASE Next
  BY <1>1, <1>2, <1>4, UploadSources, WorkersKeepSources, ClipsKeepSources DEF Next
<1> QED
  BY <1>3, <1>4

(* The ownership of private sources. *)
LEMMA SourceInvariant == Spec => [](TypeOK /\ IndexInv /\ SourceInv)
<1>1. Init => TypeOK /\ IndexInv /\ SourceInv
  BY InitTypes, InitSources
<1>2. TypeOK /\ IndexInv /\ SourceInv /\ [Next]_vars => (TypeOK /\ IndexInv /\ SourceInv)'
  BY NextTypes, NextSources
<1> QED
  BY <1>1, <1>2, PTL DEF Spec

(* However uploads to one clip overlap, fail or are killed, the file the row  *)
(* ends up with is stored (ingest_skate_source).                             *)
THEOREM SourcesAreStored == Spec => []SourceStored
<1>1. SourceInv => SourceStored
  BY DEF SourceInv
<1> QED
  BY <1>1, SourceInvariant, PTL

-----------------------------------------------------------------------------
(* Refinement: MediaLifecycle *)

LEMMA LifecycleStutter ==
  ASSUME \A c \in Clips : /\ row'[c].state = row[c].state
                          /\ row'[c].source = row[c].source
                          /\ row'[c].version.from = row[c].version.from
  PROVE  UNCHANGED Lifecycle!vars
BY DEF Lifecycle!vars

LEMMA LifecycleInit == Init => Lifecycle!Init
BY DEF Init, Lifecycle!Init, NoVersion

(* An attached source is one of Sources, and new to every asset. *)
LEMMA AttachIsUpload ==
  ASSUME TypeOK, TypeOK', SourceInv, NEW u \in Uploaders, AttachSource(u)
  PROVE  Lifecycle!Next
<1> PICK c \in Clips, s \in Nat : c = upload[u].clip /\ s = upload[u].name
  BY DEF TypeOK, Upload
<1>1. upload[u].pc = "saved" /\ row[c].state # "gone"
  BY DEF AttachSource
<1>2. s \in 1..Budget["request"]
  <2>1. s # 0 /\ s < nextSource
    BY <1>1 DEF SourceInv, PendingUnattached, NamesFresh, TypeOK, Upload, NoSource
  <2>2. nextSource + budget["request"] <= Budget["request"] + 1
    BY DEF SourceInv, NamesFresh
  <2>3. nextSource \in Nat /\ budget["request"] \in Nat /\ Budget["request"] \in Nat
    BY BudgetAssumption DEF TypeOK, Disturbances
  <2> QED
    BY <2>1, <2>2, <2>3
<1>3. \A d \in Clips : row[d].source # s /\ row[d].version.from # s
  BY <1>1 DEF SourceInv, PendingUnattached
<1>4. /\ row'[c].state = "uploaded" /\ row'[c].source = s /\ row'[c].version = row[c].version
      /\ OtherRowsKeep(c)
  BY <1>1 DEF AttachSource, OtherRowsKeep, TypeOK, Row, Upload
<1>5. Lifecycle!Upload(c, s)
  BY <1>1, <1>3, <1>4 DEF Lifecycle!Upload, OtherRowsKeep
<1> QED
  BY <1>1, <1>2, <1>5 DEF Lifecycle!Next

LEMMA FinishIsComplete ==
  ASSUME TypeOK, TypeOK', ClaimInv, NEW w \in Workers, worker[w].pc = "finish",
         ClaimIsCurrent(w), row' = FinishedRow(w)
  PROVE  Lifecycle!Next
<1> PICK c \in Clips : c = worker[w].clip
  BY DEF TypeOK, Worker
<1>1. row[c].state = "processing" /\ row[c].source = worker[w].source
  BY DEF ClaimIsCurrent, ClaimInv, ClaimOrder, Active, TypeOK, Worker
<1>2. /\ row'[c].state = "ready" /\ row'[c].source = row[c].source
      /\ row'[c].version.from = worker[w].source
      /\ OtherRowsKeep(c)
  BY <1>1 DEF FinishedRow, OwnVersion, OtherRowsKeep, TypeOK, Row
<1>3. Lifecycle!Complete(c)
  BY <1>1, <1>2 DEF Lifecycle!Complete, OtherRowsKeep
<1> QED
  BY <1>1, <1>3 DEF Lifecycle!Next

LEMMA WorkerImplements ==
  ASSUME TypeOK, TypeOK', ClaimInv, NEW w \in Workers,
         WorkerStep(w) \/ CrashWorker(w) \/ \E c \in Clips : Claim(w, c)
  PROVE  Lifecycle!Next \/ UNCHANGED Lifecycle!vars
<1>1. CASE \E c \in Clips : Claim(w, c)
  <2>1. PICK c \in Clips : Claim(w, c)
    BY <1>1
  <2>2. /\ row[c].state = "uploaded" /\ row'[c].state = "processing"
        /\ row'[c].source = row[c].source /\ row'[c].version = row[c].version
        /\ OtherRowsKeep(c)
    BY <2>1 DEF Claim, OtherRowsKeep, TypeOK, Row
  <2>3. Lifecycle!Start(c)
    BY <2>2 DEF Lifecycle!Start, OtherRowsKeep
  <2> QED
    BY <2>3 DEF Lifecycle!Next
<1>2. CASE FailMedia(w) /\ ClaimIsCurrent(w) /\ row' # row
  <2> PICK c \in Clips : c = worker[w].clip
    BY DEF TypeOK, Worker
  <2>1. row[c].state = "processing"
    BY <1>2 DEF ClaimIsCurrent, TypeOK, Worker
  <2>2. /\ row'[c].state = "failed"
        /\ row'[c].source = row[c].source /\ row'[c].version = row[c].version
        /\ OtherRowsKeep(c)
    BY <1>2, <2>1 DEF FailMedia, OtherRowsKeep, TypeOK, Row
  <2>3. Lifecycle!Fail(c)
    BY <2>1, <2>2 DEF Lifecycle!Fail, OtherRowsKeep
  <2> QED
    BY <2>1, <2>3 DEF Lifecycle!Next
<1>3. CASE worker[w].pc = "finish" /\ ClaimIsCurrent(w) /\ row' = FinishedRow(w)
  BY <1>3, FinishIsComplete
<1>4. CASE UNCHANGED row
  BY <1>4, LifecycleStutter
<1> QED
  BY <1>1, <1>2, <1>3, <1>4
     DEF WorkerStep, CheckSource, Derive, Publish, PublishFails, Finish, FinishRaises,
         CleanKey, FailMedia, CleanTmp, CrashWorker

LEMMA ClipImplements ==
  ASSUME TypeOK, TypeOK', NEW c \in Clips,
         Requeue(c) \/ DeleteClip(c) \/ ClaimAges(c) \/ ResetStuck(c)
  PROVE  Lifecycle!Next \/ UNCHANGED Lifecycle!vars
<1>1. /\ OtherRowsKeep(c)
      /\ row'[c].source = row[c].source /\ row'[c].version = row[c].version
  BY DEF Requeue, DeleteClip, ClaimAges, ResetStuck, OtherRowsKeep, TypeOK, Row
<1>2. CASE Requeue(c)
  <2>1. Live(c) /\ row[c].source # NoSource /\ row'[c].state = "uploaded"
    BY <1>2 DEF Requeue, Live, TypeOK, Row
  <2>2. Lifecycle!Requeue(c)
    BY <1>1, <2>1 DEF Lifecycle!Requeue, Lifecycle!Live, Live, OtherRowsKeep
  <2> QED
    BY <2>2 DEF Lifecycle!Next
<1>3. CASE DeleteClip(c)
  <2>1. row[c].state # "gone" /\ row'[c].state = "gone"
    BY <1>3 DEF DeleteClip, TypeOK, Row
  <2>2. Lifecycle!Delete(c)
    BY <1>1, <2>1 DEF Lifecycle!Delete, OtherRowsKeep
  <2> QED
    BY <2>2 DEF Lifecycle!Next
<1>4. CASE ClaimAges(c)
  <2>1. row'[c].state = row[c].state
    BY <1>4 DEF ClaimAges, TypeOK, Row
  <2> QED
    BY <1>1, <2>1, LifecycleStutter DEF OtherRowsKeep
<1>5. CASE ResetStuck(c)
  <2>1. row[c].state = "processing" /\ row'[c].state = "uploaded"
    BY <1>5 DEF ResetStuck, TypeOK, Row
  <2>2. Lifecycle!Retry(c)
    BY <1>1, <2>1 DEF Lifecycle!Retry, OtherRowsKeep
  <2> QED
    BY <2>2 DEF Lifecycle!Next
<1> QED
  BY <1>2, <1>3, <1>4, <1>5

LEMMA NextImplements ==
  ASSUME TypeOK, IndexInv, ClaimInv, SourceInv, [Next]_vars
  PROVE  Lifecycle!Next \/ UNCHANGED Lifecycle!vars
<1>1. TypeOK'
  BY NextTypes
<1>2. CASE UNCHANGED row
  BY <1>2, LifecycleStutter
<1>3. CASE \E u \in Uploaders : UploadStep(u) \/ CrashUpload(u) \/ \E c \in Clips : SaveSource(u, c)
  <2>1. CASE \E u \in Uploaders : AttachSource(u)
    BY <1>1, <2>1, AttachIsUpload
  <2> QED
    BY <1>2, <1>3, <2>1
       DEF UploadStep, RejectSource, DeleteReplacedSource, CrashUpload, SaveSource
<1>4. CASE \E w \in Workers : WorkerStep(w) \/ CrashWorker(w) \/ \E c \in Clips : Claim(w, c)
  BY <1>1, <1>4, WorkerImplements
<1>5. CASE \E c \in Clips : Requeue(c) \/ DeleteClip(c) \/ ClaimAges(c) \/ ResetStuck(c)
  BY <1>1, <1>5, ClipImplements
<1> QED
  BY <1>2, <1>3, <1>4, <1>5 DEF Next, vars

(* Whatever workers, requests, crashes and resets do, a visitor sees a        *)
(* MediaLifecycle: ready only with output of the source current at that step. *)
THEOREM PipelineImplementsLifecycle == Spec => ImplementsLifecycle
<1>1. TypeOK /\ IndexInv /\ ClaimInv /\ SourceInv /\ [Next]_vars => [Lifecycle!Next]_(Lifecycle!vars)
  BY NextImplements
<1> QED
  BY <1>1, LifecycleInit, ClaimInvariant, SourceInvariant, PTL
     DEF Spec, ImplementsLifecycle, Lifecycle!Spec

-----------------------------------------------------------------------------
(* Nothing is left behind *)

LEMMA FaultsOnlySpent ==
  ASSUME TypeOK, [Next]_vars, budget["fault"] <= Budget["fault"]
  PROVE  budget'["fault"] <= Budget["fault"] /\ (NoFault' => NoFault)
<1>1. budget["fault"] \in Nat /\ Budget["fault"] \in Nat
  BY BudgetAssumption DEF TypeOK, Disturbances
<1>2. budget' = budget \/ \E d \in Disturbances : Spend(d)
  BY DEF Next, WorkerStep, CheckSource, Derive, Publish, PublishFails, Finish, FinishRaises, CleanKey,
         FailMedia, CleanTmp, CrashWorker, Claim, UploadStep, RejectSource, AttachSource,
         DeleteReplacedSource, CrashUpload, SaveSource, Requeue, DeleteClip, ClaimAges, ResetStuck,
         vars, Disturbances
<1>3. budget'["fault"] = budget["fault"] \/ budget'["fault"] = budget["fault"] - 1
  BY <1>2 DEF Spend, TypeOK, Disturbances
<1> QED
  BY <1>1, <1>3 DEF NoFault

(* A fault that happens ends what is said of a world without faults. *)
LEMMA FaultSeen ==
  ASSUME TypeOK, budget["fault"] <= Budget["fault"], Spend("fault")
  PROVE  ~NoFault'
<1>1. budget["fault"] \in Nat /\ Budget["fault"] \in Nat
  BY BudgetAssumption DEF TypeOK, Disturbances
<1>2. budget'["fault"] = budget["fault"] - 1
  BY DEF Spend, TypeOK, Disturbances
<1> QED
  BY <1>1, <1>2 DEF NoFault

(* Only a worker that publishes or cleans up has files in hand. *)
LEMMA HandsEmpty ==
  ASSUME ClaimInv, NEW w \in Workers, NEW c, NEW f,
         worker[w].pc \notin {"publish", "finish", "unpublish", "clean"}
  PROVE  ~InHand(w, c, f)
BY DEF InHand, ClaimInv, DoomedUnreferenced

LEMMA HandsKeep ==
  ASSUME NEW w \in Workers, NEW c, NEW f, worker'[w] = worker[w]
  PROVE  InHand(w, c, f)' <=> InHand(w, c, f)
BY DEF InHand, Active, OwnVersion

LEMMA FilesStay ==
  ASSUME FilesAccounted,
         \A c \in Clips : row'[c].version = row[c].version /\ derived'[c] \subseteq derived[c],
         \A w \in Workers : \A c \in Clips : \A f \in derived'[c] : InHand(w, c, f) => InHand(w, c, f)'
  PROVE  FilesAccounted'
BY DEF FilesAccounted

(* As above for a step of w alone. *)
LEMMA FilesStayWith ==
  ASSUME FilesAccounted, NEW w \in Workers, OthersKeep(w),
         \A c \in Clips : row'[c].version = row[c].version /\ derived'[c] \subseteq derived[c],
         \A c \in Clips : \A f \in derived'[c] : InHand(w, c, f) => InHand(w, c, f)'
  PROVE  FilesAccounted'
<1>1. ASSUME NEW v \in Workers, NEW c \in Clips, NEW f \in derived'[c], InHand(v, c, f)
      PROVE  InHand(v, c, f)'
  <2>1. CASE v = w
    BY <1>1, <2>1
  <2>2. CASE v # w
    BY <1>1, <2>2, HandsKeep DEF OthersKeep
  <2> QED
    BY <2>1, <2>2
<1> QED
  BY <1>1, FilesStay

(* A worker publishes the next asset: it has it in hand. *)
LEMMA PublishAccounted ==
  ASSUME TypeOK, TypeOK', FilesAccounted, NEW w \in Workers, Publish(w)
  PROVE  FilesAccounted'
<1> DEFINE c == worker[w].clip
<1>1. /\ OthersKeep(w) /\ UNCHANGED row /\ c \in Clips
      /\ derived'[c] = derived[c] \union {<<OwnVersion(w), Assets[worker[w].k]>>}
      /\ \A d \in Clips \ {c} : derived'[d] = derived[d]
      /\ worker[w].pc = "publish" /\ worker'[w].pc \in {"publish", "finish"}
      /\ worker'[w].clip = c /\ OwnVersion(w)' = OwnVersion(w)
      /\ worker'[w].doomed = worker[w].doomed
  BY DEF Publish, OthersKeep, TypeOK, Worker, OwnVersion
<1>2. ASSUME NEW d, NEW f, InHand(w, d, f)
      PROVE  InHand(w, d, f)'
  BY <1>1, <1>2 DEF InHand, Active
<1>3. ASSUME NEW d \in Clips, NEW f \in derived'[d], f \notin derived[d]
      PROVE  InHand(w, d, f)'
  BY <1>1, <1>3 DEF InHand, Active
<1>4. ASSUME NEW d \in Clips, NEW f \in derived[d], NEW v \in Workers, InHand(v, d, f)
      PROVE  InHand(v, d, f)'
  <2>1. CASE v = w
    BY <1>2, <1>4, <2>1
  <2>2. CASE v # w
    BY <1>1, <1>4, <2>2, HandsKeep DEF OthersKeep
  <2> QED
    BY <2>1, <2>2
<1> QED
  BY <1>1, <1>3, <1>4 DEF FilesAccounted

(* The files of a version that is given up are doomed. *)
LEMMA PublishFailsAccounted ==
  ASSUME TypeOK, ClaimInv, FilesAccounted, NEW w \in Workers, PublishFails(w)
  PROVE  FilesAccounted'
<1>1. /\ OthersKeep(w) /\ UNCHANGED <<row, derived>>
      /\ worker[w].pc = "publish" /\ worker'[w].pc = "unpublish"
      /\ worker'[w].clip = worker[w].clip /\ worker'[w].doomed = Files(OwnVersion(w))
  BY DEF PublishFails, OthersKeep, TypeOK, Worker
<1>2. worker[w].doomed = {}
  BY <1>1 DEF ClaimInv, DoomedUnreferenced
<1>3. ASSUME NEW c \in Clips, NEW f \in derived'[c], InHand(w, c, f)
      PROVE  InHand(w, c, f)'
  <2>1. f \in Version \X Asset
    BY <1>1, <1>3 DEF TypeOK, FileSet
  <2>2. f[1] = OwnVersion(w)
    BY <1>2, <1>3 DEF InHand
  <2>3. f \in worker'[w].doomed
    BY <1>1, <2>1, <2>2 DEF Files
  <2> QED
    BY <1>1, <1>3, <2>3 DEF InHand, Active
<1> QED
  BY <1>1, <1>3, FilesStayWith

(* The UPDATE dooms the version it replaces, or the worker's own. *)
LEMMA FinishAccounted ==
  ASSUME TypeOK, ClaimInv, FilesAccounted, NEW w \in Workers, Finish(w)
  PROVE  FilesAccounted'
<1> DEFINE c == worker[w].clip
<1>1. /\ OthersKeep(w) /\ UNCHANGED derived /\ c \in Clips
      /\ worker[w].pc = "finish" /\ worker'[w].clip = c
      /\ worker'[w].doomed = SupersededFiles(w)
      /\ worker'[w].pc # "idle"
  BY DEF Finish, OthersKeep, TypeOK, Worker
<1>2. worker[w].doomed = {}
  BY <1>1 DEF ClaimInv, DoomedUnreferenced
<1>3. ASSUME NEW d \in Clips, NEW f \in derived[d]
      PROVE  f \in Version \X Asset
  BY <1>3 DEF TypeOK, FileSet
<1>4. ASSUME NEW d \in Clips, NEW f \in derived[d], NEW v \in Workers, v # w, InHand(v, d, f)
      PROVE  InHand(v, d, f)'
  BY <1>1, <1>4, HandsKeep DEF OthersKeep
<1>5. CASE ~ClaimIsCurrent(w)
  <2>1. UNCHANGED row /\ worker'[w].doomed = Files(OwnVersion(w))
    BY <1>1, <1>5 DEF Finish, SupersededFiles
  <2>2. ASSUME NEW d \in Clips, NEW f \in derived'[d], InHand(w, d, f)
        PROVE  InHand(w, d, f)'
    <3>1. f[1] = OwnVersion(w) /\ d = c
      BY <1>2, <2>2 DEF InHand
    <3>2. f \in worker'[w].doomed
      BY <1>1, <1>3, <2>1, <2>2, <3>1 DEF Files
    <3> QED
      BY <1>1, <3>1, <3>2 DEF InHand, Active
  <2> QED
    BY <1>1, <2>1, <2>2, FilesStayWith
<1>6. CASE ClaimIsCurrent(w)
  <2>1. /\ row'[c].version = OwnVersion(w)
        /\ \A d \in Clips \ {c} : row'[d] = row[d]
    BY <1>1, <1>6 DEF Finish, FinishedRow, TypeOK, Row
  <2>2. worker[w].old = row[c].version /\ OwnVersion(w) # NoVersion
    <3>1. Active(w)
      BY <1>1 DEF Active
    <3>2. worker[w].old = row[c].version /\ worker[w].gen \in 1..row[c].gen
      BY <1>6, <3>1 DEF ClaimInv, ClaimOrder
    <3> QED
      BY <3>2 DEF OwnVersion, NoVersion
  <2>3. ASSUME NEW d \in Clips, NEW f \in derived'[d]
        PROVE  \/ row'[d].version # NoVersion /\ f[1] = row'[d].version
               \/ \E v \in Workers : InHand(v, d, f)'
    <3>1. CASE row[d].version # NoVersion /\ f[1] = row[d].version
      <4>1. CASE d # c
        BY <2>1, <3>1, <4>1
      <4>2. CASE d = c
        <5>1. worker'[w].doomed = Files(row[c].version)
          BY <1>1, <1>6, <2>2, <3>1, <4>2 DEF SupersededFiles
        <5>2. f \in worker'[w].doomed
          BY <1>1, <1>3, <2>3, <3>1, <4>2, <5>1 DEF Files
        <5> QED
          BY <1>1, <4>2, <5>2 DEF InHand, Active
      <4> QED
        BY <4>1, <4>2
    <3>2. CASE InHand(w, d, f)
      BY <1>2, <2>1, <2>2, <3>2 DEF InHand
    <3>3. CASE \E v \in Workers \ {w} : InHand(v, d, f)
      BY <1>1, <1>4, <2>3, <3>3
    <3> QED
      BY <1>1, <2>3, <3>1, <3>2, <3>3 DEF FilesAccounted
  <2> QED
    BY <2>3 DEF FilesAccounted
<1> QED
  BY <1>5, <1>6

(* A doomed file is deleted before it is forgotten. *)
LEMMA CleanKeyAccounted ==
  ASSUME TypeOK, ClaimInv, FilesAccounted, budget["fault"] <= Budget["fault"], NoFault',
         NEW w \in Workers, CleanKey(w)
  PROVE  FilesAccounted'
<1> DEFINE c == worker[w].clip
<1>1. ~Spend("fault")
  BY FaultSeen
<1>2. PICK f \in worker[w].doomed :
        /\ derived' = [derived EXCEPT ![c] = @ \ {f}]
        /\ worker'[w].doomed = worker[w].doomed \ {f}
        /\ worker'[w].pc # "idle"
        /\ worker'[w].clip = c
  BY <1>1 DEF CleanKey, TypeOK, Worker, AfterCleanup
<1>3. /\ OthersKeep(w) /\ UNCHANGED row /\ c \in Clips
      /\ worker[w].pc \in {"unpublish", "clean"}
  BY DEF CleanKey, OthersKeep, TypeOK, Worker
<1>4. ASSUME NEW d \in Clips, NEW g \in derived'[d], InHand(w, d, g)
      PROVE  InHand(w, d, g)'
  <2>1. d = c /\ g \in worker[w].doomed
    BY <1>3, <1>4 DEF InHand
  <2>2. g # f
    BY <1>2, <1>3, <1>4, <2>1 DEF TypeOK
  <2> QED
    BY <1>2, <2>1, <2>2 DEF InHand, Active
<1>5. \A d \in Clips : derived'[d] \subseteq derived[d]
  BY <1>2 DEF TypeOK
<1> QED
  BY <1>3, <1>4, <1>5, FilesStayWith

LEMMA FilesStayAccounted ==
  ASSUME TypeOK, TypeOK', ClaimInv, FilesAccounted, budget["fault"] <= Budget["fault"], NoFault',
         NEW w \in Workers, WorkerStep(w) \/ CrashWorker(w) \/ \E c \in Clips : Claim(w, c)
  PROVE  FilesAccounted'
<1>1. ~Spend("fault")
  BY FaultSeen
<1>2. CASE \E c \in Clips : Claim(w, c)
  <2> PICK c \in Clips : Claim(w, c)
    BY <1>2
  <2>1. /\ OthersKeep(w) /\ UNCHANGED derived /\ worker[w].pc = "idle"
        /\ \A d \in Clips : row'[d].version = row[d].version
    BY DEF Claim, OthersKeep, TypeOK, Row
  <2> QED
    BY <2>1, HandsEmpty, FilesStayWith
<1>3. CASE CheckSource(w) \/ Derive(w) \/ CleanTmp(w)
  <2>1. /\ OthersKeep(w) /\ UNCHANGED <<row, derived>>
        /\ worker[w].pc \in {"start", "derive", "tmp"}
    BY <1>3 DEF CheckSource, Derive, CleanTmp, OthersKeep, Goto, TypeOK
  <2> QED
    BY <2>1, HandsEmpty, FilesStayWith
<1>4. CASE FailMedia(w)
  <2>1. /\ OthersKeep(w) /\ UNCHANGED derived /\ worker[w].pc = "fail"
        /\ \A d \in Clips : row'[d].version = row[d].version
    BY <1>4 DEF FailMedia, OthersKeep, Goto, TypeOK, Row, Worker
  <2> QED
    BY <2>1, HandsEmpty, FilesStayWith
<1>5. CASE FinishRaises(w) \/ CrashWorker(w)
  BY <1>1, <1>5 DEF FinishRaises, CrashWorker
<1> QED
  BY <1>2, <1>3, <1>4, <1>5, PublishAccounted, PublishFailsAccounted, FinishAccounted,
     CleanKeyAccounted DEF WorkerStep

(* A tmp directory belongs to the claim of a worker that still runs. *)
LEMMA TmpStaysAccounted ==
  ASSUME TypeOK, TmpAccounted, budget["fault"] <= Budget["fault"], NoFault',
         NEW w \in Workers, WorkerStep(w) \/ CrashWorker(w) \/ \E c \in Clips : Claim(w, c)
  PROVE  TmpAccounted'
<1>1. ~Spend("fault")
  BY FaultSeen
<1>2. OthersKeep(w)
  BY DEF WorkerStep, CheckSource, Derive, Publish, PublishFails, Finish, FinishRaises, CleanKey,
         FailMedia, CleanTmp, CrashWorker, Claim, OthersKeep, Goto, TypeOK
<1>3. CASE \E c \in Clips : Claim(w, c)
  <2>1. UNCHANGED tmp /\ worker[w].pc = "idle"
    BY <1>3 DEF Claim
  <2> QED
    BY <1>2, <2>1 DEF TmpAccounted, Active, OthersKeep
<1>4. CASE CleanTmp(w)
  <2>1. tmp' = [tmp EXCEPT ![worker[w].clip] = @ \ {worker[w].gen}]
    BY <1>1, <1>4 DEF CleanTmp
  <2>2. ASSUME NEW c \in Clips, NEW g \in tmp'[c]
        PROVE  \E v \in Workers : Active(v)' /\ worker'[v].clip = c /\ worker'[v].gen = g
    <3>1. g \in tmp[c] /\ ~(c = worker[w].clip /\ g = worker[w].gen)
      BY <2>1, <2>2 DEF TypeOK
    <3>2. PICK v \in Workers : Active(v) /\ worker[v].clip = c /\ worker[v].gen = g
      BY <3>1 DEF TmpAccounted
    <3> QED
      BY <1>2, <3>1, <3>2 DEF OthersKeep, Active
  <2> QED
    BY <2>2 DEF TmpAccounted
<1>5. CASE FinishRaises(w) \/ CrashWorker(w)
  BY <1>1, <1>5 DEF FinishRaises, CrashWorker
<1>6. CASE CheckSource(w) \/ Derive(w) \/ Publish(w) \/ PublishFails(w) \/ Finish(w) \/ CleanKey(w)
           \/ FailMedia(w)
  <2>1. /\ worker[w].pc # "idle" /\ worker'[w].pc # "idle"
        /\ worker'[w].clip = worker[w].clip /\ worker'[w].gen = worker[w].gen
    <3>1. CASE CheckSource(w) \/ Derive(w) \/ FailMedia(w)
      BY <3>1 DEF CheckSource, Derive, FailMedia, Goto, TypeOK, Worker
    <3>2. CASE Publish(w) \/ PublishFails(w)
      BY <3>2 DEF Publish, PublishFails, TypeOK, Worker
    <3>3. CASE Finish(w)
      BY <3>3 DEF Finish, TypeOK, Worker
    <3>4. CASE CleanKey(w)
      BY <3>4 DEF CleanKey, AfterCleanup, TypeOK, Worker
    <3> QED
      BY <1>6, <3>1, <3>2, <3>3, <3>4
  <2>2. ASSUME NEW c \in Clips, NEW g \in tmp'[c]
        PROVE  g \in tmp[c] \/ (c = worker[w].clip /\ g = worker[w].gen)
    BY <1>6, <2>2 DEF CheckSource, Derive, Publish, PublishFails, Finish, CleanKey, FailMedia, TypeOK
  <2>3. ASSUME NEW c \in Clips, NEW g \in tmp'[c]
        PROVE  \E v \in Workers : Active(v)' /\ worker'[v].clip = c /\ worker'[v].gen = g
    <3>1. CASE c = worker[w].clip /\ g = worker[w].gen
      BY <2>1, <3>1 DEF Active
    <3>2. CASE g \in tmp[c]
      <4>1. PICK v \in Workers : Active(v) /\ worker[v].clip = c /\ worker[v].gen = g
        BY <3>2 DEF TmpAccounted
      <4> QED
        BY <1>2, <2>1, <4>1 DEF OthersKeep, Active
    <3> QED
      BY <2>2, <2>3, <3>1, <3>2
  <2> QED
    BY <2>3 DEF TmpAccounted
<1> QED
  BY <1>3, <1>4, <1>5, <1>6 DEF WorkerStep

(* A stored source is a row's, or in the hands of the request that stored   *)
(* it or of the one that replaced it.                                       *)
LEMMA SourcesStayAccounted ==
  ASSUME TypeOK, SourceInv, SourcesAccounted, budget["fault"] <= Budget["fault"], NoFault',
         NEW u \in Uploaders,
         UploadStep(u) \/ CrashUpload(u) \/ \E c \in Clips : SaveSource(u, c)
  PROVE  SourcesAccounted'
<1>1. ~Spend("fault")
  BY FaultSeen
<1>2. \A t \in Uploaders \ {u} : upload'[t] = upload[t]
  BY DEF UploadStep, RejectSource, AttachSource, DeleteReplacedSource, CrashUpload, SaveSource, TypeOK
<1>3. ASSUME NEW t \in Uploaders, t # u, NEW s, Pending(t, s)
      PROVE  Pending(t, s)'
  BY <1>2, <1>3 DEF Pending
<1>4. CASE CrashUpload(u)
  BY <1>1, <1>4 DEF CrashUpload
<1>5. CASE \E c \in Clips : SaveSource(u, c)
  <2> PICK c \in Clips : SaveSource(u, c)
    BY <1>5
  <2> PICK n : n = nextSource
    OBVIOUS
  <2>1. /\ UNCHANGED row /\ sources' = sources \union {n} /\ n # NoSource
        /\ upload[u].pc = "idle" /\ upload'[u].pc = "saved" /\ upload'[u].name = n
    BY DEF SaveSource, TypeOK, NoSource
  <2>2. \A s : ~Pending(u, s)
    BY <2>1 DEF Pending
  <2>3. Pending(u, n)'
    BY <2>1 DEF Pending
  <2>4. \A t \in Uploaders : upload'[t].pc = "replace" => upload'[t].old # upload'[t].name
    BY <1>2, <2>1 DEF SourcesAccounted
  <2>5. ASSUME NEW s \in sources'
        PROVE  \/ \E d \in Clips : row'[d].source = s
               \/ \E t \in Uploaders : Pending(t, s)'
    <3>1. CASE s = n
      BY <2>3, <3>1
    <3>2. CASE s # n
      BY <1>3, <2>1, <2>2, <2>5, <3>2 DEF SourcesAccounted
    <3> QED
      BY <3>1, <3>2
  <2> QED
    BY <2>1, <2>4, <2>5 DEF SourcesAccounted
<1>6. CASE RejectSource(u)
  <2>1. /\ UNCHANGED row /\ sources' = sources \ {upload[u].name}
        /\ upload[u].pc = "saved" /\ upload'[u].pc = "idle"
    BY <1>1, <1>6 DEF RejectSource, IdleUpload, TypeOK
  <2>2. \A s : Pending(u, s) => s = upload[u].name
    BY <2>1 DEF Pending
  <2>3. \A t \in Uploaders : upload'[t].pc = "replace" => upload'[t].old # upload'[t].name
    BY <1>2, <2>1 DEF SourcesAccounted
  <2> QED
    BY <1>3, <2>1, <2>2, <2>3 DEF SourcesAccounted
<1>7. CASE AttachSource(u)
  <2> DEFINE c == upload[u].clip
  <2>1. /\ c \in Clips /\ UNCHANGED sources
        /\ row'[c].source = upload[u].name /\ \A d \in Clips \ {c} : row'[d] = row[d]
        /\ upload[u].pc = "saved" /\ upload'[u].pc = "replace"
        /\ upload'[u].name = upload[u].name /\ upload'[u].old = row[c].source
    BY <1>7 DEF AttachSource, TypeOK, Row, Upload
  <2>2. upload[u].name # row[c].source
    BY <2>1 DEF SourceInv, PendingUnattached
  <2>3. \A t \in Uploaders : upload'[t].pc = "replace" => upload'[t].old # upload'[t].name
    BY <1>2, <2>1, <2>2 DEF SourcesAccounted
  <2>4. ASSUME NEW s \in sources'
        PROVE  \/ \E d \in Clips : row'[d].source = s
               \/ \E t \in Uploaders : Pending(t, s)'
    <3>1. CASE \E d \in Clips : row[d].source = s
      BY <2>1, <3>1 DEF Pending
    <3>2. CASE Pending(u, s)
      BY <2>1, <3>2 DEF Pending
    <3>3. CASE \E t \in Uploaders \ {u} : Pending(t, s)
      BY <1>3, <3>3
    <3> QED
      BY <2>1, <2>4, <3>1, <3>2, <3>3 DEF SourcesAccounted
  <2> QED
    BY <2>1, <2>3, <2>4 DEF SourcesAccounted
<1>8. CASE DeleteReplacedSource(u)
  <2>1. /\ UNCHANGED row
        /\ sources' = sources \ ({upload[u].old} \ {NoSource, upload[u].name})
        /\ upload[u].pc = "replace" /\ upload'[u].pc = "idle"
    BY <1>1, <1>8 DEF DeleteReplacedSource, IdleUpload, TypeOK
  <2>2. \A s \in sources' : ~Pending(u, s)
    BY <2>1 DEF Pending, SourcesAccounted
  <2>3. \A t \in Uploaders : upload'[t].pc = "replace" => upload'[t].old # upload'[t].name
    BY <1>2, <2>1 DEF SourcesAccounted
  <2> QED
    BY <1>3, <2>1, <2>2, <2>3 DEF SourcesAccounted
<1> QED
  BY <1>4, <1>5, <1>6, <1>7, <1>8 DEF UploadStep

LEMMA UploadAccounted ==
  ASSUME TypeOK, SourceInv, LeakInv, NoFault, NoFault', NEW u \in Uploaders,
         UploadStep(u) \/ CrashUpload(u) \/ \E c \in Clips : SaveSource(u, c)
  PROVE  FilesAccounted' /\ TmpAccounted' /\ SourcesAccounted'
<1>1. UNCHANGED <<derived, tmp, worker>> /\ \A c \in Clips : row'[c].version = row[c].version
  BY DEF UploadStep, RejectSource, AttachSource, DeleteReplacedSource, CrashUpload, SaveSource, TypeOK, Row
<1>2. FilesAccounted'
  BY <1>1, HandsKeep, FilesStay DEF LeakInv
<1>3. TmpAccounted'
  BY <1>1 DEF LeakInv, TmpAccounted, Active
<1>4. SourcesAccounted'
  BY SourcesStayAccounted DEF LeakInv
<1> QED
  BY <1>2, <1>3, <1>4

LEMMA ClipAccounted ==
  ASSUME TypeOK, LeakInv, NoFault, NEW c \in Clips,
         Requeue(c) \/ DeleteClip(c) \/ ClaimAges(c) \/ ResetStuck(c)
  PROVE  FilesAccounted' /\ TmpAccounted' /\ SourcesAccounted'
<1>1. /\ UNCHANGED <<derived, tmp, worker, sources, upload>>
      /\ \A d \in Clips : row'[d].version = row[d].version /\ row'[d].source = row[d].source
  BY DEF Requeue, DeleteClip, ClaimAges, ResetStuck, TypeOK, Row
<1>2. FilesAccounted'
  BY <1>1, HandsKeep, FilesStay DEF LeakInv
<1>3. TmpAccounted'
  BY <1>1 DEF LeakInv, TmpAccounted, Active
<1>4. SourcesAccounted'
  BY <1>1 DEF LeakInv, SourcesAccounted, Pending
<1> QED
  BY <1>2, <1>3, <1>4

LEMMA WorkerAccounted ==
  ASSUME TypeOK, TypeOK', ClaimInv, LeakInv, NoFault, NoFault', NEW w \in Workers,
         WorkerStep(w) \/ CrashWorker(w) \/ \E c \in Clips : Claim(w, c)
  PROVE  FilesAccounted' /\ TmpAccounted' /\ SourcesAccounted'
<1>1. SourcesKept
  BY WorkersKeepSources
<1>2. SourcesAccounted'
  BY <1>1 DEF LeakInv, SourcesAccounted, SourcesKept, Pending
<1> QED
  BY <1>2, FilesStayAccounted, TmpStaysAccounted DEF LeakInv

LEMMA LeakInvariant == Spec => [](TypeOK /\ ClaimInv /\ LeakInv)
<1>1. Init => LeakInv
  BY BudgetAssumption DEF Init, LeakInv, FilesAccounted, TmpAccounted, SourcesAccounted, IdleUpload,
     Disturbances
<1>2. TypeOK /\ TypeOK' /\ ClaimInv /\ SourceInv /\ LeakInv /\ [Next]_vars => LeakInv'
  <2> SUFFICES ASSUME TypeOK, TypeOK', ClaimInv, SourceInv, LeakInv, [Next]_vars
               PROVE  LeakInv'
    OBVIOUS
  <2>1. budget'["fault"] <= Budget["fault"] /\ (NoFault' => NoFault)
    BY FaultsOnlySpent DEF LeakInv
  <2>2. ASSUME NoFault'
        PROVE  FilesAccounted' /\ TmpAccounted' /\ SourcesAccounted'
    <3>1. NoFault
      BY <2>1, <2>2
    <3>2. CASE UNCHANGED vars
      <4>1. UNCHANGED <<row, derived, tmp, worker, sources, upload>>
        BY <3>2 DEF vars
      <4>2. FilesAccounted'
        BY <3>1, <4>1, HandsKeep, FilesStay DEF LeakInv
      <4> QED
        BY <3>1, <4>1, <4>2 DEF LeakInv, TmpAccounted, Active, SourcesAccounted, Pending
    <3>3. CASE Next
      BY <2>2, <3>1, <3>3, UploadAccounted, ClipAccounted, WorkerAccounted DEF Next
    <3> QED
      BY <3>2, <3>3
  <2> QED
    BY <2>1, <2>2 DEF LeakInv
<1> QED
  BY <1>1, <1>2, ClaimInvariant, SourceInvariant, PTL DEF Spec

(* process_media, ingest_skate_source: as long as nothing is killed and no   *)
(* file operation fails, what the storages hold once everybody is done is    *)
(* what the rows reference; the garbage collector is only there for faults.  *)
THEOREM NothingIsLeftBehind == Spec => []NoLeakWithoutFault
<1>1. TypeOK /\ ClaimInv /\ LeakInv => NoLeakWithoutFault
  <2> SUFFICES ASSUME TypeOK, ClaimInv, LeakInv, NoFault,
                      \A w \in Workers : worker[w].pc = "idle",
                      \A u \in Uploaders : upload[u].pc = "idle"
               PROVE  /\ \A c \in Clips :
                           /\ derived[c] = IF row[c].version = NoVersion THEN {} ELSE Files(row[c].version)
                           /\ tmp[c] = {}
                      /\ \A s \in sources : \E c \in Clips : row[c].source = s
    BY DEF NoLeakWithoutFault, NoFault
  <2>1. ASSUME NEW c \in Clips
        PROVE  /\ derived[c] = IF row[c].version = NoVersion THEN {} ELSE Files(row[c].version)
               /\ tmp[c] = {}
    <3>1. \A f \in derived[c] : row[c].version # NoVersion /\ f[1] = row[c].version
      BY DEF LeakInv, FilesAccounted, InHand, Active
    <3>2. \A f \in derived[c] : f \in Version \X Asset
      BY DEF TypeOK, FileSet
    <3>3. \A f \in derived[c] : f \in Files(row[c].version)
      BY <3>1, <3>2 DEF Files
    <3>4. row[c].version # NoVersion => Files(row[c].version) \subseteq derived[c]
      BY DEF ClaimInv, VersionsComplete
    <3>5. tmp[c] = {}
      BY DEF LeakInv, TmpAccounted, Active
    <3> QED
      BY <3>1, <3>3, <3>4, <3>5
  <2>2. \A s \in sources : \E c \in Clips : row[c].source = s
    BY DEF LeakInv, SourcesAccounted, Pending
  <2> QED
    BY <2>1, <2>2
<1> QED
  BY <1>1, LeakInvariant, PTL
=============================================================================
