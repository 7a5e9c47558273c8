----------------------------- MODULE SkateMedia -----------------------------
(***************************************************************************)
(* The skate clip media pipeline: uploads store a private source and queue *)
(* the clip's media row, worker processes claim a queued row, derive three *)
(* assets into a tmp directory, publish them under keys of their own and   *)
(* switch the row to them with one conditional UPDATE.                     *)
(*                                                                         *)
(* The database row is changed by transactions (one action each); files    *)
(* are changed one at a time, outside any transaction.  Workers and        *)
(* uploads may be killed between any two steps.                            *)
(*                                                                         *)
(* Abstractions.  claim_token is drawn afresh exactly when                 *)
(* claim_generation is incremented, so the generation stands for the pair. *)
(* A version key additionally carries the source its content was derived   *)
(* from, which no step of the pipeline reads.  claimed_at is the flag      *)
(* "stuck": older than SKATE_CLIP_STUCK_PROCESSING_SECONDS.                *)
(***************************************************************************)
EXTENDS Naturals, Sequences, FiniteSets

CONSTANTS
  Clips,      \* clips, each with at most one media row
  Workers,    \* process_skate_clips processes
  Uploaders,  \* web requests that ingest a source
  Budget      \* Budget[d]: how many disturbances of kind d may happen

Disturbances == {"request", "slow", "fault"}

ASSUME BudgetAssumption == Budget \in [Disturbances -> Nat]
ASSUME ClipsAssumption == Clips # {}

VARIABLES
  row,        \* row[c]: the SkateClipMedia row of clip c
  sources,    \* names of the files in the private source storage
  nextSource, \* the next server-generated source name
  derived,    \* derived[c]: <<version, asset>> files under the delivery roots
  tmp,        \* tmp[c]: generations that have a directory under tmp/<key>/
  worker,     \* worker[w]: what worker w has read and where it is
  upload,     \* upload[u]: what request u has stored and where it is
  budget      \* what is left of Budget

vars == <<row, sources, nextSource, derived, tmp, worker, upload, budget>>

-----------------------------------------------------------------------------
(* Types *)

NoSource == 0
Version == [gen : Nat, from : Nat]
NoVersion == [gen |-> 0, from |-> NoSource]

(* The three published files, in the order os.replace moves them. *)
Assets == <<"main", "preview", "poster">>
Asset == {"main", "preview", "poster"}

States == {"absent", "uploaded", "processing", "ready", "failed", "gone"}

Row == [state : States, gen : Nat, source : Nat, version : Version, stuck : BOOLEAN]

WorkerPc == {"idle", "start", "derive", "publish", "unpublish", "finish",
             "fail", "clean", "tmp"}

(* Sets of published files, each a key and the asset stored under it. *)
FileSet == SUBSET (Version \X Asset)

Worker == [pc : WorkerPc, clip : Clips, gen : Nat, source : Nat,
           old : Version, k : 1..4, doomed : FileSet]

Upload == [pc : {"idle", "saved", "replace"}, clip : Clips, name : Nat, old : Nat]

TypeOK ==
  /\ row \in [Clips -> Row]
  /\ sources \in SUBSET Nat
  /\ nextSource \in Nat \ {0}
  /\ derived \in [Clips -> FileSet]
  /\ tmp \in [Clips -> SUBSET Nat]
  /\ worker \in [Workers -> Worker]
  /\ upload \in [Uploaders -> Upload]
  /\ budget \in [Disturbances -> Nat]

AnyClip == CHOOSE c \in Clips : TRUE

IdleWorker == [pc |-> "idle", clip |-> AnyClip, gen |-> 0, source |-> NoSource,
               old |-> NoVersion, k |-> 1, doomed |-> {}]

IdleUpload == [pc |-> "idle", clip |-> AnyClip, name |-> NoSource, old |-> NoSource]

Init ==
  /\ row = [c \in Clips |-> [state |-> "absent", gen |-> 0, source |-> NoSource,
                             version |-> NoVersion, stuck |-> FALSE]]
  /\ sources = {}
  /\ nextSource = 1
  /\ derived = [c \in Clips |-> {}]
  /\ tmp = [c \in Clips |-> {}]
  /\ worker = [w \in Workers |-> IdleWorker]
  /\ upload = [u \in Uploaders |-> IdleUpload]
  /\ budget = Budget

(* One disturbance of kind d happens. *)
Spend(d) ==
  /\ budget[d] > 0
  /\ budget' = [budget EXCEPT ![d] = @ - 1]

-----------------------------------------------------------------------------
(* Uploads: ingest_skate_source, requeue_existing_skate_source, deletion *)

(* storage.save under a fresh uuid name, before any row is touched. *)
SaveSource(u, c) ==
  /\ upload[u].pc = "idle"
  /\ row[c].state # "gone"
  /\ Spend("request")
  /\ sources' = sources \union {nextSource}
  /\ nextSource' = nextSource + 1
  /\ upload' = [upload EXCEPT ![u] = [pc |-> "saved", clip |-> c, name |-> nextSource,
                                      old |-> NoSource]]
  /\ UNCHANGED <<row, derived, tmp, worker>>

(* Seeded fault: the cleanup of the failure path covers the committed upload. *)
RejectSourceAfterCommit(u) ==
  /\ upload[u].pc \in {"saved", "replace"}
  /\ sources' = sources \ {upload[u].name}
  /\ upload' = [upload EXCEPT ![u] = IdleUpload]
  /\ UNCHANGED <<row, nextSource, derived, tmp, worker, budget>>

(* The probe rejects the file, hashing fails or the transaction raises (the *)
(* clip may be gone): the new file is deleted, or stays when that fails.    *)
RejectSource(u) ==
  /\ upload[u].pc = "saved"
  /\ \/ sources' = sources \ {upload[u].name} /\ UNCHANGED budget
     \/ Spend("fault") /\ UNCHANGED sources
  /\ upload' = [upload EXCEPT ![u] = IdleUpload]
  /\ UNCHANGED <<row, nextSource, derived, tmp, worker>>

(* A processing claim is invalidated by moving the generation on. *)
InvalidatedGen(r) == IF r.state = "processing" THEN r.gen + 1 ELSE r.gen

(* The transaction of ingest_skate_source: get_or_create under a row lock, *)
(* invalidate a running claim, attach the file and queue the row.          *)
AttachSource(u) ==
  LET c == upload[u].clip IN
  /\ upload[u].pc = "saved"
  /\ row[c].state # "gone"
  /\ row' = [row EXCEPT ![c].state = "uploaded",
                        ![c].gen = InvalidatedGen(row[c]),
                        ![c].source = upload[u].name]
  /\ upload' = [upload EXCEPT ![u].pc = "replace", ![u].old = row[c].source]
  /\ UNCHANGED <<sources, nextSource, derived, tmp, worker, budget>>

(* Only after the commit is the replaced file deleted. *)
DeleteReplacedSource(u) ==
  /\ upload[u].pc = "replace"
  /\ \/ sources' = sources \ ({upload[u].old} \ {NoSource, upload[u].name}) /\ UNCHANGED budget
     \/ Spend("fault") /\ UNCHANGED sources
  /\ upload' = [upload EXCEPT ![u] = IdleUpload]
  /\ UNCHANGED <<row, nextSource, derived, tmp, worker>>

CrashUpload(u) ==
  /\ upload[u].pc # "idle"
  /\ Spend("fault")
  /\ upload' = [upload EXCEPT ![u] = IdleUpload]
  /\ UNCHANGED <<row, sources, nextSource, derived, tmp, worker>>

Requeue(c) ==
  /\ row[c].state \notin {"absent", "gone"}
  /\ row[c].source # NoSource
  /\ Spend("request")
  /\ row' = [row EXCEPT ![c].state = "uploaded",
                        ![c].gen = InvalidatedGen(row[c]),
                        ![c].stuck = FALSE]
  /\ UNCHANGED <<sources, nextSource, derived, tmp, worker, upload>>

(* The clip is deleted and its media row cascades; the files stay. *)
DeleteClip(c) ==
  /\ row[c].state # "gone"
  /\ row' = [row EXCEPT ![c].state = "gone"]
  /\ UNCHANGED <<sources, nextSource, derived, tmp, worker, upload, budget>>

-----------------------------------------------------------------------------
(* Stuck claims *)

(* w is inside process_media for the claim the row of c is held under. *)
HoldsClaim(w, c) ==
  /\ worker[w].pc # "idle"
  /\ worker[w].clip = c
  /\ worker[w].gen = row[c].gen

(* Time passes.  A claim ages past the limit either because no process works *)
(* on it any more, or, rarely, under a worker that is alive but stalled.     *)
ClaimAges(c) ==
  /\ row[c].state = "processing"
  /\ ~row[c].stuck
  /\ IF \E w \in Workers : HoldsClaim(w, c) THEN Spend("slow") ELSE UNCHANGED budget
  /\ row' = [row EXCEPT ![c].stuck = TRUE]
  /\ UNCHANGED <<sources, nextSource, derived, tmp, worker, upload>>

(* Seeded fault: the reset looks for the wrong state. *)
ResetStuckFailed(c) ==
  /\ row[c].state = "failed"
  /\ row[c].stuck
  /\ row' = [row EXCEPT ![c].state = "uploaded", ![c].stuck = FALSE]
  /\ UNCHANGED <<sources, nextSource, derived, tmp, worker, upload, budget>>

ResetStuck(c) ==
  /\ row[c].state = "processing"
  /\ row[c].stuck
  /\ row' = [row EXCEPT ![c].state = "uploaded", ![c].stuck = FALSE]
  /\ UNCHANGED <<sources, nextSource, derived, tmp, worker, upload, budget>>

-----------------------------------------------------------------------------
(* Workers *)

(* Seeded fault: the final UPDATE compares the state only. *)
ClaimIsCurrentByState(w) == row[worker[w].clip].state = "processing"

(* The condition of the final UPDATE: pk, processing, generation and token. *)
ClaimIsCurrent(w) ==
  /\ row[worker[w].clip].state = "processing"
  /\ row[worker[w].clip].gen = worker[w].gen

(* Seeded fault: one key per source instead of one per claim. *)
OwnVersionPerSource(w) == [gen |-> 1, from |-> worker[w].source]

OwnVersion(w) == [gen |-> worker[w].gen, from |-> worker[w].source]

Files(v) == {v} \X Asset

(* Seeded fault: the state of the row is taken for the place in the code. *)
AfterCleanupWrongName(pc) == IF pc = "unpublish" THEN "failed" ELSE "tmp"

(* What follows once every doomed key has been tried. *)
AfterCleanup(pc) == IF pc = "unpublish" THEN "fail" ELSE "tmp"

Goto(w, pc) == worker' = [worker EXCEPT ![w].pc = pc]

NextGen(r) == r.gen + 1

(* Claim an uploaded row under its lock and keep the values just read. *)
Claim(w, c) ==
  /\ worker[w].pc = "idle"
  /\ row[c].state = "uploaded"
  /\ row' = [row EXCEPT ![c].state = "processing", ![c].gen = NextGen(row[c]),
                        ![c].stuck = FALSE]
  /\ worker' = [worker EXCEPT ![w] =
       [pc |-> "start", clip |-> c, gen |-> NextGen(row[c]), source |-> row[c].source,
        old |-> row[c].version, k |-> 1, doomed |-> {}]]
  /\ UNCHANGED <<sources, nextSource, derived, tmp, upload, budget>>

(* Fail fast without a source, else make the claim's own tmp directory. *)
CheckSource(w) ==
  /\ worker[w].pc = "start"
  /\ IF worker[w].source \in sources
     THEN /\ tmp' = [tmp EXCEPT ![worker[w].clip] = @ \union {worker[w].gen}]
          /\ Goto(w, "derive")
     ELSE /\ Goto(w, "fail")
          /\ UNCHANGED tmp
  /\ UNCHANGED <<row, sources, nextSource, derived, upload, budget>>

(* Encode and validate.  It can succeed only while the source and the tmp *)
(* directory exist; ffmpeg and the validation may reject any source.      *)
Derive(w) ==
  /\ worker[w].pc = "derive"
  /\ \/ /\ worker[w].source \in sources
        /\ worker[w].gen \in tmp[worker[w].clip]
        /\ Goto(w, "publish")
     \/ Goto(w, "fail")
  /\ UNCHANGED <<row, sources, nextSource, derived, tmp, upload, budget>>

(* os.replace of the next asset to its key under the claim's version. *)
Publish(w) ==
  LET c == worker[w].clip IN
  /\ worker[w].pc = "publish"
  /\ worker[w].gen \in tmp[c]
  /\ derived' = [derived EXCEPT ![c] = @ \union {<<OwnVersion(w), Assets[worker[w].k]>>}]
  /\ worker' = [worker EXCEPT ![w].k = @ + 1,
                              ![w].pc = IF worker[w].k = Len(Assets) THEN "finish" ELSE "publish"]
  /\ UNCHANGED <<row, sources, nextSource, tmp, upload, budget>>

(* A move raises OSError: the keys of this version are given up. *)
PublishFails(w) ==
  /\ worker[w].pc = "publish"
  /\ IF worker[w].gen \in tmp[worker[w].clip] THEN Spend("fault") ELSE UNCHANGED budget
  /\ worker' = [worker EXCEPT ![w].pc = "unpublish", ![w].doomed = Files(OwnVersion(w))]
  /\ UNCHANGED <<row, sources, nextSource, derived, tmp, upload>>

FinishedRow(w) ==
  [row EXCEPT ![worker[w].clip].state = "ready",
              ![worker[w].clip].version = OwnVersion(w),
              ![worker[w].clip].stuck = FALSE]

(* Seeded fault: a stale worker leaves its output where it is. *)
SupersededFilesKeepStale(w) ==
  IF ClaimIsCurrent(w) /\ worker[w].old # NoVersion THEN Files(worker[w].old) ELSE {}

(* The files nobody needs once the UPDATE has been tried: the version it     *)
(* replaced, or the worker's own when its claim was superseded.              *)
SupersededFiles(w) ==
  IF ClaimIsCurrent(w)
  THEN IF worker[w].old = NoVersion THEN {} ELSE Files(worker[w].old)
  ELSE Files(OwnVersion(w))

(* The conditional UPDATE switches state and all three references at once. *)
Finish(w) ==
  /\ worker[w].pc = "finish"
  /\ row' = IF ClaimIsCurrent(w) THEN FinishedRow(w) ELSE row
  /\ worker' = [worker EXCEPT ![w].doomed = SupersededFiles(w),
                              ![w].pc = IF SupersededFiles(w) = {} THEN "tmp" ELSE "clean"]
  /\ UNCHANGED <<sources, nextSource, derived, tmp, upload, budget>>

(* The database connection breaks during the UPDATE, before or after it took *)
(* effect: the generic handler only tries to mark the failure.               *)
FinishRaises(w) ==
  /\ worker[w].pc = "finish"
  /\ Spend("fault")
  /\ Goto(w, "fail")
  /\ \/ UNCHANGED row
     \/ ClaimIsCurrent(w) /\ row' = FinishedRow(w)
  /\ UNCHANGED <<sources, nextSource, derived, tmp, upload>>

(* _cleanup_keys deletes one file after the other and ignores OSError. *)
CleanKey(w) ==
  LET c == worker[w].clip IN
  /\ worker[w].pc \in {"unpublish", "clean"}
  /\ \E f \in worker[w].doomed :
       /\ \/ derived' = [derived EXCEPT ![c] = @ \ {f}] /\ UNCHANGED budget
          \/ f \in derived[c] /\ Spend("fault") /\ UNCHANGED derived
       /\ worker' = [worker EXCEPT ![w].doomed = @ \ {f},
                                   ![w].pc = IF worker[w].doomed = {f} THEN AfterCleanup(@) ELSE @]
  /\ UNCHANGED <<row, sources, nextSource, tmp, upload>>

(* processing -> failed, under the same condition as finish; when this      *)
(* UPDATE raises as well, the row stays as it is until it is found stuck.   *)
FailMedia(w) ==
  LET c == worker[w].clip IN
  /\ worker[w].pc = "fail"
  /\ \/ /\ row' = IF ClaimIsCurrent(w)
                  THEN [row EXCEPT ![c].state = "failed", ![c].stuck = FALSE] ELSE row
        /\ UNCHANGED budget
     \/ Spend("fault") /\ UNCHANGED row
  /\ Goto(w, "tmp")
  /\ UNCHANGED <<sources, nextSource, derived, tmp, upload>>

(* The finally clause: remove the claim's tmp directory, ignoring OSError. *)
CleanTmp(w) ==
  /\ worker[w].pc = "tmp"
  /\ \/ /\ tmp' = [tmp EXCEPT ![worker[w].clip] = @ \ {worker[w].gen}]
        /\ UNCHANGED budget
     \/ /\ worker[w].gen \in tmp[worker[w].clip]
        /\ Spend("fault")
        /\ UNCHANGED tmp
  /\ worker' = [worker EXCEPT ![w] = IdleWorker]
  /\ UNCHANGED <<row, sources, nextSource, derived, upload>>

(* The process is killed: files and row stay as they are. *)
CrashWorker(w) ==
  /\ worker[w].pc # "idle"
  /\ Spend("fault")
  /\ worker' = [worker EXCEPT ![w] = IdleWorker]
  /\ UNCHANGED <<row, sources, nextSource, derived, tmp, upload>>

-----------------------------------------------------------------------------
WorkerStep(w) ==
  \/ CheckSource(w) \/ Derive(w) \/ Publish(w) \/ PublishFails(w)
  \/ Finish(w) \/ FinishRaises(w) \/ CleanKey(w)
  \/ FailMedia(w) \/ CleanTmp(w)

UploadStep(u) == RejectSource(u) \/ AttachSource(u) \/ DeleteReplacedSource(u)

Next ==
  \/ \E w \in Workers : WorkerStep(w) \/ CrashWorker(w) \/ \E c \in Clips : Claim(w, c)
  \/ \E u \in Uploaders : UploadStep(u) \/ CrashUpload(u) \/ \E c \in Clips : SaveSource(u, c)
  \/ \E c \in Clips : Requeue(c) \/ DeleteClip(c) \/ ClaimAges(c) \/ ResetStuck(c)

Spec == Init /\ [][Next]_vars

(* process_skate_clips is started by the scheduler every few minutes, with   *)
(* --reset-stuck; a worker that is alive goes on; time passes for a claim    *)
(* nobody works on.  Nothing obliges a request, a manager or a crash.        *)
Fairness ==
  /\ \A w \in Workers : WF_vars(WorkerStep(w))
  /\ \A c \in Clips :
       /\ WF_vars(\E w \in Workers : Claim(w, c))
       /\ WF_vars(ResetStuck(c))
       /\ WF_vars(ClaimAges(c) /\ ~\E w \in Workers : HoldsClaim(w, c))

FairSpec == Spec /\ Fairness

-----------------------------------------------------------------------------
(* Safety *)

Live(c) == row[c].state \notin {"absent", "gone"}

(* Whatever the queue state, the version a row references is complete on    *)
(* disk: failed, stale, duplicated or killed workers never take away what a *)
(* visitor may still be shown (_publish_to_final, _cleanup_keys, old_keys). *)
ReferencedAssetsPresent ==
  \A c \in Clips :
    Live(c) /\ row[c].version # NoVersion => Files(row[c].version) \subseteq derived[c]

(* A ready row shows output of the source that is current: a replacement    *)
(* uploaded while a worker runs is never covered by the old source's output. *)
ReadyShowsCurrentSource ==
  \A c \in Clips :
    row[c].state = "ready" /\ row[c].source # NoSource => row[c].version.from = row[c].source

(* Concurrent uploads to one clip never delete the file the row ends up     *)
(* with: the row's source is stored, and only a ready row may have none.    *)
SourceStored ==
  \A c \in Clips :
    Live(c) => IF row[c].source = NoSource THEN row[c].state = "ready"
                                           ELSE row[c].source \in sources

(* Resets and reclaims may leave several workers on one clip, each under a  *)
(* claim of its own, so that their tmp and version keys never collide.      *)
OneWorkerPerClaim ==
  \A v, w \in Workers :
    v # w /\ worker[v].pc # "idle" /\ worker[w].pc # "idle" /\ worker[v].clip = worker[w].clip
      => worker[v].gen # worker[w].gen

(* When nothing was killed and no file operation failed, the storages hold  *)
(* exactly what the rows reference once everybody is done: stale output,    *)
(* superseded versions, replaced and rejected sources are all reclaimed.    *)
NoLeakWithoutFault ==
  (/\ budget["fault"] = Budget["fault"]
   /\ \A w \in Workers : worker[w].pc = "idle"
   /\ \A u \in Uploaders : upload[u].pc = "idle")
  => /\ \A c \in Clips :
           /\ derived[c] = IF row[c].version = NoVersion THEN {} ELSE Files(row[c].version)
           /\ tmp[c] = {}
     /\ \A s \in sources : \E c \in Clips : row[c].source = s

(* The references of a row change only from processing to ready, to the     *)
(* version of the claim the row is held under: a superseded worker never    *)
(* switches them, whatever it does and however late.                        *)
OnlyCurrentClaimPublishes ==
  [][\A c \in Clips :
       row'[c].version # row[c].version =>
         /\ row[c].state = "processing" /\ row'[c].state = "ready"
         /\ row'[c].version = [gen |-> row[c].gen, from |-> row[c].source]]_vars

-----------------------------------------------------------------------------
(* Liveness *)

(* A queued clip is eventually ready or failed (or deleted), although       *)
(* workers are killed, stall and lose their claims.                         *)
EveryUploadSettles ==
  \A c \in Clips :
    row[c].state \in {"uploaded", "processing"} ~> row[c].state \in {"ready", "failed", "gone"}

-----------------------------------------------------------------------------
(* Refinement: what a visitor and a manager can tell of the pipeline *)

Lifecycle == INSTANCE MediaLifecycle WITH
  phase <- [c \in Clips |-> row[c].state],
  source <- [c \in Clips |-> row[c].source],
  shown <- [c \in Clips |-> row[c].version.from],
  Sources <- 1..Budget["request"]

(* The pipeline implements MediaLifecycle: the only way to ready is with    *)
(* output of the source that is current at that very step.                  *)
ImplementsLifecycle == Lifecycle!Spec
=============================================================================
