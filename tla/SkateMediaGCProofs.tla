------------------------- MODULE SkateMediaGCProofs -------------------------
(***************************************************************************)
(* The tmp and retention passes of skate_media_gc beside the pipeline: no  *)
(* row loses its source or its assets to them, for every set of clips,     *)
(* workers and uploads and every budget of disturbances.  The orphan pass  *)
(* is left out: it may delete either (see ReadyOnlyWithAssets).            *)
(***************************************************************************)
EXTENDS SkateMediaGC, SkateMediaProofs

-----------------------------------------------------------------------------
(* The inductive invariant *)

(* What retention is about to delete has been taken off its row, and neither *)
(* a row nor a request that may still attach a source has it.               *)
ExpiredUnattached ==
  gc.pc = "unlink" => \A s \in gc.names :
    /\ s < nextSource
    /\ \A c \in Clips : row[c].source # s
    /\ \A u \in Uploaders : upload[u].pc = "saved" => upload[u].name # s

GCUses ==
  /\ gc.pc \in {"idle", "tmp", "tmplist", "tmpdelete", "retention", "cas", "unlink"}
  /\ \A r \in gc.rows : r.source # NoSource
  /\ ExpiredUnattached

GCInv ==
  /\ GCTypeOK /\ IndexInv
  /\ ClaimInv
  /\ SourceInv
  /\ GCUses

-----------------------------------------------------------------------------
(* Types *)

LEMMA EnterTypes ==
  ASSUME NEW pass \in GCPc
  PROVE  Enter(pass) \in GCState /\ Enter(pass).pc = pass /\ Enter(pass).rows = {}
BY DEF Enter, IdleGC, GCState

LEMMA IdleGCType == IdleGC \in GCState /\ IdleGC.pc = "idle" /\ IdleGC.rows = {}
BY DEF IdleGC, GCState, GCPc

(* Where a pass may lead when the operator does not select the orphan pass. *)
LEMMA PassesLeft ==
  ASSUME "orphans" \notin Passes, NEW n \in 0..3
  PROVE  PassAfter(n) \in {"idle", "tmp", "retention"}
<1>. DEFINE later == {i \in 1..Len(PassOrder) : i > n /\ PassOrder[i] \in Passes}
            first == CHOOSE i \in later : \A j \in later : i <= j
<1>1. Len(PassOrder) = 3 /\ PassOrder[1] = "orphans" /\ PassOrder[2] = "tmp"
      /\ PassOrder[3] = "retention"
  BY DEF PassOrder
<1>2. later \subseteq {2, 3}
  BY <1>1
<1>3. CASE later = {}
  BY <1>3 DEF PassAfter
<1>4. CASE later # {}
  <2>1. \E i \in later : \A j \in later : i <= j
    BY <1>2, <1>4
  <2>2. first \in later
    BY <2>1
  <2>3. PassAfter(n) = PassOrder[first]
    BY <1>4 DEF PassAfter
  <2>. QED  BY <1>1, <1>2, <2>2, <2>3
<1>. QED  BY <1>3, <1>4

LEMMA GCFields ==
  ASSUME GCTypeOK
  PROVE  /\ TypeOK /\ gc \in GCState
         /\ \A r \in gc.rows : r.clip \in Clips /\ r.source \in Nat
         /\ gc.names \in SUBSET Nat
BY DEF GCTypeOK, GCState

LEMMA InitGC ==
  ASSUME GCInit
  PROVE  GCInv
<1>1. TypeOK /\ IndexInv /\ ClaimInv /\ SourceInv
  BY InitTypes, InitClaims, InitSources DEF GCInit
<1>2. gc \in GCState /\ gc.pc = "idle" /\ gc.rows = {}
  BY IdleGCType DEF GCInit
<1>. QED  BY <1>1, <1>2 DEF GCInv, GCTypeOK, GCUses, ExpiredUnattached

-----------------------------------------------------------------------------
(* The pipeline goes on *)

(* A row takes a source only from a request that has saved it. *)
LEMMA SourcesComeFromRequests ==
  ASSUME TypeOK, [Next]_vars, NEW c \in Clips
  PROVE  \/ row'[c].source = row[c].source
         \/ \E u \in Uploaders : upload[u].pc = "saved" /\ row'[c].source = upload[u].name
<1>1. ASSUME SourcesKept PROVE row'[c].source = row[c].source
  BY <1>1 DEF SourcesKept
<1>2. ASSUME NEW u \in Uploaders, AttachSource(u)
      PROVE  \/ row'[c].source = row[c].source
             \/ upload[u].pc = "saved" /\ row'[c].source = upload[u].name
  BY <1>2 DEF AttachSource, TypeOK, Row
<1>3. ASSUME NEW u \in Uploaders,
             \/ RejectSource(u) \/ DeleteReplacedSource(u) \/ CrashUpload(u)
             \/ \E d \in Clips : SaveSource(u, d)
      PROVE  row' = row
  BY <1>3 DEF RejectSource, DeleteReplacedSource, CrashUpload, SaveSource
<1>. QED
  BY <1>1, <1>2, <1>3, WorkersKeepSources, ClipsKeepSources DEF Next, UploadStep, vars

(* A request saves its source under the next name. *)
LEMMA NamesComeFresh ==
  ASSUME TypeOK, [Next]_vars
  PROVE  /\ nextSource' \in {nextSource, nextSource + 1}
         /\ \A u \in Uploaders : upload'[u].pc = "saved" =>
              \/ upload[u].pc = "saved" /\ upload'[u].name = upload[u].name
              \/ upload'[u].name = nextSource
<1>1. ASSUME SourcesKept PROVE UNCHANGED <<nextSource, upload>>
  BY <1>1 DEF SourcesKept
<1>2. ASSUME NEW t \in Uploaders, UploadStep(t) \/ CrashUpload(t)
      PROVE  /\ nextSource' = nextSource
             /\ \A u \in Uploaders : upload'[u].pc = "saved" =>
                  upload[u].pc = "saved" /\ upload'[u].name = upload[u].name
  <2>1. CASE AttachSource(t)
    BY <2>1 DEF AttachSource, TypeOK, Upload
  <2>2. CASE RejectSource(t) \/ DeleteReplacedSource(t) \/ CrashUpload(t)
    BY <2>2 DEF RejectSource, DeleteReplacedSource, CrashUpload, TypeOK, Upload, IdleUpload
  <2>. QED  BY <1>2, <2>1, <2>2 DEF UploadStep
<1>3. ASSUME NEW t \in Uploaders, NEW d \in Clips, SaveSource(t, d)
      PROVE  /\ nextSource' = nextSource + 1
             /\ \A u \in Uploaders : \/ upload'[u] = upload[u]
                                     \/ upload'[u].name = nextSource
  BY <1>3 DEF SaveSource, TypeOK, Upload
<1>. QED
  BY <1>1, <1>2, <1>3, WorkersKeepSources, ClipsKeepSources DEF Next, vars

LEMMA PipelineKeepsGC ==
  ASSUME GCInv, [Next]_vars, UNCHANGED gc
  PROVE  GCInv'
<1>1. TypeOK /\ IndexInv /\ ClaimInv /\ SourceInv /\ gc \in GCState
  BY GCFields DEF GCInv
<1>2. TypeOK' /\ IndexInv' /\ ClaimInv' /\ SourceInv'
  BY <1>1, NextTypes, NextClaims, NextSources
<1>3. GCTypeOK'
  BY <1>1, <1>2 DEF GCTypeOK, GCState
<1>4. ExpiredUnattached'
  <2>. SUFFICES ASSUME gc.pc = "unlink", NEW s \in gc.names
                PROVE  /\ s < nextSource'
                       /\ \A c \in Clips : row'[c].source # s
                       /\ \A u \in Uploaders : upload'[u].pc = "saved" => upload'[u].name # s
    BY DEF ExpiredUnattached
  <2>1. /\ s < nextSource /\ s \in Nat /\ nextSource \in Nat
        /\ \A c \in Clips : row[c].source # s
        /\ \A u \in Uploaders : upload[u].pc = "saved" => upload[u].name # s
    BY <1>1, GCFields DEF GCInv, GCUses, ExpiredUnattached, TypeOK
  <2>2. s < nextSource' /\ s # nextSource
    BY <1>1, <2>1, NamesComeFresh
  <2>3. \A c \in Clips : row'[c].source # s
    BY <1>1, <2>1, SourcesComeFromRequests
  <2>4. \A u \in Uploaders : upload'[u].pc = "saved" => upload'[u].name # s
    BY <1>1, <2>1, <2>2, NamesComeFresh
  <2>. QED  BY <2>2, <2>3, <2>4
<1>5. GCUses'
  BY <1>4 DEF GCInv, GCUses
<1>. QED  BY <1>2, <1>3, <1>5 DEF GCInv

-----------------------------------------------------------------------------
(* The command *)

(* Steps that leave the rows, the sources and the published files alone. *)
LEMMA PassStep ==
  ASSUME GCInv, UNCHANGED <<row, sources, nextSource, derived, worker, upload>>,
         budget' \in [Disturbances -> Nat], budget'["request"] = budget["request"],
         tmp' \in [Clips -> SUBSET Nat],
         gc' \in GCState,
         gc'.pc \in {"idle", "tmp", "tmplist", "tmpdelete", "retention", "cas"},
         \A r \in gc'.rows : r.source # NoSource
  PROVE  GCInv'
<1>1. TypeOK /\ IndexInv /\ ClaimInv /\ SourceInv
  BY GCFields DEF GCInv
<1>2. TypeOK'
  BY <1>1 DEF TypeOK
<1>3. ClaimInv'
  BY <1>1, ClaimStutter
<1>4. SourceInv'
  <2>1. SourcesKept
    BY <1>1 DEF SourcesKept, Live, TypeOK, Disturbances
  <2>. QED  BY <1>1, <1>2, <2>1, SourceInvKept
<1>5. IndexInv'
  BY <1>1 DEF IndexInv
<1>. QED  BY <1>2, <1>3, <1>4, <1>5 DEF GCInv, GCTypeOK, GCUses, ExpiredUnattached

LEMMA FaultKeepsRequests ==
  ASSUME TypeOK, UNCHANGED budget \/ Spend("fault")
  PROVE  budget' \in [Disturbances -> Nat] /\ budget'["request"] = budget["request"]
<1>1. budget \in [Disturbances -> Nat]
  BY DEF TypeOK
<1>2. CASE UNCHANGED budget
  BY <1>1, <1>2
<1>3. CASE Spend("fault")
  BY <1>1, <1>3 DEF Spend, Disturbances
<1>. QED  BY <1>2, <1>3

(* The steps that begin, end or leave a pass, and those of the tmp pass. *)
LEMMA PassSteps ==
  ASSUME GCInv, "orphans" \notin Passes,
         \/ StartGC \/ OrphansDone \/ TmpDone \/ RetentionDone \/ CrashGC
         \/ ReadBusy \/ ListTmp \/ DeleteTmp \/ ReadExpired
  PROVE  GCInv'
<1>1. TypeOK /\ gc \in GCState /\ \A r \in gc.rows : r.source # NoSource
  BY GCFields DEF GCInv, GCUses
<1>2. UNCHANGED <<row, sources, nextSource, derived, worker, upload>>
  BY DEF StartGC, OrphansDone, TmpDone, RetentionDone, CrashGC, ReadBusy, ListTmp, DeleteTmp,
         ReadExpired, vars
<1>3. budget' \in [Disturbances -> Nat] /\ budget'["request"] = budget["request"]
  <2>1. UNCHANGED budget \/ Spend("fault")
    BY DEF StartGC, OrphansDone, TmpDone, RetentionDone, CrashGC, ReadBusy, ListTmp, DeleteTmp,
           ReadExpired, vars
  <2>. QED  BY <1>1, <2>1, FaultKeepsRequests
<1>4. tmp' \in [Clips -> SUBSET Nat]
  <2>1. tmp \in [Clips -> SUBSET Nat]
    BY <1>1 DEF TypeOK
  <2>2. UNCHANGED tmp \/ \E c \in Clips : tmp' = [tmp EXCEPT ![c] = {}]
    BY <1>1 DEF StartGC, OrphansDone, TmpDone, RetentionDone, CrashGC, ReadBusy, ListTmp, DeleteTmp,
           ReadExpired, vars, GCState
  <2>. QED  BY <2>1, <2>2
<1>5. /\ gc' \in GCState /\ gc'.pc \in {"idle", "tmp", "tmplist", "tmpdelete", "retention", "cas"}
      /\ \A r \in gc'.rows : r.source # NoSource
  <2>1. CASE StartGC \/ OrphansDone \/ TmpDone \/ RetentionDone
    <3>1. PICK pass \in {"idle", "tmp", "retention"} : gc' = Enter(pass)
      BY <2>1, PassesLeft DEF StartGC, OrphansDone, TmpDone, RetentionDone
    <3>2. pass \in GCPc
      BY DEF GCPc
    <3>. QED  BY <3>1, <3>2, EnterTypes
  <2>2. CASE CrashGC
    BY <2>2, IdleGCType DEF CrashGC
  <2>3. CASE ReadBusy \/ ListTmp \/ DeleteTmp
    <3>1. PICK pc \in {"tmplist", "tmpdelete"}, busy \in SUBSET Clips, dirs \in SUBSET Clips :
            gc' = [gc EXCEPT !.pc = pc, !.busy = busy, !.dirs = dirs]
      <4>1. CASE ReadBusy
        <5>1. PICK busy \in SUBSET Clips : gc' = [gc EXCEPT !.pc = "tmplist", !.busy = busy]
          BY <4>1 DEF ReadBusy
        <5>2. gc' = [gc EXCEPT !.pc = "tmplist", !.busy = busy, !.dirs = gc.dirs]
              /\ gc.dirs \in SUBSET Clips
          BY <1>1, <5>1 DEF GCState
        <5>. QED  BY <5>2
      <4>2. CASE ListTmp
        <5>1. PICK dirs \in SUBSET Clips : gc' = [gc EXCEPT !.pc = "tmpdelete", !.dirs = dirs]
          BY <4>2 DEF ListTmp
        <5>2. gc' = [gc EXCEPT !.pc = "tmpdelete", !.busy = gc.busy, !.dirs = dirs]
              /\ gc.busy \in SUBSET Clips
          BY <1>1, <5>1 DEF GCState
        <5>. QED  BY <5>2
      <4>3. CASE DeleteTmp
        <5>1. PICK c : gc' = [gc EXCEPT !.dirs = gc.dirs \ {c}] /\ gc.pc = "tmpdelete"
          BY <4>3 DEF DeleteTmp
        <5>2. gc' = [gc EXCEPT !.pc = "tmpdelete", !.busy = gc.busy, !.dirs = gc.dirs \ {c}]
              /\ gc.busy \in SUBSET Clips /\ gc.dirs \ {c} \in SUBSET Clips
          BY <1>1, <5>1 DEF GCState
        <5>. QED  BY <5>2
      <4>. QED  BY <2>3, <4>1, <4>2, <4>3
    <3>. QED  BY <1>1, <3>1 DEF GCState, GCPc
  <2>4. CASE ReadExpired
    <3>1. PICK E \in SUBSET {c \in Clips : row[c].state = "ready" /\ row[c].source # NoSource} :
            gc' = [gc EXCEPT !.pc = "cas",
                             !.rows = {[clip |-> c, source |-> row[c].source,
                                        version |-> row[c].version] : c \in E}]
      BY <2>4 DEF ReadExpired
    <3>2. PICK R : R = {[clip |-> c, source |-> row[c].source, version |-> row[c].version] : c \in E}
      OBVIOUS
    <3>3. \A c \in E : c \in Clips /\ row[c].source # NoSource /\ row[c].source \in Nat
                       /\ row[c].version \in Version
      BY <1>1 DEF TypeOK, Row
    <3>4. R \in SUBSET [clip : Clips, source : Nat, version : Version]
      BY <3>2, <3>3
    <3>5. \A r \in R : r.source # NoSource
      BY <3>2, <3>3
    <3>6. gc' = [gc EXCEPT !.pc = "cas", !.rows = R]
      BY <3>1, <3>2
    <3>. QED  BY <1>1, <3>4, <3>5, <3>6 DEF GCState, GCPc
  <2>. QED  BY <2>1, <2>2, <2>3, <2>4
<1>. QED  BY <1>2, <1>3, <1>4, <1>5, PassStep

(* A ready row whose source is cleared: no claim is current on it. *)
LEMMA ClearedKeepsClaims ==
  ASSUME TypeOK, ClaimInv, NEW c \in Clips, row[c].state = "ready",
         row' = [row EXCEPT ![c].source = NoSource], UNCHANGED <<derived, worker>>
  PROVE  ClaimInv'
<1>1. /\ \A d \in Clips : /\ row'[d].state = row[d].state /\ row'[d].gen = row[d].gen
                          /\ row'[d].version = row[d].version
                          /\ row[d].state # "ready" => row'[d].source = row[d].source
      /\ \A d \in Clips \ {c} : row'[d] = row[d]
      /\ row'[c].source = NoSource
  BY DEF TypeOK, Row
<1>2. \A w \in Workers : worker[w].clip \in Clips
  BY DEF TypeOK, Worker
<1>3. ClaimOrder'
  <2>. SUFFICES ASSUME NEW w \in Workers, Active(w)'
                PROVE  LET r == row'[worker[w].clip] IN
                       /\ worker[w].gen \in 1..r.gen
                       /\ worker[w].old.gen < worker[w].gen
                       /\ ClaimIsCurrent(w)' => /\ Working(w) \/ worker[w].pc \in {"fail", "tmp"}
                                                /\ worker[w].source = r.source
                                                /\ worker[w].old = r.version
                       /\ Working(w) => r.version.gen # worker[w].gen
    BY DEF ClaimOrder, Working
  <2>1. PICK d \in Clips : d = worker[w].clip
    BY <1>2
  <2>2. ClaimIsCurrent(w)' => ClaimIsCurrent(w) /\ row'[d].source = row[d].source
    BY <1>1, <2>1 DEF ClaimIsCurrent
  <2>. QED  BY <1>1, <2>1, <2>2 DEF ClaimInv, ClaimOrder, Active
<1>4. OneWorkerPerClaim' /\ PublishedSoFar'
  BY DEF ClaimInv, OneWorkerPerClaim, PublishedSoFar, OwnVersion
<1>5. DoomedUnreferenced'
  BY <1>1, <1>2 DEF ClaimInv, DoomedUnreferenced, Active, Working, SameClip
<1>6. VersionsComplete'
  BY <1>1 DEF ClaimInv, VersionsComplete
<1>7. ReadyShowsCurrentSource'
  BY <1>1 DEF ClaimInv, ReadyShowsCurrentSource
<1>. QED  BY <1>3, <1>4, <1>5, <1>6, <1>7 DEF ClaimInv

LEMMA ClearedKeepsSources ==
  ASSUME TypeOK, SourceInv, NEW c \in Clips, row[c].state = "ready",
         row' = [row EXCEPT ![c].source = NoSource],
         UNCHANGED <<sources, nextSource, worker, upload, budget>>
  PROVE  SourceInv'
<1>1. /\ \A d \in Clips : row'[d].state = row[d].state /\ row'[d].version = row[d].version
      /\ \A d \in Clips \ {c} : row'[d] = row[d]
      /\ row'[c].source = NoSource
  BY DEF TypeOK, Row
<1>2. NamesFresh'
  BY <1>1 DEF SourceInv, NamesFresh, NoSource, TypeOK
<1>3. RowSourcesDistinct'
  BY <1>1 DEF SourceInv, RowSourcesDistinct
<1>4. PendingUnattached'
  BY <1>1 DEF SourceInv, PendingUnattached
<1>5. ReplacedUnattached'
  BY <1>1 DEF SourceInv, ReplacedUnattached
<1>6. SourceStored'
  BY <1>1 DEF SourceInv, SourceStored, Live
<1>. QED  BY <1>2, <1>3, <1>4, <1>5, <1>6 DEF SourceInv

(* The reference goes first, and only if the row is as it was. *)
LEMMA ClearSourceStep ==
  ASSUME GCInv, ClearSource
  PROVE  GCInv'
<1>1. TypeOK /\ IndexInv /\ ClaimInv /\ SourceInv /\ gc \in GCState
  BY GCFields DEF GCInv
<1>2. UNCHANGED <<sources, nextSource, derived, tmp, worker, upload, budget>> /\ gc.pc = "cas"
  BY DEF ClearSource
<1>3. PICK r \in gc.rows :
        IF Unchanged(r)
        THEN /\ row' = [row EXCEPT ![r.clip].source = NoSource]
             /\ gc' = [gc EXCEPT !.pc = "unlink", !.rows = @ \ {r}, !.names = {r.source}]
        ELSE /\ gc' = [gc EXCEPT !.rows = @ \ {r}]
             /\ UNCHANGED row
  BY DEF ClearSource
<1>4. PICK R : R = gc.rows \ {r}
  OBVIOUS
<1>5. /\ R \in SUBSET [clip : Clips, source : Nat, version : Version]
      /\ \A q \in R : q.source # NoSource
  BY <1>1, <1>4 DEF GCState, GCInv, GCUses
<1>6. PICK c \in Clips, s \in Nat : c = r.clip /\ s = r.source /\ s # NoSource
  BY GCFields DEF GCInv, GCUses
<1>7. CASE ~Unchanged(r)
  <2>1. gc' = [gc EXCEPT !.rows = R] /\ UNCHANGED row
    BY <1>3, <1>4, <1>7
  <2>2. gc' \in GCState /\ gc'.pc = "cas" /\ gc'.rows = R
    BY <1>1, <1>2, <1>5, <2>1 DEF GCState
  <2>3. budget \in [Disturbances -> Nat] /\ tmp \in [Clips -> SUBSET Nat]
    BY <1>1 DEF TypeOK
  <2>. QED  BY <1>2, <1>5, <2>1, <2>2, <2>3, PassStep
<1>8. CASE Unchanged(r)
  <2>1. /\ row' = [row EXCEPT ![c].source = NoSource]
        /\ gc' = [gc EXCEPT !.pc = "unlink", !.rows = R, !.names = {s}]
        /\ row[c].state = "ready" /\ row[c].source = s
    BY <1>3, <1>4, <1>6, <1>8 DEF Unchanged
  <2>2. gc' \in GCState /\ gc'.pc = "unlink" /\ gc'.rows = R /\ gc'.names = {s}
    BY <1>1, <1>5, <2>1 DEF GCState, GCPc
  <2>3. row' \in [Clips -> Row]
    BY <1>1, <2>1 DEF TypeOK, Row, NoSource
  <2>4. GCTypeOK' /\ IndexInv'
    BY <1>1, <1>2, <2>2, <2>3 DEF GCTypeOK, TypeOK, IndexInv
  <2>5. ClaimInv' /\ SourceInv'
    BY <1>1, <1>2, <2>1, ClearedKeepsClaims, ClearedKeepsSources
  <2>6. /\ s < nextSource
        /\ \A d \in Clips : row'[d].source # s
        /\ \A u \in Uploaders : upload[u].pc = "saved" => upload[u].name # s
    <3>1. /\ \A d \in Clips \ {c} : row'[d] = row[d]
          /\ row'[c].source = NoSource
      BY <1>1, <2>1 DEF TypeOK, Row
    <3>. QED
      BY <1>1, <1>6, <2>1, <3>1 DEF SourceInv, NamesFresh, RowSourcesDistinct, PendingUnattached
  <2>7. ExpiredUnattached'
    BY <1>2, <2>2, <2>6 DEF ExpiredUnattached
  <2>. QED  BY <1>5, <2>2, <2>4, <2>5, <2>7 DEF GCInv, GCUses
<1>. QED  BY <1>7, <1>8

(* Then the file goes, which nobody can have taken up again. *)
LEMMA DeleteExpiredStep ==
  ASSUME GCInv, DeleteExpired
  PROVE  GCInv'
<1>1. TypeOK /\ IndexInv /\ ClaimInv /\ SourceInv /\ gc \in GCState
      /\ \A r \in gc.rows : r.source # NoSource
  BY GCFields DEF GCInv, GCUses
<1>2. /\ UNCHANGED <<row, nextSource, derived, tmp, worker, upload>>
      /\ gc' = [gc EXCEPT !.pc = "cas", !.names = {}]
      /\ gc.pc = "unlink" /\ (UNCHANGED budget \/ Spend("fault"))
      /\ (sources' = sources \ gc.names \/ UNCHANGED sources)
  BY DEF DeleteExpired
<1>3. \A s \in gc.names : /\ \A c \in Clips : row[c].source # s
                          /\ \A u \in Uploaders : upload[u].pc = "saved" => upload[u].name # s
  BY <1>2 DEF GCInv, GCUses, ExpiredUnattached
<1>4. gc' \in GCState /\ gc'.pc = "cas" /\ gc'.rows = gc.rows
  BY <1>1, <1>2 DEF GCState, GCPc
<1>5. budget' \in [Disturbances -> Nat] /\ budget'["request"] = budget["request"]
  BY <1>1, <1>2, FaultKeepsRequests
<1>6. GCTypeOK' /\ IndexInv'
  BY <1>1, <1>2, <1>4, <1>5 DEF GCTypeOK, TypeOK, IndexInv
<1>7. ClaimInv'
  BY <1>1, <1>2, ClaimStutter
<1>8. SourceInv'
  <2>1. NamesFresh' /\ RowSourcesDistinct' /\ ReplacedUnattached'
    BY <1>1, <1>2, <1>5 DEF SourceInv, NamesFresh, RowSourcesDistinct, ReplacedUnattached
  <2>2. PendingUnattached'
    BY <1>1, <1>2, <1>3 DEF SourceInv, PendingUnattached
  <2>3. SourceStored'
    BY <1>1, <1>2, <1>3 DEF SourceInv, SourceStored, Live
  <2>. QED  BY <2>1, <2>2, <2>3 DEF SourceInv
<1>. QED  BY <1>1, <1>4, <1>6, <1>7, <1>8 DEF GCInv, GCUses, ExpiredUnattached

LEMMA GCStepKeeps ==
  ASSUME "orphans" \notin Passes, GCInv, [GCNext]_gcVars
  PROVE  GCInv'
<1>1. CASE Next /\ UNCHANGED gc
  BY <1>1, PipelineKeepsGC
<1>2. CASE UNCHANGED gcVars
  <2>1. UNCHANGED vars /\ UNCHANGED gc
    BY <1>2 DEF gcVars, vars
  <2>. QED  BY <2>1, PipelineKeepsGC
<1>3. CASE \/ StartGC \/ OrphansDone \/ TmpDone \/ RetentionDone \/ CrashGC
           \/ ReadBusy \/ ListTmp \/ DeleteTmp \/ ReadExpired
  BY <1>3, PassSteps
<1>4. CASE \/ ReadKnown \/ ReadReferences \/ ListSection \/ DeleteTarget
           \/ ReadSourceReferences \/ ListSources \/ DeleteSource
  <2>1. gc.pc \in {"orphans", "refs", "list", "delete", "srclist", "srcdelete"}
    BY <1>4 DEF ReadKnown, ReadReferences, ListSection, DeleteTarget, ReadSourceReferences,
                ListSources, DeleteSource
  <2>. QED  BY <2>1 DEF GCInv, GCUses
<1>. QED  BY <1>1, <1>2, <1>3, <1>4, ClearSourceStep, DeleteExpiredStep DEF GCNext, GCStep

LEMMA GCInvariant == ASSUME "orphans" \notin Passes PROVE GCSpec => []GCInv
<1>1. GCInit => GCInv
  BY InitGC
<1>2. GCInv /\ [GCNext]_gcVars => GCInv'
  BY GCStepKeeps
<1>. QED  BY <1>1, <1>2, PTL DEF GCSpec

(* boards/management/commands/skate_media_gc.py, _gc_retention: the source    *)
(* of a row that is uploaded, requeued or replaced between the query, the    *)
(* conditional update and the deletion is never deleted; a row without a     *)
(* source is one that is ready.                                              *)
THEOREM RetentionSparesSources == ASSUME "orphans" \notin Passes PROVE GCSpec => []SourceStored
<1>1. GCInv => SourceStored
  BY DEF GCInv, SourceInv
<1>. QED  BY <1>1, GCInvariant, PTL

(* skate_media_gc.py, _gc_tmp and _gc_retention: beside them too the version *)
(* a row references stays complete, a ready row shows its current source,    *)
(* and no two workers hold one claim.                                        *)
THEOREM CollectionSparesAssets ==
  ASSUME "orphans" \notin Passes
  PROVE  GCSpec => [](ReferencedAssetsPresent /\ ReadyShowsCurrentSource /\ OneWorkerPerClaim)
<1>1. GCInv => ReferencedAssetsPresent /\ ReadyShowsCurrentSource /\ OneWorkerPerClaim
  BY DEF GCInv, ClaimInv, VersionsComplete, ReferencedAssetsPresent
<1>. QED  BY <1>1, GCInvariant, PTL

(* The command changes what a visitor or a manager sees in one way only. *)
LEMMA ClearSourceIsExpire ==
  ASSUME GCInv, ClearSource
  PROVE  Lifecycle!Next \/ UNCHANGED Lifecycle!vars
<1>1. TypeOK /\ \A r \in gc.rows : r.clip \in Clips /\ r.source # NoSource
  BY GCFields DEF GCInv, GCUses
<1>2. CASE UNCHANGED row
  BY <1>2, LifecycleStutter
<1>3. ASSUME NEW c \in Clips, NEW s, s # NoSource, row[c].state = "ready", row[c].source = s,
             row' = [row EXCEPT ![c].source = NoSource]
      PROVE  Lifecycle!Next
  <2>1. /\ row'[c].state = "ready" /\ row'[c].source = NoSource
        /\ row'[c].version = row[c].version /\ OtherRowsKeep(c)
    BY <1>1, <1>3 DEF OtherRowsKeep, TypeOK, Row
  <2>2. row[c].source # NoSource /\ row[c].state = "ready"
    BY <1>3
  <2>3. Lifecycle!Expire(c)
    <3>. QED  BY <2>1, <2>2 DEF Lifecycle!Expire, OtherRowsKeep, NoSource
  <2>. QED  BY <2>3 DEF Lifecycle!Next
<1>. QED  BY <1>1, <1>2, <1>3 DEF ClearSource, Unchanged

(* skate_media_gc.py, _gc_retention: with the tmp and retention passes beside *)
(* it the pipeline is still a MediaLifecycle: a source goes only from an      *)
(* asset that is ready at that step, and its output stays.                    *)
THEOREM CollectionImplementsLifecycle ==
  ASSUME "orphans" \notin Passes
  PROVE  GCSpec => ImplementsLifecycle
<1>1. ASSUME GCInv, [GCNext]_gcVars
      PROVE  Lifecycle!Next \/ UNCHANGED Lifecycle!vars
  <2>1. TypeOK /\ IndexInv /\ ClaimInv /\ SourceInv
    BY <1>1, GCFields DEF GCInv
  <2>2. CASE Next
    BY <2>1, <2>2, NextImplements
  <2>3. CASE ClearSource
    BY <1>1, <2>3, ClearSourceIsExpire
  <2>4. CASE UNCHANGED row
    BY <2>4, LifecycleStutter
  <2>5. Next \/ ClearSource \/ UNCHANGED row
    BY <1>1 DEF GCNext, GCStep, gcVars, vars, StartGC, ReadKnown, ReadReferences, ListSection,
                DeleteTarget, ReadSourceReferences, ListSources, DeleteSource, OrphansDone, ReadBusy,
                ListTmp, DeleteTmp, TmpDone, ReadExpired, DeleteExpired, RetentionDone, CrashGC
  <2>. QED  BY <2>2, <2>3, <2>4, <2>5
<1>2. GCInv /\ [GCNext]_gcVars => [Lifecycle!Next]_(Lifecycle!vars)
  BY <1>1
<1>3. GCInit => Lifecycle!Init
  BY LifecycleInit DEF GCInit
<1>. QED
  BY <1>2, <1>3, GCInvariant, PTL DEF GCSpec, ImplementsLifecycle, Lifecycle!Spec
=============================================================================
