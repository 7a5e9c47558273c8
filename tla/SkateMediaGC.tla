---------------------------- MODULE SkateMediaGC ----------------------------
(***************************************************************************)
(* The maintenance command skate_media_gc --apply running beside the       *)
(* pipeline of SkateMedia.  It takes no lock: every pass reads the rows    *)
(* first, lists a storage afterwards and deletes one path after the other, *)
(* while uploads and workers go on.  The passes of one run follow each     *)
(* other in the order of Command.handle; the options --orphans, --tmp and  *)
(* --retention select a subset.                                            *)
(*                                                                         *)
(* Not modelled: the dry run (deletes nothing), the "missing" report and   *)
(* the disk watermark (read only), names that are not UUIDs (nothing in    *)
(* the pipeline writes one).                                               *)
(***************************************************************************)
EXTENDS SkateMedia

CONSTANT Passes  \* the passes the operator selects

VARIABLE gc      \* what the running command has read and where it is

gcVars == <<row, sources, nextSource, derived, tmp, worker, upload, budget, gc>>

PassOrder == <<"orphans", "tmp", "retention">>

GCPc == {"idle", "orphans", "refs", "list", "delete", "srcrefs", "srclist", "srcdelete",
         "tmp", "tmplist", "tmpdelete", "retention", "cas", "unlink"}

(* known, refs, srcRefs and busy are the query results; targets, names and *)
(* dirs what is still to be deleted; rows the retention rows still to be   *)
(* visited.  A target with NoVersion is a whole media_key directory.       *)
GCState ==
  [pc : GCPc, known : SUBSET Clips, refs : SUBSET (Clips \X Version), k : 1..3,
   targets : SUBSET (Clips \X Version \X Asset),
   srcRefs : SUBSET Nat, names : SUBSET Nat,
   busy : SUBSET Clips, dirs : SUBSET Clips,
   rows : SUBSET [clip : Clips, source : Nat, version : Version]]

IdleGC == [pc |-> "idle", known |-> {}, refs |-> {}, k |-> 1, targets |-> {},
           srcRefs |-> {}, names |-> {}, busy |-> {}, dirs |-> {}, rows |-> {}]

GCTypeOK == TypeOK /\ gc \in GCState

(* Nothing is kept from one pass to the next. *)
Enter(pass) == [IdleGC EXCEPT !.pc = pass]

(* The first selected pass that comes after the first n of the order. *)
PassAfter(n) ==
  LET later == {i \in 1..Len(PassOrder) : i > n /\ PassOrder[i] \in Passes} IN
  IF later = {} THEN "idle" ELSE PassOrder[CHOOSE i \in later : \A j \in later : i <= j]

GCInit == Init /\ gc = IdleGC

StartGC ==
  /\ gc.pc = "idle"
  /\ gc' = Enter(PassAfter(0))
  /\ UNCHANGED vars

-----------------------------------------------------------------------------
(* --orphans: files no row references *)

(* First query: the media keys that have a row. *)
ReadKnown ==
  /\ gc.pc = "orphans"
  /\ gc' = [gc EXCEPT !.pc = "refs", !.known = {c \in Clips : Live(c)}]
  /\ UNCHANGED vars

(* Second query: the derived files the rows reference. *)
ReadReferences ==
  /\ gc.pc = "refs"
  /\ gc' = [gc EXCEPT !.pc = "list",
                      !.refs = {<<c, row[c].version>> : c \in {d \in Clips : Live(d)}}]
  /\ UNCHANGED vars

(* Seeded fault: only directories of unknown keys count as orphans. *)
SectionTargetsUnknownOnly(a) ==
  {<<c, NoVersion, a>> : c \in {d \in Clips \ gc.known : \E f \in derived[d] : f[2] = a}}

(* What to delete in a section: the directory of an unknown key, and of a  *)
(* known key every file that was not referenced, whatever the row's state. *)
SectionTargets(a) ==
  LET Listed(c) == {f \in derived[c] : f[2] = a}
      Unreferenced(c) == {f \in Listed(c) : <<c, f[1]>> \notin gc.refs}
  IN {<<c, NoVersion, a>> : c \in {d \in Clips \ gc.known : Listed(d) # {}}}
       \union UNION {{<<c, f[1], a>> : f \in Unreferenced(c)} : c \in gc.known}

ListSection ==
  /\ gc.pc = "list"
  /\ gc' = [gc EXCEPT !.targets = @ \union SectionTargets(Assets[gc.k]),
                      !.k = IF gc.k = Len(Assets) THEN 1 ELSE @ + 1,
                      !.pc = IF gc.k = Len(Assets) THEN "delete" ELSE @]
  /\ UNCHANGED vars

DeleteTarget ==
  /\ gc.pc = "delete"
  /\ \E t \in gc.targets :
       /\ gc' = [gc EXCEPT !.targets = @ \ {t}]
       /\ derived' = [derived EXCEPT ![t[1]] =
            IF t[2] = NoVersion THEN {f \in @ : f[2] # t[3]} ELSE @ \ {<<t[2], t[3]>>}]
  /\ UNCHANGED <<row, sources, nextSource, tmp, worker, upload, budget>>

(* Third query: the private sources the rows reference. *)
ReadSourceReferences ==
  /\ gc.pc = "delete"
  /\ gc.targets = {}
  /\ gc' = [gc EXCEPT !.pc = "srclist",
                      !.srcRefs = {row[c].source : c \in {d \in Clips : Live(d)}} \ {NoSource}]
  /\ UNCHANGED vars

ListSources ==
  /\ gc.pc = "srclist"
  /\ gc' = [gc EXCEPT !.pc = "srcdelete", !.names = sources \ gc.srcRefs]
  /\ UNCHANGED vars

DeleteSource ==
  /\ gc.pc = "srcdelete"
  /\ \E s \in gc.names :
       /\ gc' = [gc EXCEPT !.names = @ \ {s}]
       /\ sources' = sources \ {s}
  /\ UNCHANGED <<row, nextSource, derived, tmp, worker, upload, budget>>

OrphansDone ==
  /\ gc.pc = "srcdelete"
  /\ gc.names = {}
  /\ gc' = Enter(PassAfter(1))
  /\ UNCHANGED vars

-----------------------------------------------------------------------------
(* --tmp: directories of claims that are not running *)

(* The rows that count as active: processing, and not for too long. *)
ReadBusy ==
  /\ gc.pc = "tmp"
  /\ gc' = [gc EXCEPT !.pc = "tmplist",
                      !.busy = {c \in Clips : row[c].state = "processing" /\ ~row[c].stuck}]
  /\ UNCHANGED vars

ListTmp ==
  /\ gc.pc = "tmplist"
  /\ gc' = [gc EXCEPT !.pc = "tmpdelete", !.dirs = {c \in Clips : tmp[c] # {}} \ gc.busy]
  /\ UNCHANGED vars

(* rmtree of tmp/<media_key>, with whatever it holds by now. *)
DeleteTmp ==
  /\ gc.pc = "tmpdelete"
  /\ \E c \in gc.dirs :
       /\ gc' = [gc EXCEPT !.dirs = @ \ {c}]
       /\ tmp' = [tmp EXCEPT ![c] = {}]
  /\ UNCHANGED <<row, sources, nextSource, derived, worker, upload, budget>>

TmpDone ==
  /\ gc.pc = "tmpdelete"
  /\ gc.dirs = {}
  /\ gc' = Enter(PassAfter(2))
  /\ UNCHANGED vars

-----------------------------------------------------------------------------
(* --retention: private sources of assets that have been ready for long *)

(* Any ready row with a source may have passed the retention period. *)
ReadExpired ==
  /\ gc.pc = "retention"
  /\ \E E \in SUBSET {c \in Clips : row[c].state = "ready" /\ row[c].source # NoSource} :
       gc' = [gc EXCEPT !.pc = "cas",
                        !.rows = {[clip |-> c, source |-> row[c].source,
                                   version |-> row[c].version] : c \in E}]
  /\ UNCHANGED vars

(* Seeded fault: the reference is cleared by primary key alone. *)
UnchangedByKey(r) == row[r.clip].state # "gone"

(* The row is still what the query returned; processed_at identifies the  *)
(* publication, as the version does.                                      *)
Unchanged(r) ==
  /\ row[r.clip].state = "ready"
  /\ row[r.clip].source = r.source
  /\ row[r.clip].version = r.version

(* Clear the reference first, by a conditional UPDATE ... *)
ClearSource ==
  /\ gc.pc = "cas"
  /\ \E r \in gc.rows :
       IF Unchanged(r)
       THEN /\ row' = [row EXCEPT ![r.clip].source = NoSource]
            /\ gc' = [gc EXCEPT !.pc = "unlink", !.rows = @ \ {r}, !.names = {r.source}]
       ELSE /\ gc' = [gc EXCEPT !.rows = @ \ {r}]
            /\ UNCHANGED row
  /\ UNCHANGED <<sources, nextSource, derived, tmp, worker, upload, budget>>

(* ... and only then delete the file, ignoring OSError. *)
DeleteExpired ==
  /\ gc.pc = "unlink"
  /\ \/ sources' = sources \ gc.names /\ UNCHANGED budget
     \/ Spend("fault") /\ UNCHANGED sources
  /\ gc' = [gc EXCEPT !.pc = "cas", !.names = {}]
  /\ UNCHANGED <<row, nextSource, derived, tmp, worker, upload>>

RetentionDone ==
  /\ gc.pc = "cas"
  /\ gc.rows = {}
  /\ gc' = Enter(PassAfter(3))
  /\ UNCHANGED vars

-----------------------------------------------------------------------------
(* The command is killed, or an OSError that no pass catches ends it. *)
CrashGC ==
  /\ gc.pc # "idle"
  /\ Spend("fault")
  /\ gc' = IdleGC
  /\ UNCHANGED <<row, sources, nextSource, derived, tmp, worker, upload>>

GCStep ==
  \/ StartGC
  \/ ReadKnown \/ ReadReferences \/ ListSection \/ DeleteTarget
  \/ ReadSourceReferences \/ ListSources \/ DeleteSource \/ OrphansDone
  \/ ReadBusy \/ ListTmp \/ DeleteTmp \/ TmpDone
  \/ ReadExpired \/ ClearSource \/ DeleteExpired \/ RetentionDone

GCNext == (Next /\ UNCHANGED gc) \/ GCStep \/ CrashGC

GCSpec == GCInit /\ [][GCNext]_gcVars

(* The command is run by a scheduler, over and over. *)
FairGCSpec ==
  /\ GCSpec
  /\ WF_gcVars(GCStep)
  /\ \A w \in Workers : WF_gcVars(WorkerStep(w) /\ UNCHANGED gc)
  /\ \A c \in Clips :
       /\ WF_gcVars((\E w \in Workers : Claim(w, c)) /\ UNCHANGED gc)
       /\ WF_gcVars(ResetStuck(c) /\ UNCHANGED gc)
       /\ WF_gcVars(ClaimAges(c) /\ (~\E w \in Workers : HoldsClaim(w, c)) /\ UNCHANGED gc)

-----------------------------------------------------------------------------
(* Properties *)

(* What crashes, failed deletes and deleted clips leave behind is reclaimed: *)
(* again and again the storages hold nothing but what live rows reference.   *)
LeftoversCollected ==
  []<>(/\ \A c \in Clips :
            /\ tmp[c] = {}
            /\ \A f \in derived[c] : Live(c) /\ f[1] = row[c].version
       /\ \A s \in sources : \E c \in Clips : Live(c) /\ row[c].source = s)

(* boards/models.py, SkateClipMedia: a row becomes ready only when all three *)
(* derived resources are on disk.                                            *)
ReadyOnlyWithAssets ==
  [][\A c \in Clips :
       row[c].state # "ready" /\ row'[c].state = "ready"
         => Files(row'[c].version) \subseteq derived[c]]_gcVars
=============================================================================
