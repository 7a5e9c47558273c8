---------------------------- MODULE SkateMediaInv ----------------------------
(***************************************************************************)
(* The inductive invariants behind the safety properties of SkateMedia.    *)
(* ClaimInv is about claims, versions and published files; SourceInv is    *)
(* about private sources; neither needs the other.  LeakInv, about what    *)
(* is left behind, rests on both.                                          *)
(***************************************************************************)
EXTENDS SkateMedia

Active(w) == worker[w].pc # "idle"

(* The claim may still publish: its version is referenced by nobody yet. *)
Working(w) == worker[w].pc \in {"start", "derive", "publish", "unpublish", "finish"}

SameClip(v, w) == worker[v].clip = worker[w].clip

(* Generations order the claims on a row; a current claim still sees the   *)
(* source and the version it read, and has not superseded a version.       *)
ClaimOrder ==
  \A w \in Workers : Active(w) =>
    LET r == row[worker[w].clip] IN
    /\ worker[w].gen \in 1..r.gen
    /\ worker[w].old.gen < worker[w].gen
    /\ ClaimIsCurrent(w) => /\ Working(w) \/ worker[w].pc \in {"fail", "tmp"}
                            /\ worker[w].source = r.source
                            /\ worker[w].old = r.version
    /\ Working(w) => r.version.gen # worker[w].gen

(* What a worker is about to delete is neither referenced nor being         *)
(* published by another worker.                                             *)
DoomedUnreferenced ==
  \A w \in Workers :
    /\ worker[w].pc \notin {"unpublish", "clean"} => worker[w].doomed = {}
    /\ Active(w) => \A f \in worker[w].doomed :
         /\ f[1].gen <= worker[w].gen
         /\ f[1].gen # row[worker[w].clip].version.gen
         /\ \A v \in Workers : v # w /\ Working(v) /\ SameClip(v, w) => f[1].gen # worker[v].gen

(* What a worker has moved into place so far is there. *)
PublishedSoFar ==
  \A w \in Workers :
    /\ worker[w].pc = "publish" =>
         /\ worker[w].k \in 1..3
         /\ \A i \in 1..(worker[w].k - 1) :
              <<OwnVersion(w), Assets[i]>> \in derived[worker[w].clip]
    /\ worker[w].pc = "finish" => Files(OwnVersion(w)) \subseteq derived[worker[w].clip]

VersionsComplete ==
  \A c \in Clips :
    /\ row[c].version.gen <= row[c].gen
    /\ row[c].version # NoVersion => Files(row[c].version) \subseteq derived[c]

ClaimInv ==
  /\ ClaimOrder
  /\ OneWorkerPerClaim
  /\ DoomedUnreferenced
  /\ PublishedSoFar
  /\ VersionsComplete
  /\ ReadyShowsCurrentSource

(* Source names are handed out once, within the budget of requests. *)
NamesFresh ==
  /\ nextSource + budget["request"] <= Budget["request"] + 1
  /\ \A c \in Clips : row[c].source < nextSource /\ row[c].version.from < nextSource
  /\ \A w \in Workers : worker[w].source < nextSource
  /\ \A u \in Uploaders : upload[u].name < nextSource /\ upload[u].old < nextSource

RowSourcesDistinct ==
  \A c, d \in Clips : c # d /\ row[c].source # NoSource => row[c].source # row[d].source

(* A stored file that is not attached yet belongs to its request alone. *)
PendingUnattached ==
  \A u \in Uploaders : upload[u].pc = "saved" =>
    /\ upload[u].name \in sources
    /\ upload[u].name # NoSource
    /\ \A c \in Clips : upload[u].name \notin {row[c].source, row[c].version.from}
    /\ \A w \in Workers : worker[w].source # upload[u].name
    /\ \A t \in Uploaders : t # u /\ upload[t].pc = "saved" => upload[t].name # upload[u].name

(* A replaced file is no row's source and no pending upload. *)
ReplacedUnattached ==
  \A u \in Uploaders : upload[u].pc = "replace" /\ upload[u].old # NoSource =>
    /\ \A c \in Clips : row[c].source # upload[u].old
    /\ \A t \in Uploaders : upload[t].pc = "saved" => upload[t].name # upload[u].old

SourceInv ==
  /\ NamesFresh
  /\ RowSourcesDistinct
  /\ PendingUnattached
  /\ ReplacedUnattached
  /\ SourceStored

NoFault == budget["fault"] = Budget["fault"]

(* w still has file f of clip c in hand: it is publishing it, or it will    *)
(* delete it.                                                               *)
InHand(w, c, f) ==
  /\ Active(w) /\ worker[w].clip = c
  /\ \/ worker[w].pc \in {"publish", "finish"} /\ f[1] = OwnVersion(w)
     \/ f \in worker[w].doomed

FilesAccounted ==
  \A c \in Clips : \A f \in derived[c] :
    \/ row[c].version # NoVersion /\ f[1] = row[c].version
    \/ \E w \in Workers : InHand(w, c, f)

TmpAccounted ==
  \A c \in Clips : \A g \in tmp[c] :
    \E w \in Workers : Active(w) /\ worker[w].clip = c /\ worker[w].gen = g

(* Request u still has the stored file s in hand. *)
Pending(u, s) ==
  \/ upload[u].pc = "saved" /\ upload[u].name = s
  \/ upload[u].pc = "replace" /\ upload[u].old = s

SourcesAccounted ==
  /\ NoSource \notin sources
  /\ \A u \in Uploaders : upload[u].pc = "replace" => upload[u].old # upload[u].name
  /\ \A s \in sources : \/ \E c \in Clips : row[c].source = s
                        \/ \E u \in Uploaders : Pending(u, s)

(* As long as nothing was killed and nothing failed, everything in the      *)
(* storages belongs to a row or to a process that still has it in hand.     *)
LeakInv ==
  /\ budget["fault"] <= Budget["fault"]
  /\ NoFault => FilesAccounted /\ TmpAccounted /\ SourcesAccounted
=============================================================================
