----------------------------- MODULE ClipForms -----------------------------
(***************************************************************************)
(* The forms by which managers make, change and delete skateboard clips,   *)
(* each save optionally with an original to process.  A request is several *)
(* database calls: the clip and its media are looked at, the whole row is  *)
(* written, the original is stored, probed and attached (or an existing    *)
(* one is queued again), and after a refusal the clip is made private.     *)
(* Requests overlap and may die between any two calls.                     *)
(*                                                                         *)
(* Abstractions.  Of the media only what the forms ask for: whether there  *)
(* is a row, a source and assets; the pipeline is SkateMedia's.  `by'      *)
(* records how a clip came to be as it is.                                 *)
(***************************************************************************)
EXTENDS Integers, FiniteSets

CONSTANTS
  ClipIds,       \* clips
  Managers,      \* managers, one request each at a time
  MaxClipPosts   \* bound on the requests

NoClip == [exists |-> FALSE, public |-> FALSE, url |-> FALSE, by |-> "choice"]
NoMedia == [exists |-> FALSE, source |-> FALSE, ready |-> FALSE]
NoPost == [pc |-> "idle"]

VARIABLES
  clip,    \* the SkateClip rows
  media,   \* their SkateClipMedia rows
  post,    \* the request of each manager
  posts    \* requests left

clipForms == <<clip, media, post, posts>>

ClipInit ==
  /\ clip = [c \in ClipIds |-> NoClip]
  /\ media = [c \in ClipIds |-> NoMedia]
  /\ post = [m \in Managers |-> NoPost]
  /\ posts = MaxClipPosts

Submitting(m) == post[m].pc = "idle" /\ posts > 0 /\ posts' = posts - 1

-----------------------------------------------------------------------------
(* SkateClipCreateView, SkateClipUpdateView *)

(* A key is never given twice. *)
Unused(c) == clip[c] = NoClip

Entered == [public : BOOLEAN, url : BOOLEAN, process : BOOLEAN, source : BOOLEAN,
            confirm : BOOLEAN]

(* A source counts only where processing was asked for; without one there  *)
(* must be one already, and a second one only replaces it on confirmation. *)
Admissible(c, creating, e) ==
  LET known == IF creating THEN NoMedia ELSE media[c] IN
  e.process =>
    /\ e.source \/ known.source
    /\ e.source /\ known.exists => e.confirm

(* Form and media are looked at. *)
PostClip(m, c, e) ==
  /\ Submitting(m)
  /\ clip[c].exists \/ Unused(c)
  /\ Admissible(c, ~clip[c].exists, e)
  /\ post' = [post EXCEPT ![m] =
       [pc |-> "save", clip |-> c, creating |-> ~clip[c].exists, public |-> e.public,
        url |-> e.url, process |-> e.process, source |-> e.process /\ e.source]]
  /\ UNCHANGED <<clip, media>>

(* The whole row is written, and inserted again if it was deleted meanwhile. *)
SaveClip(m) ==
  LET p == post[m] IN
  /\ p.pc = "save"
  /\ p.creating => Unused(p.clip)
  /\ clip' = [clip EXCEPT ![p.clip] =
       [exists |-> TRUE, public |-> p.public, url |-> p.url,
        by |-> IF ~p.creating /\ ~clip[p.clip].exists THEN "revival"
               ELSE IF p.process THEN "request" ELSE "choice"]]
  /\ post' = [post EXCEPT ![m] = IF p.process THEN [p EXCEPT !.pc = "media"] ELSE NoPost]
  /\ UNCHANGED <<media, posts>>

(* ingest_skate_source: stored, probed and attached; the assets of the old *)
(* source stay on the row until the worker replaces them.                  *)
Ingested(c) == [media EXCEPT ![c] = [exists |-> TRUE, source |-> TRUE, ready |-> @.ready]]

Ingest(m) ==
  LET p == post[m] IN
  /\ p.pc = "media" /\ p.source
  /\ clip[p.clip].exists
  /\ media' = Ingested(p.clip)
  /\ post' = [post EXCEPT ![m] = NoPost]
  /\ UNCHANGED <<clip, posts>>

(* The probe refuses it. *)
RejectIngest(m) ==
  LET p == post[m] IN
  /\ p.pc = "media" /\ p.source
  /\ post' = [post EXCEPT ![m].pc = "hide"]
  /\ UNCHANGED <<clip, media, posts>>

(* Seeded fault: a clip is made private only where the refused original was its first. *)
HideUnchecked(m) ==
  LET p == post[m] IN
  /\ p.pc = "hide"
  /\ clip' = [clip EXCEPT ![p.clip].public = @ /\ ~p.creating]
  /\ post' = [post EXCEPT ![m] = NoPost]
  /\ UNCHANGED <<media, posts>>

(* A private draft rather than a public place without anything to show, as *)
(* far as the request knows: its own public and url.  No row, no update.   *)
HideClip(m) ==
  LET p == post[m]
      hide == p.public /\ ~p.url /\ clip[p.clip].exists
  IN
  /\ p.pc = "hide"
  /\ clip' = [clip EXCEPT ![p.clip].public = @ /\ ~hide]
  /\ post' = [post EXCEPT ![m] = NoPost]
  /\ UNCHANGED <<media, posts>>

(* requeue_existing_skate_source: queued again, or refused without effect. *)
RequeueSource(m) ==
  LET p == post[m] IN
  /\ p.pc = "media" /\ ~p.source
  /\ post' = [post EXCEPT ![m] = NoPost]
  /\ UNCHANGED <<clip, media, posts>>

(* The connection, the database or the process fails. *)
PostDies(m) ==
  /\ post[m].pc # "idle"
  /\ clip' = IF post[m].pc \in {"media", "hide"} /\ clip[post[m].clip].exists
               THEN [clip EXCEPT ![post[m].clip].by = "death"] ELSE clip
  /\ post' = [post EXCEPT ![m] = NoPost]
  /\ UNCHANGED <<media, posts>>

-----------------------------------------------------------------------------
(* The other doors *)

(* SkateClipMediaUploadView: the clip stays as it is. *)
UploadMedia(m, c, confirm) ==
  /\ Submitting(m)
  /\ clip[c].exists
  /\ media[c].exists => confirm
  /\ media' = Ingested(c)
  /\ UNCHANGED <<clip, post>>

(* CASCADE: the media goes with its clip. *)
DeleteClipRow(m, c) ==
  /\ Submitting(m)
  /\ clip[c].exists
  /\ clip' = [clip EXCEPT ![c] = [NoClip EXCEPT !.by = "deleted"]]
  /\ media' = [media EXCEPT ![c] = NoMedia]
  /\ UNCHANGED post

(* SkateClipAdmin: any values, no original. *)
AdminSaveClip(m, c, public, url) ==
  /\ Submitting(m)
  /\ clip[c].exists \/ Unused(c)
  /\ clip' = [clip EXCEPT ![c] = [exists |-> TRUE, public |-> public, url |-> url, by |-> "choice"]]
  /\ UNCHANGED <<media, post>>

(* The pipeline finishes, and retention may then take the source away. *)
MediaReady(c) ==
  /\ media[c].source /\ ~media[c].ready
  /\ media' = [media EXCEPT ![c].ready = TRUE]
  /\ UNCHANGED <<clip, post, posts>>

SourceRetired(c) ==
  /\ media[c].source /\ media[c].ready
  /\ media' = [media EXCEPT ![c].source = FALSE]
  /\ UNCHANGED <<clip, post, posts>>

ClipSteps ==
  \/ \E m \in Managers :
       \/ \E c \in ClipIds :
            \/ \E e \in Entered : PostClip(m, c, e)
            \/ \E confirm \in BOOLEAN : UploadMedia(m, c, confirm)
            \/ DeleteClipRow(m, c)
            \/ \E public \in BOOLEAN, url \in BOOLEAN : AdminSaveClip(m, c, public, url)
       \/ SaveClip(m) \/ Ingest(m) \/ RejectIngest(m) \/ HideClip(m) \/ RequeueSource(m)
       \/ PostDies(m)
  \/ \E c \in ClipIds : MediaReady(c) \/ SourceRetired(c)

-----------------------------------------------------------------------------
(* Properties *)

Bare(c) == clip[c].exists /\ clip[c].public /\ ~clip[c].url /\ ~media[c].exists

UnderWay(c) == \E m \in Managers : post[m].pc \in {"media", "hide"} /\ post[m].clip = c

(* boards/content_views.py, the comment at the refusal: a clip without     *)
(* media and link is public only by somebody's plain choice, while (or     *)
(* because) a request that brings an original is unfinished, or because an *)
(* old form wrote a deleted clip back.                                     *)
BareByChoice ==
  \A c \in ClipIds : Bare(c) => clip[c].by \in {"choice", "death", "revival"} \/ UnderWay(c)
=============================================================================
