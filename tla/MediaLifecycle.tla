--------------------------- MODULE MediaLifecycle ---------------------------
(***************************************************************************)
(* What the skate clip pipeline promises to a visitor and to the manager   *)
(* who uploads: one asset per clip, a queue state, the private source that *)
(* is current, and the source the published assets were derived from.     *)
(* Workers, files, claims and crashes are invisible here.  The promise is  *)
(* that an asset becomes "ready" only with output of the source that is    *)
(* current at that moment, and that replacing the source takes the asset   *)
(* out of "ready" in the same step.                                        *)
(***************************************************************************)
CONSTANTS
  Clips,    \* the clips that may own an asset
  Sources,  \* the identities private sources can have
  NoSource  \* the mark of an asset without one

VARIABLES
  phase,    \* phase[c]: the state the clip's asset is in
  source,   \* source[c]: the identity of the current private source
  shown     \* shown[c]: the source the referenced output was derived from

vars == <<phase, source, shown>>

Live(c) == phase[c] \notin {"absent", "gone"}

Init ==
  /\ phase = [c \in Clips |-> "absent"]
  /\ source = [c \in Clips |-> NoSource]
  /\ shown = [c \in Clips |-> NoSource]

(* A new private source replaces whatever the clip had. *)
Upload(c, s) ==
  /\ phase[c] # "gone"
  /\ \A d \in Clips : source[d] # s /\ shown[d] # s
  /\ phase' = [phase EXCEPT ![c] = "uploaded"]
  /\ source' = [source EXCEPT ![c] = s]
  /\ UNCHANGED shown

(* A manager asks for the current source to be processed again. *)
Requeue(c) ==
  /\ Live(c)
  /\ source[c] # NoSource
  /\ phase' = [phase EXCEPT ![c] = "uploaded"]
  /\ UNCHANGED <<source, shown>>

Start(c) ==
  /\ phase[c] = "uploaded"
  /\ phase' = [phase EXCEPT ![c] = "processing"]
  /\ UNCHANGED <<source, shown>>

(* A processing attempt that never reported back is taken back. *)
Retry(c) ==
  /\ phase[c] = "processing"
  /\ phase' = [phase EXCEPT ![c] = "uploaded"]
  /\ UNCHANGED <<source, shown>>

Complete(c) ==
  /\ phase[c] = "processing"
  /\ phase' = [phase EXCEPT ![c] = "ready"]
  /\ shown' = [shown EXCEPT ![c] = source[c]]
  /\ UNCHANGED source

Fail(c) ==
  /\ phase[c] = "processing"
  /\ phase' = [phase EXCEPT ![c] = "failed"]
  /\ UNCHANGED <<source, shown>>

(* Retention drops the private source of a ready asset, never its output. *)
Expire(c) ==
  /\ phase[c] = "ready"
  /\ source[c] # NoSource
  /\ source' = [source EXCEPT ![c] = NoSource]
  /\ UNCHANGED <<phase, shown>>

Delete(c) ==
  /\ phase[c] # "gone"
  /\ phase' = [phase EXCEPT ![c] = "gone"]
  /\ UNCHANGED <<source, shown>>

Next ==
  \E c \in Clips :
    \/ \E s \in Sources : Upload(c, s)
    \/ Requeue(c) \/ Start(c) \/ Retry(c)
    \/ Complete(c) \/ Fail(c) \/ Expire(c) \/ Delete(c)

Spec == Init /\ [][Next]_vars
=============================================================================
