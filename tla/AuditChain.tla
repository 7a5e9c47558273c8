----------------------------- MODULE AuditChain -----------------------------
(***************************************************************************)
(* verify_chain: the errors found in the documents a cursor yields, in     *)
(* this order, optionally against a checkpoint.  The code walks the        *)
(* documents once, carrying the previous sequence and MAC; here both are   *)
(* read off the preceding position.  Valid(d) is verify_document: the MAC  *)
(* of d fits its content.  A sequence number is always an integer here, as *)
(* insert_event writes it.                                                 *)
(***************************************************************************)
EXTENDS Naturals, Sequences

NoPrevious == 0
NoCheckpoint == [partition |-> "none", sequence |-> 0, mac |-> NoPrevious]

PreviousSequence(s, i) == IF i = 1 THEN 0 ELSE s[i - 1].sequence

PreviousMac(s, i) == IF i = 1 THEN NoPrevious ELSE s[i - 1].mac

LastSequence(s) == PreviousSequence(s, Len(s) + 1)

(* Seeded fault: documents are only counted. *)
LinkErrorsBySequence(s, i) ==
  {e \in {"sequence_gap"} : s[i].sequence # PreviousSequence(s, i) + 1}

LinkErrors(s, i) ==
  {e \in {"partition_mismatch", "sequence_gap", "sequence_mismatch", "previous_mac_mismatch"} :
     \/ e = "partition_mismatch" /\ s[i].partition # s[1].partition
     \/ e = "sequence_gap" /\ s[i].sequence > PreviousSequence(s, i) + 1
     \/ e = "sequence_mismatch" /\ s[i].sequence <= PreviousSequence(s, i)
     \/ e = "previous_mac_mismatch" /\ s[i].previous # PreviousMac(s, i)}

(* The MAC compared with the checkpoint is the one seen last at its place. *)
CheckpointErrors(s, c) ==
  LET At == {i \in 1..Len(s) : s[i].sequence = c.sequence}
      Observed == CHOOSE i \in At : \A j \in At : j <= i
  IN {e \in {"checkpoint_partition_mismatch", "tail_truncated",
             "checkpoint_sequence_missing", "checkpoint_mac_mismatch"} :
        \/ /\ e = "checkpoint_partition_mismatch"
           /\ s = <<>> \/ s[1].partition # c.partition
        \/ e = "tail_truncated" /\ c.sequence > LastSequence(s)
        \/ e = "checkpoint_sequence_missing" /\ c.sequence <= LastSequence(s) /\ At = {}
        \/ /\ e = "checkpoint_mac_mismatch"
           /\ c.sequence <= LastSequence(s)
           /\ At # {}
           /\ s[Observed].mac # c.mac}

(* altered: the documents whose HMAC does not verify. *)
ChainErrors(s, c, altered) ==
  (UNION {LinkErrors(s, i) : i \in 1..Len(s)})
    \union {"mac_mismatch" : i \in {j \in 1..Len(s) : s[j] \in altered}}
    \union IF c = NoCheckpoint THEN {} ELSE CheckpointErrors(s, c)
=============================================================================
