-------------------------- MODULE AuditVerification --------------------------
(***************************************************************************)
(* The commands that look after the chain while AuditDelivery goes on:     *)
(* audit_log_integrity --mongo --checkpoint scans a partition, compares it *)
(* with the latest signed checkpoint and with the head, and stores a new   *)
(* checkpoint; reconcile_audit_outbox compares delivered rows with the     *)
(* chain.  Between runs MongoDB may be restored from a backup, with the    *)
(* workers stopped: every partition loses a tail.                          *)
(*                                                                         *)
(* Every key that ever signed stays in its keyring, so that a signature is *)
(* genuine; the key new checkpoints are signed with may change.  The other *)
(* scopes of the command (--outbox, --legacy-postgres) are not modelled.   *)
(***************************************************************************)
EXTENDS AuditDelivery, AuditChain

CONSTANTS
  ScanLimit,       \* --limit of audit_log_integrity
  ReconcileLimit   \* --limit of reconcile_audit_outbox

ASSUME VerificationAssumption ==
  ScanLimit \in Nat \ {0} /\ ReconcileLimit \in Nat \ {0}

VARIABLES
  checkpoints,  \* the AuditCheckpoint rows
  audit,        \* the running verification and its AuditVerificationRun row
  activeKey,    \* the key that signs new checkpoints
  report        \* what the last reconciliation found

verificationVars == <<outbox, docs, heads, macs, worker, budget, checkpoints, audit,
                      activeKey, report>>

Checkpoint == [partition : Partitions, sequence : Nat \ {0}, mac : Nat]

Failures == {"none", "chain", "head", "limit", "checkpoint", "killed"}

Audit == [pc : {"idle", "scan", "head"}, partition : Partitions,
          against : Checkpoint \union {NoCheckpoint}, last : Nat, scanned : Nat,
          status : {"none", "running", "passed", "failed"}, failure : Failures]

VerificationTypeOK ==
  /\ TypeOK
  /\ checkpoints \in SUBSET [at : Checkpoint, key : Nat]
  /\ activeKey \in Nat
  /\ audit \in Audit
  /\ report \in {"none", "healthy", "unhealthy"}

VerificationInit ==
  /\ Init
  /\ checkpoints = {}
  /\ audit = [pc |-> "idle", partition |-> CHOOSE p \in Partitions : TRUE,
              against |-> NoCheckpoint, last |-> 0, scanned |-> 0,
              status |-> "none", failure |-> "none"]
  /\ activeKey = 1
  /\ report = "none"

-----------------------------------------------------------------------------
(* audit_log_integrity --mongo --partition p --checkpoint *)

CheckpointsOf(p) == {c.at : c \in {b \in checkpoints : b.at.partition = p}}

(* Seeded fault: the oldest checkpoint is compared with. *)
LatestOldest(p) ==
  IF CheckpointsOf(p) = {} THEN NoCheckpoint
  ELSE CHOOSE c \in CheckpointsOf(p) : \A b \in CheckpointsOf(p) : c.sequence <= b.sequence

Latest(p) ==
  IF CheckpointsOf(p) = {} THEN NoCheckpoint
  ELSE CHOOSE c \in CheckpointsOf(p) : \A b \in CheckpointsOf(p) : b.sequence <= c.sequence

(* The run is recorded as running and the latest checkpoint is loaded. *)
StartAudit(p) ==
  /\ audit.pc = "idle"
  /\ audit' = [audit EXCEPT !.pc = "scan", !.partition = p, !.against = Latest(p),
                            !.last = 0, !.scanned = 0,
                            !.status = "running", !.failure = "none"]
  /\ UNCHANGED <<checkpoints, activeKey, report>> /\ UNCHANGED vars

(* The first ScanLimit documents of the partition by sequence. *)
Scanned(p) ==
  LET Place(d) == Cardinality({c \in PartitionDocs(p) : c.sequence < d.sequence}) + 1
      n == Cardinality(PartitionDocs(p))
  IN [i \in 1..(IF n < ScanLimit THEN n ELSE ScanLimit) |->
        CHOOSE d \in PartitionDocs(p) : Place(d) = i]

Fail(reason) == [audit EXCEPT !.pc = "idle", !.status = "failed", !.failure = reason]

Against == audit.against

ScanPartition ==
  LET s == Scanned(audit.partition) IN
  /\ audit.pc = "scan"
  /\ audit' = IF ChainErrors(s, Against, {}) = {}
              THEN [audit EXCEPT !.pc = "head", !.last = LastSequence(s), !.scanned = Len(s)]
              ELSE Fail("chain")
  /\ UNCHANGED <<checkpoints, activeKey, report>> /\ UNCHANGED vars

(* Seeded fault: the checkpoint is compared by sequence only. *)
BoundElsewhereNever(c) == FALSE

(* create_signed: the sequence already has a checkpoint with another MAC,  *)
(* or signed with another key.                                             *)
BoundElsewhere(c) ==
  \E b \in checkpoints :
    /\ b.at.partition = c.partition /\ b.at.sequence = c.sequence
    /\ b # [at |-> c, key |-> activeKey]

(* A second query reads the head; a checkpoint is taken from it.  The run  *)
(* fails if the head is elsewhere than the scan ended.                     *)
CompareHead ==
  LET p == audit.partition
      c == [partition |-> p, sequence |-> heads[p].sequence, mac |-> heads[p].mac]
      Passed == [audit EXCEPT !.pc = "idle", !.status = "passed"]
  IN
  /\ audit.pc = "head"
  /\ \/ /\ audit.last > 0 /\ heads[p] = NoHead
        /\ audit' = Fail("head") /\ UNCHANGED checkpoints
     \/ /\ heads[p] # NoHead /\ audit.last # heads[p].sequence
        /\ audit' = Fail("limit") /\ UNCHANGED checkpoints
     \/ /\ audit.last = 0 /\ heads[p] = NoHead
        /\ audit' = Passed /\ UNCHANGED checkpoints
     \/ /\ heads[p] # NoHead /\ audit.last = heads[p].sequence
        /\ \/ /\ ~BoundElsewhere(c)
              /\ audit' = Passed
              /\ checkpoints' = checkpoints \union {[at |-> c, key |-> activeKey]}
           \/ BoundElsewhere(c) /\ audit' = Fail("checkpoint") /\ UNCHANGED checkpoints
  /\ UNCHANGED <<activeKey, report>> /\ UNCHANGED vars

(* The command is killed: its AuditVerificationRun row stays "running". *)
CrashAudit ==
  /\ audit.pc # "idle"
  /\ Spend("crash")
  /\ audit' = [audit EXCEPT !.pc = "idle", !.failure = "killed"]
  /\ UNCHANGED <<outbox, docs, heads, macs, worker, checkpoints, activeKey, report>>

(* Another key becomes the active one; the old one still verifies. *)
RotateKey ==
  /\ Spend("rotate")
  /\ activeKey' = activeKey + 1
  /\ UNCHANGED <<outbox, docs, heads, macs, worker, checkpoints, audit, report>>

-----------------------------------------------------------------------------
(* reconcile_audit_outbox *)

Delivered == {e \in Events : outbox[e].status = "delivered"}

(* The delivered rows that are looked at: the first by primary key. *)
Reconciled ==
  {e \in Delivered :
     Cardinality({f \in Delivered : outbox[f].rank <= outbox[e].rank}) <= ReconcileLimit}

(* Seeded fault: a row without a document is passed over. *)
ReceiptMatchesIfAny(e) ==
  \A d \in docs : d.event = e => d.sequence = outbox[e].sequence /\ d.mac = outbox[e].mac

ReceiptMatches(e) ==
  \E d \in docs : /\ d.event = e
                  /\ d.partition = PartitionOf[e]
                  /\ d.sequence = outbox[e].sequence
                  /\ d.mac = outbox[e].mac

Reconcile ==
  /\ report' = IF \A e \in Reconciled : ReceiptMatches(e) THEN "healthy" ELSE "unhealthy"
  /\ UNCHANGED <<checkpoints, audit, activeKey>> /\ UNCHANGED vars

-----------------------------------------------------------------------------
(* MongoDB comes back as it was when partition p had n documents. *)
Restore(p, n) ==
  /\ n < heads[p].sequence
  /\ \A w \in Workers : worker[w].pc = "idle"
  /\ audit.pc = "idle"
  /\ Spend("restore")
  /\ docs' = {d \in docs : d.partition = p => d.sequence <= n}
  /\ heads' = [heads EXCEPT ![p] =
       IF n = 0 THEN NoHead
       ELSE [sequence |-> n,
             mac |-> (CHOOSE d \in PartitionDocs(p) : d.sequence = n).mac]]
  /\ UNCHANGED <<outbox, macs, worker, checkpoints, audit, activeKey, report>>

-----------------------------------------------------------------------------
AuditStep == (\E p \in Partitions : StartAudit(p)) \/ ScanPartition \/ CompareHead

VerificationNext ==
  \/ Next /\ UNCHANGED <<checkpoints, audit, activeKey, report>>
  \/ AuditStep \/ CrashAudit \/ RotateKey
  \/ Reconcile
  \/ \E p \in Partitions : \E n \in 0..heads[p].sequence : Restore(p, n)

VerificationSpec == VerificationInit /\ [][VerificationNext]_verificationVars

(* Workers, verification and reconciliation are all run on a schedule. *)
FairVerificationSpec ==
  /\ VerificationSpec
  /\ WF_verificationVars(AuditStep)
  /\ WF_verificationVars(Reconcile)
  /\ \A w \in Workers : WF_verificationVars(WorkerStep(w)
                                             /\ UNCHANGED <<checkpoints, audit, activeKey, report>>)

-----------------------------------------------------------------------------
(* Properties *)

Contains(c) ==
  \E d \in docs : d.partition = c.partition /\ d.sequence = c.sequence /\ d.mac = c.mac

(* security/THREAT_MODEL.md, checkpoints against a cut tail: a verification  *)
(* passes only while the chain contains everything that any checkpoint of    *)
(* the partition has ever witnessed, also when the partition has grown past  *)
(* that place again since.                                                   *)
PassedContainsCheckpoints ==
  [][audit.status # "passed" /\ audit'.status = "passed"
       => \A c \in CheckpointsOf(audit.partition) : Contains(c)]_verificationVars

(* security/models.py, AuditCheckpoint: checkpoints of a partition follow    *)
(* one another along one chain: a later one witnesses a chain that contains  *)
(* every earlier one, and no sequence number has two.                        *)
CheckpointsFollow ==
  [][\A c \in checkpoints' \ checkpoints :
       /\ Contains(c.at)
       /\ \A b \in checkpoints : b.at.partition = c.at.partition =>
            b.at.sequence < c.at.sequence /\ Contains(b.at)]_verificationVars

(* audit_log_integrity and reconcile_audit_outbox: while MongoDB has lost    *)
(* nothing, neither command reports a loss, whatever workers do meanwhile.   *)
NoFalseAlarm ==
  budget["restore"] = Budget["restore"] =>
    audit.failure \notin {"chain", "head"} /\ report # "unhealthy"

Lost(e) == outbox[e].status = "delivered" /\ ~\E d \in docs : d.event = e

(* reconcile_audit_outbox: a loss among the rows a reconciliation looks at   *)
(* is reported, and not only once.                                           *)
LossAmongReconciledReported ==
  \A e \in Events :
    [](e \in Reconciled /\ Lost(e)) ~> [](report = "unhealthy")
=============================================================================
