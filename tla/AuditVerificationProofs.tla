------------------------ MODULE AuditVerificationProofs ------------------------
(***************************************************************************)
(* A verification passes only while everything a checkpoint has witnessed  *)
(* is there, checkpoints follow one another along one chain, and neither   *)
(* command reports a loss that has not happened: for any number of events, *)
(* partitions, workers and restored backups, and any limits.               *)
(***************************************************************************)
EXTENDS AuditVerification, AuditDeliveryProofs, SequenceTheorems

USE AuditAssumption, VerificationAssumption

-----------------------------------------------------------------------------
(* What a scan sees *)

(* What the chain is for a scan. *)
LEMMA PlacesOfChain ==
  ASSUME TypeOK, ChainInv, NEW p \in Partitions
  PROVE  /\ heads[p].sequence \in Nat /\ heads[p].mac \in Nat
         /\ \A i \in 1..heads[p].sequence : \E d \in PartitionDocs(p) : d.sequence = i
         /\ \A d \in PartitionDocs(p) :
              /\ d \in docs /\ d \in Document /\ d.partition = p
              /\ d.sequence \in 1..heads[p].sequence /\ d.mac \in Nat
              /\ d.sequence = heads[p].sequence => d.mac = heads[p].mac
              /\ d.sequence = 1 => d.previous = NoMac
         /\ \A c, d \in PartitionDocs(p) : c.sequence = d.sequence => c = d
         /\ \A c, d \in PartitionDocs(p) : c.sequence = d.sequence - 1 => d.previous = c.mac
<1>1. heads[p].sequence \in Nat /\ heads[p].mac \in Nat
  BY DEF TypeOK, ChainHead
<1>2. \A i \in 1..heads[p].sequence : \E d \in PartitionDocs(p) : d.sequence = i
  BY DEF ChainInv, ChainIntact, PartitionDocs
<1>3. ASSUME NEW d \in PartitionDocs(p)
      PROVE  /\ d \in docs /\ d \in Document /\ d.partition = p
             /\ d.sequence \in 1..heads[p].sequence /\ d.mac \in Nat
             /\ d.sequence = heads[p].sequence => d.mac = heads[p].mac
             /\ d.sequence = 1 => d.previous = NoMac
  <2>1. d \in docs /\ d \in Document /\ d.partition = p
    BY DEF PartitionDocs, TypeOK
  <2>2. d.sequence \in Nat \ {0} /\ d.mac \in Nat
    BY <2>1 DEF Document
  <2>3. /\ d.sequence <= heads[p].sequence
        /\ d.sequence = heads[p].sequence => d.mac = heads[p].mac
        /\ d.sequence = 1 => d.previous = NoMac
    BY <2>1 DEF ChainInv, ChainIntact
  <2>. QED  BY <1>1, <2>1, <2>2, <2>3
<1>4. \A c, d \in PartitionDocs(p) : c.sequence = d.sequence => c = d
  BY DEF ChainInv, ChainIntact, PartitionDocs
<1>5. \A c, d \in PartitionDocs(p) : c.sequence = d.sequence - 1 => d.previous = c.mac
  BY DEF ChainInv, ChainIntact, PartitionDocs, Before
<1>. QED  BY <1>1, <1>2, <1>3, <1>4, <1>5

(* The first k places of a chain are k documents. *)
LEMMA PlacesCounted ==
  ASSUME TypeOK, ChainInv, NEW p \in Partitions, NEW k \in 0..heads[p].sequence
  PROVE  Cardinality({c \in PartitionDocs(p) : c.sequence <= k}) = k
<1>. DEFINE B == {c \in PartitionDocs(p) : c.sequence <= k}
            f == [i \in 1..k |-> CHOOSE d \in B : d.sequence = i]
<1>1. k \in Nat /\ k <= heads[p].sequence /\ heads[p].sequence \in Nat
  BY PlacesOfChain
<1>2. ASSUME NEW i \in 1..k PROVE f[i] \in B /\ f[i].sequence = i
  <2>1. \E d \in B : d.sequence = i
    BY <1>1, PlacesOfChain
  <2>. QED  BY <2>1
<1>3. f \in [1..k -> B]
  BY <1>2
<1>4. \A i, j \in 1..k : f[i] = f[j] => i = j
  BY <1>2
<1>5. \A d \in B : \E i \in 1..k : f[i] = d
  <2>. SUFFICES ASSUME NEW d \in B PROVE \E i \in 1..k : f[i] = d
    OBVIOUS
  <2>1. d.sequence \in 1..k
    BY <1>1, PlacesOfChain
  <2>2. f[d.sequence] = d
    BY <1>2, <2>1, PlacesOfChain
  <2>. QED  BY <2>1, <2>2
<1>. HIDE DEF f, B
<1>6. f \in Bijection(1..k, B)
  BY <1>3, <1>4, <1>5 DEF Bijection, Injection, Surjection, IsInjective
<1>7. ExistsBijection(1..k, B)
  BY <1>6 DEF ExistsBijection
<1>8. IsFiniteSet(1..k) /\ Cardinality(1..k) = k
  BY <1>1, FS_Interval
<1>9. Cardinality(B) = k
  BY <1>7, <1>8, FS_Bijection
<1>. QED  BY <1>9 DEF B

Shorter(m, n) == IF m < n THEN m ELSE n

(* A scan yields the documents of the partition by their sequence numbers. *)
LEMMA ScanReadsChain ==
  ASSUME TypeOK, ChainInv, NEW p \in Partitions, NEW n \in Nat,
         n = Shorter(heads[p].sequence, ScanLimit)
  PROVE  /\ Len(Scanned(p)) = n /\ n <= heads[p].sequence /\ n <= ScanLimit
         /\ n = heads[p].sequence \/ n = ScanLimit
         /\ Scanned(p) = <<>> <=> n = 0
         /\ \A i \in 1..n : Scanned(p)[i] \in PartitionDocs(p) /\ Scanned(p)[i].sequence = i
<1>. DEFINE Place(d) == Cardinality({c \in PartitionDocs(p) : c.sequence < d.sequence}) + 1
            size == Cardinality(PartitionDocs(p))
            s == Scanned(p)
<1>1. heads[p].sequence \in Nat /\ ScanLimit \in Nat
  BY PlacesOfChain
<1>2. size = heads[p].sequence
  <2>1. PartitionDocs(p) = {c \in PartitionDocs(p) : c.sequence <= heads[p].sequence}
    BY <1>1, PlacesOfChain
  <2>2. heads[p].sequence \in 0..heads[p].sequence
    BY <1>1
  <2>. QED  BY <2>1, <2>2, PlacesCounted
<1>3. ASSUME NEW d \in PartitionDocs(p) PROVE Place(d) = d.sequence
  <2>1. PICK k : k = d.sequence - 1
    OBVIOUS
  <2>2. k \in 0..heads[p].sequence /\ d.sequence \in Nat /\ k + 1 = d.sequence
    BY <1>1, <2>1, PlacesOfChain
  <2>3. {c \in PartitionDocs(p) : c.sequence < d.sequence} = {c \in PartitionDocs(p) : c.sequence <= k}
    BY <1>1, <2>2, PlacesOfChain
  <2>4. Cardinality({c \in PartitionDocs(p) : c.sequence <= k}) = k
    BY <2>2, PlacesCounted
  <2>. QED  BY <2>2, <2>3, <2>4
<1>4. n <= heads[p].sequence /\ n <= ScanLimit /\ (n = heads[p].sequence \/ n = ScanLimit)
  BY <1>1 DEF Shorter
<1>5. s = [i \in 1..n |-> CHOOSE d \in PartitionDocs(p) : Place(d) = i]
  BY <1>2 DEF Scanned, Shorter
<1>6. ASSUME NEW i \in 1..n PROVE s[i] \in PartitionDocs(p) /\ s[i].sequence = i
  <2>1. i \in 1..heads[p].sequence
    BY <1>1, <1>4
  <2>2. PICK d \in PartitionDocs(p) : d.sequence = i
    BY <2>1, PlacesOfChain
  <2>3. \E e \in PartitionDocs(p) : Place(e) = i
    BY <1>3, <2>2
  <2>4. s[i] \in PartitionDocs(p) /\ Place(s[i]) = i
    BY <1>5, <2>3
  <2>. QED  BY <1>3, <2>4
<1>7. s \in [1..n -> PartitionDocs(p)]
  BY <1>5, <1>6
<1>8. s \in Seq(PartitionDocs(p))
  BY <1>7, SeqDef
<1>9. Len(s) = n
  <2>1. Len(s) \in Nat /\ 1..Len(s) = 1..n
    BY <1>7, <1>8, LenProperties
  <2>. QED  BY <2>1
<1>10. s = <<>> <=> n = 0
  BY <1>8, <1>9, EmptySeq
<1>. QED  BY <1>4, <1>6, <1>9, <1>10

(* No errors in the links of a whole chain, whatever of it is scanned. *)
LEMMA LinksAreRight ==
  ASSUME TypeOK, ChainInv, NEW p \in Partitions, NEW i \in 1..Len(Scanned(p))
  PROVE  LinkErrors(Scanned(p), i) = {}
<1>. DEFINE s == Scanned(p)
<1>1. PICK n \in Nat : n = Shorter(heads[p].sequence, ScanLimit)
  BY PlacesOfChain DEF Shorter
<1>2. Len(s) = n /\ \A j \in 1..n : s[j] \in PartitionDocs(p) /\ s[j].sequence = j
  BY <1>1, ScanReadsChain
<1>. HIDE DEF s
<1>3. i \in 1..n
  BY <1>2 DEF s
<1>4. s[i].partition = p /\ s[1].partition = p /\ s[i].sequence = i
  <2>1. 1 \in 1..n
    BY <1>3
  <2>. QED  BY <1>2, <1>3, <2>1, PlacesOfChain
<1>5. PreviousSequence(s, i) = i - 1
  <2>1. CASE i = 1
    BY <2>1 DEF PreviousSequence
  <2>2. CASE i # 1
    <3>1. i - 1 \in 1..n
      BY <1>3, <2>2
    <3>. QED  BY <1>2, <2>2, <3>1 DEF PreviousSequence
  <2>. QED  BY <2>1, <2>2
<1>6. s[i].previous = PreviousMac(s, i)
  <2>1. CASE i = 1
    BY <1>2, <1>3, <1>4, <2>1, PlacesOfChain DEF PreviousMac, NoPrevious, NoMac
  <2>2. CASE i # 1
    <3>1. i - 1 \in 1..n
      BY <1>3, <2>2
    <3>2. s[i] \in PartitionDocs(p) /\ s[i-1] \in PartitionDocs(p) /\ s[i-1].sequence = s[i].sequence - 1
      BY <1>2, <1>3, <3>1
    <3>. QED  BY <2>2, <3>2, PlacesOfChain DEF PreviousMac
  <2>. QED  BY <2>1, <2>2
<1>7. ~(s[i].sequence > PreviousSequence(s, i) + 1) /\ ~(s[i].sequence <= PreviousSequence(s, i))
  BY <1>3, <1>4, <1>5
<1>. QED  BY <1>4, <1>6, <1>7 DEF LinkErrors, s

LEMMA ScanEnds ==
  ASSUME TypeOK, ChainInv, NEW p \in Partitions
  PROVE  LastSequence(Scanned(p)) = Shorter(heads[p].sequence, ScanLimit)
<1>1. PICK n \in Nat : n = Shorter(heads[p].sequence, ScanLimit)
  BY PlacesOfChain DEF Shorter
<1>2. Len(Scanned(p)) = n /\ \A i \in 1..n : Scanned(p)[i].sequence = i
  BY <1>1, ScanReadsChain
<1>3. CASE n = 0
  BY <1>1, <1>2, <1>3 DEF LastSequence, PreviousSequence
<1>4. CASE n # 0
  <2>1. n \in 1..n /\ n + 1 # 1 /\ (n + 1) - 1 = n
    BY <1>4
  <2>. QED  BY <1>1, <1>2, <2>1 DEF LastSequence, PreviousSequence
<1>. QED  BY <1>3, <1>4

(* The place of a checkpoint in a scan that reaches it. *)
LEMMA PlaceInScan ==
  ASSUME TypeOK, ChainInv, NEW p \in Partitions, NEW c \in Checkpoint,
         c.sequence <= LastSequence(Scanned(p))
  PROVE  /\ c.sequence \in 1..Len(Scanned(p)) /\ Scanned(p) # <<>>
         /\ Scanned(p)[c.sequence] \in PartitionDocs(p)
         /\ Scanned(p)[c.sequence].sequence = c.sequence
         /\ {i \in 1..Len(Scanned(p)) : Scanned(p)[i].sequence = c.sequence} = {c.sequence}
         /\ Scanned(p)[1].partition = p
<1>1. PICK n \in Nat : n = Shorter(heads[p].sequence, ScanLimit)
  BY PlacesOfChain DEF Shorter
<1>2. /\ Len(Scanned(p)) = n /\ LastSequence(Scanned(p)) = n /\ (Scanned(p) = <<>> <=> n = 0)
      /\ \A i \in 1..n : Scanned(p)[i] \in PartitionDocs(p) /\ Scanned(p)[i].sequence = i
  BY <1>1, ScanReadsChain, ScanEnds
<1>3. c.sequence \in Nat \ {0}
  BY DEF Checkpoint
<1>4. c.sequence \in 1..n /\ 1 \in 1..n
  BY <1>2, <1>3
<1>5. Scanned(p)[1].partition = p
  BY <1>2, <1>4 DEF PartitionDocs
<1>. QED  BY <1>2, <1>4, <1>5

(* A scan without errors contains the checkpoint it was compared with. *)
LEMMA ScanFindsCheckpoint ==
  ASSUME TypeOK, ChainInv, NEW p \in Partitions, NEW c \in Checkpoint,
         ChainErrors(Scanned(p), c, {}) = {}
  PROVE  c.partition = p /\ Contains(c)
<1>. DEFINE s == Scanned(p)
            At == {i \in 1..Len(s) : s[i].sequence = c.sequence}
            Observed == CHOOSE i \in At : \A j \in At : j <= i
<1>1. c.sequence \in Nat /\ c.sequence # 0
  BY DEF Checkpoint
<1>2. c # NoCheckpoint
  BY <1>1 DEF NoCheckpoint
<1>3. CheckpointErrors(s, c) = {}
  <2>1. CheckpointErrors(s, c) \subseteq ChainErrors(s, c, {})
    <3>. HIDE DEF s
    <3>. QED  BY <1>2 DEF ChainErrors
  <2>. QED  BY <2>1
<1>4. /\ ~(s = <<>> \/ s[1].partition # c.partition)
      /\ ~(c.sequence > LastSequence(s))
      /\ ~(c.sequence <= LastSequence(s) /\ At # {} /\ s[Observed].mac # c.mac)
  <2>1. ~("checkpoint_partition_mismatch" \in CheckpointErrors(s, c))
        /\ ~("tail_truncated" \in CheckpointErrors(s, c))
        /\ ~("checkpoint_mac_mismatch" \in CheckpointErrors(s, c))
    BY <1>3
  <2>. QED  BY <2>1, Zenon DEF CheckpointErrors
<1>5. c.sequence <= LastSequence(s)
  <2>1. PICK n \in Nat : n = LastSequence(s)
    BY ScanEnds, PlacesOfChain DEF Shorter
  <2>. QED  BY <1>1, <1>4, <2>1
<1>6. /\ c.sequence \in 1..Len(s) /\ s[c.sequence] \in PartitionDocs(p)
      /\ s[c.sequence].sequence = c.sequence /\ At = {c.sequence} /\ s[1].partition = p
  BY <1>5, PlaceInScan
<1>7. Observed = c.sequence
  <2>1. c.sequence \in At /\ \A j \in At : j <= c.sequence
    BY <1>1, <1>6
  <2>2. Observed \in At
    BY <2>1
  <2>. QED  BY <1>6, <2>2
<1>8. s[c.sequence].mac = c.mac
  BY <1>4, <1>5, <1>6, <1>7
<1>9. p = c.partition
  BY <1>4, <1>6
<1>10. s[c.sequence] \in docs /\ s[c.sequence].partition = p
  BY <1>6 DEF PartitionDocs
<1>. QED  BY <1>6, <1>8, <1>9, <1>10 DEF Contains

(* A scan of a whole chain that still contains the checkpoint finds no error. *)
LEMMA ScanOfWholeChain ==
  ASSUME TypeOK, ChainInv, NEW p \in Partitions, NEW c,
         c = NoCheckpoint \/ (/\ c \in Checkpoint /\ c.partition = p
                              /\ c.sequence <= ScanLimit /\ Contains(c))
  PROVE  ChainErrors(Scanned(p), c, {}) = {}
<1>. DEFINE s == Scanned(p)
<1>1. (UNION {LinkErrors(s, i) : i \in 1..Len(s)}) = {}
  BY LinksAreRight
<1>2. {"mac_mismatch" : i \in {j \in 1..Len(s) : s[j] \in {}}} = {}
  OBVIOUS
<1>3. CASE c = NoCheckpoint
  BY <1>1, <1>2, <1>3 DEF ChainErrors
<1>4. CASE c # NoCheckpoint
  <2>. DEFINE At == {i \in 1..Len(s) : s[i].sequence = c.sequence}
              Observed == CHOOSE i \in At : \A j \in At : j <= i
  <2>1. c \in Checkpoint /\ c.partition = p /\ c.sequence \in Nat /\ c.sequence <= ScanLimit /\ Contains(c)
    BY <1>4 DEF Checkpoint
  <2>2. PICK d \in PartitionDocs(p) : d.sequence = c.sequence /\ d.mac = c.mac
    BY <2>1 DEF Contains, PartitionDocs
  <2>3. c.sequence <= heads[p].sequence /\ heads[p].sequence \in Nat
    BY <2>2, PlacesOfChain
  <2>4. c.sequence <= LastSequence(s)
    BY <2>1, <2>3, ScanEnds DEF Shorter
  <2>5. /\ c.sequence \in 1..Len(s) /\ s # <<>> /\ s[c.sequence] \in PartitionDocs(p)
        /\ s[c.sequence].sequence = c.sequence /\ At = {c.sequence} /\ s[1].partition = p
    BY <2>1, <2>4, PlaceInScan
  <2>6. Observed = c.sequence
    <3>1. c.sequence \in At /\ \A j \in At : j <= c.sequence
      BY <2>1, <2>5
    <3>2. Observed \in At
      BY <3>1
    <3>. QED  BY <2>5, <3>2
  <2>7. s[Observed].mac = c.mac
    BY <2>2, <2>5, <2>6, PlacesOfChain
  <2>8. ~(c.sequence > LastSequence(s))
    <3>1. PICK n \in Nat : n = LastSequence(s)
      BY ScanEnds, PlacesOfChain DEF Shorter
    <3>. QED  BY <2>1, <2>4, <3>1
  <2>9. ~(s = <<>> \/ s[1].partition # c.partition) /\ At # {}
    BY <2>1, <2>5
  <2>10. CheckpointErrors(s, c) = {}
    BY <2>7, <2>8, <2>9, Zenon DEF CheckpointErrors
  <2>. QED  BY <1>1, <1>2, <1>4, <2>10 DEF ChainErrors
<1>. QED  BY <1>3, <1>4

-----------------------------------------------------------------------------
(* What holds of the commands *)

(* MACs are handed out once. *)
MacsCounted ==
  /\ \A d \in docs : d.mac <= macs
  /\ \A b \in checkpoints : b.at.mac <= macs

(* The checkpoints of a partition have a latest one, within reach of a scan; *)
(* a chain that contains one contains those before it.                       *)
CheckpointsOrdered ==
  /\ \A p \in Partitions : CheckpointsOf(p) # {} =>
       \E c \in CheckpointsOf(p) : \A b \in CheckpointsOf(p) : b.sequence <= c.sequence
  /\ \A p \in Partitions : \A c \in CheckpointsOf(p) :
       /\ c.sequence <= ScanLimit
       /\ Contains(c) => \A b \in CheckpointsOf(p) : b.sequence <= c.sequence => Contains(b)

(* What a verification under way has found out. *)
AuditKnows ==
  /\ audit.pc = "scan" => audit.against = Latest(audit.partition)
  /\ audit.pc = "head" =>
       /\ \A c \in CheckpointsOf(audit.partition) : Contains(c)
       /\ audit.last <= ScanLimit /\ audit.last <= heads[audit.partition].sequence

(* Until a backup is restored everything is there, and nothing else was said. *)
NothingLost ==
  /\ budget["restore"] <= Budget["restore"]
  /\ budget["restore"] = Budget["restore"] =>
       /\ DeliveredIsRecorded
       /\ \A b \in checkpoints : Contains(b.at)
       /\ audit.failure \notin {"chain", "head"} /\ report # "unhealthy"

VerificationInv ==
  /\ VerificationTypeOK /\ RowsFinite /\ LeaseInv /\ ChainInv
  /\ MacsCounted /\ CheckpointsOrdered /\ AuditKnows /\ NothingLost

LEMMA CheckpointTypes ==
  ASSUME VerificationTypeOK
  PROVE  /\ \A b \in checkpoints : b.at \in Checkpoint /\ b.at.mac \in Nat /\ b.at.sequence \in Nat
         /\ \A p \in Partitions : \A c \in CheckpointsOf(p) :
              /\ c \in Checkpoint /\ c.partition = p /\ c # NoCheckpoint
              /\ c.sequence \in Nat \ {0} /\ c.mac \in Nat
              /\ \E b \in checkpoints : b.at = c
         /\ \A b \in checkpoints : b.at \in CheckpointsOf(b.at.partition) /\ b.at.partition \in Partitions
<1>1. \A b \in checkpoints : b.at \in Checkpoint
  BY DEF VerificationTypeOK
<1>2. \A c \in Checkpoint : c.sequence \in Nat \ {0} /\ c.mac \in Nat /\ c.partition \in Partitions
  BY DEF Checkpoint
<1>3. \A p \in Partitions : \A c \in CheckpointsOf(p) :
        c.partition = p /\ \E b \in checkpoints : b.at = c
  BY DEF CheckpointsOf
<1>4. NoCheckpoint.sequence = 0
  BY DEF NoCheckpoint
<1>5. \A b \in checkpoints : b.at \in CheckpointsOf(b.at.partition)
  BY DEF CheckpointsOf
<1>. QED  BY <1>1, <1>2, <1>3, <1>4, <1>5

(* What is compared with is the latest one, if there is any. *)
LEMMA LatestIsLatest ==
  ASSUME VerificationTypeOK, CheckpointsOrdered, NEW p \in Partitions
  PROVE  \/ Latest(p) = NoCheckpoint /\ CheckpointsOf(p) = {}
         \/ /\ Latest(p) \in CheckpointsOf(p) /\ Latest(p) # NoCheckpoint
            /\ \A b \in CheckpointsOf(p) : b.sequence <= Latest(p).sequence
<1>1. CASE CheckpointsOf(p) = {}
  BY <1>1 DEF Latest
<1>2. CASE CheckpointsOf(p) # {}
  <2>1. \E c \in CheckpointsOf(p) : \A b \in CheckpointsOf(p) : b.sequence <= c.sequence
    BY <1>2 DEF CheckpointsOrdered
  <2>2. /\ Latest(p) \in CheckpointsOf(p)
        /\ \A b \in CheckpointsOf(p) : b.sequence <= Latest(p).sequence
    BY <1>2, <2>1 DEF Latest
  <2>. QED  BY <2>2, CheckpointTypes
<1>. QED  BY <1>1, <1>2

LEMMA InitVerification ==
  ASSUME VerificationInit
  PROVE  VerificationInv
<1>1. Init
  BY DEF VerificationInit
<1>2. TypeOK /\ RowsFinite /\ LeaseInv /\ ChainInv /\ DeliveredIsRecorded
  BY <1>1, InitTypes, InitDelivery DEF DeliveryInv
<1>3. \E p \in Partitions : TRUE
  OBVIOUS
<1>4. (CHOOSE p \in Partitions : TRUE) \in Partitions
  BY <1>3
<1>5. checkpoints = {} /\ activeKey = 1 /\ report = "none" /\ docs = {} /\ budget = Budget
  BY <1>1 DEF VerificationInit, Init
<1>6. PICK p \in Partitions :
        audit = [pc |-> "idle", partition |-> p, against |-> NoCheckpoint, last |-> 0,
                 scanned |-> 0, status |-> "none", failure |-> "none"]
  BY <1>4 DEF VerificationInit
<1>7. audit \in Audit /\ audit.pc = "idle" /\ audit.failure = "none"
  BY <1>6 DEF Audit, Failures
<1>8. VerificationTypeOK
  BY <1>2, <1>5, <1>7 DEF VerificationTypeOK
<1>9. MacsCounted /\ CheckpointsOrdered /\ AuditKnows
  BY <1>5, <1>7 DEF MacsCounted, CheckpointsOrdered, AuditKnows, CheckpointsOf
<1>10. NothingLost
  <2>1. Budget["restore"] \in Nat
    BY DEF Disturbances
  <2>. QED  BY <1>2, <1>5, <1>7, <2>1 DEF NothingLost
<1>. QED  BY <1>2, <1>8, <1>9, <1>10 DEF VerificationInv

-----------------------------------------------------------------------------
(* The delivery goes on *)

(* A delivery adds at most one document, with a MAC of its own. *)
LEMMA DocumentsAdded ==
  ASSUME TypeOK, ChainInv, [Next]_vars
  PROVE  \/ docs' = docs /\ macs' = macs /\ heads' = heads
         \/ \E n \in Document, p \in Partitions :
              /\ docs' = docs \union {n} /\ n.mac = macs + 1 /\ macs' = macs + 1
              /\ n.sequence = heads[p].sequence + 1
              /\ heads' = [heads EXCEPT ![p] = [sequence |-> n.sequence, mac |-> n.mac]]
<1>1. ASSUME NEW w \in Workers, CommitAppend(w)
      PROVE  \E n \in Document, p \in Partitions :
              /\ docs' = docs \union {n} /\ n.mac = macs + 1 /\ macs' = macs + 1
              /\ n.sequence = heads[p].sequence + 1
              /\ heads' = [heads EXCEPT ![p] = [sequence |-> n.sequence, mac |-> n.mac]]
  <2>1. PICK n, p : n = NewDocument(w) /\ p = PartitionOf[worker[w].event]
    OBVIOUS
  <2>2. n.mac = macs + 1 /\ macs' = macs + 1
    BY <1>1, <2>1 DEF NewDocument, CommitAppend
  <2>3. /\ n \in Document /\ p \in Partitions /\ docs' = docs \union {n}
        /\ n.sequence = heads[p].sequence + 1
        /\ heads' = [heads EXCEPT ![p] = [sequence |-> n.sequence, mac |-> n.mac]]
    BY <1>1, <2>1, CommitFinds
  <2>. QED  BY <2>2, <2>3
<1>2. ASSUME NEW w \in Workers, WorkerStep(w) \/ CrashWorker(w), ~CommitAppend(w)
      PROVE  docs' = docs /\ macs' = macs /\ heads' = heads
  BY <1>2 DEF WorkerStep, BeginAppend, RetryAppend, AppendFails, Acknowledge, ReportFailure,
              CrashWorker
<1>3. ASSUME NEW e \in Events,
             \/ Enqueue(e) \/ BackoffEnds(e) \/ LeaseExpires(e)
             \/ \E w \in Workers : Claim(w, e)
      PROVE  docs' = docs /\ macs' = macs /\ heads' = heads
  BY <1>3 DEF Enqueue, BackoffEnds, LeaseExpires, Claim
<1>4. CASE UNCHANGED vars
  BY <1>4 DEF vars
<1>. QED  BY <1>1, <1>2, <1>3, <1>4 DEF Next

(* A delivery never restores. *)
LEMMA DeliveryBudget ==
  ASSUME TypeOK, [Next]_vars
  PROVE  budget'["restore"] = budget["restore"]
<1>1. ASSUME Spend("slow") \/ Spend("crash") PROVE budget'["restore"] = budget["restore"]
  <2>1. budget \in [Disturbances -> Nat] /\ "restore" \in Disturbances
    BY DEF TypeOK, Disturbances
  <2>2. \/ budget' = [budget EXCEPT !["slow"] = budget["slow"] - 1]
        \/ budget' = [budget EXCEPT !["crash"] = budget["crash"] - 1]
    BY <1>1 DEF Spend
  <2>. QED  BY <2>1, <2>2
<1>2. ASSUME NEW w \in Workers, WorkerStep(w) \/ CrashWorker(w)
      PROVE  budget' = budget \/ Spend("crash")
  BY <1>2 DEF WorkerStep, BeginAppend, CommitAppend, RetryAppend, AppendFails, Acknowledge,
              ReportFailure, CrashWorker
<1>3. ASSUME NEW e \in Events,
             \/ Enqueue(e) \/ BackoffEnds(e) \/ LeaseExpires(e)
             \/ \E w \in Workers : Claim(w, e)
      PROVE  budget' = budget \/ Spend("slow")
  BY <1>3 DEF Enqueue, BackoffEnds, LeaseExpires, Claim
<1>4. budget' = budget \/ Spend("crash") \/ Spend("slow")
  BY <1>2, <1>3 DEF Next, vars
<1>. QED  BY <1>1, <1>4

(* No checkpoint is fulfilled by a document that came later. *)
LEMMA ContainedStays ==
  ASSUME VerificationInv, [Next]_vars, NEW c \in Checkpoint, c.mac <= macs
  PROVE  Contains(c)' <=> Contains(c)
<1>1. c.mac \in Nat /\ macs \in Nat /\ TypeOK /\ ChainInv
  BY DEF Checkpoint, VerificationInv, VerificationTypeOK, TypeOK
<1>2. CASE docs' = docs
  BY <1>2 DEF Contains
<1>3. ASSUME NEW n \in Document, docs' = docs \union {n}, n.mac = macs + 1
      PROVE  Contains(c)' <=> Contains(c)
  BY <1>1, <1>3 DEF Contains
<1>. QED  BY <1>1, <1>2, <1>3, DocumentsAdded

LEMMA DeliveryKeepsVerification ==
  ASSUME VerificationInv, [Next]_vars, UNCHANGED <<checkpoints, audit, activeKey, report>>
  PROVE  VerificationInv'
<1>1. TypeOK /\ RowsFinite /\ LeaseInv /\ ChainInv /\ VerificationTypeOK
  BY DEF VerificationInv, VerificationTypeOK
<1>2. TypeOK' /\ RowsFinite' /\ LeaseInv' /\ ChainInv'
  BY <1>1, NextTypes, NextLeases, NextChain
<1>3. VerificationTypeOK'
  BY <1>1, <1>2 DEF VerificationTypeOK, Audit, Checkpoint
<1>4. macs \in Nat /\ \A d \in docs : d.mac \in Nat
  BY <1>1 DEF TypeOK, Document
<1>5. \A b \in checkpoints : Contains(b.at)' <=> Contains(b.at)
  BY <1>1, CheckpointTypes, ContainedStays DEF VerificationInv, MacsCounted
<1>6. \A p \in Partitions : CheckpointsOf(p)' = CheckpointsOf(p) /\ Latest(p)' = Latest(p)
  BY DEF CheckpointsOf, Latest
<1>7. MacsCounted'
  <2>1. CASE docs' = docs /\ macs' = macs
    BY <2>1 DEF VerificationInv, MacsCounted
  <2>2. ASSUME NEW n \in Document, docs' = docs \union {n}, n.mac = macs + 1, macs' = macs + 1
        PROVE  MacsCounted'
    BY <1>1, <1>4, <2>2, CheckpointTypes DEF VerificationInv, MacsCounted
  <2>. QED  BY <1>1, <2>1, <2>2, DocumentsAdded
<1>8. CheckpointsOrdered'
  <2>1. \A p \in Partitions : \A c \in CheckpointsOf(p) : Contains(c)' <=> Contains(c)
    BY <1>1, <1>5, CheckpointTypes
  <2>. QED  BY <1>6, <2>1 DEF VerificationInv, CheckpointsOrdered
<1>9. AuditKnows'
  <2>1. audit.partition \in Partitions /\ audit.last \in Nat
    BY <1>1 DEF VerificationTypeOK, Audit
  <2>2. \A p \in Partitions : heads[p].sequence <= heads'[p].sequence
                              /\ heads[p].sequence \in Nat /\ heads'[p].sequence \in Nat
    <3>1. \A p \in Partitions : heads[p].sequence \in Nat /\ heads'[p].sequence \in Nat
      BY <1>1, <1>2 DEF TypeOK, ChainHead
    <3>2. ASSUME NEW n \in Document, NEW p \in Partitions, n.sequence = heads[p].sequence + 1,
                 heads' = [heads EXCEPT ![p] = [sequence |-> n.sequence, mac |-> n.mac]]
          PROVE  \A q \in Partitions : heads[q].sequence <= heads'[q].sequence
      BY <1>1, <3>1, <3>2 DEF TypeOK
    <3>. QED  BY <1>1, <3>1, <3>2, DocumentsAdded
  <2>3. \A c \in CheckpointsOf(audit.partition) : Contains(c)' <=> Contains(c)
    BY <1>1, <1>5, <2>1, CheckpointTypes
  <2>4. audit.pc = "head" => audit.last <= heads'[audit.partition].sequence
    BY <2>1, <2>2 DEF VerificationInv, AuditKnows
  <2>. QED  BY <1>6, <2>1, <2>3, <2>4 DEF VerificationInv, AuditKnows
<1>10. NothingLost'
  <2>1. budget'["restore"] = budget["restore"]
    BY <1>1, DeliveryBudget
  <2>2. DeliveredIsRecorded => DeliveredIsRecorded'
    BY <1>1, NextReceipts
  <2>. QED  BY <1>5, <2>1, <2>2 DEF VerificationInv, NothingLost
<1>. QED  BY <1>2, <1>3, <1>7, <1>8, <1>9, <1>10 DEF VerificationInv

-----------------------------------------------------------------------------
(* The commands *)

(* What a command does not touch stays as it was. *)
LEMMA DeliveryStays ==
  ASSUME VerificationInv, UNCHANGED <<outbox, docs, heads, macs, worker>>,
         budget' \in [Disturbances -> Nat], budget'["restore"] = budget["restore"]
  PROVE  /\ TypeOK' /\ RowsFinite' /\ LeaseInv' /\ ChainInv'
         /\ DeliveredIsRecorded' <=> DeliveredIsRecorded
         /\ \A c : Contains(c)' <=> Contains(c)
<1>1. TypeOK /\ RowsFinite /\ LeaseInv /\ ChainInv
  BY DEF VerificationInv, VerificationTypeOK
<1>2. TypeOK'
  BY <1>1 DEF TypeOK
<1>3. RowsFinite'
  BY <1>1 DEF RowsFinite, Rows
<1>4. LeaseInv'
  BY <1>1 DEF LeaseInv, HoldsLease
<1>5. ChainInv'
  BY <1>1 DEF ChainInv, ChainIntact, EventOnce, Before
<1>6. DeliveredIsRecorded' <=> DeliveredIsRecorded
  BY DEF DeliveredIsRecorded
<1>7. \A c : Contains(c)' <=> Contains(c)
  BY DEF Contains
<1>. QED  BY <1>2, <1>3, <1>4, <1>5, <1>6, <1>7

(* Commands that store no checkpoint. *)
LEMMA CommandKeeps ==
  ASSUME VerificationInv, UNCHANGED <<outbox, docs, heads, macs, worker, checkpoints>>,
         budget' \in [Disturbances -> Nat], budget'["restore"] = budget["restore"],
         audit' \in Audit, activeKey' \in Nat, report' \in {"none", "healthy", "unhealthy"},
         AuditKnows',
         budget["restore"] = Budget["restore"] =>
           audit'.failure \notin {"chain", "head"} /\ report' # "unhealthy"
  PROVE  VerificationInv'
<1>1. /\ TypeOK' /\ RowsFinite' /\ LeaseInv' /\ ChainInv'
      /\ DeliveredIsRecorded' <=> DeliveredIsRecorded
      /\ \A c : Contains(c)' <=> Contains(c)
  BY DeliveryStays
<1>2. VerificationTypeOK'
  BY <1>1 DEF VerificationInv, VerificationTypeOK
<1>3. MacsCounted'
  BY DEF VerificationInv, MacsCounted
<1>4. CheckpointsOrdered'
  <2>1. \A p \in Partitions : CheckpointsOf(p)' = CheckpointsOf(p)
    BY DEF CheckpointsOf
  <2>. QED  BY <1>1, <2>1 DEF VerificationInv, CheckpointsOrdered
<1>5. NothingLost'
  BY <1>1 DEF VerificationInv, NothingLost
<1>. QED  BY <1>1, <1>2, <1>3, <1>4, <1>5 DEF VerificationInv

LEMMA BudgetStays ==
  ASSUME VerificationInv, NEW d \in {"crash", "rotate"}, UNCHANGED budget \/ Spend(d)
  PROVE  budget' \in [Disturbances -> Nat] /\ budget'["restore"] = budget["restore"]
<1>1. budget \in [Disturbances -> Nat] /\ d \in Disturbances /\ TypeOK
  BY DEF VerificationInv, VerificationTypeOK, TypeOK, Disturbances
<1>2. CASE UNCHANGED budget
  BY <1>1, <1>2
<1>3. CASE Spend(d)
  <2>1. budget' \in [Disturbances -> Nat]
    BY <1>1, <1>3, SpendType
  <2>2. budget'["restore"] = budget["restore"]
    BY <1>1, <1>3 DEF Spend, Disturbances
  <2>. QED  BY <2>1, <2>2
<1>. QED  BY <1>2, <1>3

LEMMA AuditFields ==
  ASSUME audit \in Audit
  PROVE  /\ audit.partition \in Partitions /\ audit.last \in Nat
         /\ audit.against \in Checkpoint \union {NoCheckpoint}
         /\ \A f \in Failures : Fail(f) \in Audit /\ Fail(f).pc = "idle" /\ Fail(f).failure = f
                                /\ Fail(f).status = "failed"
<1>1. audit.partition \in Partitions /\ audit.last \in Nat
      /\ audit.against \in Checkpoint \union {NoCheckpoint}
  BY DEF Audit
<1>2. ASSUME NEW f \in Failures
      PROVE  Fail(f) \in Audit /\ Fail(f).pc = "idle" /\ Fail(f).failure = f /\ Fail(f).status = "failed"
  BY DEF Audit, Fail
<1>. QED  BY <1>1, <1>2

LEMMA StartKeeps ==
  ASSUME VerificationInv, NEW p \in Partitions, StartAudit(p)
  PROVE  VerificationInv'
<1>1. VerificationTypeOK /\ audit \in Audit /\ activeKey \in Nat /\ report \in {"none", "healthy", "unhealthy"}
  BY DEF VerificationInv, VerificationTypeOK
<1>2. UNCHANGED <<outbox, docs, heads, macs, worker, budget, checkpoints, activeKey, report>>
  BY DEF StartAudit, vars
<1>3. PICK a : a = Latest(p)
  OBVIOUS
<1>4. a \in Checkpoint \union {NoCheckpoint}
  BY <1>1, <1>3, LatestIsLatest, CheckpointTypes DEF VerificationInv
<1>5. audit' = [audit EXCEPT !.pc = "scan", !.partition = p, !.against = a, !.last = 0, !.scanned = 0,
                             !.status = "running", !.failure = "none"]
  BY <1>3 DEF StartAudit
<1>6. audit' \in Audit /\ audit'.pc = "scan" /\ audit'.partition = p /\ audit'.against = a
      /\ audit'.failure = "none"
  BY <1>1, <1>4, <1>5 DEF Audit, Failures
<1>7. AuditKnows'
  <2>1. Latest(p)' = Latest(p)
    BY <1>2 DEF Latest, CheckpointsOf
  <2>. QED  BY <1>3, <1>6, <2>1 DEF AuditKnows
<1>8. report # "unhealthy" \/ budget["restore"] # Budget["restore"]
  BY DEF VerificationInv, NothingLost
<1>. QED  BY <1>1, <1>2, <1>6, <1>7, <1>8, BudgetStays, CommandKeeps

LEMMA ScanKeeps ==
  ASSUME VerificationInv, ScanPartition
  PROVE  VerificationInv'
<1>1. VerificationTypeOK /\ audit \in Audit /\ activeKey \in Nat /\ report \in {"none", "healthy", "unhealthy"}
      /\ TypeOK /\ ChainInv
  BY DEF VerificationInv, VerificationTypeOK
<1>2. UNCHANGED <<outbox, docs, heads, macs, worker, budget, checkpoints, activeKey, report>>
  BY DEF ScanPartition, vars
<1>3. PICK p \in Partitions : p = audit.partition
  BY <1>1, AuditFields
<1>4. audit.against = Latest(p) /\ audit.pc = "scan"
  BY <1>3 DEF VerificationInv, AuditKnows, ScanPartition
<1>5. \/ Latest(p) = NoCheckpoint /\ CheckpointsOf(p) = {}
      \/ /\ Latest(p) \in CheckpointsOf(p) /\ Latest(p) # NoCheckpoint
         /\ \A b \in CheckpointsOf(p) : b.sequence <= Latest(p).sequence
  BY <1>1, LatestIsLatest DEF VerificationInv
<1>6. PICK n : n = Shorter(heads[p].sequence, ScanLimit)
  OBVIOUS
<1>7. n \in Nat /\ n <= ScanLimit /\ n <= heads[p].sequence
  BY <1>1, <1>6, PlacesOfChain DEF Shorter
<1>8. CASE ChainErrors(Scanned(p), Latest(p), {}) = {}
  <2>1. PICK m : m = Len(Scanned(p))
    OBVIOUS
  <2>2. m \in Nat
    BY <1>1, <1>6, <1>7, <2>1, ScanReadsChain
  <2>3. audit' = [audit EXCEPT !.pc = "head", !.last = n, !.scanned = m]
    BY <1>1, <1>3, <1>4, <1>6, <1>8, <2>1, ScanEnds DEF ScanPartition, Against
  <2>4. audit' \in Audit /\ audit'.pc = "head" /\ audit'.partition = p /\ audit'.last = n
        /\ audit'.failure = audit.failure
    BY <1>1, <1>3, <1>7, <2>2, <2>3 DEF Audit
  <2>5. \A c \in CheckpointsOf(p) : Contains(c)
    <3>1. CASE CheckpointsOf(p) = {}
      BY <3>1
    <3>2. CASE CheckpointsOf(p) # {}
      <4>1. Latest(p) \in CheckpointsOf(p) /\ Latest(p) \in Checkpoint
            /\ \A b \in CheckpointsOf(p) : b.sequence <= Latest(p).sequence
        BY <1>1, <1>5, <3>2, CheckpointTypes
      <4>2. Contains(Latest(p))
        BY <1>1, <1>8, <4>1, ScanFindsCheckpoint
      <4>. QED  BY <4>1, <4>2 DEF VerificationInv, CheckpointsOrdered
    <3>. QED  BY <3>1, <3>2
  <2>6. AuditKnows'
    <3>1. CheckpointsOf(p)' = CheckpointsOf(p) /\ heads' = heads
          /\ \A c \in CheckpointsOf(p) : Contains(c)'
      BY <1>2, <2>5 DEF CheckpointsOf, Contains
    <3>. QED  BY <1>7, <2>4, <3>1 DEF AuditKnows
  <2>7. budget["restore"] = Budget["restore"] => audit.failure \notin {"chain", "head"} /\ report # "unhealthy"
    BY DEF VerificationInv, NothingLost
  <2>. QED  BY <1>1, <1>2, <2>4, <2>6, <2>7, BudgetStays, CommandKeeps
<1>9. CASE ChainErrors(Scanned(p), Latest(p), {}) # {}
  <2>1. audit' = Fail("chain")
    BY <1>3, <1>4, <1>9 DEF ScanPartition, Against
  <2>2. audit' \in Audit /\ audit'.pc = "idle"
    BY <1>1, <2>1, AuditFields DEF Failures
  <2>3. AuditKnows'
    BY <2>2 DEF AuditKnows
  <2>4. budget["restore"] # Budget["restore"]
    <3>. SUFFICES ASSUME budget["restore"] = Budget["restore"] PROVE FALSE
      OBVIOUS
    <3>1. \A b \in checkpoints : Contains(b.at)
      BY DEF VerificationInv, NothingLost
    <3>2. \A c \in CheckpointsOf(p) : /\ c \in Checkpoint /\ c.partition = p
                                      /\ c.sequence <= ScanLimit /\ Contains(c)
      BY <1>1, <3>1, CheckpointTypes DEF VerificationInv, CheckpointsOrdered
    <3>. QED  BY <1>1, <1>5, <1>9, <3>2, ScanOfWholeChain
  <2>. QED  BY <1>1, <1>2, <2>2, <2>3, <2>4, BudgetStays, CommandKeeps
<1>. QED  BY <1>8, <1>9

(* The head of a partition that has one can be a checkpoint. *)
LEMMA HeadIsWitnessed ==
  ASSUME VerificationInv, NEW p \in Partitions, heads[p] # NoHead, NEW c,
         c = [partition |-> p, sequence |-> heads[p].sequence, mac |-> heads[p].mac]
  PROVE  /\ c \in Checkpoint /\ c.partition = p /\ c.sequence = heads[p].sequence
         /\ c.mac <= macs /\ Contains(c)
<1>1. TypeOK /\ ChainInv /\ MacsCounted
  BY DEF VerificationInv, VerificationTypeOK
<1>2. heads[p] \in ChainHead /\ heads[p].sequence \in Nat /\ heads[p].mac \in Nat
  BY <1>1 DEF TypeOK, ChainHead
<1>3. heads[p].sequence # 0
  <2>. SUFFICES ASSUME heads[p].sequence = 0 PROVE FALSE
    OBVIOUS
  <2>1. heads[p].mac = NoMac
    BY <1>1 DEF ChainInv
  <2>2. heads[p] = [sequence |-> 0, mac |-> NoMac]
    BY <1>2, <2>1 DEF ChainHead
  <2>. QED  BY <2>2 DEF NoHead
<1>4. c \in Checkpoint /\ c.partition = p /\ c.sequence = heads[p].sequence /\ c.mac = heads[p].mac
  BY <1>2, <1>3 DEF Checkpoint
<1>5. heads[p].sequence \in 1..heads[p].sequence
  BY <1>2, <1>3
<1>6. PICK d \in PartitionDocs(p) : d.sequence = heads[p].sequence
  BY <1>1, <1>5, PlacesOfChain
<1>7. d \in docs /\ d.partition = p /\ d.mac = heads[p].mac
  BY <1>1, <1>6, PlacesOfChain
<1>8. d.mac <= macs
  BY <1>1, <1>7 DEF MacsCounted
<1>. QED  BY <1>4, <1>6, <1>7, <1>8 DEF Contains

(* A checkpoint that the chain contains is no later than its head. *)
LEMMA ContainedIsReached ==
  ASSUME TypeOK, ChainInv, NEW p \in Partitions, NEW c, c.partition = p, Contains(c)
  PROVE  c.sequence \in 1..heads[p].sequence
<1>1. PICK d \in PartitionDocs(p) : d.sequence = c.sequence
  BY DEF Contains, PartitionDocs
<1>. QED  BY <1>1, PlacesOfChain

(* What a comparison does, and what holds then. *)
LEMMA CompareOutcomes ==
  ASSUME VerificationInv, CompareHead, NEW p \in Partitions, p = audit.partition
  PROVE  /\ \A c \in CheckpointsOf(p) : Contains(c) /\ c.sequence <= heads[p].sequence
         /\ \/ /\ checkpoints' = checkpoints
               /\ \/ audit' = [audit EXCEPT !.pc = "idle", !.status = "passed"]
                  \/ audit' = Fail("limit")
                  \/ audit' = Fail("checkpoint")
            \/ /\ heads[p] # NoHead /\ heads[p].sequence <= ScanLimit
               /\ audit' = [audit EXCEPT !.pc = "idle", !.status = "passed"]
               /\ \E c : /\ c = [partition |-> p, sequence |-> heads[p].sequence, mac |-> heads[p].mac]
                         /\ ~BoundElsewhere(c)
                         /\ checkpoints' = checkpoints \union {[at |-> c, key |-> activeKey]}
<1>1. TypeOK /\ ChainInv /\ VerificationTypeOK /\ audit.pc = "head"
  BY DEF VerificationInv, VerificationTypeOK, CompareHead
<1>2. /\ \A c \in CheckpointsOf(p) : Contains(c)
      /\ audit.last <= ScanLimit /\ audit.last <= heads[p].sequence
  BY <1>1 DEF VerificationInv, AuditKnows
<1>3. audit.last \in Nat /\ heads[p].sequence \in Nat
  BY <1>1, PlacesOfChain DEF VerificationTypeOK, Audit
<1>4. \A c \in CheckpointsOf(p) : c.sequence <= heads[p].sequence
  <2>. SUFFICES ASSUME NEW c \in CheckpointsOf(p) PROVE c.sequence <= heads[p].sequence
    OBVIOUS
  <2>1. c.partition = p /\ Contains(c)
    BY <1>1, <1>2, CheckpointTypes
  <2>2. c.sequence \in 1..heads[p].sequence
    BY <1>1, <2>1, ContainedIsReached
  <2>. QED  BY <1>3, <2>2
<1>5. ~(audit.last > 0 /\ heads[p] = NoHead)
  <2>1. NoHead.sequence = 0
    BY DEF NoHead
  <2>. QED  BY <1>2, <1>3, <2>1
<1>6. \/ /\ checkpoints' = checkpoints
         /\ \/ audit' = [audit EXCEPT !.pc = "idle", !.status = "passed"]
            \/ audit' = Fail("limit")
            \/ audit' = Fail("checkpoint")
      \/ /\ heads[p] # NoHead /\ audit.last = heads[p].sequence
         /\ audit' = [audit EXCEPT !.pc = "idle", !.status = "passed"]
         /\ \E c : /\ c = [partition |-> p, sequence |-> heads[p].sequence, mac |-> heads[p].mac]
                   /\ ~BoundElsewhere(c)
                   /\ checkpoints' = checkpoints \union {[at |-> c, key |-> activeKey]}
  BY <1>5, Zenon DEF CompareHead
<1>. QED  BY <1>2, <1>4, <1>6

LEMMA CompareKeeps ==
  ASSUME VerificationInv, CompareHead
  PROVE  VerificationInv'
<1>1. VerificationTypeOK /\ audit \in Audit /\ activeKey \in Nat /\ report \in {"none", "healthy", "unhealthy"}
      /\ TypeOK /\ ChainInv
  BY DEF VerificationInv, VerificationTypeOK
<1>2. UNCHANGED <<outbox, docs, heads, macs, worker, budget, activeKey, report>>
  BY DEF CompareHead, vars
<1>3. PICK p \in Partitions : p = audit.partition
  BY <1>1, AuditFields
<1>4. audit' \in Audit /\ audit'.pc = "idle"
      /\ (audit'.failure = audit.failure \/ audit'.failure \in {"limit", "checkpoint"})
  <2>1. CASE audit' = [audit EXCEPT !.pc = "idle", !.status = "passed"]
    BY <1>1, <2>1 DEF Audit
  <2>2. CASE audit' = Fail("limit") \/ audit' = Fail("checkpoint")
    <3>1. "limit" \in Failures /\ "checkpoint" \in Failures
      BY DEF Failures
    <3>. QED  BY <1>1, <2>2, <3>1, AuditFields
  <2>. QED  BY <1>3, <2>1, <2>2, CompareOutcomes
<1>5. AuditKnows'
  BY <1>4 DEF AuditKnows
<1>6. budget["restore"] = Budget["restore"] => audit'.failure \notin {"chain", "head"} /\ report # "unhealthy"
  BY <1>4 DEF VerificationInv, NothingLost
<1>7. CASE checkpoints' = checkpoints
  BY <1>1, <1>2, <1>4, <1>5, <1>6, <1>7, BudgetStays, CommandKeeps
<1>8. ASSUME heads[p] # NoHead, heads[p].sequence <= ScanLimit, NEW c,
             c = [partition |-> p, sequence |-> heads[p].sequence, mac |-> heads[p].mac],
             checkpoints' = checkpoints \union {[at |-> c, key |-> activeKey]}
      PROVE  VerificationInv'
  <2>1. /\ c \in Checkpoint /\ c.partition = p /\ c.sequence = heads[p].sequence
        /\ c.mac <= macs /\ Contains(c)
    BY <1>8, HeadIsWitnessed
  <2>2. /\ TypeOK' /\ RowsFinite' /\ LeaseInv' /\ ChainInv'
        /\ DeliveredIsRecorded' <=> DeliveredIsRecorded
        /\ \A b : Contains(b)' <=> Contains(b)
    BY <1>2, BudgetStays, DeliveryStays
  <2>3. PICK b : b = [at |-> c, key |-> activeKey]
    OBVIOUS
  <2>4. b \in [at : Checkpoint, key : Nat] /\ b.at = c /\ checkpoints' = checkpoints \union {b}
    BY <1>1, <1>8, <2>1, <2>3
  <2>5. VerificationTypeOK'
    BY <1>1, <1>2, <1>4, <2>2, <2>4 DEF VerificationTypeOK
  <2>6. MacsCounted'
    BY <1>2, <2>1, <2>4 DEF VerificationInv, MacsCounted
  <2>7. CheckpointsOf(p)' = CheckpointsOf(p) \union {c}
        /\ \A q \in Partitions \ {p} : CheckpointsOf(q)' = CheckpointsOf(q)
    BY <2>1, <2>4 DEF CheckpointsOf
  <2>8. heads[p].sequence \in Nat /\ \A a \in CheckpointsOf(p) : Contains(a) /\ a.sequence <= heads[p].sequence
    BY <1>1, <1>3, CompareOutcomes, PlacesOfChain
  <2>9. CheckpointsOrdered'
    <3>1. \A q \in Partitions \ {p} :
            /\ CheckpointsOf(q)' # {} =>
                 \E a \in CheckpointsOf(q)' : \A e \in CheckpointsOf(q)' : e.sequence <= a.sequence
            /\ \A a \in CheckpointsOf(q)' :
                 /\ a.sequence <= ScanLimit
                 /\ Contains(a) => \A e \in CheckpointsOf(q)' : e.sequence <= a.sequence => Contains(e)
      BY <2>7 DEF VerificationInv, CheckpointsOrdered
    <3>2. \E a \in CheckpointsOf(p)' : \A e \in CheckpointsOf(p)' : e.sequence <= a.sequence
      BY <2>1, <2>7, <2>8
    <3>3. \A a \in CheckpointsOf(p)' : a.sequence <= ScanLimit /\ Contains(a)
      BY <1>8, <2>1, <2>7, <2>8 DEF VerificationInv, CheckpointsOrdered
    <3>. QED  BY <2>2, <3>1, <3>2, <3>3 DEF CheckpointsOrdered
  <2>10. NothingLost'
    <3>1. \A a \in checkpoints' : Contains(a.at) \/ budget["restore"] # Budget["restore"]
      BY <2>1, <2>4 DEF VerificationInv, NothingLost
    <3>. QED  BY <1>2, <1>6, <2>2, <3>1 DEF VerificationInv, NothingLost
  <2>. QED  BY <1>5, <2>2, <2>5, <2>6, <2>9, <2>10 DEF VerificationInv
<1>. QED  BY <1>3, <1>7, <1>8, CompareOutcomes

LEMMA CrashKeeps ==
  ASSUME VerificationInv, CrashAudit
  PROVE  VerificationInv'
<1>1. VerificationTypeOK /\ audit \in Audit /\ activeKey \in Nat /\ report \in {"none", "healthy", "unhealthy"}
  BY DEF VerificationInv, VerificationTypeOK
<1>2. UNCHANGED <<outbox, docs, heads, macs, worker, checkpoints, activeKey, report>> /\ Spend("crash")
  BY DEF CrashAudit
<1>3. audit' \in Audit /\ audit'.pc = "idle" /\ audit'.failure = "killed"
  BY <1>1 DEF CrashAudit, Audit, Failures
<1>4. AuditKnows'
  BY <1>3 DEF AuditKnows
<1>5. budget["restore"] = Budget["restore"] => report # "unhealthy"
  BY DEF VerificationInv, NothingLost
<1>. QED  BY <1>1, <1>2, <1>3, <1>4, <1>5, BudgetStays, CommandKeeps

LEMMA RotateKeeps ==
  ASSUME VerificationInv, RotateKey
  PROVE  VerificationInv'
<1>1. VerificationTypeOK /\ audit \in Audit /\ activeKey \in Nat /\ report \in {"none", "healthy", "unhealthy"}
  BY DEF VerificationInv, VerificationTypeOK
<1>2. UNCHANGED <<outbox, docs, heads, macs, worker, checkpoints, audit, report>> /\ Spend("rotate")
      /\ activeKey' \in Nat
  BY <1>1 DEF RotateKey
<1>3. AuditKnows'
  BY <1>2 DEF VerificationInv, AuditKnows, Latest, CheckpointsOf, Contains
<1>4. budget["restore"] = Budget["restore"] => audit.failure \notin {"chain", "head"} /\ report # "unhealthy"
  BY DEF VerificationInv, NothingLost
<1>. QED  BY <1>1, <1>2, <1>3, <1>4, BudgetStays, CommandKeeps

(* What delivered rows say is in the chain is there until it is restored. *)
LEMMA ReconcileKeeps ==
  ASSUME VerificationInv, Reconcile
  PROVE  VerificationInv'
<1>1. VerificationTypeOK /\ audit \in Audit /\ activeKey \in Nat /\ ChainInv
  BY DEF VerificationInv, VerificationTypeOK
<1>2. UNCHANGED <<outbox, docs, heads, macs, worker, budget, checkpoints, audit, activeKey>>
  BY DEF Reconcile, vars
<1>3. report' \in {"none", "healthy", "unhealthy"}
  BY DEF Reconcile
<1>4. AuditKnows'
  BY <1>2 DEF VerificationInv, AuditKnows, Latest, CheckpointsOf, Contains
<1>5. budget["restore"] = Budget["restore"] => report' # "unhealthy"
  <2>. SUFFICES ASSUME budget["restore"] = Budget["restore"]
                PROVE  \A e \in Reconciled : ReceiptMatches(e)
    BY DEF Reconcile
  <2>1. DeliveredIsRecorded /\ EventOnce
    BY <1>1 DEF VerificationInv, NothingLost, ChainInv
  <2>2. \A e \in Reconciled : e \in Events /\ outbox[e].status = "delivered"
    BY DEF Reconciled, Delivered
  <2>. QED  BY <2>1, <2>2 DEF DeliveredIsRecorded, EventOnce, ReceiptMatches
<1>6. budget["restore"] = Budget["restore"] => audit.failure \notin {"chain", "head"}
  BY DEF VerificationInv, NothingLost
<1>. QED  BY <1>1, <1>2, <1>3, <1>4, <1>5, <1>6, BudgetStays, CommandKeeps

(* A backup ends a partition at an earlier document. *)
LEMMA RestoreShape ==
  ASSUME TypeOK, ChainInv, NEW p \in Partitions, NEW n \in 0..heads[p].sequence, Restore(p, n)
  PROVE  /\ n \in Nat /\ n < heads[p].sequence
         /\ docs' = {d \in docs : d.partition = p => d.sequence <= n}
         /\ heads' \in [Partitions -> ChainHead]
         /\ heads'[p].sequence = n
         /\ n = 0 => heads'[p].mac = NoMac
         /\ \A d \in docs : d.partition = p /\ d.sequence = n => heads'[p].mac = d.mac
         /\ \A q \in Partitions \ {p} : heads'[q] = heads[q]
<1>1. n \in Nat /\ n < heads[p].sequence /\ heads[p].sequence \in Nat
  BY PlacesOfChain DEF Restore
<1>2. CASE n = 0
  <2>1. heads' = [heads EXCEPT ![p] = NoHead]
    BY <1>2 DEF Restore
  <2>2. NoHead \in ChainHead /\ NoHead.sequence = 0 /\ NoHead.mac = NoMac
    BY DEF NoHead, ChainHead, NoMac
  <2>3. \A d \in docs : d.sequence # 0
    BY DEF TypeOK, Document
  <2>. QED  BY <1>1, <1>2, <2>1, <2>2, <2>3 DEF Restore, TypeOK
<1>3. CASE n # 0
  <2>1. PICK d : d = CHOOSE e \in PartitionDocs(p) : e.sequence = n
    OBVIOUS
  <2>2. n \in 1..heads[p].sequence
    BY <1>1, <1>3
  <2>3. \E c \in PartitionDocs(p) : c.sequence = n
    BY <2>2, PlacesOfChain
  <2>4. d \in PartitionDocs(p) /\ d.sequence = n
    BY <2>1, <2>3
  <2>5. d.mac \in Nat
    BY <2>4, PlacesOfChain
  <2>6. PICK h : h = [sequence |-> n, mac |-> d.mac]
    OBVIOUS
  <2>7. heads' = [heads EXCEPT ![p] = h]
    BY <1>3, <2>1, <2>6 DEF Restore
  <2>8. h \in ChainHead /\ h.sequence = n /\ h.mac = d.mac
    BY <1>1, <2>5, <2>6 DEF ChainHead
  <2>9. \A c \in docs : c.partition = p /\ c.sequence = n => c = d
    <3>1. \A c \in PartitionDocs(p) : c.sequence = d.sequence => c = d
      BY <2>4, PlacesOfChain
    <3>. QED  BY <2>4, <3>1 DEF PartitionDocs
  <2>10. heads' \in [Partitions -> ChainHead] /\ heads'[p] = h
         /\ \A q \in Partitions \ {p} : heads'[q] = heads[q]
    BY <2>7, <2>8 DEF TypeOK
  <2>11. \A c \in docs : c.partition = p /\ c.sequence = n => heads'[p].mac = c.mac
    BY <2>8, <2>9, <2>10
  <2>12. docs' = {c \in docs : c.partition = p => c.sequence <= n}
    BY DEF Restore
  <2>13. heads'[p].sequence = n
    BY <2>8, <2>10
  <2>. QED  BY <1>1, <1>3, <2>10, <2>11, <2>12, <2>13
<1>. QED  BY <1>2, <1>3

LEMMA RestoreKeepsChain ==
  ASSUME TypeOK, ChainInv, NEW p \in Partitions, NEW n \in 0..heads[p].sequence, Restore(p, n)
  PROVE  ChainInv'
<1>1. /\ n \in Nat /\ n < heads[p].sequence /\ heads[p].sequence \in Nat
      /\ docs' = {d \in docs : d.partition = p => d.sequence <= n}
      /\ heads' \in [Partitions -> ChainHead]
      /\ heads'[p].sequence = n
      /\ n = 0 => heads'[p].mac = NoMac
      /\ \A d \in docs : d.partition = p /\ d.sequence = n => heads'[p].mac = d.mac
      /\ \A q \in Partitions \ {p} : heads'[q] = heads[q]
  BY RestoreShape, PlacesOfChain
<1>2. \A d \in docs : d.partition \in Partitions /\ d.sequence \in Nat \ {0}
  BY DEF TypeOK, Document
<1>3. ASSUME NEW q \in Partitions, NEW i \in 1..heads'[q].sequence
      PROVE  \E d \in docs' : d.partition = q /\ d.sequence = i
  <2>1. i \in 1..heads[q].sequence /\ (q = p => i <= n)
    BY <1>1, <1>3
  <2>2. PICK d \in docs : d.partition = q /\ d.sequence = i
    BY <2>1 DEF ChainInv, ChainIntact
  <2>. QED  BY <1>1, <2>1, <2>2
<1>4. ASSUME NEW d \in docs'
      PROVE  /\ d.sequence <= heads'[d.partition].sequence
             /\ d.sequence = heads'[d.partition].sequence => d.mac = heads'[d.partition].mac
             /\ d.sequence = 1 => d.previous = NoMac
             /\ \A c \in Before(d)' : d.previous = c.mac
  <2>1. d \in docs /\ (d.partition = p => d.sequence <= n)
    BY <1>1, <1>4
  <2>2. d.sequence <= heads'[d.partition].sequence
        /\ (d.sequence = heads'[d.partition].sequence => d.mac = heads'[d.partition].mac)
    <3>1. CASE d.partition = p
      BY <1>1, <2>1, <3>1
    <3>2. CASE d.partition # p
      BY <1>1, <1>2, <2>1, <3>2 DEF ChainInv, ChainIntact
    <3>. QED  BY <3>1, <3>2
  <2>3. Before(d)' \subseteq Before(d)
    BY <1>1 DEF Before
  <2>. QED  BY <2>1, <2>2, <2>3 DEF ChainInv, ChainIntact
<1>5. docs' \subseteq docs
  BY <1>1
<1>6. ChainIntact'
  <2>1. \A c, d \in docs' : (c.partition = d.partition /\ c.sequence = d.sequence) => c = d
    BY <1>5 DEF ChainInv, ChainIntact
  <2>. QED  BY <1>3, <1>4, <2>1 DEF ChainIntact
<1>7. EventOnce'
  BY <1>5 DEF ChainInv, EventOnce
<1>8. \A q \in Partitions : heads'[q].sequence = 0 => heads'[q].mac = NoMac
  BY <1>1 DEF ChainInv
<1>9. /\ \A d \in docs' : outbox'[d.event].status # "none"
      /\ \A w \in Workers : worker'[w].pc = "idle"
  BY <1>5 DEF ChainInv, Restore
<1>. QED  BY <1>6, <1>7, <1>8, <1>9 DEF ChainInv

LEMMA RestoreKeeps ==
  ASSUME VerificationInv, NEW p \in Partitions, NEW n \in 0..heads[p].sequence, Restore(p, n)
  PROVE  VerificationInv'
<1>1. VerificationTypeOK /\ TypeOK /\ ChainInv /\ RowsFinite /\ LeaseInv
  BY DEF VerificationInv, VerificationTypeOK
<1>2. /\ n \in Nat /\ docs' = {d \in docs : d.partition = p => d.sequence <= n}
      /\ heads' \in [Partitions -> ChainHead]
  BY <1>1, RestoreShape
<1>3. UNCHANGED <<outbox, macs, worker, checkpoints, audit, activeKey, report>>
      /\ audit.pc = "idle" /\ Spend("restore")
  BY DEF Restore
<1>4. budget' \in [Disturbances -> Nat] /\ budget'["restore"] < Budget["restore"]
  <2>1. "restore" \in Disturbances /\ budget \in [Disturbances -> Nat]
    BY <1>1 DEF Disturbances, TypeOK
  <2>2. budget["restore"] <= Budget["restore"] /\ Budget["restore"] \in Nat
    BY <2>1 DEF VerificationInv, NothingLost
  <2>3. budget' = [budget EXCEPT !["restore"] = budget["restore"] - 1] /\ budget["restore"] > 0
    BY <1>3 DEF Spend
  <2>4. budget'["restore"] = budget["restore"] - 1 /\ budget["restore"] \in Nat
    BY <2>1, <2>3
  <2>5. budget' \in [Disturbances -> Nat]
    BY <1>1, <1>3, <2>1, SpendType
  <2>. QED  BY <2>2, <2>4, <2>5
<1>5. TypeOK'
  BY <1>1, <1>2, <1>3, <1>4 DEF TypeOK
<1>6. VerificationTypeOK'
  BY <1>1, <1>3, <1>5 DEF VerificationTypeOK
<1>7. RowsFinite' /\ LeaseInv'
  BY <1>1, <1>3 DEF RowsFinite, Rows, LeaseInv, HoldsLease
<1>8. ChainInv'
  BY <1>1, RestoreKeepsChain
<1>9. MacsCounted'
  BY <1>2, <1>3 DEF VerificationInv, MacsCounted
<1>10. CheckpointsOrdered'
  <2>1. \A q \in Partitions : CheckpointsOf(q)' = CheckpointsOf(q)
    BY <1>3 DEF CheckpointsOf
  <2>2. \A q \in Partitions : \A c \in CheckpointsOf(q) :
          Contains(c)' <=> Contains(c) /\ (q = p => c.sequence <= n)
    <3>. SUFFICES ASSUME NEW q \in Partitions, NEW c \in CheckpointsOf(q)
                  PROVE  Contains(c)' <=> Contains(c) /\ (q = p => c.sequence <= n)
      OBVIOUS
    <3>1. c.partition = q
      BY <1>1, CheckpointTypes
    <3>. QED  BY <1>2, <3>1 DEF Contains
  <2>3. ASSUME NEW q \in Partitions, NEW c \in CheckpointsOf(q), Contains(c)',
               NEW b \in CheckpointsOf(q), b.sequence <= c.sequence
        PROVE  Contains(b)'
    <3>1. Contains(c) /\ Contains(b) /\ (q = p => c.sequence <= n)
      BY <2>2, <2>3 DEF VerificationInv, CheckpointsOrdered
    <3>2. c.sequence \in Nat /\ b.sequence \in Nat
      BY <1>1, CheckpointTypes
    <3>3. q = p => b.sequence <= n
      BY <1>2, <2>3, <3>1, <3>2
    <3>. QED  BY <2>2, <3>1, <3>3
  <2>. QED  BY <2>1, <2>3 DEF VerificationInv, CheckpointsOrdered
<1>11. AuditKnows'
  BY <1>3 DEF AuditKnows
<1>12. NothingLost'
  <2>1. budget'["restore"] \in Nat /\ Budget["restore"] \in Nat
    BY <1>4 DEF Disturbances
  <2>. QED  BY <1>4, <2>1 DEF NothingLost
<1>. QED  BY <1>6, <1>7, <1>8, <1>9, <1>10, <1>11, <1>12 DEF VerificationInv

-----------------------------------------------------------------------------
(* Every step *)

LEMMA VerificationStep ==
  ASSUME VerificationInv, [VerificationNext]_verificationVars
  PROVE  VerificationInv'
<1>1. CASE Next /\ UNCHANGED <<checkpoints, audit, activeKey, report>>
  BY <1>1, DeliveryKeepsVerification
<1>2. CASE AuditStep
  <2>1. ASSUME NEW p \in Partitions, StartAudit(p) PROVE VerificationInv'
    BY <2>1, StartKeeps
  <2>. QED  BY <1>2, <2>1, ScanKeeps, CompareKeeps DEF AuditStep
<1>3. CASE CrashAudit \/ RotateKey \/ Reconcile
  BY <1>3, CrashKeeps, RotateKeeps, ReconcileKeeps
<1>4. ASSUME NEW p \in Partitions, NEW n \in 0..heads[p].sequence, Restore(p, n)
      PROVE  VerificationInv'
  BY <1>4, RestoreKeeps
<1>5. CASE UNCHANGED verificationVars
  <2>1. UNCHANGED vars /\ UNCHANGED <<checkpoints, audit, activeKey, report>>
    BY <1>5 DEF verificationVars, vars
  <2>. QED  BY <2>1, DeliveryKeepsVerification
<1>. QED  BY <1>1, <1>2, <1>3, <1>4, <1>5 DEF VerificationNext

LEMMA VerificationInvariant == VerificationSpec => []VerificationInv
<1>1. VerificationInit => VerificationInv
  BY InitVerification
<1>2. VerificationInv /\ [VerificationNext]_verificationVars => VerificationInv'
  BY VerificationStep
<1>. QED  BY <1>1, <1>2, PTL DEF VerificationSpec

(* audit_log_integrity and reconcile_audit_outbox: until MongoDB is restored *)
(* from a backup neither command reports a loss, however the workers, a      *)
(* verification and a change of the signing key come between one another.    *)
THEOREM NoLossNoAlarm == VerificationSpec => []NoFalseAlarm
<1>1. VerificationInv => NoFalseAlarm
  BY DEF VerificationInv, NothingLost, NoFalseAlarm
<1>. QED  BY <1>1, VerificationInvariant, PTL

(* What makes a verification pass is a comparison with the head. *)
LEMMA OnlyComparisonsPass ==
  ASSUME VerificationInv, [VerificationNext]_verificationVars, ~CompareHead
  PROVE  /\ audit.status # "passed" => audit'.status # "passed"
         /\ checkpoints' = checkpoints
<1>1. audit \in Audit
  BY DEF VerificationInv, VerificationTypeOK
<1>2. CASE /\ \/ Next /\ UNCHANGED <<checkpoints, audit, activeKey, report>>
              \/ Reconcile \/ UNCHANGED verificationVars
  BY <1>2 DEF Reconcile, verificationVars
<1>3. CASE CrashAudit \/ RotateKey
  BY <1>1, <1>3 DEF CrashAudit, RotateKey, Audit
<1>4. ASSUME NEW p \in Partitions, StartAudit(p)
      PROVE  audit'.status = "running" /\ checkpoints' = checkpoints
  BY <1>1, <1>4 DEF StartAudit, Audit
<1>5. ASSUME ScanPartition
      PROVE  /\ audit.status # "passed" => audit'.status # "passed"
             /\ checkpoints' = checkpoints
  <2>1. PICK k, m : k = LastSequence(Scanned(audit.partition)) /\ m = Len(Scanned(audit.partition))
    OBVIOUS
  <2>2. \/ audit' = [audit EXCEPT !.pc = "head", !.last = k, !.scanned = m]
        \/ audit' = Fail("chain")
    BY <1>5, <2>1 DEF ScanPartition
  <2>3. CASE audit' = Fail("chain")
    BY <1>1, <1>5, <2>3, AuditFields DEF ScanPartition, Failures
  <2>4. CASE audit' = [audit EXCEPT !.pc = "head", !.last = k, !.scanned = m]
    BY <1>1, <1>5, <2>4 DEF ScanPartition, Audit
  <2>. QED  BY <2>2, <2>3, <2>4
<1>6. ASSUME NEW p \in Partitions, NEW n \in 0..heads[p].sequence, Restore(p, n)
      PROVE  audit' = audit /\ checkpoints' = checkpoints
  BY <1>6 DEF Restore
<1>. QED  BY <1>2, <1>3, <1>4, <1>5, <1>6 DEF VerificationNext, AuditStep

(* security/THREAT_MODEL.md, checkpoints against a cut tail: a verification  *)
(* passes only while the chain contains everything that any checkpoint of    *)
(* its partition has witnessed, wherever backups have cut it.                *)
THEOREM PassWitnessesCheckpoints == VerificationSpec => PassedContainsCheckpoints
<1>1. ASSUME VerificationInv, [VerificationNext]_verificationVars,
             audit.status # "passed", audit'.status = "passed"
      PROVE  \A c \in CheckpointsOf(audit.partition) : Contains(c)
  <2>1. CompareHead
    BY <1>1, OnlyComparisonsPass
  <2>2. PICK p \in Partitions : p = audit.partition
    BY <1>1, AuditFields DEF VerificationInv, VerificationTypeOK
  <2>. QED  BY <1>1, <2>1, <2>2, CompareOutcomes
<1>2. VerificationInv /\ [VerificationNext]_verificationVars =>
        [audit.status # "passed" /\ audit'.status = "passed"
           => \A c \in CheckpointsOf(audit.partition) : Contains(c)]_verificationVars
  BY <1>1
<1>. QED  BY <1>2, VerificationInvariant, PTL DEF VerificationSpec, PassedContainsCheckpoints

(* security/models.py, AuditCheckpoint: a later checkpoint of a partition    *)
(* witnesses a chain that contains every earlier one, and no sequence number *)
(* has two, whatever was restored and whichever keys signed them.            *)
THEOREM OneChainOfCheckpoints == VerificationSpec => CheckpointsFollow
<1>1. ASSUME VerificationInv, [VerificationNext]_verificationVars, NEW c \in checkpoints' \ checkpoints
      PROVE  /\ Contains(c.at)
             /\ \A b \in checkpoints : b.at.partition = c.at.partition =>
                  b.at.sequence < c.at.sequence /\ Contains(b.at)
  <2>1. CompareHead
    BY <1>1, OnlyComparisonsPass
  <2>2. PICK p \in Partitions : p = audit.partition
    BY <1>1, AuditFields DEF VerificationInv, VerificationTypeOK
  <2>3. PICK at : /\ at = [partition |-> p, sequence |-> heads[p].sequence, mac |-> heads[p].mac]
                  /\ ~BoundElsewhere(at) /\ heads[p] # NoHead
                  /\ checkpoints' = checkpoints \union {[at |-> at, key |-> activeKey]}
    BY <1>1, <2>1, <2>2, CompareOutcomes
  <2>4. c = [at |-> at, key |-> activeKey] /\ c.at = at
    BY <1>1, <2>3
  <2>5. at.partition = p /\ at.sequence = heads[p].sequence /\ Contains(at)
    BY <1>1, <2>3, HeadIsWitnessed
  <2>6. ASSUME NEW b \in checkpoints, b.at.partition = p
        PROVE  b.at.sequence < at.sequence /\ Contains(b.at)
    <3>1. VerificationTypeOK /\ TypeOK /\ ChainInv
      BY <1>1 DEF VerificationInv, VerificationTypeOK
    <3>2. b.at \in CheckpointsOf(p) /\ b.at.sequence \in Nat
      BY <2>6, <3>1, CheckpointTypes
    <3>3. Contains(b.at) /\ b.at.sequence <= heads[p].sequence
      BY <1>1, <2>1, <2>2, <3>2, CompareOutcomes
    <3>4. b.at.sequence # at.sequence
      BY <1>1, <2>3, <2>4, <2>5, <2>6 DEF BoundElsewhere
    <3>5. heads[p].sequence \in Nat
      BY <3>1, PlacesOfChain
    <3>. QED  BY <2>5, <3>2, <3>3, <3>4, <3>5
  <2>. QED  BY <2>4, <2>5, <2>6
<1>2. VerificationInv /\ [VerificationNext]_verificationVars =>
        [\A c \in checkpoints' \ checkpoints :
           /\ Contains(c.at)
           /\ \A b \in checkpoints : b.at.partition = c.at.partition =>
                b.at.sequence < c.at.sequence /\ Contains(b.at)]_verificationVars
  BY <1>1
<1>. QED  BY <1>2, VerificationInvariant, PTL DEF VerificationSpec, CheckpointsFollow
=============================================================================
