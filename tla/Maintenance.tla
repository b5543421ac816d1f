----------------------------- MODULE Maintenance -----------------------------
(***************************************************************************)
(* Online maintenance: the pass that MaintenanceService.tick makes after a *)
(* normal merge and after the terminal record, over the candidates of      *)
(* Syncer.  A pass archives settled rows in an immutable batch file and    *)
(* deletes them, folds old batch files into a partition, unlinks artifacts *)
(* and then batch files that nothing refers to any more.  Each of the five *)
(* commands has file operations before or after it, and the candidate may  *)
(* crash or be deposed at every point; what a deposed one does to files it *)
(* still does.                                                             *)
(*                                                                         *)
(* Data abstracted: the rows of an update and its token fate go with their *)
(* slot, members with their batch, the version and its artifact rows with  *)
(* their publication; a weight file and its optimizer file are one; an     *)
(* update's payload is the file <<"payload", slot>>.  Batch files are      *)
(* numbered in the order of their cutoffs.  The orphan grace may be over   *)
(* at any time.  Of the command log, the commands that took a proposal in  *)
(* stand for all: these are issued again at every scan.                    *)
(***************************************************************************)
EXTENDS Syncer

CONSTANTS
    DedupCount,  \* recent_batch_dedup_count
    MaxAudit     \* bound: batch files

ASSUME MaintenanceAssumption ==
    DedupCount \in Nat \ {0} /\ MaxAudit \in Nat

VARIABLES
    mpc,        \* where each candidate is in its pass
    basis,      \* updates.base_global_version by slot
    pruned,     \* rows that were deleted
    audit,      \* batch files with their archive_batches rows
    partition,  \* partition files with their manifests: the batches in them
    gc,         \* gc_candidates and audit_gc_candidates by file
    unlinked,   \* files that were unlinked
    hand,       \* the batch file a candidate is registering
    claim,      \* the files a candidate has claimed, and ...
    left,       \* ... has not visited yet
    logged,     \* slots whose proposal command is in command_records
    receipted   \* slots whose command has an archived command receipt

auditVars == <<audit, partition, hand>>
gcVars    == <<gc, unlinked, claim, left>>
rowVars   == <<basis, pruned, logged, receipted>>
maintVars == <<mpc, rowVars, auditVars, gcVars>>
everything == <<allVars, maintVars>>

AuditIds == 1 .. MaxAudit
Payloads == {"payload"} \X Slots
Artifacts == Publications \cup Payloads
BatchFiles == {"audit"} \X AuditIds
Files    == Artifacts \cup BatchFiles
Rows     == ({"update", "receipt"} \X Slots) \cup ({"batch"} \X Batches)
              \cup ({"publication"} \X Publications)

Passing == {"archive", "receipts", "register", "compact", "fold", "collect",
            "unlink", "complete", "sweep", "erase", "forget"}

NoCandidate == [state |-> "none", by |-> 0]
Candidate   == [state : {"none", "pending", "claimed"}, by : 0 .. MaxEpoch]

MaintenanceTypeOK ==
    /\ mpc \in [Epochs -> {"idle", "due"} \cup Passing]
    /\ basis \in [Slots -> Nat \cup {-1}]
    /\ pruned \subseteq Rows
    /\ audit \in [AuditIds -> [rows : SUBSET Rows,
                               state : {"none", "file", "hot", "folded"}]]
    /\ partition \subseteq SUBSET AuditIds
    /\ gc \in [Files -> Candidate]
    /\ unlinked \subseteq Files
    /\ hand \in [Epochs -> 0 .. MaxAudit]
    /\ claim \in [Epochs -> SUBSET Files]
    /\ left \in [Epochs -> SUBSET Files]
    /\ logged \subseteq Slots /\ receipted \subseteq Slots

MaintenanceInit ==
    /\ SyncerInit
    /\ mpc = [e \in Epochs |-> "idle"]
    /\ basis = [u \in Slots |-> -1]
    /\ pruned = {}
    /\ audit = [k \in AuditIds |-> [rows |-> {}, state |-> "none"]]
    /\ partition = {}
    /\ gc = [f \in Files |-> NoCandidate]
    /\ unlinked = {}
    /\ hand = [e \in Epochs |-> 0]
    /\ claim = [e \in Epochs |-> {}]
    /\ left = [e \in Epochs |-> {}]
    /\ logged = {} /\ receipted = {}

-----------------------------------------------------------------------------
(* What a pass may archive.                                                *)

\* Variant: the latest version itself may go.
CutoffLatest == version

\* tick passes latest - 1; _audit_history_records takes no more than that.
Cutoff == version - 1

\* Variant: the rows of a contributor's last receipt are not kept.
ProtectedNot(u) == FALSE

\* Until the run is over the last receipt of each contributor stays, with
\* what hangs on it.
Protected(u) == ctl.state \notin Closed /\ Cycle(u) = progress[Key(u)]

ArchivableBatches ==
    {b \in Batches :
        /\ batch[b].state \in {"committed", "abandoned"}
        /\ batch[b].target <= Cutoff
        /\ \A u \in batch[b].members : ~Protected(u)
        /\ <<"batch", b>> \notin pruned}

Settled(p) ==
    IF p[1] = "batch" THEN p[2] \in ArchivableBatches /\ intent[p[2]].state # "none"
    ELSE genesis[p[2]] \in {"committed", "abandoned"} /\ 0 <= Cutoff

ArchivablePublications ==
    {p \in Publications : Settled(p) /\ <<"publication", p>> \notin pruned}

ArchivableUpdates ==
    {u \in Slots :
        /\ update[u].status \in {"applied", "dropped"}
        /\ ~Protected(u)
        /\ IF update[u].batch # 0
             THEN update[u].batch \in ArchivableBatches ELSE basis[u] <= Cutoff
        /\ <<"update", u>> \notin pruned}

\* Receipts that promised no update go as soon as they are not the last.
ArchivableReceipts ==
    ArchivableUpdates \cup
    {u \in Slots : /\ fate[u] = "unpublished" /\ Cycle(u) < progress[Key(u)]
                   /\ <<"receipt", u>> \notin pruned}

\* _audit_history_records.
Archivable ==
    ({"batch"} \X ArchivableBatches) \cup ({"publication"} \X ArchivablePublications)
      \cup ({"update"} \X ArchivableUpdates) \cup ({"receipt"} \X ArchivableReceipts)

\* The foreign keys between these rows.
References ==
    UNION {{<<<<"batch", b>>, <<"update", u>>>> : u \in batch[b].members} : b \in Batches}
      \cup {<<<<"update", u>>, <<"receipt", u>>>> : u \in Slots}
      \cup {<<<<"update", u>>, <<"batch", update[u].batch>>>> : u \in Slots}
      \cup {<<<<"publication", <<"batch", b>>>>, <<"batch", b>>>> : b \in Batches}
      \cup {<<<<"receipt", u>>, <<"publication", <<"batch", update[u].batch>>>>>> :
              u \in {v \in Slots : update[v].status = "applied"}}

Exists(r) ==
    CASE r[1] = "update"  -> update[r[2]].status # "none"
      [] r[1] = "receipt" -> receipt[r[2]].gen # 0
      [] r[1] = "batch"   -> batch[r[2]].state # "none"
      [] r[1] = "publication" ->
           r[2][1] = "genesis" \/ intent[r[2][2]].state # "none"

\* No row that stays refers to a row of R.
DependencyClosed(R) ==
    \A ref \in References :
        ref[2] \in R /\ Exists(ref[1]) => ref[1] \in R \cup pruned

-----------------------------------------------------------------------------
(* The main loop around the passes.                                        *)

\* _abandon_publication_artifacts: the files of the publications whose intent
\* this step abandons become candidates, unless they are already.
Orphaned ==
    {p \in Publications :
        IF p[1] = "batch"
          THEN intent[p[2]].state = "prepared" /\ intent'[p[2]].state = "abandoned"
          ELSE genesis[p[2]] = "prepared" /\ genesis'[p[2]] = "abandoned"}

Listed(F) ==
    gc' = [f \in Files |-> IF f \in F /\ gc[f].state = "none"
                             THEN [state |-> "pending", by |-> 0] ELSE gc[f]]

\* A proposal is based on a version its learner has read, never on an older
\* one than the learner's proposal before it.
TakenIn == {u \in Slots : update[u].status = "none" /\ update'[u].status # "none"}

Based ==
    /\ \E v \in 0 .. version :
         /\ basis' = [u \in Slots |-> IF u \in TakenIn THEN v ELSE basis[u]]
         /\ \A u \in TakenIn : \A w \in Others(u) : Cycle(w) < Cycle(u) => basis[w] <= v
    /\ logged' = logged \cup TakenIn

\* The pass after a normal merge, and the forced one of the candidate that
\* has finalized the run; one that finds it finalized makes none.
TickDue(e) ==
    CASE pc[e] = "publish" /\ pc'[e] = "admit" -> "archive"
      [] pc[e] = "finalize" /\ pc'[e] = "stop" -> "due"
      [] pc[e] = "stop" /\ pc'[e] = "done" /\ mpc[e] = "due" -> "archive"
      [] pc'[e] = "ended" -> "idle"
      [] OTHER -> mpc[e]

MainStep ==
    /\ \/ Takeover \/ WantClose
       \/ \E e \in Epochs : (mpc[e] \in {"idle", "due"} /\ Step(e)) \/ Crash(e)
    /\ mpc' = [e \in Epochs |-> TickDue(e)]
    /\ Listed(Orphaned)
    /\ IF TakenIn = {} THEN UNCHANGED <<basis, logged>> ELSE Based
    /\ UNCHANGED <<pruned, receipted, auditVars, unlinked, claim, left>>

\* _ingest_proposals reads every proposal file at every scan: the command has
\* its result on record, or it runs on what the tables still hold.
Rescanned(u) == u \in logged \cup receipted

\* A failed step of the pass ends the candidate, unless it had come to its
\* end: the terminal record is out before the forced pass.
Fails(e) ==
    /\ mpc' = [mpc EXCEPT ![e] = "idle"]
    /\ Crash(e) \/ (pc[e] = "done" /\ UNCHANGED allVars)
    /\ UNCHANGED <<rowVars, auditVars, gcVars>>

Pass(e, from, to) ==
    /\ mpc[e] = from
    /\ mpc' = [mpc EXCEPT ![e] = to]
    /\ UNCHANGED allVars

-----------------------------------------------------------------------------
(* Archive.                                                                *)

\* The forced pass archives whatever there is, the others when there are
\* archive_batch_rows of it; nothing before version 1.
SkipArchive(e) ==
    /\ pc[e] # "done" \/ version < 1
    /\ Pass(e, "archive", "compact")
    /\ UNCHANGED <<rowVars, auditVars, gcVars>>

\* publish_audit_batch, under an id that is the hash of the records.
PublishBatch(e) ==
    /\ version >= 1
    /\ Pass(e, "archive", "receipts")
    /\ \E k \in AuditIds :
         /\ audit[k].state = "none" /\ \A j \in 1 .. k - 1 : audit[j].state # "none"
         /\ audit' = [audit EXCEPT ![k] = [rows |-> Archivable, state |-> "file"]]
         /\ hand' = [hand EXCEPT ![e] = k]
    /\ UNCHANGED <<rowVars, partition, gcVars>>

\* Variant: the commands are deleted without a trace.
PublishReceiptsNot(e) ==
    /\ Commanding(e)
    /\ Pass(e, "receipts", "register")
    /\ UNCHANGED <<rowVars, auditVars, gcVars>>

\* publish_command_receipt for every row of command_records, before the
\* transaction that deletes them.
PublishReceipts(e) ==
    /\ Commanding(e)
    /\ Pass(e, "receipts", "register")
    /\ audit[hand[e]].rows = Archivable
    /\ receipted' = receipted \cup logged
    /\ UNCHANGED <<basis, pruned, logged, auditVars, gcVars>>

\* archive_audit_batch: the rows of the verified batch are deleted, and the
\* files they named become candidates.
Register(e) ==
    LET R == audit[hand[e]].rows
    IN /\ Commanding(e)
       /\ Pass(e, "register", "compact")
       /\ R = Archivable /\ DependencyClosed(R)
       /\ audit' = [audit EXCEPT ![hand[e]].state = "hot"]
       /\ pruned' = pruned \cup R
       /\ logged' = {}
       /\ Listed({p \in Publications : <<"publication", p>> \in R}
                   \cup {f \in Payloads : <<"update", f[2]>> \in R})
       /\ UNCHANGED <<basis, receipted, partition, hand, unlinked, claim, left>>

\* sqlite3.IntegrityError out of the transaction, which rolls back.
RegisterFails(e) ==
    /\ Commanding(e)
    /\ mpc[e] = "register"
    /\ ~DependencyClosed(audit[hand[e]].rows)
    /\ Fails(e)

-----------------------------------------------------------------------------
(* Compaction.                                                             *)

Hot == {k \in AuditIds : audit[k].state = "hot"}

OnDisk(f) ==
    /\ f \notin unlinked
    /\ \/ f \in Payloads /\ update[f[2]].status # "none"
       \/ f \in Publications \cap written
       \/ f \in BatchFiles /\ audit[f[2]].state # "none"

\* The oldest DedupCount hot batches.
Oldest == {k \in Hot : Cardinality({j \in Hot : j <= k}) <= DedupCount}

SkipCompact(e) ==
    /\ Cardinality(Hot) < DedupCount
    /\ Pass(e, "compact", "collect")
    /\ UNCHANGED <<rowVars, auditVars, gcVars>>

\* publish_audit_partition: the partition file, then its manifest, from the
\* batch files as they are read back.
PublishPartition(e) ==
    /\ Cardinality(Hot) >= DedupCount
    /\ Pass(e, "compact", "fold")
    /\ partition' = partition \cup {Oldest}
    /\ UNCHANGED <<rowVars, audit, hand, gcVars>>

\* Variant: every hot batch is taken for a part of the partition.
FoldedAll == Hot

\* The batches that compact_audit_batches is given.
Folded == Oldest

\* compact_audit_batches: verified sources become part of the partition, and
\* their files candidates.
Fold(e) ==
    /\ Commanding(e)
    /\ Pass(e, "fold", "collect")
    /\ \A k \in Folded : OnDisk(<<"audit", k>>)
    /\ audit' = [k \in AuditIds |->
                   IF k \in Folded THEN [audit[k] EXCEPT !.state = "folded"] ELSE audit[k]]
    /\ Listed({"audit"} \X Folded)
    /\ UNCHANGED <<rowVars, partition, hand, unlinked, claim, left>>

-----------------------------------------------------------------------------
(* Deletion of artifacts.                                                  *)

\* A candidate that waits, or that another epoch has claimed.
Claimable(c, e) == c.state = "pending" \/ (c.state = "claimed" /\ c.by # e)

ClaimedBy(e) == [state |-> "claimed", by |-> e]

Claims(e, F) ==
    /\ F # {} => Commanding(e)
    /\ gc' = [f \in Files |-> IF f \in F THEN ClaimedBy(e) ELSE gc[f]]
    /\ claim' = [claim EXCEPT ![e] = F]
    /\ left' = [left EXCEPT ![e] = F]
    /\ UNCHANGED <<rowVars, auditVars, unlinked>>

\* A claimed file is unlinked; one that is not there is no error.
Visits(e, at, after) ==
    \E f \in left[e] :
        /\ Pass(e, at, IF left[e] = {f} THEN after ELSE at)
        /\ unlinked' = IF OnDisk(f) THEN unlinked \cup {f} ELSE unlinked
        /\ left' = [left EXCEPT ![e] = @ \ {f}]
        /\ UNCHANGED <<rowVars, auditVars, gc, claim>>

\* The claimed candidates are struck off once their files are gone.
Completes(e) ==
    /\ Commanding(e)
    /\ \A f \in claim[e] : ~OnDisk(f) /\ gc[f] = ClaimedBy(e)
    /\ gc' = [f \in Files |-> IF f \in claim[e] THEN NoCandidate ELSE gc[f]]
    /\ claim' = [claim EXCEPT ![e] = {}]
    /\ UNCHANGED <<rowVars, auditVars, unlinked, left>>

\* claim_orphan_gc takes the candidates whose grace is over, if there are any.
ClaimOrphans(e) ==
    \E F \in SUBSET {f \in Artifacts : Claimable(gc[f], e)} :
        /\ Pass(e, "collect", IF F = {} THEN "sweep" ELSE "unlink")
        /\ Claims(e, F)

\* delete_claimed_artifact_object.
Unlink(e) == Visits(e, "unlink", "complete")

\* complete_artifact_gc.
Complete(e) == Pass(e, "complete", "sweep") /\ Completes(e)

\* A deposed candidate has written the file after it was visited.
CompleteFails(e) ==
    /\ mpc[e] = "complete"
    /\ \E f \in claim[e] : OnDisk(f)
    /\ Fails(e)

-----------------------------------------------------------------------------
(* Deletion of the batch files that were folded.                           *)

\* claim_audit_gc.
ClaimAudit(e) ==
    LET F == {f \in BatchFiles : Claimable(gc[f], e)}
    IN /\ Pass(e, "sweep", IF F = {} THEN "idle" ELSE "erase")
       /\ Claims(e, F)

\* delete_claimed_audit_batch_object.
Erase(e) == Visits(e, "erase", "forget")

\* complete_audit_gc.
Forget(e) == Pass(e, "forget", "idle") /\ Completes(e)

-----------------------------------------------------------------------------
Tick(e) ==
    \/ SkipArchive(e) \/ PublishBatch(e) \/ PublishReceipts(e) \/ Register(e)
    \/ RegisterFails(e) \/ SkipCompact(e) \/ PublishPartition(e) \/ Fold(e)
    \/ ClaimOrphans(e) \/ Unlink(e) \/ Complete(e) \/ CompleteFails(e)
    \/ ClaimAudit(e) \/ Erase(e) \/ Forget(e)

MaintenanceNext == MainStep \/ \E e \in Epochs : Tick(e)

MaintenanceSpec == MaintenanceInit /\ [][MaintenanceNext]_everything
=============================================================================
