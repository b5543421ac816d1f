--------------------------- MODULE MaintenanceProofs ---------------------------
(***************************************************************************)
(* Archiving and deletion take nothing away from a run that goes on: the   *)
(* passes leave the candidates and the database to themselves, and what    *)
(* they delete is dead for ever, whoever deletes it and whenever.          *)
(***************************************************************************)
EXTENDS MaintenanceProps, SyncerProofs

-----------------------------------------------------------------------------
(* Passes do not disturb the candidates.                                   *)

\* A step of a pass leaves all but the pass alone, or ends the candidate.
LEMMA TickKinds ==
  ASSUME NEW e \in Epochs, Tick(e)
  PROVE  \/ Crash(e) /\ Fails(e)
         \/ UNCHANGED allVars /\ \E from \in Passing, to \in Passing \cup {"idle"} : Pass(e, from, to)
         \/ UNCHANGED allVars /\ Fails(e)
  <1> USE DEF Passing
  <1>1. CASE SkipArchive(e) \/ PublishBatch(e) \/ PublishReceipts(e) \/ Register(e)
    BY <1>1 DEF SkipArchive, PublishBatch, PublishReceipts, Register, Pass
  <1>2. CASE RegisterFails(e) \/ CompleteFails(e)
    BY <1>2 DEF RegisterFails, CompleteFails, Fails
  <1>3. CASE SkipCompact(e) \/ PublishPartition(e) \/ Fold(e)
    BY <1>3 DEF SkipCompact, PublishPartition, Fold, Pass
  <1>4. CASE Complete(e) \/ Forget(e)
    BY <1>4 DEF Complete, Forget, Pass
  <1>5. CASE ClaimOrphans(e)
    BY <1>5 DEF ClaimOrphans, Pass
  <1>6. CASE ClaimAudit(e)
    <2>1. Pass(e, "sweep", "idle") \/ Pass(e, "sweep", "erase")
      BY <1>6 DEF ClaimAudit
    <2> QED BY <2>1 DEF Pass
  <1>7. CASE Unlink(e)
    <2>1. Pass(e, "unlink", "complete") \/ Pass(e, "unlink", "unlink")
      BY <1>7 DEF Unlink, Visits
    <2> QED BY <2>1 DEF Pass
  <1>8. CASE Erase(e)
    <2>1. Pass(e, "erase", "forget") \/ Pass(e, "erase", "erase")
      BY <1>8 DEF Erase, Visits
    <2> QED BY <2>1 DEF Pass
  <1> QED BY <1>1, <1>2, <1>3, <1>4, <1>5, <1>6, <1>7, <1>8 DEF Tick

\* With maintenance, candidates do what they do without it.
LEMMA StepIsSyncers == [MaintenanceNext]_everything => [SyncerNext]_allVars
  <1>1. MainStep => SyncerNext
    BY DEF MainStep, SyncerNext
  <1>2. ASSUME NEW e \in Epochs, Tick(e) PROVE [SyncerNext]_allVars
    BY <1>2, TickKinds DEF SyncerNext
  <1> QED BY <1>1, <1>2 DEF MaintenanceNext, everything

\* All that is proved of candidates and of the database holds of a run that
\* is archived and cleaned up at any time.
THEOREM MaintenanceImplementsSyncer == MaintenanceSpec => SyncerSpec
  <1>1. MaintenanceInit => SyncerInit
    BY DEF MaintenanceInit
  <1> QED BY <1>1, StepIsSyncers, PTL DEF MaintenanceSpec, SyncerSpec

-----------------------------------------------------------------------------
(* Where a candidate is when it makes a pass.                              *)

\* From these points of its program a candidate takes but one step.
LEMMA OneWay ==
  ASSUME NEW e \in Epochs, Step(e)
  PROVE  /\ pc[e] = "publish" => Publish(e)
         /\ pc[e] = "finalize" => Finalize(e)
         /\ pc[e] = "stop" => PublishTerminal(e)
         /\ pc[e] \notin {"absent", "done", "ended"}
  <1> DEFINE Elsewhere == pc[e] \notin {"publish", "finalize", "stop", "absent", "done", "ended"}
  <1> USE DEF Go, Stay
  <1>1. CASE \/ Reconcile(e) \/ Load(e) \/ InitializeGenesis(e) \/ WriteGenesis(e)
             \/ FinishGenesis(e) \/ PublishFirst(e)
    BY <1>1
       DEF Reconcile, Load, InitializeGenesis, WriteGenesis, FinishGenesis, PublishFirst
  <1>2. CASE Admit(e) \/ Ingest(e) \/ Advance(e) \/ Prepare(e) \/ Write(e) \/ Commit(e)
    BY <1>2 DEF Admit, Ingest, Advance, Prepare, Write, Commit
  <1>3. CASE Select(e) \/ SelectNone(e) \/ SelectFails(e)
    <2>1. pc[e] = SelectFrom
      BY <1>3 DEF Select, SelectNone, SelectFails
    <2> QED BY <2>1 DEF SelectFrom
  <1>4. CASE Preclose(e) \/ CloseAdmission(e) \/ Close(e) \/ Announce(e) \/ IngestAck(e)
    BY <1>4 DEF Preclose, CloseAdmission, Close, Announce, IngestAck
  <1>5. CASE AckDeadline(e) \/ Adjudicate(e) \/ ProposalDeadline(e)
    BY <1>5 DEF AckDeadline, Adjudicate, ProposalDeadline
  <1>6. CASE Publish(e) \/ Finalize(e) \/ PublishTerminal(e)
    BY <1>6 DEF Publish, Finalize, PublishTerminal
  <1> QED BY <1>1, <1>2, <1>3, <1>4, <1>5, <1>6 DEF Step

\* Who does not lead any more changes nothing in the database.
LEMMA Unfenced ==
  ASSUME NEW e \in Epochs, Step(e), leader # e
  PROVE  UNCHANGED vars
  BY DEF Step, Commanding, Reconcile, Load, InitializeGenesis, WriteGenesis, FinishGenesis,
         PublishFirst, Admit, Ingest, Advance, Select, SelectNone, SelectFails, Prepare, Write,
         Commit, Publish, Preclose, CloseAdmission, Close, Announce, IngestAck, AckDeadline,
         Adjudicate, ProposalDeadline, Finalize, PublishTerminal

\* What the main loop does to the passes: they are interrupted, or begin.
Begins(e) ==
    \/ pc[e] = "publish" /\ pc'[e] = "admit" /\ mpc'[e] = "archive"
    \/ pc[e] = "finalize" /\ pc'[e] = "stop" /\ mpc'[e] = "due"
    \/ pc[e] = "stop" /\ pc'[e] = "done" /\ mpc[e] = "due" /\ mpc'[e] = "archive"

\* Every other step of the main loop leaves the passes alone.
LEMMA MainPasses ==
  ASSUME MainStep
  PROVE  \A e \in Epochs : mpc'[e] \in {mpc[e], "idle"} \/ Begins(e)
  <1> SUFFICES ASSUME NEW e \in Epochs
               PROVE  mpc'[e] \in {mpc[e], "idle"} \/ Begins(e)
      OBVIOUS
  <1>1. mpc'[e] = TickDue(e)
    BY DEF MainStep
  <1>2. CASE pc[e] = "publish" /\ pc'[e] = "admit"
    BY <1>1, <1>2 DEF TickDue, Begins
  <1>3. CASE pc[e] = "finalize" /\ pc'[e] = "stop"
    BY <1>1, <1>3 DEF TickDue, Begins
  <1>4. CASE pc[e] = "stop" /\ pc'[e] = "done" /\ mpc[e] = "due"
    BY <1>1, <1>4 DEF TickDue, Begins
  <1>5. CASE ~(\/ pc[e] = "publish" /\ pc'[e] = "admit"
               \/ pc[e] = "finalize" /\ pc'[e] = "stop"
               \/ pc[e] = "stop" /\ pc'[e] = "done" /\ mpc[e] = "due")
    <2>1. TickDue(e) \in {mpc[e], "idle"}
      BY <1>5 DEF TickDue
    <2> QED BY <1>1, <2>1
  <1> QED BY <1>2, <1>3, <1>4, <1>5

-----------------------------------------------------------------------------
(* Types.                                                                  *)

MpcType == [Epochs -> {"idle", "due"} \cup Passing]

\* What is listed for deletion is a candidate.
LEMMA ListedTypes ==
  ASSUME MaintenanceTypeOK, NEW F, Listed(F)
  PROVE  gc' \in [Files -> Candidate]
  <1>1. [state |-> "pending", by |-> 0] \in Candidate
    BY AuthorityAssumption DEF Candidate
  <1> QED BY <1>1 DEF Listed, MaintenanceTypeOK

\* What is claimed for deletion, or struck off after it, is a candidate.
LEMMA ClaimTypes ==
  ASSUME MaintenanceTypeOK, NEW e \in Epochs, mpc' \in MpcType,
         (\E F \in SUBSET Files : Claims(e, F)) \/ Completes(e)
  PROVE  MaintenanceTypeOK'
  <1>0. ClaimedBy(e) \in Candidate /\ NoCandidate \in Candidate
    BY AuthorityAssumption DEF ClaimedBy, NoCandidate, Candidate, Epochs
  <1>1. ASSUME NEW F \in SUBSET Files, Claims(e, F) PROVE MaintenanceTypeOK'
    <2>1. /\ gc' = [f \in Files |-> IF f \in F THEN ClaimedBy(e) ELSE gc[f]]
          /\ claim' = [claim EXCEPT ![e] = F] /\ left' = [left EXCEPT ![e] = F]
          /\ UNCHANGED <<rowVars, auditVars, unlinked>>
      BY <1>1 DEF Claims
    <2>2. gc' \in [Files -> Candidate]
      BY <1>0, <2>1 DEF MaintenanceTypeOK
    <2>3. claim' \in [Epochs -> SUBSET Files] /\ left' \in [Epochs -> SUBSET Files]
      BY <2>1 DEF MaintenanceTypeOK
    <2> QED BY <2>1, <2>2, <2>3 DEF MaintenanceTypeOK, rowVars, auditVars, MpcType
  <1>2. CASE Completes(e)
    <2>1. /\ gc' = [f \in Files |-> IF f \in claim[e] THEN NoCandidate ELSE gc[f]]
          /\ claim' = [claim EXCEPT ![e] = {}]
          /\ UNCHANGED <<rowVars, auditVars, unlinked, left>>
      BY <1>2 DEF Completes
    <2>2. gc' \in [Files -> Candidate]
      BY <1>0, <2>1 DEF MaintenanceTypeOK
    <2>3. claim' \in [Epochs -> SUBSET Files]
      BY <2>1 DEF MaintenanceTypeOK
    <2> QED BY <2>1, <2>2, <2>3 DEF MaintenanceTypeOK, rowVars, auditVars, MpcType
  <1> QED BY <1>1, <1>2

\* What may be archived is rows.
LEMMA ArchivableRows == Archivable \subseteq Rows
  BY DEF Archivable, Rows, ArchivableBatches, ArchivablePublications, ArchivableReceipts,
         ArchivableUpdates

\* The state of maintenance is well typed.
LEMMA MaintenanceTypeStep ==
  TypeOK /\ MaintenanceTypeOK /\ [MaintenanceNext]_everything => MaintenanceTypeOK'
  <1> SUFFICES ASSUME TypeOK, MaintenanceTypeOK, [MaintenanceNext]_everything
               PROVE  MaintenanceTypeOK'
      OBVIOUS
  <1>1. CASE MainStep
    <2>1. mpc' \in MpcType
      <3>1. \A e \in Epochs : TickDue(e) \in {"idle", "due"} \cup Passing
        BY DEF TickDue, MaintenanceTypeOK, Passing
      <3>2. mpc' = [e \in Epochs |-> TickDue(e)]
        BY <1>1 DEF MainStep
      <3> QED BY <3>1, <3>2 DEF MpcType
    <2>2. gc' \in [Files -> Candidate]
      BY <1>1, ListedTypes DEF MainStep
    <2>3. basis' \in [Slots -> Nat \cup {-1}] /\ logged' \subseteq Slots
      <3>1. CASE UNCHANGED <<basis, logged>>
        BY <3>1 DEF MaintenanceTypeOK
      <3>2. CASE Based
        <4>1. PICK v \in 0 .. version :
                basis' = [u \in Slots |-> IF u \in TakenIn THEN v ELSE basis[u]]
          BY <3>2 DEF Based
        <4>2. v \in Nat
          BY DEF TypeOK
        <4>3. basis' \in [Slots -> Nat \cup {-1}]
          BY <4>1, <4>2 DEF MaintenanceTypeOK
        <4>4. TakenIn \subseteq Slots /\ logged' = logged \cup TakenIn
          BY <3>2 DEF Based, TakenIn
        <4> QED BY <4>3, <4>4 DEF MaintenanceTypeOK
      <3> QED BY <1>1, <3>1, <3>2 DEF MainStep
    <2>4. UNCHANGED <<pruned, receipted, auditVars, unlinked, claim, left>>
      BY <1>1 DEF MainStep
    <2> QED BY <2>1, <2>2, <2>3, <2>4 DEF MaintenanceTypeOK, auditVars, MpcType
  <1>2. ASSUME NEW e \in Epochs, Tick(e) PROVE MaintenanceTypeOK'
    <2>0. mpc' \in MpcType
      BY <1>2, TickKinds DEF Pass, Fails, MaintenanceTypeOK, MpcType
    <2>1. CASE SkipArchive(e) \/ SkipCompact(e) \/ RegisterFails(e) \/ CompleteFails(e)
      BY <2>0, <2>1
         DEF SkipArchive, SkipCompact, RegisterFails, CompleteFails, Fails, MaintenanceTypeOK,
             rowVars, auditVars, gcVars, MpcType
    <2>2. CASE PublishBatch(e)
      <3>1. PICK k \in AuditIds :
              /\ audit' = [audit EXCEPT ![k] = [rows |-> Archivable, state |-> "file"]]
              /\ hand' = [hand EXCEPT ![e] = k]
        BY <2>2 DEF PublishBatch
      <3>2. /\ audit' \in [AuditIds -> [rows : SUBSET Rows,
                                        state : {"none", "file", "hot", "folded"}]]
            /\ hand' \in [Epochs -> 0 .. MaxAudit]
        BY <3>1, ArchivableRows, MaintenanceAssumption DEF MaintenanceTypeOK, AuditIds
      <3>3. UNCHANGED <<rowVars, partition, gcVars>>
        BY <2>2 DEF PublishBatch
      <3> QED BY <2>0, <3>2, <3>3 DEF MaintenanceTypeOK, rowVars, gcVars, MpcType
    <2>3. CASE PublishReceipts(e)
      BY <2>0, <2>3 DEF PublishReceipts, MaintenanceTypeOK, auditVars, gcVars, MpcType
    <2>4. CASE Register(e)
      <3> DEFINE R == audit[hand[e]].rows
      <3>1. /\ R = Archivable /\ pruned' = pruned \cup R /\ logged' = {}
            /\ audit' = [audit EXCEPT ![hand[e]].state = "hot"]
            /\ UNCHANGED <<basis, receipted, partition, hand, unlinked, claim, left>>
        BY <2>4 DEF Register
      <3>2. gc' \in [Files -> Candidate]
        BY <2>4, ListedTypes DEF Register
      <3>3. audit' \in [AuditIds -> [rows : SUBSET Rows,
                                     state : {"none", "file", "hot", "folded"}]]
        <4> DEFINE h == hand[e]
        <4>1. audit' = [audit EXCEPT ![h].state = "hot"]
          BY <3>1
        <4> HIDE DEF h
        <4>2. audit' = [k \in AuditIds |->
                         IF k = h THEN [audit[k] EXCEPT !.state = "hot"] ELSE audit[k]]
          BY <4>1 DEF MaintenanceTypeOK
        <4> QED BY <4>2 DEF MaintenanceTypeOK
      <3>4. pruned' \subseteq Rows
        BY <3>1, ArchivableRows DEF MaintenanceTypeOK
      <3> QED BY <2>0, <3>1, <3>2, <3>3, <3>4 DEF MaintenanceTypeOK, MpcType
    <2>5. CASE PublishPartition(e)
      <3>1. Oldest \in SUBSET AuditIds
        BY DEF Oldest, Hot
      <3> QED BY <2>0, <2>5, <3>1 DEF PublishPartition, MaintenanceTypeOK, rowVars, gcVars, MpcType
    <2>6. CASE Fold(e)
      <3>1. /\ audit' = [k \in AuditIds |->
                          IF k \in Folded THEN [audit[k] EXCEPT !.state = "folded"] ELSE audit[k]]
            /\ UNCHANGED <<rowVars, partition, hand, unlinked, claim, left>>
        BY <2>6 DEF Fold
      <3>2. gc' \in [Files -> Candidate]
        BY <2>6, ListedTypes DEF Fold
      <3>3. audit' \in [AuditIds -> [rows : SUBSET Rows,
                                     state : {"none", "file", "hot", "folded"}]]
        BY <3>1 DEF MaintenanceTypeOK
      <3> QED BY <2>0, <3>1, <3>2, <3>3 DEF MaintenanceTypeOK, rowVars, MpcType
    <2>7. CASE ClaimOrphans(e) \/ ClaimAudit(e)
      <3>1. PICK F \in SUBSET Files : Claims(e, F)
        BY <2>7 DEF ClaimOrphans, ClaimAudit, Files
      <3> QED BY <2>0, <3>1, ClaimTypes
    <2>8. CASE Unlink(e) \/ Erase(e)
      <3>1. PICK f \in left[e] :
              /\ unlinked' = IF OnDisk(f) THEN unlinked \cup {f} ELSE unlinked
              /\ left' = [left EXCEPT ![e] = @ \ {f}]
              /\ UNCHANGED <<rowVars, auditVars, gc, claim>>
        BY <2>8 DEF Unlink, Erase, Visits
      <3>2. unlinked' \subseteq Files /\ left' \in [Epochs -> SUBSET Files]
        BY <3>1 DEF MaintenanceTypeOK
      <3> QED BY <2>0, <3>1, <3>2 DEF MaintenanceTypeOK, rowVars, auditVars, MpcType
    <2>9. CASE Complete(e) \/ Forget(e)
      <3>1. Completes(e)
        BY <2>9 DEF Complete, Forget
      <3> QED BY <2>0, <3>1, ClaimTypes
    <2> QED BY <1>2, <2>1, <2>2, <2>3, <2>4, <2>5, <2>6, <2>7, <2>8, <2>9 DEF Tick
  <1>3. CASE UNCHANGED everything
    BY <1>3 DEF everything, maintVars, rowVars, auditVars, gcVars, MaintenanceTypeOK
  <1> QED BY <1>1, <1>2, <1>3 DEF MaintenanceNext

-----------------------------------------------------------------------------
(* When a pass is made.                                                    *)

\* The leader makes its passes when the latest version is published, and
\* nobody before its turn.
PassInv ==
    /\ \A e \in Epochs : e > leader => mpc[e] = "idle"
    /\ \A e \in Epochs : mpc[e] = "due" => pc[e] = "stop"
    /\ \A e \in Epochs : pc[e] \in Published \ {"publish"} => head[e] = memory[e]
    /\ leader > 0 /\ mpc[leader] # "idle" => head[leader] = version

\* What is known of the candidates and of the database.
Base == AuthorityInv /\ HistoryInv /\ SyncerInv

\* A step of a pass moves no candidate but to its end.
LEMMA PassStep ==
  ASSUME Base, MaintenanceTypeOK, PassInv, NEW e \in Epochs, Tick(e)
  PROVE  PassInv'
  <1>0. leader > 0 => leader \in Epochs
    BY DEF Base, AuthorityInv, TypeOK, Epochs
  <1>1. CASE UNCHANGED allVars /\ \E from \in Passing, to \in Passing \cup {"idle"} : Pass(e, from, to)
    <2>1. PICK from \in Passing, to \in Passing \cup {"idle"} : Pass(e, from, to)
      BY <1>1
    <2>2. /\ mpc[e] = from /\ mpc'[e] = to
          /\ \A f \in Epochs : f # e => mpc'[f] = mpc[f]
      BY <2>1 DEF Pass, MaintenanceTypeOK
    <2>3. from # "idle" /\ to # "due"
      BY DEF Passing
    <2>4. UNCHANGED <<leader, version, pc, head, memory>>
      BY <1>1 DEF allVars, vars, syncerVars, memVars, fileVars
    <2> QED BY <1>0, <2>2, <2>3, <2>4 DEF PassInv
  <1>2. CASE Fails(e)
    <2>1. mpc'[e] = "idle" /\ \A f \in Epochs : f # e => mpc'[f] = mpc[f]
      BY <1>2 DEF Fails, MaintenanceTypeOK
    <2>2. /\ UNCHANGED <<leader, version, head, memory>>
          /\ pc'[e] \in {pc[e], "ended"}
          /\ \A f \in Epochs : f # e => pc'[f] = pc[f]
      BY <1>2
         DEF Fails, Crash, allVars, vars, syncerVars, memVars, fileVars, Base, SyncerInv, InHand
    <2>3. "ended" \notin Published
      BY DEF Published, Working, Running, Normal, Merge, Drain, Start
    <2> QED BY <1>0, <2>1, <2>2, <2>3 DEF PassInv
  <1> QED BY <1>1, <1>2, TickKinds

\* The leader has published the latest version when its main loop makes a
\* pass due.
LEMMA MainPassStep ==
  ASSUME Base, Base', MaintenanceTypeOK, PassInv, MainStep
  PROVE  PassInv'
  <1>0. /\ leader \in Int /\ version \in Int
        /\ leader > 0 => leader \in Epochs
        /\ \A e \in Epochs : e \in Int
    BY DEF Base, AuthorityInv, TypeOK, Epochs
  <1>a. \A e \in Epochs : mpc'[e] \in {mpc[e], "idle"} \/ Begins(e)
    BY MainPasses
  <1>u. ASSUME UNCHANGED <<leader, version, head, memory>>,
               \A e \in Epochs : pc'[e] = pc[e] \/ (pc'[e] = "ended" /\ mpc'[e] = "idle")
        PROVE  PassInv'
    <2>1. \A e \in Epochs : mpc'[e] \in {mpc[e], "idle"}
      BY <1>a, <1>u DEF Begins
    <2>2. "ended" \notin Published
      BY DEF Published, Working, Running, Normal, Merge, Drain, Start
    <2> QED BY <1>0, <1>u, <2>1, <2>2 DEF PassInv
  <1>t. \A e \in Epochs : pc'[e] = "ended" => mpc'[e] = "idle"
    BY DEF MainStep, TickDue
  <1>1. CASE Takeover
    <2>0. /\ leader + 1 \in Epochs /\ leader' = leader + 1
          /\ UNCHANGED <<version, memory, head>>
      <3>1. leader \in 0 .. MaxEpoch /\ MaxEpoch \in Nat
        BY AuthorityAssumption DEF Base, AuthorityInv, TypeOK
      <3> QED BY <1>1, <3>1 DEF Takeover, AcquireLeader, memVars, fileVars, Epochs
    <2>1. /\ pc'[leader + 1] = "reconcile" /\ pc[leader + 1] = "absent"
          /\ \A e \in Epochs : e # leader + 1 => pc'[e] = pc[e]
      BY <1>0, <1>1, <2>0 DEF Takeover, Base, SyncerInv, InHand, NobodyAhead
    <2>2. \A e \in Epochs : mpc'[e] \in {mpc[e], "idle"}
      BY <1>a, <2>1 DEF Begins
    <2>3. mpc[leader + 1] = "idle"
      BY <1>0, <2>0 DEF PassInv
    <2>4. "reconcile" \notin Published
      BY DEF Published, Working
    <2> QED BY <1>0, <2>0, <2>1, <2>2, <2>3, <2>4 DEF PassInv
  <1>2. CASE WantClose
    BY <1>2, <1>u DEF WantClose, vars, memVars, fileVars
  <1>3. ASSUME NEW e \in Epochs, Crash(e) PROVE PassInv'
    <2>1. \A f \in Epochs : pc'[f] \in {pc[f], "ended"}
      BY <1>3 DEF Crash, Base, SyncerInv, InHand
    <2>2. UNCHANGED <<leader, version, head, memory>>
      BY <1>3 DEF Crash, vars, memVars, fileVars
    <2> QED BY <1>t, <1>u, <2>1, <2>2
  <1>4. ASSUME NEW e \in Epochs, mpc[e] \in {"idle", "due"}, Step(e) PROVE PassInv'
    <2>0. /\ Still(e) \/ (Rest(e) /\ (Reads(e) \/ Founds(e) \/ Commits(e) \/ Shows(e)))
          /\ pc[e] = "publish" => Publish(e)
          /\ pc[e] = "finalize" => Finalize(e)
          /\ pc[e] = "stop" => PublishTerminal(e)
          /\ pc[e] \notin {"absent", "done", "ended"}
      BY <1>4, StepShape, OneWay DEF Base, AuthorityInv, SyncerInv
    <2>1. /\ leader' = leader
          /\ \A f \in Epochs : f # e =>
               pc'[f] = pc[f] /\ head'[f] = head[f] /\ memory'[f] = memory[f]
          /\ version' = version \/ leader = e
      BY <2>0 DEF Still, Rest, Reads, Founds, Commits, Shows
    <2>2. e <= leader
      BY <1>0, <2>0 DEF Base, SyncerInv, NobodyAhead
    <2>3. \A f \in Epochs : f # e => mpc'[f] \in {mpc[f], "idle"}
      BY <1>a, <2>1 DEF Begins
    <2>4. mpc'[e] = "due" => pc'[e] = "stop"
      <3>1. CASE pc[e] = "stop"
        <4>1. pc'[e] = "done"
          BY <2>0, <3>1 DEF PublishTerminal, Go, Base, SyncerInv, InHand
        <4>2. mpc'[e] # "due"
          <5>1. mpc'[e] = TickDue(e)
            BY DEF MainStep
          <5>2. CASE mpc[e] = "due"
            BY <3>1, <4>1, <5>1, <5>2 DEF TickDue
          <5>3. CASE mpc[e] = "idle"
            BY <1>a, <4>1, <3>1, <5>3 DEF Begins
          <5> QED BY <1>4, <5>2, <5>3
        <4> QED BY <4>2
      <3>2. CASE pc[e] # "stop"
        BY <1>a, <3>2 DEF PassInv, Begins
      <3> QED BY <3>1, <3>2
    <2>5. pc'[e] \in Published \ {"publish"} => head'[e] = memory'[e]
      <3> SUFFICES ASSUME pc'[e] \in Published \ {"publish"} PROVE head'[e] = memory'[e]
          OBVIOUS
      <3> USE DEF Published, Working, Running, Normal, Merge, Drain, Start
      <3>1. CASE pc[e] = "publish"
        <4>1. Publish(e)
          BY <2>0, <3>1
        <4>2. head' = [head EXCEPT ![e] = memory[e]] /\ UNCHANGED memory
          BY <4>1 DEF Publish, memVars
        <4> QED BY <4>2 DEF Base, SyncerInv, Local
      <3>2. CASE pc[e] # "publish" /\ Still(e)
        BY <3>2 DEF Still, PassInv
      <3>3. CASE Reads(e) \/ Founds(e)
        BY <3>3 DEF Reads, Founds
      <3>4. CASE Commits(e)
        <4>1. version' = version /\ memory'[e] = version /\ head'[e] = head[e]
          BY <3>4 DEF Commits
        <4>2. head[e] = memory[e] /\ memory[e] = version
          BY <1>0, <3>4 DEF Commits, PassInv, Base, SyncerInv, Fresh, Epochs
        <4> QED BY <4>1, <4>2
      <3>5. CASE Shows(e)
        BY <3>5 DEF Shows
      <3> QED BY <2>0, <3>1, <3>2, <3>3, <3>4, <3>5
    <2>6. leader = e /\ mpc'[e] # "idle" => head'[e] = version'
      <3> SUFFICES ASSUME leader = e, mpc'[e] # "idle" PROVE head'[e] = version'
          OBVIOUS
      <3>0. /\ leader > 0 /\ version' \in Int
            /\ mpc[e] = "due" => pc[e] = "stop" /\ head[e] = version
        BY <1>4, <1>0 DEF PassInv, Epochs, Base, AuthorityInv, TypeOK
      <3>1. CASE pc[e] = "stop"
        <4>1. UNCHANGED <<version, head>>
          BY <2>0, <3>1 DEF PublishTerminal, vars
        <4>2. mpc[e] = "due"
          BY <1>4, <1>a, <3>1 DEF Begins
        <4> QED BY <3>0, <4>1, <4>2
      <3>2. CASE pc[e] # "stop"
        <4>1. mpc[e] = "idle"
          BY <1>4, <3>0, <3>2
        <4>2. \/ pc[e] = "publish" /\ pc'[e] = "admit"
              \/ pc[e] = "finalize" /\ pc'[e] = "stop"
          BY <1>a, <3>2, <4>1 DEF Begins
        <4>3. CASE pc[e] = "publish"
          <5>1. head'[e] = memory[e] /\ UNCHANGED version
            BY <2>0, <4>3 DEF Publish, vars, Base, SyncerInv, Local
          <5>2. memory[e] = version
            BY <3>0, <4>3
               DEF Base, SyncerInv, Fresh, Working, Running, Normal, Merge, Drain, Start
          <5> QED BY <5>1, <5>2
        <4>4. CASE pc[e] = "finalize"
          <5>1. UNCHANGED <<head, version>>
            <6>1. Finalize(e)
              BY <2>0, <4>4
            <6> QED BY <6>1 DEF Finalize, FinalizeTerminal, fileVars
          <5>2. memory[e] = version
            BY <3>0, <4>4
               DEF Base, SyncerInv, Fresh, Working, Running, Normal, Merge, Drain, Start
          <5>3. head[e] = memory[e]
            BY <4>4
               DEF PassInv, Published, Working, Running, Normal, Merge, Drain, Start
          <5> QED BY <5>1, <5>2, <5>3
        <4> QED BY <4>2, <4>3, <4>4
      <3> QED BY <3>1, <3>2
    <2>7. leader > 0 /\ leader # e /\ mpc'[leader] # "idle" => head'[leader] = version'
      BY <1>0, <2>1, <2>3 DEF PassInv
    <2> QED BY <1>0, <2>1, <2>2, <2>3, <2>4, <2>5, <2>6, <2>7 DEF PassInv
  <1> QED BY <1>1, <1>2, <1>3, <1>4 DEF MainStep

-----------------------------------------------------------------------------
(* What is over is over.                                                   *)

\* A genesis publication that is settled stays settled, and no contributor
\* goes back in its cycles.
LEMMA SettledGenesis ==
  ASSUME TypeOK, [Next]_vars
  PROVE  /\ \A e \in Epochs : genesis[e] \in {"committed", "abandoned"} => genesis'[e] = genesis[e]
         /\ \A l \in Learners : progress'[l] >= progress[l]
  <1>0. RestType
    BY TypeParts
  <1>p. \A l \in Learners : progress[l] \in Int /\ progress[l] <= progress[l]
    BY <1>0 DEF RestType
  <1>1. CASE PrepareGenesis
    BY <1>0, <1>p, <1>1 DEF PrepareGenesis, RestType
  <1>2. ASSUME NEW e \in Epochs, CommitGenesis(e) \/ AbandonGenesis(e)
        PROVE  /\ \A d \in Epochs :
                    genesis[d] \in {"committed", "abandoned"} => genesis'[d] = genesis[d]
               /\ UNCHANGED progress
    BY <1>0, <1>2 DEF CommitGenesis, AbandonGenesis, RestType
  <1>3. CASE ReconcilePublications
    BY <1>0, <1>p, <1>3 DEF ReconcilePublications, RestType
  <1>4. ASSUME NEW l \in Learners, NEW expected \in BOOLEAN, IngestReceipt(l, expected)
        PROVE  UNCHANGED genesis /\ \A k \in Learners : progress'[k] >= progress[k]
    <2>1. progress' = [progress EXCEPT ![l] = @ + 1] /\ UNCHANGED genesis
      BY <1>4 DEF IngestReceipt
    <2> QED BY <1>0, <1>p, <2>1 DEF RestType
  <1>5. CASE UNCHANGED <<genesis, progress>>
    BY <1>5, <1>p
  <1> QED
    BY <1>1, <1>2, <1>3, <1>4, <1>5, <1>p
       DEF Next, Membership, Merging, Terminating, AcquireLeader, BindAttempt, MarkTerminal,
           IngestProposal, TrySelectBatch, PreparePublication, CommitMerge, AbandonPublication,
           BeginPreclose, BeginClose, HardCrash, Acknowledge, FinalizeTerminal, vars

SettledSlot(u) == update[u].status \in {"applied", "dropped"}

\* The version of a settled batch or genesis, and what is over in a run.
Past(u) == ctl.state \in Closed \/ Cycle(u) < progress[Key(u)]

\* A publication that was abandoned, or is older than version v.
OldBatch(b, v) ==
    batch[b].state = "abandoned" \/ (batch[b].state = "committed" /\ batch[b].target < v)

OldGenesis(e, v) == genesis[e] = "abandoned" \/ (genesis[e] = "committed" /\ 0 < v)

\* What no command changes any more.
LEMMA StaysSettled ==
  ASSUME Base, [SyncerNext]_allVars
  PROVE  /\ \A u \in Slots : SettledSlot(u) => SettledSlot(u)'
         /\ \A u \in Slots : fate[u] = "unpublished" => fate'[u] = "unpublished"
         /\ \A u \in Slots : Past(u) => Past(u)'
         /\ \A b \in Batches :
              batch[b].state \in {"committed", "abandoned"} => batch'[b] = batch[b]
         /\ \A e \in Epochs :
              genesis[e] \in {"committed", "abandoned"} => genesis'[e] = genesis[e]
         /\ version \in Int /\ version' \in Int /\ version' >= version
         /\ View \in Int /\ View' >= View
  <1>0. [Next]_vars /\ TypeOK /\ WorkAgrees /\ CloseInv /\ AuthorityInv /\ SyncerInv
    BY StepIsCommand DEF Base, AuthorityInv, SyncerInv
  <1>1. RowsStep /\ RowsAgree
    BY <1>0, LedgerStep DEF AuthorityInv, LedgerInv
  <1>2. ASSUME NEW u \in Slots, fate[u] \notin {"none", "outstanding"}
        PROVE  update'[u] = update[u] /\ fate'[u] = fate[u]
    BY <1>1, <1>2 DEF RowsStep, RowStep, Unsettled
  <1>3. ASSUME NEW u \in Slots, SettledSlot(u)
        PROVE  fate[u] \notin {"none", "outstanding"}
    BY <1>1, <1>3 DEF RowsAgree, RowAgrees, SettledSlot
  <1>4. \A u \in Slots : SettledSlot(u) => SettledSlot(u)'
    BY <1>2, <1>3 DEF SettledSlot
  <1>5. \A u \in Slots : fate[u] = "unpublished" => fate'[u] = "unpublished"
    BY <1>2
  <1>6. ASSUME NEW u \in Slots, Past(u) PROVE Past(u)'
    <2>1. ctl.state \in Closed => UNCHANGED ctl
      BY <1>0, FinishedStep DEF closeVars
    <2>2. Key(u) \in Learners /\ Cycle(u) \in Int
      BY DEF Slots, Cycles, Key, Cycle
    <2>3. progress'[Key(u)] >= progress[Key(u)]
      BY <1>0, <2>2, SettledGenesis
    <2>4. progress[Key(u)] \in Int /\ progress'[Key(u)] \in Int
      <3>1. TypeOK'
        BY <1>0, TypeStep
      <3> QED BY <1>0, <2>2, <3>1 DEF TypeOK
    <2> QED BY <1>6, <2>1, <2>2, <2>3, <2>4 DEF Past
  <1>7. /\ \A b \in Batches :
             batch[b].state \in {"committed", "abandoned"} => batch'[b] = batch[b]
        /\ Quiet \/ GenesisCommitted \/ \E b \in Batches : BatchCommitted(b)
    BY <1>0, VersionStep DEF BatchesSettled
  <1>8. \A e \in Epochs : genesis[e] \in {"committed", "abandoned"} => genesis'[e] = genesis[e]
    BY <1>0, SettledGenesis
  <1>9. version \in Int /\ version' \in Int /\ version' >= version
    <2>1. version \in Int
      BY <1>0 DEF TypeOK
    <2>2. ASSUME NEW b \in Batches, BatchCommitted(b)
          PROVE  version' = version + 1
      BY <1>0, <2>2, CommittedRows
    <2> QED BY <1>7, <2>1, <2>2 DEF Quiet, GenesisCommitted
  <1>10. View \in Int /\ View' >= View
    BY <1>0, ViewStep, ViewBound
  <1> QED BY <1>4, <1>5, <1>6, <1>7, <1>8, <1>9, <1>10

\* Old publications stay old.
LEMMA StaysOld ==
  ASSUME Base, [SyncerNext]_allVars, NEW v \in Int, NEW w \in Int, v <= w
  PROVE  /\ \A b \in Batches : OldBatch(b, v) => OldBatch(b, w)'
         /\ \A e \in Epochs : OldGenesis(e, v) => OldGenesis(e, w)'
  <1>1. \A b \in Batches : batch[b].target \in Int
    BY DEF Base, AuthorityInv, TypeOK
  <1> QED BY <1>1, StaysSettled DEF OldBatch, OldGenesis

-----------------------------------------------------------------------------
(* What is recorded, pruned and deleted.                                   *)

\* What answers a proposal that is scanned again is not gone: it is in the
\* log, or its receipt is written before the log is deleted.
RescanInv ==
    /\ RescanAnswered
    /\ leader > 0 /\ mpc[leader] = "register" => logged \subseteq receipted

Deleting(f) ==
    gc[f].state # "none" \/ f \in unlinked \/ \E e \in Epochs : f \in claim[e] \cup left[e]

\* What is deleted, or is to be deleted, nobody needs any more, and nobody
\* ever will: this holds of what deposed candidates have in hand as well.
FilesDead ==
    /\ \A u \in Slots : Deleting(<<"payload", u>>) => SettledSlot(u)
    /\ \A b \in Batches : Deleting(<<"batch", b>>) => OldBatch(b, View)
    /\ \A e \in Epochs : Deleting(<<"genesis", e>>) => OldGenesis(e, View)
    /\ \A k \in AuditIds : Deleting(<<"audit", k>>) => audit[k].state = "folded"

PrunedSettled ==
    /\ \A e \in Epochs : <<"publication", <<"genesis", e>>>> \in pruned => OldGenesis(e, version)
    /\ \A b \in Batches :
         <<"publication", <<"batch", b>>>> \in pruned \/ <<"batch", b>> \in pruned
           => OldBatch(b, version)
    /\ \A u \in Slots : <<"update", u>> \in pruned => SettledSlot(u) /\ Past(u)
    /\ \A u \in Slots : <<"receipt", u>> \in pruned =>
         (SettledSlot(u) \/ fate[u] = "unpublished") /\ Past(u)

\* A deleted row is in a batch that is registered; what the leader registers
\* or folds is what it has published.
AuditInv ==
    /\ \A k \in AuditIds : audit[k].state = "folded" => \E P \in partition : k \in P
    /\ \A r \in pruned : \E k \in AuditIds :
         r \in audit[k].rows /\ audit[k].state \in {"hot", "folded"}
    /\ leader > 0 /\ mpc[leader] \in {"receipts", "register"} =>
         hand[leader] \in AuditIds /\ audit[hand[leader]].state = "file"
    /\ leader > 0 /\ mpc[leader] = "fold" => Oldest \in partition

MaintenanceInv == MaintenanceTypeOK /\ PassInv /\ RescanInv /\ FilesDead /\ PrunedSettled /\ AuditInv

\* Nothing is deleted but what was about to be, and candidates do what they do.
LEMMA FilesStayDead ==
  ASSUME Base, [SyncerNext]_allVars, FilesDead,
         \A k \in AuditIds : audit[k].state = "folded" => audit'[k].state = "folded",
         \A u \in Slots : Deleting(<<"payload", u>>)' =>
            Deleting(<<"payload", u>>) \/ SettledSlot(u)',
         \A b \in Batches : Deleting(<<"batch", b>>)' =>
            Deleting(<<"batch", b>>) \/ OldBatch(b, View)',
         \A e \in Epochs : Deleting(<<"genesis", e>>)' =>
            Deleting(<<"genesis", e>>) \/ OldGenesis(e, View)',
         \A k \in AuditIds : Deleting(<<"audit", k>>)' =>
            Deleting(<<"audit", k>>) \/ audit'[k].state = "folded"
  PROVE  FilesDead'
  <1>1. View \in Int /\ View' \in Int /\ View <= View'
    <2>1. [Next]_vars /\ TypeOK /\ SyncerInv
      BY StepIsCommand DEF Base, AuthorityInv, SyncerInv
    <2>2. TypeOK' /\ SyncerInv'
      BY <2>1, TypeStep, SyncerInvStep
    <2>3. View \in Int /\ View' >= View
      BY StaysSettled
    <2>4. View' \in Int
      BY <2>2, ViewIsInt DEF SyncerInv, Local, View, ViewOf
    <2> QED BY <2>3, <2>4
  <1>2. \A b \in Batches : OldBatch(b, View) => OldBatch(b, View)'
    BY <1>1, StaysOld DEF OldBatch
  <1>3. \A e \in Epochs : OldGenesis(e, View) => OldGenesis(e, View)'
    BY <1>1, StaysOld DEF OldGenesis
  <1>4. \A u \in Slots : SettledSlot(u) => SettledSlot(u)'
    BY StaysSettled
  <1> QED BY <1>2, <1>3, <1>4 DEF FilesDead

\* What is pruned is not needed later either.
LEMMA PrunedStaysSettled ==
  ASSUME Base, [SyncerNext]_allVars, PrunedSettled, UNCHANGED pruned
  PROVE  PrunedSettled'
  <1>1. version \in Int /\ version' \in Int /\ version <= version'
    BY StaysSettled
  <1>2. \A b \in Batches : OldBatch(b, version) => OldBatch(b, version)'
    BY <1>1, StaysOld DEF OldBatch
  <1>3. \A e \in Epochs : OldGenesis(e, version) => OldGenesis(e, version)'
    BY <1>1, StaysOld DEF OldGenesis
  <1>4. \A u \in Slots : /\ SettledSlot(u) => SettledSlot(u)'
                         /\ Past(u) => Past(u)'
                         /\ fate[u] = "unpublished" => fate'[u] = "unpublished"
    BY StaysSettled
  <1> QED BY <1>2, <1>3, <1>4 DEF PrunedSettled

\* The main loop deletes nothing itself; it lists the files of publications
\* that it abandons.
LEMMA MainKeeps ==
  ASSUME Base, Base', MaintenanceInv, PassInv', MainStep
  PROVE  RescanInv' /\ FilesDead' /\ PrunedSettled' /\ AuditInv'
  <1>0. /\ UNCHANGED <<pruned, receipted, audit, partition, hand, unlinked, claim, left>>
        /\ Listed(Orphaned) /\ logged \subseteq logged'
        /\ TakenIn = {} => logged' = logged
        /\ \A u \in TakenIn : u \in logged'
    BY DEF MainStep, auditVars, Based
  <1>1. [SyncerNext]_allVars
    BY StepIsSyncers DEF MaintenanceNext
  <1>2. PrunedSettled'
    BY <1>0, <1>1, PrunedStaysSettled DEF MaintenanceInv
  <1>3. leader' > 0 /\ mpc'[leader'] \notin {"idle", "due", "archive"} =>
          leader' = leader /\ mpc[leader] = mpc'[leader'] /\ TakenIn = {}
    <2> SUFFICES ASSUME leader' > 0, mpc'[leader'] \notin {"idle", "due", "archive"}
                 PROVE  leader' = leader /\ mpc[leader] = mpc'[leader'] /\ TakenIn = {}
        OBVIOUS
    <2>0. leader' \in Epochs /\ leader' \in Int /\ leader \in Int
      BY DEF Base, AuthorityInv, TypeOK, Epochs
    <2>1. mpc[leader'] = mpc'[leader']
      BY <2>0, MainPasses DEF Begins
    <2>2. leader' <= leader
      BY <2>0, <2>1 DEF MaintenanceInv, PassInv
    <2>3. ASSUME UNCHANGED <<leader, update>>
          PROVE  leader' = leader /\ mpc[leader] = mpc'[leader'] /\ TakenIn = {}
      BY <2>1, <2>3 DEF TakenIn
    <2>4. ASSUME NEW e \in Epochs, mpc[e] \in {"idle", "due"}, Step(e)
          PROVE  UNCHANGED <<leader, update>>
      <3>1. UNCHANGED leader
        BY <2>4, StepShape
           DEF Base, AuthorityInv, SyncerInv, Still, Reads, Founds, Commits, Shows
      <3>2. e # leader
        BY <2>1, <2>4, <3>1
      <3> QED BY <2>4, <3>2, Unfenced DEF vars
    <2> QED
      BY <2>0, <2>2, <2>3, <2>4 DEF MainStep, Takeover, AcquireLeader, WantClose, Crash, vars
  <1>4. RescanInv'
    <2>1. ASSUME NEW u \in Slots, update'[u].status # "none"
          PROVE  u \in logged' \cup receipted'
      BY <1>0, <2>1 DEF MaintenanceInv, RescanInv, RescanAnswered, Rescanned, TakenIn
    <2>2. leader' > 0 /\ mpc'[leader'] = "register" => logged' \subseteq receipted'
      BY <1>0, <1>3 DEF MaintenanceInv, RescanInv
    <2> QED BY <2>1, <2>2 DEF RescanInv, RescanAnswered, Rescanned
  <1>5. AuditInv'
    <2>1. Oldest' = Oldest
      BY <1>0 DEF Oldest, Hot
    <2> QED BY <1>0, <1>3, <2>1 DEF MaintenanceInv, AuditInv
  <1>6. FilesDead'
    <2>1. ASSUME NEW f \in Files, Deleting(f)' PROVE Deleting(f) \/ f \in Orphaned
      BY <1>0, <2>1 DEF Deleting, Listed
    <2>2. ASSUME NEW b \in Batches, <<"batch", b>> \in Orphaned PROVE OldBatch(b, View)'
      <3>1. intent'[b].state = "abandoned"
        BY <2>2 DEF Orphaned
      <3>2. batch'[b].state = "abandoned"
        BY <3>1 DEF Base, AuthorityInv, WorkAgrees, IntentAgreement
      <3> QED BY <3>2 DEF OldBatch
    <2>3. ASSUME NEW e \in Epochs, <<"genesis", e>> \in Orphaned PROVE OldGenesis(e, View)'
      BY <2>3 DEF Orphaned, OldGenesis
    <2>4. /\ \A u \in Slots : <<"payload", u>> \in Files \ Orphaned
          /\ \A k \in AuditIds : <<"audit", k>> \in Files \ Orphaned
          /\ \A b \in Batches : <<"batch", b>> \in Files
          /\ \A e \in Epochs : <<"genesis", e>> \in Files
      BY DEF Files, Artifacts, Payloads, BatchFiles, Publications, Orphaned
    <2> QED
      BY <1>0, <1>1, <2>1, <2>2, <2>3, <2>4, FilesStayDead DEF MaintenanceInv
  <1> QED BY <1>2, <1>4, <1>5, <1>6

\* A pass that fails, or changes only what is claimed, keeps what the run
\* relies on.
LEMMA TickKeeps ==
  ASSUME Base, MaintenanceInv, PassInv', NEW e \in Epochs, Tick(e),
         UNCHANGED <<rowVars, auditVars>>,
         \A f \in Files : Deleting(f)' => Deleting(f),
         leader = e => mpc'[e] \notin {"receipts", "register", "fold"}
  PROVE  RescanInv' /\ FilesDead' /\ PrunedSettled' /\ AuditInv'
  <1>1. [SyncerNext]_allVars
    BY StepIsSyncers DEF MaintenanceNext
  <1>2. UNCHANGED <<leader, update>> /\ \A f \in Epochs : f # e => mpc'[f] = mpc[f]
    BY TickKinds
       DEF Crash, Fails, Pass, allVars, vars, MaintenanceInv, MaintenanceTypeOK
  <1>3. leader > 0 => leader \in Epochs
    BY DEF Base, AuthorityInv, TypeOK, Epochs
  <1>4. /\ \A u \in Slots : <<"payload", u>> \in Files
        /\ \A k \in AuditIds : <<"audit", k>> \in Files
        /\ \A b \in Batches : <<"batch", b>> \in Files
        /\ \A d \in Epochs : <<"genesis", d>> \in Files
    BY DEF Files, Artifacts, Payloads, BatchFiles, Publications
  <1>5. UNCHANGED <<pruned, logged, receipted, audit, partition, hand>>
    BY DEF rowVars, auditVars
  <1>6. RescanInv'
    BY <1>2, <1>3, <1>5 DEF MaintenanceInv, RescanInv, RescanAnswered, Rescanned
  <1>7. FilesDead'
    BY <1>1, <1>4, <1>5, FilesStayDead DEF MaintenanceInv
  <1>8. PrunedSettled'
    BY <1>1, <1>5, PrunedStaysSettled DEF MaintenanceInv
  <1>9. AuditInv'
    <2>1. Oldest' = Oldest
      BY <1>5 DEF Oldest, Hot
    <2> QED BY <1>2, <1>3, <1>5, <2>1 DEF MaintenanceInv, AuditInv
  <1> QED BY <1>6, <1>7, <1>8, <1>9

\* What is registered is over, and what hangs on it as well.
LEMMA ArchivableIsOver ==
  ASSUME TypeOK, AuthorityInv
  PROVE  /\ \A b \in ArchivableBatches : OldBatch(b, version)
         /\ \A d \in Epochs : <<"publication", <<"genesis", d>>>> \in Archivable =>
              OldGenesis(d, version)
         /\ \A b \in Batches :
              <<"publication", <<"batch", b>>>> \in Archivable \/ <<"batch", b>> \in Archivable
                => OldBatch(b, version)
         /\ \A u \in Slots : <<"update", u>> \in Archivable => SettledSlot(u) /\ Past(u)
         /\ \A u \in Slots : <<"receipt", u>> \in Archivable =>
              (SettledSlot(u) \/ fate[u] = "unpublished") /\ Past(u)
  <1>0. version \in Int /\ \A b \in Batches : batch[b].target \in Int
    BY DEF TypeOK
  <1>1. \A b \in ArchivableBatches : b \in Batches /\ OldBatch(b, version)
    BY <1>0 DEF ArchivableBatches, OldBatch, Cutoff
  <1>2. ASSUME NEW d \in Epochs, <<"publication", <<"genesis", d>>>> \in Archivable
        PROVE  OldGenesis(d, version)
    <2>1. <<"genesis", d>> \in ArchivablePublications
      BY <1>2 DEF Archivable
    <2> QED BY <1>0, <2>1 DEF ArchivablePublications, Settled, OldGenesis, Cutoff
  <1>3. ASSUME NEW b \in Batches, <<"publication", <<"batch", b>>>> \in Archivable
        PROVE  OldBatch(b, version)
    <2>1. <<"batch", b>> \in ArchivablePublications
      BY <1>3 DEF Archivable
    <2> QED BY <1>1, <2>1 DEF ArchivablePublications, Settled
  <1>4. ASSUME NEW b \in Batches, <<"batch", b>> \in Archivable PROVE OldBatch(b, version)
    BY <1>1, <1>4 DEF Archivable
  <1>5. ASSUME NEW u \in Slots PROVE ~Protected(u) /\ Cycle(u) <= progress[Key(u)] => Past(u)
    <2>1. Key(u) \in Learners /\ Cycle(u) \in Int
      BY DEF Slots, Cycles, Key, Cycle
    <2>2. progress[Key(u)] \in Int
      BY <2>1 DEF TypeOK
    <2> QED BY <2>1, <2>2 DEF Protected, Past
  <1>6. \A u \in Slots : receipt[u].gen # 0 => Cycle(u) <= progress[Key(u)]
    BY DEF AuthorityInv, LedgerInv, RowsAgree, RowAgrees
  <1>7. ASSUME NEW u \in ArchivableUpdates PROVE u \in Slots /\ SettledSlot(u) /\ Past(u)
    <2>1. u \in Slots /\ SettledSlot(u) /\ ~Protected(u)
      BY DEF ArchivableUpdates, SettledSlot
    <2>2. receipt[u].gen # 0
      BY <2>1 DEF SettledSlot, AuthorityInv, LedgerInv, RowsAgree, RowAgrees
    <2> QED BY <1>5, <1>6, <2>1, <2>2
  <1>8. ASSUME NEW u \in Slots, <<"update", u>> \in Archivable PROVE SettledSlot(u) /\ Past(u)
    BY <1>7, <1>8 DEF Archivable
  <1>9. ASSUME NEW u \in Slots, <<"receipt", u>> \in Archivable
        PROVE  (SettledSlot(u) \/ fate[u] = "unpublished") /\ Past(u)
    <2>1. u \in ArchivableReceipts
      BY <1>9 DEF Archivable
    <2> QED BY <1>7, <2>1 DEF ArchivableReceipts, Past
  <1> QED BY <1>1, <1>2, <1>3, <1>4, <1>8, <1>9

\* A pass keeps what the run relies on.
LEMMA TickStep ==
  ASSUME Base, MaintenanceInv, PassInv', MaintenanceTypeOK', NEW e \in Epochs, Tick(e)
  PROVE  RescanInv' /\ FilesDead' /\ PrunedSettled' /\ AuditInv'
  <1>0. /\ [SyncerNext]_allVars
        /\ leader \in Int /\ version \in Int /\ (leader > 0 => leader \in Epochs)
        /\ \A f \in Epochs : f > 0
        /\ TypeOK /\ AuthorityInv /\ SyncerInv /\ MaintenanceTypeOK
    BY StepIsSyncers DEF MaintenanceNext, Base, AuthorityInv, TypeOK, Epochs, MaintenanceInv
  <1>f. /\ \A u \in Slots : <<"payload", u>> \in Files
        /\ \A k \in AuditIds : <<"audit", k>> \in Files
        /\ \A b \in Batches : <<"batch", b>> \in Files
        /\ \A d \in Epochs : <<"genesis", d>> \in Files
    BY DEF Files, Artifacts, Payloads, BatchFiles, Publications
  <1>p. ASSUME NEW from, NEW to, Pass(e, from, to)
        PROVE  /\ mpc[e] = from /\ mpc'[e] = to
               /\ \A f \in Epochs : f # e => mpc'[f] = mpc[f]
               /\ UNCHANGED <<leader, version, update, batch, genesis, fate, ctl, progress, head>>
               /\ View' = View
    BY <1>0, <1>p
       DEF Pass, MaintenanceTypeOK, allVars, vars, syncerVars, fileVars, View
  <1>l. ASSUME NEW F, Listed(F), UNCHANGED <<unlinked, claim, left>>
        PROVE  \A f \in Files : Deleting(f)' => Deleting(f) \/ f \in F
    BY <1>l DEF Listed, Deleting
  <1>1. CASE SkipArchive(e) \/ SkipCompact(e)
    <2>1. Pass(e, "archive", "compact") \/ Pass(e, "compact", "collect")
      BY <1>1 DEF SkipArchive, SkipCompact
    <2>2. UNCHANGED <<rowVars, auditVars, gcVars>>
      BY <1>1 DEF SkipArchive, SkipCompact
    <2>3. \A f \in Files : Deleting(f)' => Deleting(f)
      BY <2>2 DEF gcVars, Deleting
    <2> QED BY <1>p, <2>1, <2>2, <2>3, TickKeeps
  <1>2. CASE RegisterFails(e) \/ CompleteFails(e)
    <2>1. Fails(e)
      BY <1>2 DEF RegisterFails, CompleteFails
    <2>2. mpc'[e] = "idle" /\ UNCHANGED <<rowVars, auditVars, gcVars>>
      BY <1>0, <2>1 DEF Fails, MaintenanceTypeOK
    <2>3. \A f \in Files : Deleting(f)' => Deleting(f)
      BY <2>2 DEF gcVars, Deleting
    <2> QED BY <2>2, <2>3, TickKeeps
  <1>3. CASE ClaimOrphans(e) \/ ClaimAudit(e)
    <2>1. PICK F : /\ Claims(e, F) /\ \A f \in F : f \in Files /\ Claimable(gc[f], e)
                   /\ \E from \in Passing, to \in {"sweep", "unlink", "idle", "erase"} : Pass(e, from, to)
      <3>1. CASE ClaimOrphans(e)
        <4>1. PICK F \in SUBSET {f \in Artifacts : Claimable(gc[f], e)} :
                /\ Pass(e, "collect", IF F = {} THEN "sweep" ELSE "unlink")
                /\ Claims(e, F)
          BY <3>1 DEF ClaimOrphans
        <4>2. "collect" \in Passing /\ \A f \in F : f \in Files /\ Claimable(gc[f], e)
          BY <4>1 DEF Files, Passing
        <4>3. (IF F = {} THEN "sweep" ELSE "unlink") \in {"sweep", "unlink", "idle", "erase"}
          OBVIOUS
        <4> QED BY <4>1, <4>2, <4>3
      <3>2. CASE ClaimAudit(e)
        <4> DEFINE F == {f \in BatchFiles : Claimable(gc[f], e)}
        <4>1. Pass(e, "sweep", IF F = {} THEN "idle" ELSE "erase") /\ Claims(e, F)
          BY <3>2 DEF ClaimAudit
        <4>2. "sweep" \in Passing /\ \A f \in F : f \in Files /\ Claimable(gc[f], e)
          BY DEF Files, Passing
        <4>3. (IF F = {} THEN "idle" ELSE "erase") \in {"sweep", "unlink", "idle", "erase"}
          OBVIOUS
        <4> HIDE DEF F
        <4> QED BY <4>1, <4>2, <4>3
      <3> QED BY <1>3, <3>1, <3>2
    <2>2. \A f \in F : Deleting(f)
      BY <2>1 DEF Claimable, Deleting
    <2>3. ASSUME NEW f \in Files, Deleting(f)' PROVE Deleting(f)
      <3>1. f \in F \/ gc'[f] = gc[f]
        BY <2>1 DEF Claims
      <3>2. \A d \in Epochs : f \in claim'[d] \cup left'[d] => f \in F \/ f \in claim[d] \cup left[d]
        BY <1>0, <2>1 DEF Claims, MaintenanceTypeOK
      <3>3. UNCHANGED unlinked
        BY <2>1 DEF Claims
      <3> QED BY <2>2, <2>3, <3>1, <3>2, <3>3 DEF Deleting
    <2>4. UNCHANGED <<rowVars, auditVars>>
      BY <2>1 DEF Claims
    <2>5. mpc'[e] \in {"sweep", "unlink", "idle", "erase"}
      BY <1>p, <2>1
    <2> QED BY <2>3, <2>4, <2>5, TickKeeps
  <1>4. CASE Unlink(e) \/ Erase(e)
    <2>1. PICK f \in left[e] :
            /\ \E from \in Passing, to \in {"unlink", "complete", "erase", "forget"} : Pass(e, from, to)
            /\ unlinked' = (IF OnDisk(f) THEN unlinked \cup {f} ELSE unlinked)
            /\ left' = [left EXCEPT ![e] = @ \ {f}]
            /\ UNCHANGED <<rowVars, auditVars, gc, claim>>
      <3> DEFINE Goes(g, at, after) == Pass(e, at, IF left[e] = {g} THEN after ELSE at)
      <3>1. PICK f \in left[e] :
              /\ Goes(f, "unlink", "complete") \/ Goes(f, "erase", "forget")
              /\ unlinked' = (IF OnDisk(f) THEN unlinked \cup {f} ELSE unlinked)
              /\ left' = [left EXCEPT ![e] = @ \ {f}]
              /\ UNCHANGED <<rowVars, auditVars, gc, claim>>
        BY <1>4 DEF Unlink, Erase, Visits
      <3>2. \/ Pass(e, "unlink", "complete") \/ Pass(e, "unlink", "unlink")
            \/ Pass(e, "erase", "forget") \/ Pass(e, "erase", "erase")
        BY <3>1
      <3>3. "unlink" \in Passing /\ "erase" \in Passing
        BY DEF Passing
      <3>4. \E from \in Passing, to \in {"unlink", "complete", "erase", "forget"} : Pass(e, from, to)
        BY <3>2, <3>3
      <3> QED BY <3>1, <3>4
    <2>2. \A d \in Epochs : left'[d] \subseteq left[d]
      BY <1>0, <2>1 DEF MaintenanceTypeOK
    <2>3. \A g \in Files : Deleting(g)' => Deleting(g)
      BY <2>1, <2>2 DEF Deleting
    <2>4. mpc'[e] \in {"unlink", "complete", "erase", "forget"}
      BY <1>p, <2>1
    <2> QED BY <2>1, <2>3, <2>4, TickKeeps
  <1>5. CASE Complete(e) \/ Forget(e)
    <2>1. /\ Completes(e)
          /\ \E from \in Passing, to \in {"sweep", "idle"} : Pass(e, from, to)
      <3>1. "complete" \in Passing /\ "forget" \in Passing
        BY DEF Passing
      <3> QED BY <1>5, <3>1 DEF Complete, Forget
    <2>2. \A d \in Epochs : claim'[d] \subseteq claim[d]
      BY <1>0, <2>1 DEF Completes, MaintenanceTypeOK
    <2>3. \A g \in Files : gc'[g] = gc[g] \/ gc'[g].state = "none"
      BY <2>1 DEF Completes, NoCandidate
    <2>4. \A g \in Files : Deleting(g)' => Deleting(g)
      BY <2>1, <2>2, <2>3 DEF Deleting, Completes
    <2>5. UNCHANGED <<rowVars, auditVars>> /\ mpc'[e] \in {"sweep", "idle"}
      BY <1>p, <2>1 DEF Completes
    <2> QED BY <2>4, <2>5, TickKeeps
  <1>6. CASE PublishBatch(e)
    <2>1. Pass(e, "archive", "receipts") /\ UNCHANGED <<rowVars, partition, gcVars>>
      BY <1>6 DEF PublishBatch
    <2>2. PICK k \in AuditIds :
            /\ audit[k].state = "none"
            /\ audit' = [audit EXCEPT ![k] = [rows |-> Archivable, state |-> "file"]]
            /\ hand' = [hand EXCEPT ![e] = k]
      BY <1>6 DEF PublishBatch
    <2>3. /\ audit'[k].state = "file" /\ hand'[e] = k
          /\ \A j \in AuditIds : j # k => audit'[j] = audit[j]
          /\ \A f \in Epochs : f # e => hand'[f] = hand[f]
      BY <1>0, <2>2 DEF MaintenanceTypeOK
    <2>4. \A f \in Files : Deleting(f)' => Deleting(f)
      BY <2>1 DEF gcVars, Deleting
    <2>5. FilesDead'
      BY <1>0, <1>f, <2>2, <2>3, <2>4, FilesStayDead DEF MaintenanceInv
    <2>6. PrunedSettled'
      BY <1>0, <2>1, PrunedStaysSettled DEF MaintenanceInv, rowVars
    <2>7. RescanInv'
      BY <1>0, <1>p, <2>1
         DEF MaintenanceInv, RescanInv, RescanAnswered, Rescanned, rowVars
    <2>8. AuditInv'
      <3>1. Oldest' = Oldest
        <4>1. Hot' = Hot
          BY <2>2, <2>3 DEF Hot
        <4> QED BY <4>1 DEF Oldest
      <3>2. \A r \in pruned' : \E j \in AuditIds :
              r \in audit'[j].rows /\ audit'[j].state \in {"hot", "folded"}
        BY <2>1, <2>2, <2>3 DEF MaintenanceInv, AuditInv, rowVars
      <3>3. leader' > 0 /\ mpc'[leader'] \in {"receipts", "register"} =>
              hand'[leader'] \in AuditIds /\ audit'[hand'[leader']].state = "file"
        BY <1>0, <1>p, <2>1, <2>2, <2>3 DEF MaintenanceInv, AuditInv
      <3>4. leader' > 0 /\ mpc'[leader'] = "fold" => Oldest' \in partition'
        BY <1>0, <1>p, <2>1, <3>1 DEF MaintenanceInv, AuditInv
      <3>5. \A j \in AuditIds : audit'[j].state = "folded" => \E P \in partition' : j \in P
        BY <2>1, <2>3 DEF MaintenanceInv, AuditInv
      <3> QED BY <3>2, <3>3, <3>4, <3>5 DEF AuditInv
    <2> QED BY <2>5, <2>6, <2>7, <2>8
  <1>7. CASE PublishReceipts(e)
    <2>1. /\ Pass(e, "receipts", "register") /\ receipted' = receipted \cup logged
          /\ UNCHANGED <<basis, pruned, logged, auditVars, gcVars>> /\ leader = e
      BY <1>7 DEF PublishReceipts, Commanding
    <2>2. \A f \in Files : Deleting(f)' => Deleting(f)
      BY <2>1 DEF gcVars, Deleting
    <2>3. FilesDead'
      BY <1>0, <1>f, <2>1, <2>2, FilesStayDead DEF MaintenanceInv, auditVars
    <2>4. PrunedSettled'
      BY <1>0, <2>1, PrunedStaysSettled DEF MaintenanceInv
    <2>5. RescanInv'
      BY <1>0, <1>p, <2>1 DEF MaintenanceInv, RescanInv, RescanAnswered, Rescanned
    <2>6. AuditInv'
      <3>1. Oldest' = Oldest
        BY <2>1 DEF Oldest, Hot, auditVars
      <3> QED BY <1>0, <1>p, <2>1, <3>1 DEF MaintenanceInv, AuditInv, auditVars
    <2> QED BY <2>3, <2>4, <2>5, <2>6
  <1>8. CASE Register(e)
    <2> DEFINE h == hand[e]
               R == audit[h].rows
               L == {p \in Publications : <<"publication", p>> \in R}
                      \cup {f \in Payloads : <<"update", f[2]>> \in R}
    <2>1. /\ Pass(e, "register", "compact") /\ leader = e /\ R = Archivable
          /\ audit' = [audit EXCEPT ![h].state = "hot"]
          /\ pruned' = pruned \cup R /\ logged' = {} /\ Listed(L)
          /\ UNCHANGED <<receipted, partition, hand, unlinked, claim, left>>
      BY <1>8 DEF Register, Commanding
    <2>2. h \in AuditIds /\ audit[h].state = "file"
      BY <1>0, <1>p, <2>1 DEF MaintenanceInv, AuditInv
    <2>3. /\ audit'[h].state = "hot" /\ audit'[h].rows = R
          /\ \A j \in AuditIds : j # h => audit'[j] = audit[j]
      <3> HIDE DEF h
      <3> QED BY <1>0, <2>1, <2>2 DEF MaintenanceTypeOK
    <2>4. View = version /\ View' = version'
      BY <1>0, <1>p, <2>1, ViewBound
         DEF MaintenanceInv, PassInv, SyncerInv, NobodyAhead
    <2>5. /\ \A d \in Epochs : <<"publication", <<"genesis", d>>>> \in R =>
               OldGenesis(d, version)'
          /\ \A b \in Batches :
               <<"publication", <<"batch", b>>>> \in R \/ <<"batch", b>> \in R
                 => OldBatch(b, version)'
          /\ \A u \in Slots : <<"update", u>> \in R => SettledSlot(u)' /\ Past(u)'
          /\ \A u \in Slots : <<"receipt", u>> \in R =>
               (SettledSlot(u)' \/ fate'[u] = "unpublished") /\ Past(u)'
      BY <1>0, <1>p, <2>1, ArchivableIsOver DEF OldGenesis, OldBatch, SettledSlot, Past
    <2>6. PrunedSettled'
      BY <1>p, <2>1, <2>5
         DEF MaintenanceInv, PrunedSettled, OldGenesis, OldBatch, SettledSlot, Past
    <2>7. FilesDead'
      <3>1. \A f \in Files : Deleting(f)' => Deleting(f) \/ f \in L
        BY <1>l, <2>1
      <3>2. \A u \in Slots : <<"payload", u>> \in L => SettledSlot(u)'
        BY <2>5 DEF Publications
      <3>3. \A b \in Batches : <<"batch", b>> \in L => OldBatch(b, View)'
        BY <2>4, <2>5 DEF Payloads
      <3>4. \A d \in Epochs : <<"genesis", d>> \in L => OldGenesis(d, View)'
        BY <2>4, <2>5 DEF Payloads
      <3>5. \A k \in AuditIds : <<"audit", k>> \notin L
        BY DEF Payloads, Publications
      <3>6. \A k \in AuditIds : audit[k].state = "folded" => audit'[k].state = "folded"
        BY <2>2, <2>3
      <3> HIDE DEF L
      <3> QED
        BY <1>0, <1>f, <3>1, <3>2, <3>3, <3>4, <3>5, <3>6, FilesStayDead DEF MaintenanceInv
    <2>8. RescanInv'
      <3>1. logged \subseteq receipted
        BY <1>0, <1>p, <2>1 DEF MaintenanceInv, RescanInv
      <3> QED
        BY <1>p, <2>1, <3>1 DEF MaintenanceInv, RescanInv, RescanAnswered, Rescanned
    <2>9. AuditInv'
      <3>1. \A r \in pruned' : \E j \in AuditIds :
              r \in audit'[j].rows /\ audit'[j].state \in {"hot", "folded"}
        <4>1. ASSUME NEW r \in pruned
              PROVE  \E j \in AuditIds :
                       r \in audit'[j].rows /\ audit'[j].state \in {"hot", "folded"}
          <5>1. PICK j \in AuditIds : r \in audit[j].rows /\ audit[j].state \in {"hot", "folded"}
            BY <4>1 DEF MaintenanceInv, AuditInv
          <5> QED BY <2>2, <2>3, <5>1
        <4>2. \A r \in R : r \in audit'[h].rows /\ audit'[h].state \in {"hot", "folded"}
          BY <2>3
        <4> QED BY <2>1, <2>2, <4>1, <4>2
      <3>2. \A j \in AuditIds : audit'[j].state = "folded" => \E P \in partition' : j \in P
        BY <2>1, <2>3 DEF MaintenanceInv, AuditInv
      <3> QED BY <1>p, <2>1, <3>1, <3>2 DEF AuditInv
    <2> QED BY <2>6, <2>7, <2>8, <2>9
  <1>9. CASE PublishPartition(e)
    <2>1. /\ Pass(e, "compact", "fold") /\ partition' = partition \cup {Oldest}
          /\ UNCHANGED <<rowVars, audit, hand, gcVars>>
      BY <1>9 DEF PublishPartition
    <2>2. \A f \in Files : Deleting(f)' => Deleting(f)
      BY <2>1 DEF gcVars, Deleting
    <2>3. FilesDead'
      BY <1>0, <1>f, <2>1, <2>2, FilesStayDead DEF MaintenanceInv
    <2>4. PrunedSettled'
      BY <1>0, <2>1, PrunedStaysSettled DEF MaintenanceInv, rowVars
    <2>5. RescanInv'
      BY <1>0, <1>p, <2>1 DEF MaintenanceInv, RescanInv, RescanAnswered, Rescanned, rowVars
    <2>6. AuditInv'
      <3>1. Oldest' = Oldest
        BY <2>1 DEF Oldest, Hot
      <3> QED BY <1>0, <1>p, <2>1, <3>1 DEF MaintenanceInv, AuditInv, rowVars
    <2> QED BY <2>3, <2>4, <2>5, <2>6
  <1>10. CASE Fold(e)
    <2>1. /\ Pass(e, "fold", "collect") /\ leader = e /\ Listed({"audit"} \X Oldest)
          /\ audit' = [k \in AuditIds |->
                         IF k \in Oldest THEN [audit[k] EXCEPT !.state = "folded"] ELSE audit[k]]
          /\ UNCHANGED <<rowVars, partition, hand, unlinked, claim, left>>
      BY <1>10 DEF Fold, Commanding, Folded
    <2>2. Oldest \in partition
      BY <1>0, <1>p, <2>1 DEF MaintenanceInv, AuditInv
    <2>3. \A k \in AuditIds : /\ k \in Oldest => audit'[k].state = "folded"
                              /\ k \notin Oldest => audit'[k] = audit[k]
                              /\ audit'[k].rows = audit[k].rows
      <3> HIDE DEF Oldest
      <3> QED BY <1>0, <2>1 DEF MaintenanceTypeOK
    <2>4. FilesDead'
      <3>1. \A f \in Files : Deleting(f)' => Deleting(f) \/ f \in {"audit"} \X Oldest
        BY <1>l, <2>1
      <3>2. /\ \A u \in Slots : <<"payload", u>> \notin {"audit"} \X Oldest
            /\ \A b \in Batches : <<"batch", b>> \notin {"audit"} \X Oldest
            /\ \A d \in Epochs : <<"genesis", d>> \notin {"audit"} \X Oldest
            /\ \A k \in AuditIds : <<"audit", k>> \in {"audit"} \X Oldest => k \in Oldest
        OBVIOUS
      <3> QED BY <1>0, <1>f, <2>3, <3>1, <3>2, FilesStayDead DEF MaintenanceInv
    <2>5. PrunedSettled'
      BY <1>0, <2>1, PrunedStaysSettled DEF MaintenanceInv, rowVars
    <2>6. RescanInv'
      BY <1>0, <1>p, <2>1 DEF MaintenanceInv, RescanInv, RescanAnswered, Rescanned, rowVars
    <2>7. AuditInv'
      <3>1. \A k \in AuditIds : audit'[k].state = "folded" => \E P \in partition' : k \in P
        BY <2>1, <2>2, <2>3 DEF MaintenanceInv, AuditInv
      <3>2. \A r \in pruned' : \E j \in AuditIds :
              r \in audit'[j].rows /\ audit'[j].state \in {"hot", "folded"}
        BY <2>1, <2>3 DEF MaintenanceInv, AuditInv, rowVars
      <3> QED BY <1>p, <2>1, <3>1, <3>2 DEF AuditInv
    <2> QED BY <2>4, <2>5, <2>6, <2>7
  <1> QED BY <1>1, <1>2, <1>3, <1>4, <1>5, <1>6, <1>7, <1>8, <1>9, <1>10 DEF Tick

-----------------------------------------------------------------------------
(* The theorems.                                                           *)

\* A run begins with nothing to archive and nothing to delete.
LEMMA MaintenanceBegins == MaintenanceInit => MaintenanceInv
  <1> SUFFICES ASSUME MaintenanceInit PROVE MaintenanceInv
      OBVIOUS
  <1>0. /\ leader = 0 /\ \A e \in Epochs : ~(e <= 0)
        /\ \A e \in Epochs : pc[e] = "absent" /\ mpc[e] = "idle"
        /\ \A u \in Slots : update[u].status = "none"
    BY DEF MaintenanceInit, SyncerInit, Init, Epochs
  <1>1. MaintenanceTypeOK
    BY AuthorityAssumption, MaintenanceAssumption
       DEF MaintenanceInit, MaintenanceTypeOK, Candidate, NoCandidate
  <1>2. PassInv
    BY <1>0 DEF PassInv, Published, Working, Running, Normal, Merge, Drain, Start
  <1>3. RescanInv
    BY <1>0 DEF RescanInv, RescanAnswered
  <1>4. \A f \in Files : ~Deleting(f)
    BY DEF MaintenanceInit, Deleting, NoCandidate
  <1>5. FilesDead
    BY <1>4 DEF FilesDead, Files, Artifacts, Payloads, BatchFiles, Publications
  <1>6. PrunedSettled
    BY DEF MaintenanceInit, PrunedSettled
  <1>7. AuditInv
    BY <1>0 DEF MaintenanceInit, AuditInv
  <1> QED BY <1>1, <1>2, <1>3, <1>5, <1>6, <1>7 DEF MaintenanceInv

\* Every step keeps what is known of passes, rows and files.
LEMMA MaintenanceInvStep ==
  ASSUME Base, Base', MaintenanceInv, [MaintenanceNext]_everything
  PROVE  MaintenanceInv'
  <1>0. MaintenanceTypeOK'
    BY MaintenanceTypeStep DEF Base, AuthorityInv, MaintenanceInv
  <1>1. CASE MainStep
    <2>1. PassInv'
      BY <1>1, MainPassStep DEF MaintenanceInv
    <2> QED BY <1>0, <1>1, <2>1, MainKeeps DEF MaintenanceInv
  <1>2. ASSUME NEW e \in Epochs, Tick(e) PROVE MaintenanceInv'
    <2>1. PassInv'
      BY <1>2, PassStep DEF MaintenanceInv
    <2> QED BY <1>0, <1>2, <2>1, TickStep DEF MaintenanceInv
  <1>3. CASE UNCHANGED everything
    <2>0. /\ UNCHANGED <<leader, version, pc, head, memory, update, receipt, batch, intent, genesis,
                         fate, ctl, progress, written>>
          /\ UNCHANGED <<mpc, pruned, audit, partition, gc, unlinked, hand, claim, left, logged,
                         receipted>>
      BY <1>3
         DEF everything, allVars, vars, syncerVars, memVars, fileVars, maintVars, rowVars,
             auditVars, gcVars
    <2>1. PassInv'
      BY <2>0 DEF MaintenanceInv, PassInv
    <2>2. RescanInv'
      BY <2>0 DEF MaintenanceInv, RescanInv, RescanAnswered, Rescanned
    <2>3. FilesDead'
      BY <2>0 DEF MaintenanceInv, FilesDead, Deleting, SettledSlot, OldBatch, OldGenesis, View
    <2>4. PrunedSettled'
      BY <2>0 DEF MaintenanceInv, PrunedSettled, OldBatch, OldGenesis, SettledSlot, Past
    <2>5. AuditInv'
      BY <2>0 DEF MaintenanceInv, AuditInv, Oldest, Hot
    <2> QED BY <1>0, <2>1, <2>2, <2>3, <2>4, <2>5 DEF MaintenanceInv
  <1> QED BY <1>1, <1>2, <1>3 DEF MaintenanceNext

\* What is known of the database, the candidates, their passes and the files
\* holds always.
LEMMA MaintenanceInvariant == MaintenanceSpec => [](Base /\ MaintenanceInv)
  <1>1. MaintenanceSpec => []Base
    <2>1. AuthorityInv /\ HistoryInv /\ SyncerInv => Base
      BY DEF Base
    <2> QED BY <2>1, MaintenanceImplementsSyncer, SyncerInvariant, PTL
  <1>2. Base /\ Base' /\ MaintenanceInv /\ [MaintenanceNext]_everything => MaintenanceInv'
    BY MaintenanceInvStep
  <1> QED BY <1>1, <1>2, MaintenanceBegins, PTL DEF MaintenanceSpec

\* The state of the passes, of the archive and of the candidates for deletion
\* is of its types.
THEOREM MaintenanceTypeCorrect == MaintenanceSpec => []MaintenanceTypeOK
  <1>1. MaintenanceInv => MaintenanceTypeOK
    BY DEF MaintenanceInv
  <1> QED BY <1>1, MaintenanceInvariant, PTL

\* Whatever is claimed, by whom, and however late it is unlinked: no file
\* that is still read goes.
THEOREM MaintenanceNeededFilesKept == MaintenanceSpec => []NeededFilesKept
  <1>1. Base /\ MaintenanceInv => NeededFilesKept
    <2> SUFFICES ASSUME Base, MaintenanceInv PROVE NeededFilesKept
        OBVIOUS
    <2>0. /\ View \in Int /\ version \in Int /\ View <= version
          /\ \A b \in Batches : batch[b].target \in Int
      BY ViewBound DEF Base, AuthorityInv, TypeOK
    <2>1. /\ \A u \in Slots : <<"payload", u>> \in unlinked => SettledSlot(u)
          /\ \A b \in Batches : <<"batch", b>> \in unlinked => OldBatch(b, View)
          /\ \A e \in Epochs : <<"genesis", e>> \in unlinked => OldGenesis(e, View)
      BY DEF MaintenanceInv, FilesDead, Deleting
    <2>2. ASSUME NEW v \in Int, View <= v, NEW p \in Committed(v) PROVE p \notin unlinked
      <3>1. CASE v = 0
        <4>1. PICK e \in Epochs : p = <<"genesis", e>>
          BY <2>2, <3>1 DEF Committed
        <4> QED BY <2>0, <2>1, <2>2, <3>1, <4>1 DEF OldGenesis, Committed
      <3>2. CASE v # 0
        <4>1. p \in {"batch"} \X Batches /\ batch[p[2]].state = "committed" /\ batch[p[2]].target = v
          BY <2>2, <3>2 DEF Committed
        <4>2. PICK b \in Batches : p = <<"batch", b>>
          BY <4>1
        <4> QED BY <2>0, <2>1, <2>2, <4>1, <4>2 DEF OldBatch
      <3> QED BY <3>1, <3>2
    <2>3. ASSUME NEW b \in Batches, intent[b].state = "prepared" PROVE <<"batch", b>> \notin unlinked
      <3>1. batch[b].state = "prepared"
        BY <2>3 DEF Base, AuthorityInv, WorkAgrees, IntentAgreement
      <3> QED BY <2>1, <3>1 DEF OldBatch
    <2>4. \A u \in Slots : update[u].status \in Active => <<"payload", u>> \notin unlinked
      BY <2>1 DEF SettledSlot, Active
    <2> QED BY <2>0, <2>2, <2>3, <2>4 DEF NeededFilesKept
  <1> QED BY <1>1, MaintenanceInvariant, PTL

\* No row that a command still reads is deleted.
THEOREM MaintenanceNeededRowsKept == MaintenanceSpec => []NeededRowsKept
  <1>1. Base /\ MaintenanceInv => NeededRowsKept
    <2> SUFFICES ASSUME Base, MaintenanceInv PROVE NeededRowsKept
        OBVIOUS
    <2>0. /\ version \in Int /\ \A b \in Batches : batch[b].target \in Int
          /\ \A u \in Slots : Cycle(u) \in Int
          /\ PrunedSettled
      BY DEF Base, AuthorityInv, TypeOK, MaintenanceInv, Slots, Cycles, Cycle
    <2>1. ASSUME NEW p \in Committed(version) PROVE <<"publication", p>> \notin pruned
      <3>1. CASE version = 0
        <4>1. PICK e \in Epochs : p = <<"genesis", e>>
          BY <2>1, <3>1 DEF Committed
        <4> QED BY <2>0, <2>1, <3>1, <4>1 DEF PrunedSettled, OldGenesis, Committed
      <3>2. CASE version # 0
        <4>1. p \in {"batch"} \X Batches /\ batch[p[2]].state = "committed"
              /\ batch[p[2]].target = version
          BY <2>1, <3>2 DEF Committed
        <4>2. PICK b \in Batches : p = <<"batch", b>>
          BY <4>1
        <4> QED BY <2>0, <4>1, <4>2 DEF PrunedSettled, OldBatch
      <3> QED BY <3>1, <3>2
    <2>2. \A b \in Batches : batch[b].state \in Live => <<"batch", b>> \notin pruned
      BY <2>0 DEF PrunedSettled, OldBatch, Live
    <2>3. ASSUME NEW u \in Slots
          PROVE  /\ update[u].status \in Active => <<"update", u>> \notin pruned
                 /\ update[u].status \in Active \/ fate[u] = "outstanding"
                      => <<"receipt", u>> \notin pruned
      <3>1. SettledSlot(u) => fate[u] # "outstanding" /\ update[u].status \notin Active
        BY DEF SettledSlot, Active, Base, AuthorityInv, LedgerInv, RowsAgree, RowAgrees
      <3>2. update[u].status \in Active => fate[u] # "unpublished"
        BY DEF Active, Base, AuthorityInv, LedgerInv, RowsAgree, RowAgrees
      <3> QED BY <2>0, <3>1, <3>2 DEF PrunedSettled
    <2>4. ASSUME NEW u \in Slots, ctl.state \notin Closed, Cycle(u) = progress[Key(u)]
          PROVE  <<"update", u>> \notin pruned /\ <<"receipt", u>> \notin pruned
      BY <2>0, <2>4 DEF PrunedSettled, Past
    <2> QED BY <2>1, <2>2, <2>3, <2>4 DEF NeededRowsKept
  <1> QED BY <1>1, MaintenanceInvariant, PTL

\* A deleted row is in a batch file, or in the partition that replaced it.
THEOREM MaintenanceHistoryKept == MaintenanceSpec => []HistoryKept
  <1>1. Base /\ MaintenanceInv => HistoryKept
    <2> SUFFICES ASSUME Base, MaintenanceInv, NEW r \in pruned
                 PROVE  \E k \in AuditIds :
                          /\ r \in audit[k].rows
                          /\ \/ audit[k].state = "hot" /\ OnDisk(<<"audit", k>>)
                             \/ audit[k].state = "folded" /\ \E P \in partition : k \in P
        BY DEF HistoryKept
    <2>1. PICK k \in AuditIds : r \in audit[k].rows /\ audit[k].state \in {"hot", "folded"}
      BY DEF MaintenanceInv, AuditInv
    <2>2. audit[k].state = "hot" => OnDisk(<<"audit", k>>)
      BY DEF MaintenanceInv, FilesDead, Deleting, OnDisk, BatchFiles
    <2>3. audit[k].state = "folded" => \E P \in partition : k \in P
      BY DEF MaintenanceInv, AuditInv
    <2> QED BY <2>1, <2>2, <2>3
  <1> QED BY <1>1, MaintenanceInvariant, PTL

\* A proposal file whose rows are gone is answered, not run again.
THEOREM MaintenanceRescanAnswered == MaintenanceSpec => []RescanAnswered
  <1>1. MaintenanceInv => RescanAnswered
    BY DEF MaintenanceInv, RescanInv
  <1> QED BY <1>1, MaintenanceInvariant, PTL

\* What readers follow is there and never goes back, and no merge is lost, in
\* a run that is archived and cleaned up as well.
THEOREM MaintenanceKeepsPublications ==
  MaintenanceSpec => [](HeadIsReadable /\ BuiltOnPredecessor) /\ ViewNeverRetreats
  BY MaintenanceImplementsSyncer, SyncerHeadIsReadable, SyncerBuiltOnPredecessor,
     SyncerViewNeverRetreats, PTL

\* In a run that is archived and cleaned up as well, contributors keep to one
\* update in flight and to the frozen bound, and the ledger is implemented.
THEOREM MaintenanceKeepsLedger ==
  MaintenanceSpec => [](SingleInFlight /\ FrozenBound) /\ ImplementsLedger
  BY MaintenanceImplementsSyncer, SyncerImplementsAuthority, AuthoritySingleInFlight,
     AuthorityFrozenBound, AuthorityImplementsLedger, PTL
================================================================================
