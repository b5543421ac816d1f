----------------------------- MODULE SyncerProofs -----------------------------
(***************************************************************************)
(* Candidates that crash, pause and take over at any step, in any number,  *)
(* do nothing to the database but commands of Authority, lose no merge and *)
(* never point a reader to what is not there or is older.                  *)
(***************************************************************************)
EXTENDS SyncerProps, AuthorityProofs

-----------------------------------------------------------------------------
(* Every step is a command.                                                *)

Places == {"absent", "done", "ended"} \cup Running

\* A candidate that prepares, writes or commits has a batch in hand.
InHand ==
    /\ pc \in [Epochs -> Places]
    /\ job \in [Epochs -> 0 .. MaxBatch]
    /\ \A e \in Epochs : pc[e] \in {"prepare", "write", "commit"} => job[e] \in Batches

\* Where a step of candidate e leaves everybody.
Moves(e) ==
    /\ \E q \in Places : pc' = [pc EXCEPT ![e] = q]
    /\ \/ UNCHANGED job /\ (pc'[e] \in {"prepare", "write", "commit"} =>
                              pc[e] \in {"prepare", "write", "commit"})
       \/ \E b \in Batches : job' = [job EXCEPT ![e] = b]

\* A step moves the candidate that takes it.
LEMMA StepMoves ==
  ASSUME InHand, NEW e \in Epochs, Step(e) \/ Crash(e)
  PROVE  Moves(e)
  <1> USE DEF Places, Running, Normal, Merge, Drain, Start
  <1>s. UNCHANGED pc => /\ \E q \in Places : pc' = [pc EXCEPT ![e] = q]
                        /\ pc'[e] = pc[e]
    <2>1. pc = [pc EXCEPT ![e] = pc[e]] /\ pc[e] \in Places
      BY DEF InHand
    <2> QED BY <2>1
  <1>g. ASSUME NEW q \in Places, pc' = [pc EXCEPT ![e] = q] PROVE pc'[e] = q
    BY <1>g DEF InHand
  <1>1. CASE \/ Reconcile(e) \/ Load(e)
             \/ InitializeGenesis(e) \/ FinishGenesis(e) \/ PublishFirst(e)
    BY <1>1, <1>g
       DEF Reconcile, Load, InitializeGenesis, FinishGenesis, PublishFirst, Go, Moves, memVars
  <1>2. CASE WriteGenesis(e) \/ Admit(e) \/ Ingest(e) \/ IngestAck(e)
    BY <1>2, <1>s DEF WriteGenesis, Admit, Ingest, IngestAck, Stay, Moves, memVars
  <1>3. CASE Advance(e)
    BY <1>3, <1>g DEF Advance, Go, Moves, memVars
  <1>4. CASE Select(e)
    BY <1>4 DEF Select, Go, Moves
  <1>5. CASE SelectNone(e) \/ SelectFails(e)
    BY <1>5, <1>g DEF SelectNone, SelectFails, Go, Moves, memVars
  <1>6. CASE Prepare(e) \/ Write(e) \/ Publish(e)
    BY <1>6, <1>g DEF Prepare, Write, Publish, Go, Moves, memVars, Return
  <1>7. CASE Commit(e)
    BY <1>7, <1>g DEF Commit, Go, Moves, Return
  <1>8. CASE Preclose(e) \/ CloseAdmission(e) \/ Close(e) \/ Announce(e) \/ AckDeadline(e)
             \/ ProposalDeadline(e) \/ Finalize(e) \/ PublishTerminal(e)
    BY <1>8, <1>g
       DEF Preclose, CloseAdmission, Close, Announce, AckDeadline, ProposalDeadline,
           Finalize, PublishTerminal, Go, Moves, memVars
  <1>9. CASE Adjudicate(e)
    BY <1>9, <1>g, <1>s DEF Adjudicate, Go, Stay, Moves, memVars
  <1>10. CASE Crash(e)
    BY <1>10, <1>g DEF Crash, Moves, memVars
  <1> QED BY <1>1, <1>2, <1>3, <1>4, <1>5, <1>6, <1>7, <1>8, <1>9, <1>10 DEF Step

\* What is in hand is a batch, whatever candidates do.
LEMMA InHandStep == InHand /\ [SyncerNext]_allVars => InHand'
  <1> SUFFICES ASSUME InHand, [SyncerNext]_allVars PROVE InHand'
      OBVIOUS
  <1>1. ASSUME NEW e \in Epochs, Moves(e) PROVE InHand'
    <2>1. PICK q \in Places : pc' = [pc EXCEPT ![e] = q]
      BY <1>1 DEF Moves
    <2>2. /\ pc' \in [Epochs -> Places] /\ pc'[e] = q
          /\ \A f \in Epochs : f # e => pc'[f] = pc[f]
      BY <2>1 DEF InHand
    <2>3. CASE UNCHANGED job
      <3>1. pc'[e] \in {"prepare", "write", "commit"} => job[e] \in Batches
        <4>1. CASE pc[e] \in {"prepare", "write", "commit"}
          BY <4>1 DEF InHand
        <4>2. CASE \E b \in Batches : job' = [job EXCEPT ![e] = b]
          BY <2>3, <4>2 DEF InHand
        <4> QED BY <1>1, <4>1, <4>2 DEF Moves
      <3> QED BY <2>2, <2>3, <3>1 DEF InHand
    <2>4. ASSUME NEW b \in Batches, job' = [job EXCEPT ![e] = b] PROVE InHand'
      <3>1. /\ job' \in [Epochs -> 0 .. MaxBatch] /\ job'[e] = b
            /\ \A f \in Epochs : f # e => job'[f] = job[f]
        BY <2>4, AuthorityAssumption DEF InHand, Batches
      <3> QED BY <2>2, <3>1 DEF InHand
    <2> QED BY <1>1, <2>3, <2>4 DEF Moves
  <1>2. CASE Takeover
    <2>1. leader + 1 \in Epochs => Moves(leader + 1)
      BY <1>2 DEF Takeover, Moves, Places, Running, Start, memVars, InHand
    <2>2. leader + 1 \notin Epochs => UNCHANGED <<pc, job>>
      BY <1>2 DEF Takeover, memVars, InHand
    <2>3. UNCHANGED <<pc, job>> => InHand'
      BY DEF InHand
    <2> QED BY <1>1, <2>1, <2>2, <2>3
  <1>3. CASE UNCHANGED <<pc, job>>
    BY <1>3 DEF InHand
  <1> QED
    BY <1>1, <1>2, <1>3, StepMoves
       DEF SyncerNext, WantClose, allVars, syncerVars, memVars

\* A step of a candidate is a command, or leaves the database alone.
LEMMA StepIsCommand ==
  ASSUME InHand, [SyncerNext]_allVars
  PROVE  [Next]_vars
  <1>1. ASSUME NEW e \in Epochs, Step(e) PROVE [Next]_vars
    <2>1. CASE Reconcile(e) \/ InitializeGenesis(e) \/ FinishGenesis(e)
      BY <2>1 DEF Reconcile, InitializeGenesis, FinishGenesis, Next, Merging
    <2>2. CASE Admit(e) \/ Ingest(e)
      BY <2>2 DEF Admit, Ingest, Next, Membership
    <2>3. CASE Select(e) \/ SelectNone(e)
      <3>1. Quorum \in {1, QuorumMin}
        BY DEF Quorum
      <3>2. TrySelectBatch(Quorum) \/ UNCHANGED vars
        BY <2>3 DEF Select, SelectNone
      <3> QED BY <3>1, <3>2 DEF Next, Merging
    <2>4. CASE Prepare(e)
      BY <2>4 DEF Prepare, Go, InHand, Next, Merging
    <2>5. CASE Commit(e)
      <3>1. job[e] \in Batches
        BY <2>5 DEF Commit, Go, InHand
      <3>2. CommitMerge(job[e], ctl.state \in Closing) /\ (ctl.state \in Closing) \in BOOLEAN
        BY <2>5 DEF Commit
      <3> QED BY <3>1, <3>2 DEF Next, Merging
    <2>6. CASE Preclose(e) \/ Close(e) \/ IngestAck(e) \/ Adjudicate(e)
      BY <2>6 DEF Preclose, Close, IngestAck, Adjudicate, Next, Terminating
    <2>7. CASE Finalize(e)
      BY <2>7 DEF Finalize, Next, Terminating
    <2>8. CASE UNCHANGED vars
      BY <2>8
    <2> QED
      BY <1>1, <2>1, <2>2, <2>3, <2>4, <2>5, <2>6, <2>7, <2>8
         DEF Step, Load, WriteGenesis, PublishFirst, Advance, SelectFails, Write, Publish,
             CloseAdmission, Announce, AckDeadline, ProposalDeadline, PublishTerminal
  <1> QED
    BY <1>1 DEF SyncerNext, Takeover, WantClose, Crash, Next, allVars

\* What candidates do to the database is what Authority allows, so that all
\* that is proved of its commands holds of them.
THEOREM SyncerImplementsAuthority == SyncerSpec => Spec
  <1>1. SyncerInit => Init /\ InHand
    BY AuthorityAssumption DEF SyncerInit, InHand, Places, None
  <1>2. InHand /\ [SyncerNext]_allVars => [Next]_vars
    BY StepIsCommand
  <1> QED BY <1>1, <1>2, InHandStep, PTL DEF SyncerSpec, Spec

-----------------------------------------------------------------------------
(* Memory, files and heads.                                                *)

\* Past reading the latest version.
Working == Running \ {"reconcile", "load"}

\* Past publishing it.
Published == Working \ {"genesis", "init", "first"}

Local ==
    /\ memory \in [Epochs -> Int] /\ base \in [Batches -> Nat \cup {-1}]
    /\ head \in [Epochs -> Int]
    /\ wanted \in BOOLEAN /\ drained \subseteq Epochs /\ stopped \subseteq Epochs
    /\ written \subseteq Publications

\* What the leader has in memory is the latest version: a successor reads it
\* when nobody else can commit any more.
Fresh == leader > 0 /\ pc[leader] \in Working => memory[leader] = version

\* Nobody remembers or has published what is not committed, and a candidate
\* that merges has published what it began with.
NobodyAhead ==
    \A e \in Epochs :
        /\ -1 <= head[e] /\ head[e] <= memory[e] /\ memory[e] <= version
        /\ pc[e] \in Working \ {"genesis", "init"} => memory[e] >= 0
        /\ pc[e] \in Published => head[e] >= 0
        /\ e > leader => head[e] = -1 /\ pc[e] = "absent"

\* Only the version in memory is what a publication is computed from.
BasesRight ==
    \A b \in Batches : batch[b].state \in {"prepared", "committed"} =>
        base[b] = batch[b].target - 1

\* What is committed has its files.
FilesWritten ==
    /\ \A e \in Epochs : genesis[e] = "committed" => <<"genesis", e>> \in written
    /\ \A b \in Batches : batch[b].state = "committed" => <<"batch", b>> \in written

\* Who publishes for the first time, and has no successor that has published,
\* has read the latest version.
FirstIsLatest ==
    \A e \in Epochs :
        pc[e] = "first" /\ (\A f \in Epochs : f >= e => head[f] = -1)
          => memory[e] = version

SyncerInv == InHand /\ Local /\ Fresh /\ NobodyAhead /\ BasesRight /\ FilesWritten /\ FirstIsLatest

\* Steps that commit nothing, read nothing anew and publish no head.
Still(e) ==
    /\ UNCHANGED <<leader, version, memory, head>>
    /\ pc[e] # "absent" /\ pc'[e] # "absent"
    /\ \A f \in Epochs : f # e => pc'[f] = pc[f]
    /\ pc'[e] \in Working =>
         \/ pc[e] \in Published /\ pc'[e] \in Published
         \/ pc'[e] = pc[e]
         \/ pc[e] = "genesis" /\ pc'[e] = "init"

\* What a candidate may do.
LEMMA StepKinds ==
  ASSUME InHand, NEW e \in Epochs, Step(e) \/ Crash(e)
  PROVE  \/ Still(e) \/ Load(e) \/ FinishGenesis(e) \/ PublishFirst(e) \/ Commit(e)
         \/ Publish(e)
  <1> USE DEF Working, Published, Running, Normal, Merge, Drain, Start
  <1>g. ASSUME NEW p, NEW q, pc[e] = p, pc' = [pc EXCEPT ![e] = q],
               UNCHANGED <<leader, version, memory, head>>,
               p # "absent", q # "absent",
               q \in Working => \/ p \in Published /\ q \in Published
                                \/ p = "genesis" /\ q = "init"
        PROVE  Still(e)
    <2>1. pc'[e] = q /\ \A f \in Epochs : f # e => pc'[f] = pc[f]
      BY <1>g DEF InHand
    <2> QED BY <1>g, <2>1 DEF Still
  <1>s. ASSUME UNCHANGED <<pc, leader, version, memory, head>>, pc[e] # "absent"
        PROVE  Still(e)
    BY <1>s DEF Still
  <1>1. CASE Reconcile(e)
    BY <1>1, <1>g DEF Reconcile, Go, ReconcilePublications, memVars, fileVars
  <1>2. CASE InitializeGenesis(e)
    BY <1>2, <1>g DEF InitializeGenesis, Go, PrepareGenesis, memVars, fileVars
  <1>3. CASE WriteGenesis(e)
    BY <1>3, <1>s DEF WriteGenesis, Stay, vars, memVars
  <1>4. CASE Admit(e)
    BY <1>4, <1>s DEF Admit, Stay, BindAttempt, memVars, fileVars
  <1>5. CASE Ingest(e)
    BY <1>5, <1>s DEF Ingest, Stay, IngestReceipt, IngestProposal, memVars, fileVars
  <1>6. CASE Advance(e)
    BY <1>6, <1>g DEF Advance, Go, vars, memVars, fileVars
  <1>7. CASE Select(e)
    BY <1>7, <1>g DEF Select, Go, SelectFrom, TrySelectBatch, fileVars
  <1>8. CASE SelectNone(e)
    <2>1. UNCHANGED <<leader, version>>
      BY <1>8 DEF SelectNone, TrySelectBatch, vars
    <2> QED BY <1>8, <1>g, <2>1 DEF SelectNone, Go, SelectFrom, memVars, fileVars
  <1>9. CASE SelectFails(e)
    BY <1>9, <1>g DEF SelectFails, Go, SelectFrom, vars, memVars, fileVars
  <1>10. CASE Prepare(e)
    BY <1>10, <1>g DEF Prepare, Go, PreparePublication, fileVars
  <1>11. CASE Write(e)
    BY <1>11, <1>g DEF Write, Go, vars, memVars
  <1>12. CASE Preclose(e)
    <2>1. UNCHANGED <<leader, version>>
      BY <1>12 DEF Preclose, BeginPreclose, vars
    <2> QED BY <1>12, <1>g, <2>1 DEF Preclose, Go, memVars, fileVars
  <1>13. CASE Close(e)
    <2>1. UNCHANGED <<leader, version>>
      BY <1>13 DEF Close, BeginClose, vars
    <2> QED BY <1>13, <1>g, <2>1 DEF Close, Go, memVars, fileVars
  <1>14. CASE CloseAdmission(e) \/ AckDeadline(e) \/ ProposalDeadline(e)
    BY <1>14, <1>g
       DEF CloseAdmission, AckDeadline, ProposalDeadline, Go, vars, memVars, fileVars
  <1>15. CASE Announce(e) \/ PublishTerminal(e)
    BY <1>15, <1>g DEF Announce, PublishTerminal, Go, vars, memVars
  <1>16. CASE IngestAck(e)
    BY <1>16, <1>s DEF IngestAck, Stay, Acknowledge, memVars, fileVars
  <1>17. CASE Adjudicate(e)
    <2>1. UNCHANGED <<leader, version, memory, head>>
      BY <1>17 DEF Adjudicate, HardCrash, vars, memVars, fileVars
    <2> QED BY <1>17, <1>g, <1>s, <2>1 DEF Adjudicate, Go, Stay
  <1>18. CASE Finalize(e)
    <2>1. UNCHANGED <<leader, version>>
      BY <1>18 DEF Finalize, FinalizeTerminal
    <2> QED BY <1>18, <1>g, <2>1 DEF Finalize, Go, memVars, fileVars
  <1>19. CASE Crash(e)
    BY <1>19, <1>g DEF Crash, vars, memVars, fileVars
  <1> QED
    BY <1>1, <1>2, <1>3, <1>4, <1>5, <1>6, <1>7, <1>8, <1>9, <1>10, <1>11, <1>12,
       <1>13, <1>14, <1>15, <1>16, <1>17, <1>18, <1>19 DEF Step

\* What else a step may write.
Writes(e) ==
    /\ written \subseteq written' /\ written' \subseteq Publications
    /\ UNCHANGED base \/ Prepare(e)
    /\ wanted' \in BOOLEAN /\ drained' \subseteq Epochs /\ stopped' \subseteq Epochs

\* A step keeps the files that are there.
LEMMA StepWrites ==
  ASSUME InHand, Local, NEW e \in Epochs, Step(e) \/ Crash(e)
  PROVE  Writes(e)
  <1>1. CASE WriteGenesis(e)
    <2>1. <<"genesis", e>> \in Publications
      BY DEF Publications
    <2> QED BY <1>1, <2>1 DEF WriteGenesis, Writes, Local, memVars
  <1>2. CASE Write(e)
    <2>1. <<"batch", job[e]>> \in Publications
      BY <1>2 DEF Write, Go, InHand, Publications
    <2> QED BY <1>2, <2>1 DEF Write, Writes, Local, memVars
  <1>3. CASE Announce(e) \/ PublishTerminal(e)
    BY <1>3 DEF Announce, PublishTerminal, Writes, Local, memVars
  <1>4. CASE Prepare(e)
    BY <1>4 DEF Prepare, Writes, Local, fileVars
  <1>5. CASE UNCHANGED <<base, written, wanted, drained, stopped>>
    BY <1>5 DEF Writes, Local
  <1> QED
    BY <1>1, <1>2, <1>3, <1>4, <1>5
       DEF Step, Crash, Reconcile, Load, InitializeGenesis, FinishGenesis, PublishFirst,
           Admit, Ingest, Advance, Select, SelectNone, SelectFails, Commit, Publish,
           Preclose, CloseAdmission, Close, IngestAck, AckDeadline, Adjudicate,
           ProposalDeadline, Finalize, memVars, fileVars

-----------------------------------------------------------------------------
(* Who remembers what.                                                     *)

\* The other candidates stay what they are.
Rest(e) ==
    \A f \in Epochs : f # e =>
        pc'[f] = pc[f] /\ memory'[f] = memory[f] /\ head'[f] = head[f]

\* A candidate reads the latest version, without a fence.
Reads(e) ==
    /\ pc[e] = "load" /\ pc'[e] = (IF version = -1 THEN "genesis" ELSE "first")
    /\ memory'[e] = version /\ head'[e] = head[e]
    /\ UNCHANGED <<leader, version>>

\* The leader commits a version, or the publication it meant to commit is
\* reconciled.
Founds(e) ==
    /\ leader = e /\ version = -1 /\ pc[e] = "init" /\ pc'[e] = "first"
    /\ version' = 0 /\ memory'[e] = 0 /\ head'[e] = head[e] /\ UNCHANGED leader

Commits(e) ==
    /\ leader = e /\ version >= 0 /\ pc[e] = "commit"
    /\ pc'[e] \in {"publish", "final", "admit"} /\ (version' # version => pc'[e] = "publish")
    /\ version' \in {version, version + 1} /\ memory'[e] = version'
    /\ head'[e] = head[e] /\ UNCHANGED leader

\* A candidate points its readers to what it has in memory, without a fence.
Shows(e) ==
    /\ \/ pc[e] = "first" /\ pc'[e] \in {"stop", "admit"}
       \/ pc[e] = "publish" /\ pc'[e] \in {"final", "admit"}
    /\ head'[e] = memory[e] /\ memory'[e] = memory[e] /\ UNCHANGED <<leader, version>>

\* What a step of a candidate does to memories and heads.
LEMMA StepShape ==
  ASSUME TypeOK, InHand, Local, NEW e \in Epochs, Step(e) \/ Crash(e)
  PROVE  /\ Still(e) \/ (Rest(e) /\ (Reads(e) \/ Founds(e) \/ Commits(e) \/ Shows(e)))
         /\ memory' \in [Epochs -> Int] /\ head' \in [Epochs -> Int]
  <1>0. version \in Int /\ 0 \in Int /\ memory[e] \in Int
    BY DEF TypeOK, Local
  <1>g. ASSUME NEW p, NEW q, Go(e, p, q)
        PROVE  pc[e] = p /\ pc'[e] = q /\ \A f \in Epochs : f # e => pc'[f] = pc[f]
    BY <1>g DEF Go, InHand
  <1>m. ASSUME NEW v \in Int, memory' = [memory EXCEPT ![e] = v], UNCHANGED head
        PROVE  /\ memory'[e] = v /\ head'[e] = head[e]
               /\ \A f \in Epochs : f # e => memory'[f] = memory[f] /\ head'[f] = head[f]
               /\ memory' \in [Epochs -> Int] /\ head' \in [Epochs -> Int]
    BY <1>m DEF Local
  <1>h. ASSUME head' = [head EXCEPT ![e] = memory[e]], UNCHANGED memory
        PROVE  /\ head'[e] = memory[e] /\ memory'[e] = memory[e]
               /\ \A f \in Epochs : f # e => memory'[f] = memory[f] /\ head'[f] = head[f]
               /\ memory' \in [Epochs -> Int] /\ head' \in [Epochs -> Int]
    BY <1>0, <1>h DEF Local
  <1>1. CASE Still(e)
    BY <1>1 DEF Still, Local
  <1>2. CASE Load(e)
    <2>1. Go(e, "load", IF version = -1 THEN "genesis" ELSE "first")
      BY <1>2 DEF Load
    <2>2. memory' = [memory EXCEPT ![e] = version] /\ UNCHANGED <<head, leader, version>>
      BY <1>2 DEF Load, fileVars, vars
    <2> QED BY <1>0, <1>g, <1>m, <2>1, <2>2 DEF Reads, Rest
  <1>3. CASE FinishGenesis(e)
    <2>1. Go(e, "init", "first") /\ leader = e
      BY <1>3 DEF FinishGenesis, Commanding
    <2>2. /\ memory' = [memory EXCEPT ![e] = 0] /\ UNCHANGED <<head, leader>>
          /\ version = -1 /\ version' = 0
      BY <1>3 DEF FinishGenesis, CommitGenesis, fileVars
    <2> QED BY <1>0, <1>g, <1>m, <2>1, <2>2 DEF Founds, Rest
  <1>4. CASE PublishFirst(e)
    <2>1. Go(e, "first", IF ctl.state \in Closed THEN "stop" ELSE "admit")
      BY <1>4 DEF PublishFirst
    <2>2. head' = [head EXCEPT ![e] = memory[e]] /\ UNCHANGED <<memory, leader, version>>
      BY <1>4 DEF PublishFirst, memVars, vars
    <2> QED BY <1>g, <1>h, <2>1, <2>2 DEF Shows, Rest
  <1>5. CASE Commit(e)
    <2>1. /\ Go(e, "commit", IF version' # version THEN "publish" ELSE Return)
          /\ leader = e
      BY <1>5 DEF Commit, Commanding
    <2>2. memory' = [memory EXCEPT ![e] = version'] /\ UNCHANGED <<head, leader>>
      BY <1>5 DEF Commit, Reloaded, CommitMerge, fileVars
    <2>3. version >= 0 /\ version' \in {version, version + 1}
      BY <1>5 DEF Commit, CommitMerge, TargetsNext, ApplyBatch
    <2>4. version' \in Int
      BY <1>0, <2>3
    <2> QED BY <1>g, <1>m, <2>1, <2>2, <2>3, <2>4 DEF Commits, Rest, Return
  <1>6. CASE Publish(e)
    <2>1. Go(e, "publish", Return)
      BY <1>6 DEF Publish
    <2>2. head' = [head EXCEPT ![e] = memory[e]] /\ UNCHANGED <<memory, leader, version>>
      BY <1>6 DEF Publish, memVars, vars
    <2> QED BY <1>g, <1>h, <2>1, <2>2 DEF Shows, Rest, Return
  <1> QED BY <1>1, <1>2, <1>3, <1>4, <1>5, <1>6, StepKinds

\* Memories and heads stay behind the committed versions, and the leader's
\* memory at the latest one.
LEMMA MemoryStep ==
  ASSUME TypeOK, InHand, Local, Fresh, NobodyAhead, FirstIsLatest,
         NEW e \in Epochs, Step(e) \/ Crash(e)
  PROVE  Fresh' /\ NobodyAhead' /\ FirstIsLatest'
  <1> USE DEF Working, Published, Running, Normal, Merge, Drain, Start
  <1>0. /\ leader \in Int /\ version \in Int /\ version >= -1
        /\ leader > 0 => leader \in Epochs
        /\ memory \in [Epochs -> Int] /\ head \in [Epochs -> Int]
        /\ e \in Int /\ Epochs \subseteq Int
    BY AuthorityAssumption DEF TypeOK, Local, Epochs
  <1>1. CASE Still(e)
    <2>0. /\ UNCHANGED <<leader, version, memory, head>>
          /\ e <= leader
          /\ \A f \in Epochs : f # e => pc'[f] = pc[f]
          /\ pc'[e] \in Working \ {"genesis", "init"} => pc[e] \in Working \ {"genesis", "init"}
          /\ pc'[e] \in Working => pc[e] \in Working
          /\ pc'[e] \in Published => pc[e] \in Published
          /\ pc'[e] = "first" => pc[e] = "first"
      BY <1>0, <1>1 DEF Still, NobodyAhead
    <2>1. Fresh'
      BY <1>0, <2>0 DEF Fresh
    <2>2. NobodyAhead'
      <3> SUFFICES ASSUME NEW f \in Epochs
                   PROVE  (/\ -1 <= head[f] /\ head[f] <= memory[f] /\ memory[f] <= version
                           /\ pc[f] \in Working \ {"genesis", "init"} => memory[f] >= 0
                           /\ pc[f] \in Published => head[f] >= 0
                           /\ f > leader => head[f] = -1 /\ pc[f] = "absent")'
        BY DEF NobodyAhead
      <3> QED BY <1>0, <2>0 DEF NobodyAhead
    <2>3. FirstIsLatest'
      BY <2>0 DEF FirstIsLatest
    <2> QED BY <2>1, <2>2, <2>3
  <1>2. CASE Rest(e) /\ Reads(e)
    <2>0. e <= leader
      BY <1>0, <1>2 DEF Reads, NobodyAhead
    <2>1. Fresh'
      BY <1>0, <1>2 DEF Fresh, Reads, Rest
    <2>2. NobodyAhead'
      BY <1>0, <1>2, <2>0 DEF NobodyAhead, Reads, Rest
    <2>3. FirstIsLatest'
      BY <1>0, <1>2 DEF FirstIsLatest, Reads, Rest
    <2> QED BY <2>1, <2>2, <2>3
  <1>3. CASE Rest(e) /\ Founds(e)
    <2>1. Fresh'
      BY <1>0, <1>3 DEF Fresh, Founds, Rest
    <2>2. NobodyAhead'
      BY <1>0, <1>3 DEF NobodyAhead, Founds, Rest
    <2>3. FirstIsLatest'
      <3>1. ASSUME NEW d \in Epochs, d # e PROVE pc'[d] # "first"
        BY <1>0, <1>3, <3>1 DEF NobodyAhead, Founds, Rest
      <3>2. memory'[e] = version'
        BY <1>3 DEF Founds
      <3> QED BY <3>1, <3>2 DEF FirstIsLatest
    <2> QED BY <2>1, <2>2, <2>3
  <1>4. CASE Rest(e) /\ Commits(e)
    <2>1. Fresh'
      BY <1>0, <1>4 DEF Fresh, Commits, Rest
    <2>2. NobodyAhead'
      BY <1>0, <1>4 DEF NobodyAhead, Commits, Rest
    <2>3. FirstIsLatest'
      <3>1. head'[e] >= 0
        BY <1>4 DEF NobodyAhead, Commits
      <3>2. ASSUME NEW d \in Epochs, pc'[d] = "first" PROVE e >= d
        BY <1>0, <1>4, <3>2 DEF NobodyAhead, Commits, Rest
      <3>3. head'[e] # -1
        BY <3>1
      <3> QED BY <3>2, <3>3 DEF FirstIsLatest
    <2> QED BY <2>1, <2>2, <2>3
  <1>5. CASE Rest(e) /\ Shows(e)
    <2>0. e <= leader /\ memory[e] >= 0
      BY <1>0, <1>5 DEF Shows, NobodyAhead
    <2>1. Fresh'
      BY <1>0, <1>5 DEF Fresh, Shows, Rest
    <2>2. NobodyAhead'
      BY <1>0, <1>5, <2>0 DEF NobodyAhead, Shows, Rest
    <2>3. FirstIsLatest'
      <3> SUFFICES ASSUME NEW d \in Epochs, pc'[d] = "first",
                          \A f \in Epochs : f >= d => head'[f] = -1
                   PROVE  memory'[d] = version'
        BY DEF FirstIsLatest
      <3>1. d # e /\ UNCHANGED version
        BY <1>5 DEF Shows
      <3>2. ~(e >= d)
        BY <1>0, <1>5, <2>0 DEF Shows
      <3>3. \A f \in Epochs : f >= d => head[f] = -1
        BY <1>5, <3>2 DEF Rest
      <3>4. pc[d] = "first" /\ memory'[d] = memory[d]
        BY <1>5, <3>1 DEF Rest
      <3> QED BY <3>1, <3>3, <3>4 DEF FirstIsLatest
    <2> QED BY <2>1, <2>2, <2>3
  <1> QED BY <1>1, <1>2, <1>3, <1>4, <1>5, StepShape

-----------------------------------------------------------------------------
(* What publications are computed from, and their files.                   *)

\* What a step commits.
LEMMA StepCommits ==
  ASSUME TypeOK, InHand, NEW e \in Epochs, Step(e) \/ Crash(e)
  PROVE  \/ UNCHANGED version /\ Quiet
         \/ FinishGenesis(e)
         \/ Commit(e) /\ BatchCommitted(job[e])
  <1>0. version \in Int
    BY DEF TypeOK
  <1>1. [Next]_vars
    BY StepIsCommand DEF SyncerNext
  <1>2. /\ Quiet \/ GenesisCommitted \/ \E b \in Batches : BatchCommitted(b)
        /\ BatchesSettled
    BY <1>1, VersionStep
  <1>3. UNCHANGED version => Quiet
    <2>1. ASSUME NEW b \in Batches, BatchCommitted(b) PROVE version' # version
      <3>1. version' = batch[b].target /\ batch[b].target = version + 1
        BY <2>1 DEF BatchCommitted, ApplyBatch, TargetsNext
      <3> QED BY <1>0, <3>1
    <2>2. GenesisCommitted => version' # version
      BY DEF GenesisCommitted
    <2> QED BY <1>2, <2>1, <2>2
  <1>4. ASSUME Commit(e) PROVE UNCHANGED version \/ BatchCommitted(job[e])
    <2>1. CommitMerge(job[e], ctl.state \in Closing)
      BY <1>4 DEF Commit
    <2> QED BY <2>1 DEF CommitMerge, BatchCommitted
  <1>5. \/ UNCHANGED version
        \/ FinishGenesis(e) \/ Commit(e)
    BY StepKinds DEF Still, Load, PublishFirst, Publish, vars
  <1> QED BY <1>3, <1>4, <1>5

\* A batch is prepared by nothing but Prepare.
LEMMA OnlyPrepared ==
  ASSUME TypeOK, InHand, NEW e \in Epochs, Step(e) \/ Crash(e), ~Prepare(e),
         NEW b \in Batches, batch'[b].state = "prepared"
  PROVE  batch'[b] = batch[b]
  <1>0. WorkType
    BY TypeParts
  <1>a. ASSUME NEW B, AbandonBatches(B) PROVE batch'[b] = batch[b]
    BY <1>0, <1>a DEF AbandonBatches, WorkType, BatchRows, Live
  <1>s. ASSUME NEW quorum, TrySelectBatch(quorum) PROVE batch'[b] = batch[b]
    <2>1. PICK c \in Batches :
            \/ batch' = batch
            \/ \E m : batch' = [batch EXCEPT ![c] =
                                  [state |-> "selected", epoch |-> leader,
                                   target |-> version + 1, members |-> m]]
      BY <1>s DEF TrySelectBatch
    <2>2. batch'[b] = batch[b] \/ batch'[b].state = "selected"
      BY <1>0, <2>1 DEF WorkType
    <2> QED BY <2>2
  <1>1. CASE Reconcile(e)
    BY <1>1, <1>a DEF Reconcile, ReconcilePublications, ReconcileBatches
  <1>2. CASE Admit(e)
    BY <1>2, <1>a DEF Admit, BindAttempt, Terminalize, workVars
  <1>3. CASE Select(e) \/ SelectNone(e)
    BY <1>3, <1>s DEF Select, SelectNone, vars
  <1>4. CASE Commit(e)
    <2>1. CommitMerge(job[e], ctl.state \in Closing)
      BY <1>4 DEF Commit
    <2>2. ApplyBatch(job[e]) \/ ReconcileBatches({job[e]}, Invalid(job[e]))
      BY <2>1 DEF CommitMerge
    <2>3. ApplyBatch(job[e]) => batch'[b] = batch[b]
      <3>1. ASSUME batch' = [batch EXCEPT ![job[e]].state = "committed"]
            PROVE  batch'[b] = batch[b]
        BY <1>0, <3>1 DEF WorkType, BatchRows
      <3> QED BY <3>1 DEF ApplyBatch
    <2> QED BY <1>a, <2>2, <2>3 DEF ReconcileBatches
  <1>5. CASE IngestAck(e) \/ Adjudicate(e) \/ Finalize(e)
    <2>1. UNCHANGED batch \/ \E L, P : Terminalize(L, P)
      BY <1>5
         DEF IngestAck, Acknowledge, Adjudicate, HardCrash, Finalize, FinalizeTerminal, vars
    <2> QED BY <1>a, <2>1 DEF Terminalize
  <1>6. CASE UNCHANGED batch
    BY <1>6
  <1> QED
    BY <1>1, <1>2, <1>3, <1>4, <1>5, <1>6
       DEF Step, Crash, Load, InitializeGenesis, PrepareGenesis, WriteGenesis, FinishGenesis,
           CommitGenesis, PublishFirst, Ingest, IngestReceipt, IngestProposal, Advance,
           SelectFails, Write, Publish, Preclose, BeginPreclose, CloseAdmission, Close,
           BeginClose, Announce, AckDeadline, ProposalDeadline, PublishTerminal, vars, workVars

\* What a step prepares was computed from the state of the latest version,
\* and what it commits has its files.
LEMMA FilesStep ==
  ASSUME TypeOK, InHand, Local, Fresh, NobodyAhead, BasesRight, FilesWritten,
         NEW e \in Epochs, Step(e) \/ Crash(e)
  PROVE  Local' /\ BasesRight' /\ FilesWritten'
  <1>0. /\ WorkType /\ RestType
        /\ version \in Int /\ e \in Int /\ e > 0
    BY TypeParts DEF TypeOK, Epochs
  <1>1. Writes(e)
    BY StepWrites
  <1>2. /\ UNCHANGED base \/ Prepare(e)
        /\ written \subseteq written' /\ written' \subseteq Publications
    BY <1>1 DEF Writes
  <1>3. ASSUME Prepare(e)
        PROVE  /\ job[e] \in Batches /\ base' \in [Batches -> Nat \cup {-1}]
               /\ base'[job[e]] = batch'[job[e]].target - 1
               /\ \A b \in Batches : b # job[e] => base'[b] = base[b] /\ batch'[b] = batch[b]
               /\ UNCHANGED version
    <2>1. job[e] \in Batches /\ pc[e] = "prepare" /\ leader = e
      BY <1>3 DEF Prepare, Go, Commanding, InHand
    <2>2. memory[e] = version /\ memory[e] \in Nat \cup {-1}
      BY <1>0, <2>1 DEF Fresh, Working, Running, Merge, RestType
    <2>3. batch[job[e]].target = version + 1 /\ UNCHANGED version
      BY <1>3 DEF Prepare, PreparePublication, TargetsNext
    <2>4. base' = [base EXCEPT ![job[e]] = memory[e]]
      BY <1>3 DEF Prepare
    <2>5. batch' = [batch EXCEPT ![job[e]].state = "prepared"]
      BY <1>3 DEF Prepare, PreparePublication
    <2>6. /\ batch'[job[e]].target = batch[job[e]].target
          /\ \A b \in Batches : b # job[e] => batch'[b] = batch[b]
      BY <1>0, <2>1, <2>5 DEF WorkType, BatchRows
    <2>7. /\ base'[job[e]] = memory[e] /\ base' \in [Batches -> Nat \cup {-1}]
          /\ \A b \in Batches : b # job[e] => base'[b] = base[b]
      BY <2>1, <2>2, <2>4 DEF Local
    <2> QED BY <1>0, <2>1, <2>2, <2>3, <2>6, <2>7
  <1>4. Local'
    <2>1. base' \in [Batches -> Nat \cup {-1}]
      BY <1>2, <1>3 DEF Local
    <2>2. memory' \in [Epochs -> Int] /\ head' \in [Epochs -> Int]
      BY StepShape
    <2> QED BY <1>1, <2>1, <2>2 DEF Writes, Local
  <1>5. [Next]_vars
    BY StepIsCommand DEF SyncerNext
  <1>6. BatchesSettled
    BY <1>5, VersionStep
  <1>7. ASSUME NEW b \in Batches, batch'[b].state = "committed"
        PROVE  \/ batch'[b] = batch[b]
               \/ Commit(e) /\ b = job[e] /\ batch[b].state = "prepared"
                            /\ batch'[b].target = batch[b].target
    <2>1. CASE UNCHANGED version /\ Quiet
      BY <1>6, <1>7, <2>1 DEF Quiet, BatchesSettled
    <2>2. CASE FinishGenesis(e)
      BY <2>2 DEF FinishGenesis, CommitGenesis, workVars
    <2>3. CASE Commit(e) /\ BatchCommitted(job[e])
      <3>1. /\ batch' = [batch EXCEPT ![job[e]].state = "committed"]
            /\ batch[job[e]].state = "prepared"
        BY <2>3 DEF BatchCommitted, ApplyBatch
      <3>2. b # job[e] => batch'[b] = batch[b]
        BY <1>0, <3>1 DEF WorkType
      <3>3. b = job[e] => batch'[b].target = batch[b].target
        BY <1>0, <3>1 DEF WorkType, BatchRows
      <3> QED BY <2>3, <3>1, <3>2, <3>3
    <2> QED BY <2>1, <2>2, <2>3, StepCommits
  <1>8. BasesRight'
    <2> SUFFICES ASSUME NEW b \in Batches, batch'[b].state \in {"prepared", "committed"}
                 PROVE  base'[b] = batch'[b].target - 1
      BY DEF BasesRight
    <2>1. CASE Prepare(e)
      BY <1>3, <2>1 DEF BasesRight
    <2>2. CASE ~Prepare(e)
      <3>1. base'[b] = base[b]
        BY <1>2, <2>2
      <3>2. CASE batch'[b].state = "prepared"
        BY <2>2, <3>1, <3>2, OnlyPrepared DEF BasesRight
      <3>3. CASE batch'[b].state = "committed"
        BY <1>7, <3>1, <3>3 DEF BasesRight
      <3> QED BY <3>2, <3>3
    <2> QED BY <2>1, <2>2
  <1>9. FilesWritten'
    <2>1. ASSUME NEW b \in Batches, batch'[b].state = "committed"
          PROVE  <<"batch", b>> \in written'
      <3>1. Commit(e) => <<"batch", job[e]>> \in written
        BY DEF Commit
      <3> QED BY <1>2, <1>7, <2>1, <3>1 DEF FilesWritten
    <2>2. ASSUME NEW d \in Epochs, genesis'[d] = "committed"
          PROVE  <<"genesis", d>> \in written'
      <3>1. CASE UNCHANGED version /\ Quiet
        BY <1>2, <2>2, <3>1 DEF Quiet, FilesWritten
      <3>2. CASE FinishGenesis(e)
        <4>1. genesis' = [genesis EXCEPT ![e] = "committed"] /\ <<"genesis", e>> \in written
          BY <3>2 DEF FinishGenesis, CommitGenesis
        <4>2. d # e => genesis'[d] = genesis[d]
          BY <1>0, <4>1 DEF RestType
        <4> QED BY <1>2, <2>2, <4>1, <4>2 DEF FilesWritten
      <3>3. CASE Commit(e) /\ BatchCommitted(job[e])
        BY <1>2, <2>2, <3>3 DEF BatchCommitted, FilesWritten
      <3> QED BY <3>1, <3>2, <3>3, StepCommits
    <2> QED BY <2>1, <2>2 DEF FilesWritten
  <1> QED BY <1>4, <1>8, <1>9

-----------------------------------------------------------------------------
(* The invariant, and what follows for readers.                            *)

\* The invariant holds at the start.
LEMMA SyncerInvInit == SyncerInit => SyncerInv
  <1> SUFFICES ASSUME SyncerInit PROVE SyncerInv
      OBVIOUS
  <1> USE DEF Working, Published, Running, Normal, Merge, Drain, Start
  <1>1. /\ \A e \in Epochs : /\ pc[e] = "absent" /\ memory[e] = -1 /\ head[e] = -1
                             /\ genesis[e] = "none"
        /\ \A b \in Batches : batch[b].state = "none"
        /\ leader = 0 /\ version = -1
    BY DEF SyncerInit, Init
  <1>2. InHand /\ Local
    <2>1. 0 \in 0 .. MaxBatch
      BY AuthorityAssumption
    <2>2. pc \in [Epochs -> Places] /\ job \in [Epochs -> 0 .. MaxBatch]
      BY <2>1 DEF SyncerInit, Places, None
    <2>3. InHand
      BY <1>1, <2>2 DEF InHand
    <2>4. /\ memory \in [Epochs -> Int] /\ head \in [Epochs -> Int]
          /\ base \in [Batches -> Nat \cup {-1}]
      BY DEF SyncerInit
    <2>5. wanted \in BOOLEAN /\ drained = {} /\ stopped = {} /\ written = {}
      BY DEF SyncerInit
    <2>6. Local
      BY <2>4, <2>5 DEF Local
    <2> QED BY <2>3, <2>6
  <1>3. Fresh /\ NobodyAhead /\ FirstIsLatest
    BY <1>1 DEF Fresh, NobodyAhead, FirstIsLatest
  <1>4. BasesRight /\ FilesWritten
    BY <1>1 DEF BasesRight, FilesWritten
  <1> QED BY <1>2, <1>3, <1>4 DEF SyncerInv

\* Candidates that come, go, crash and pause keep the invariant.
LEMMA SyncerInvStep == TypeOK /\ SyncerInv /\ [SyncerNext]_allVars => SyncerInv'
  <1> SUFFICES ASSUME TypeOK, SyncerInv, [SyncerNext]_allVars PROVE SyncerInv'
      OBVIOUS
  <1>0. InHand'
    BY InHandStep DEF SyncerInv
  <1>1. ASSUME NEW e \in Epochs, Step(e) \/ Crash(e) PROVE SyncerInv'
    BY <1>0, <1>1, FilesStep, MemoryStep DEF SyncerInv
  <1>2. CASE Takeover
    <2>0. /\ leader + 1 \in Epochs /\ leader \in Int /\ leader' = leader + 1
          /\ memory \in [Epochs -> Int] /\ head \in [Epochs -> Int]
          /\ Epochs \subseteq Int
          /\ UNCHANGED <<version, genesis, batch, memory, base, written, head, wanted,
                         drained, stopped>>
      BY <1>2, AuthorityAssumption
         DEF Takeover, AcquireLeader, workVars, memVars, fileVars, TypeOK, Epochs, SyncerInv,
             Local
    <2>1. /\ pc'[leader + 1] = "reconcile"
          /\ \A e \in Epochs : e # leader + 1 => pc'[e] = pc[e]
      BY <1>2, <2>0 DEF Takeover, SyncerInv, InHand
    <2>2. Local' /\ BasesRight' /\ FilesWritten'
      BY <2>0 DEF SyncerInv, Local, BasesRight, FilesWritten
    <2>3. Fresh'
      BY <2>0, <2>1 DEF Fresh, Working
    <2>4. NobodyAhead'
      <3> SUFFICES ASSUME NEW f \in Epochs
                   PROVE  (/\ -1 <= head[f] /\ head[f] <= memory[f] /\ memory[f] <= version
                           /\ pc[f] \in Working \ {"genesis", "init"} => memory[f] >= 0
                           /\ pc[f] \in Published => head[f] >= 0
                           /\ f > leader => head[f] = -1 /\ pc[f] = "absent")'
        BY DEF NobodyAhead
      <3> QED BY <2>0, <2>1 DEF SyncerInv, NobodyAhead, Working, Published
    <2>5. FirstIsLatest'
      BY <2>0, <2>1 DEF SyncerInv, FirstIsLatest
    <2> QED BY <1>0, <2>2, <2>3, <2>4, <2>5 DEF SyncerInv
  <1>3. ASSUME UNCHANGED <<leader, version, genesis, batch, pc, job, memory, base, written,
                           head, drained, stopped>>, wanted' \in BOOLEAN
        PROVE  SyncerInv'
    BY <1>3 DEF SyncerInv, InHand, Local, Fresh, NobodyAhead, BasesRight, FilesWritten, FirstIsLatest
  <1>4. CASE WantClose
    BY <1>3, <1>4 DEF WantClose, vars, memVars, fileVars
  <1>5. CASE UNCHANGED allVars
    BY <1>3, <1>5 DEF allVars, syncerVars, vars, memVars, fileVars, SyncerInv, Local
  <1> QED BY <1>1, <1>2, <1>4, <1>5 DEF SyncerNext

\* What is invariant of the candidates, and of the database they command.
LEMMA SyncerInvariant == SyncerSpec => [](AuthorityInv /\ HistoryInv /\ SyncerInv)
  <1>1. AuthorityInv => TypeOK
    BY DEF AuthorityInv
  <1>2. SyncerInit => SyncerInv
    BY SyncerInvInit
  <1>3. AuthorityInv /\ SyncerInv /\ [SyncerNext]_allVars => SyncerInv'
    BY <1>1, SyncerInvStep
  <1>4. SyncerSpec => [](AuthorityInv /\ HistoryInv)
    BY SyncerImplementsAuthority, HistoryInvariant, PTL
  <1> QED BY <1>2, <1>3, <1>4, PTL DEF SyncerSpec

\* Candidates, their memory and their files are well typed; no candidate
\* remembers a version that is not committed.
THEOREM SyncerTypeCorrect == SyncerSpec => []SyncerTypeOK
  <1>1. AuthorityInv /\ SyncerInv => SyncerTypeOK
    <2> SUFFICES ASSUME AuthorityInv, SyncerInv PROVE SyncerTypeOK
        OBVIOUS
    <2>1. version \in Int
      BY DEF AuthorityInv, TypeOK
    <2>2. memory \in [Epochs -> -1 .. version] /\ head \in [Epochs -> Nat \cup {-1}]
      <3>1. \A e \in Epochs : memory[e] \in -1 .. version /\ head[e] \in Nat \cup {-1}
        BY <2>1 DEF SyncerInv, Local, NobodyAhead
      <3> QED BY <3>1 DEF SyncerInv, Local
    <2> QED BY <2>2 DEF SyncerInv, SyncerTypeOK, InHand, Places, Local
  <1> QED BY <1>1, SyncerInvariant, PTL

\* No merge is lost.
THEOREM SyncerBuiltOnPredecessor == SyncerSpec => []BuiltOnPredecessor
  <1>1. SyncerInv => BuiltOnPredecessor
    BY DEF SyncerInv, BasesRight, BuiltOnPredecessor
  <1> QED BY <1>1, SyncerInvariant, PTL

\* Whatever a head names is committed and has its files.
THEOREM SyncerHeadIsReadable == SyncerSpec => []HeadIsReadable
  <1>1. AuthorityInv /\ HistoryInv /\ SyncerInv => HeadIsReadable
    <2> SUFFICES ASSUME AuthorityInv, HistoryInv, SyncerInv,
                        NEW e \in Epochs, head[e] >= 0
                 PROVE  head[e] <= version /\ Committed(head[e]) \cap written # {}
        BY DEF HeadIsReadable
    <2>0. version \in Int /\ head[e] \in Int /\ memory[e] \in Int
      BY DEF AuthorityInv, TypeOK, SyncerInv, Local
    <2>1. head[e] <= version
      BY <2>0 DEF SyncerInv, NobodyAhead
    <2>2. CASE head[e] = 0
      <3>1. PICK d \in Epochs : genesis[d] = "committed"
        BY <2>0, <2>1, <2>2 DEF HistoryInv, ChainInv
      <3>2. <<"genesis", d>> \in Committed(head[e])
        BY <2>2, <3>1 DEF Committed
      <3>3. <<"genesis", d>> \in written
        BY <3>1 DEF SyncerInv, FilesWritten
      <3> QED BY <2>1, <3>2, <3>3
    <2>3. CASE head[e] # 0
      <3>1. head[e] \in 1 .. version
        BY <2>0, <2>1, <2>3
      <3>2. PICK b \in Batches : CommittedAs(head[e]) = {b}
        BY <3>1 DEF HistoryInv, ChainInv
      <3>3. batch[b].state = "committed" /\ batch[b].target = head[e]
        BY <3>2 DEF CommittedAs
      <3>4. <<"batch", b>> \in Committed(head[e])
        BY <2>3, <3>3 DEF Committed
      <3>5. <<"batch", b>> \in written
        BY <3>3 DEF SyncerInv, FilesWritten
      <3> QED BY <2>1, <3>4, <3>5
    <2> QED BY <2>2, <2>3
  <1> QED BY <1>1, SyncerInvariant, PTL

-----------------------------------------------------------------------------
(* Following the highest epoch.                                            *)

\* A set of epochs has a highest one.
LEMMA Highest ==
  ASSUME NEW S \in SUBSET Epochs, S # {}
  PROVE  \E t \in S : \A f \in S : f <= t
  <1> DEFINE Above(f) == {g \in S : g > f}
             T == {Above(f) : f \in S}
  <1>1. IsFiniteSet(Epochs) /\ Epochs \subseteq Int
    BY AuthorityAssumption, FS_Interval DEF Epochs
  <1>2. T # {} /\ T \subseteq FiniteSubsetsOf(Epochs)
    <2>1. ASSUME NEW f \in S PROVE Above(f) \in FiniteSubsetsOf(Epochs)
      BY <1>1, FS_Subset DEF FiniteSubsetsOf
    <2> QED BY <2>1
  <1>3. PICK x \in T : \A y \in T : <<y, x>> \notin StrictSubsetOrdering(Epochs)
    <2>1. IsWellFoundedOn(StrictSubsetOrdering(Epochs), FiniteSubsetsOf(Epochs))
      BY FS_StrictSubsetOrderingWellFounded
    <2> HIDE DEF T
    <2> QED BY <1>2, <2>1, WFMin
  <1>4. PICK t \in S : x = Above(t)
    BY <1>3
  <1>5. ASSUME NEW f \in S, ~(f <= t) PROVE FALSE
    <2>1. f > t /\ f \in Int /\ t \in Int
      BY <1>1, <1>5
    <2>2. Above(f) \subseteq Above(t) /\ f \in Above(t) /\ f \notin Above(f)
      <3>1. \A g \in S : g > f => g > t
        BY <1>1, <2>1
      <3>2. ~(f > f)
        BY <2>1
      <3> QED BY <2>1, <3>1, <3>2
    <2>3. Above(f) \in SUBSET Epochs /\ Above(t) \in SUBSET Epochs
      OBVIOUS
    <2>4. <<Above(f), Above(t)>> \in StrictSubsetOrdering(Epochs)
      BY <2>2, <2>3 DEF StrictSubsetOrdering
    <2> QED BY <1>3, <1>4, <2>4
  <1> QED BY <1>5

\* The view of readers when the heads are h, and the epoch that they follow.
ViewOf(h) ==
    LET epochs == {e \in Epochs : h[e] >= 0}
    IN IF epochs = {} THEN -1 ELSE h[CHOOSE e \in epochs : \A f \in epochs : f <= e]

Top(h, e) == e \in Epochs /\ h[e] >= 0 /\ \A f \in Epochs : h[f] >= 0 => f <= e

Blank(h) == \A e \in Epochs : ~(h[e] >= 0)

\* Readers see the head of the highest epoch that has one.
LEMMA ViewOfTop ==
  ASSUME NEW h, NEW e, Top(h, e)
  PROVE  ViewOf(h) = h[e]
  <1> DEFINE epochs == {f \in Epochs : h[f] >= 0}
  <1>1. e \in epochs /\ \A f \in epochs : f <= e
    BY DEF Top
  <1>2. ASSUME NEW d \in epochs, \A f \in epochs : f <= d PROVE d = e
    <2>1. d <= e /\ e <= d /\ d \in Int /\ e \in Int
      BY <1>1, <1>2 DEF Epochs
    <2> QED BY <2>1
  <1>3. (CHOOSE d \in epochs : \A f \in epochs : f <= d) = e
    <2> HIDE DEF epochs
    <2> QED BY <1>1, <1>2
  <1> QED BY <1>1, <1>3 DEF ViewOf

\* Readers see nothing as long as no epoch has a head.
LEMMA ViewOfBlank == ASSUME NEW h, Blank(h) PROVE ViewOf(h) = -1
  BY DEF ViewOf, Blank

\* There is a highest epoch with a head, if there is any.
LEMMA TopOrBlank == ASSUME NEW h PROVE Blank(h) \/ \E e : Top(h, e)
  <1> DEFINE S == {e \in Epochs : h[e] >= 0}
  <1>1. CASE S = {}
    BY <1>1 DEF Blank
  <1>2. CASE S # {}
    <2>1. PICK t \in S : \A f \in S : f <= t
      BY <1>2, Highest
    <2> QED BY <2>1 DEF Top
  <1> QED BY <1>1, <1>2

\* What readers see is a version, or nothing.
LEMMA ViewIsInt == ASSUME NEW h \in [Epochs -> Int] PROVE ViewOf(h) \in Int
  BY ViewOfTop, ViewOfBlank, TopOrBlank DEF Top

\* Heads that agree for every epoch are the same.
LEMMA SameHeads ==
  ASSUME NEW g \in [Epochs -> Int], NEW h \in [Epochs -> Int], \A e \in Epochs : g[e] = h[e]
  PROVE  g = h
  OBVIOUS

\* Readers are never ahead of what is committed, and what the leader has
\* published they see.
LEMMA ViewBound ==
  ASSUME TypeOK, SyncerInv
  PROVE  /\ View \in Int /\ View >= -1 /\ View <= version
         /\ leader > 0 /\ head[leader] >= 0 => View = head[leader]
  <1>0. /\ version \in Int /\ version >= -1 /\ head \in [Epochs -> Int]
        /\ Epochs \subseteq Int /\ leader \in Int /\ (leader > 0 => leader \in Epochs)
        /\ \A e \in Epochs : head[e] <= version /\ (e > leader => head[e] = -1)
    <2>1. /\ version \in Int /\ version >= -1 /\ head \in [Epochs -> Int]
          /\ Epochs \subseteq Int /\ leader \in Int /\ (leader > 0 => leader \in Epochs)
          /\ memory \in [Epochs -> Int]
      BY DEF TypeOK, SyncerInv, Local, Epochs
    <2> QED BY <2>1 DEF SyncerInv, NobodyAhead
  <1>v. View = ViewOf(head)
    BY DEF View, ViewOf
  <1>1. ASSUME NEW t, Top(head, t) PROVE View \in Int /\ View >= -1 /\ View <= version
    BY <1>0, <1>v, <1>1, ViewOfTop DEF Top
  <1>2. ASSUME leader > 0, head[leader] >= 0 PROVE View = head[leader]
    <2>1. Top(head, leader)
      <3>1. ASSUME NEW f \in Epochs, head[f] >= 0 PROVE f <= leader
        BY <1>0, <3>1
      <3> QED BY <1>0, <1>2, <3>1 DEF Top
    <2> QED BY <1>v, <2>1, ViewOfTop
  <1> QED BY <1>0, <1>v, <1>1, <1>2, ViewOfBlank, TopOrBlank

\* A step shows readers nothing older than they have seen.
LEMMA ViewStep ==
  ASSUME TypeOK, SyncerInv, [SyncerNext]_allVars
  PROVE  View' >= View
  <1>0. /\ version \in Int /\ memory \in [Epochs -> Int] /\ head \in [Epochs -> Int]
        /\ Epochs \subseteq Int
        /\ \A e \in Epochs : -1 <= head[e] /\ head[e] <= memory[e] /\ memory[e] <= version
    BY DEF TypeOK, SyncerInv, Local, NobodyAhead, Epochs
  <1>v. View = ViewOf(head) /\ View' = ViewOf(head')
    BY DEF View, ViewOf
  <1>1. View \in Int /\ View >= -1
    BY ViewBound
  <1>2. UNCHANGED head => View' = View
    BY <1>v
  <1>3. ASSUME NEW e \in Epochs, Step(e) \/ Crash(e) PROVE View' >= View
    <2>1. \/ Still(e)
          \/ Rest(e) /\ (Reads(e) \/ Founds(e) \/ Commits(e) \/ Shows(e))
      BY <1>3, StepShape DEF SyncerInv
    <2>2. head' \in [Epochs -> Int]
      BY <1>3, StepShape DEF SyncerInv
    <2>3. CASE UNCHANGED head
      BY <1>1, <1>2, <2>3
    <2>4. CASE ~(UNCHANGED head) /\ Rest(e) /\ ~Shows(e)
      <3>1. \A f \in Epochs : head'[f] = head[f]
        BY <2>1, <2>4 DEF Rest, Still, Reads, Founds, Commits
      <3>2. head' = head
        BY <1>0, <2>2, <3>1, SameHeads
      <3> QED BY <1>1, <1>2, <3>2
    <2>5. CASE Rest(e) /\ Shows(e)
      <3>0. /\ head'[e] = memory[e] /\ \A f \in Epochs : f # e => head'[f] = head[f]
            /\ pc[e] = "first" \/ pc[e] = "publish"
        BY <2>5 DEF Rest, Shows
      <3>1. CASE Blank(head)
        <4>1. View = -1
          BY <1>v, <3>1, ViewOfBlank
        <4>2. CASE head'[e] >= 0
          <5>1. Top(head', e)
            BY <1>0, <3>0, <3>1, <4>2 DEF Top, Blank
          <5>2. View' = head'[e]
            BY <1>v, <5>1, ViewOfTop
          <5>3. head'[e] \in Int
            BY <2>2
          <5> QED BY <4>1, <4>2, <5>2, <5>3
        <4>3. CASE ~(head'[e] >= 0)
          <5>1. \A f \in Epochs : head'[f] = head[f]
            BY <1>0, <3>0, <3>1, <4>3 DEF Blank
          <5>2. head' = head
            BY <1>0, <2>2, <5>1, SameHeads
          <5> QED BY <1>1, <1>2, <5>2
        <4> QED BY <4>2, <4>3
      <3>2. ASSUME NEW t, Top(head, t) PROVE View' >= View
        <4>1. View = head[t] /\ t \in Epochs /\ head[t] >= 0
          BY <1>v, <3>2, ViewOfTop DEF Top
        <4>2. CASE e > t
          <5>1. pc[e] = "first" /\ \A f \in Epochs : f >= e => head[f] = -1
            <6>1. \A f \in Epochs : f >= e => head[f] = -1
              BY <1>0, <3>2, <4>2 DEF Top
            <6>2. pc[e] # "publish"
              <7>1. ~(head[e] >= 0)
                BY <1>0, <6>1
              <7> QED BY <7>1 DEF SyncerInv, NobodyAhead, Published, Working, Running, Merge, Start
            <6> QED BY <3>0, <6>1, <6>2
          <5>2. memory[e] = version
            BY <5>1 DEF SyncerInv, FirstIsLatest
          <5>3. head'[e] >= head[t]
            BY <1>0, <3>0, <4>1, <5>2
          <5>4. Top(head', e)
            BY <1>0, <2>2, <3>0, <3>2, <4>1, <4>2, <5>3 DEF Top
          <5>5. View' = head'[e]
            BY <1>v, <5>4, ViewOfTop
          <5> QED BY <4>1, <5>3, <5>5
        <4>3. CASE ~(e > t)
          <5>1. head'[t] >= head[t]
            BY <1>0, <3>0, <4>1
          <5>2. Top(head', t)
            BY <1>0, <2>2, <3>0, <3>2, <4>1, <4>3, <5>1 DEF Top
          <5>3. View' = head'[t]
            BY <1>v, <5>2, ViewOfTop
          <5> QED BY <4>1, <5>1, <5>3
        <4> QED BY <4>2, <4>3
      <3> QED BY <3>1, <3>2, TopOrBlank
    <2> QED BY <2>1, <2>3, <2>4, <2>5 DEF Still
  <1> QED BY <1>1, <1>2, <1>3 DEF SyncerNext, Takeover, WantClose, allVars, syncerVars, fileVars

\* Readers never go back, whoever publishes and whenever it wakes up.
THEOREM SyncerViewNeverRetreats == SyncerSpec => ViewNeverRetreats
  <1>1. AuthorityInv /\ SyncerInv /\ [SyncerNext]_allVars => [View' >= View]_allVars
    BY ViewStep DEF AuthorityInv
  <1> QED BY <1>1, SyncerInvariant, PTL DEF SyncerSpec, ViewNeverRetreats
=============================================================================
