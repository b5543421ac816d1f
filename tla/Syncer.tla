-------------------------------- MODULE Syncer --------------------------------
(***************************************************************************)
(* The syncer candidates of runtime/syncer.py and their services (merge.py *)
(* and terminal.py) over the commands of Authority.  The candidate that    *)
(* was granted epoch e is process e.  It is one thread: between two of its *)
(* steps it may crash, fail, or be paused while a successor is granted the *)
(* next epoch; what it then does outside the database it still does.       *)
(*                                                                         *)
(* The immutable weight and optimizer files of a publication are written   *)
(* after its intent is prepared and verified before it is committed; the   *)
(* control files of an epoch live in a directory of their own, and readers *)
(* follow the highest epoch.  Membership is static.                        *)
(***************************************************************************)
EXTENDS Authority

CONSTANT AllowPreclose   \* allow_preclose_admission_during_drain

ASSUME SyncerAssumption == AllowPreclose \in BOOLEAN

VARIABLES
    pc,        \* where each candidate is
    job,       \* the batch it is merging
    memory,    \* the version its theta and outer_state in memory belong to
    base,      \* the version that each batch's publication was computed from
    written,   \* publications both of whose files are in place
    head,      \* the version in the epoch's head.json, or -1
    wanted,    \* terminal_close_reason finds a reason in the configured policy
    drained,   \* epochs that published a drain
    stopped    \* epochs that published the terminal record

memVars  == <<job, memory, base>>
fileVars == <<written, head, drained, stopped>>
syncerVars == <<pc, memVars, fileVars, wanted>>
allVars == <<vars, syncerVars>>

None == 0   \* no batch in hand
Publications == ({"genesis"} \X Epochs) \cup ({"batch"} \X Batches)

Normal == {"admit", "ingest", "decide"}
Merge  == {"select", "prepare", "write", "commit", "publish"}
Drain  == {"preclose", "late", "close", "announce", "drain", "adjudicate",
           "visible", "final", "finalize", "stop"}
Start  == {"reconcile", "load", "genesis", "init", "first"}
Running == Normal \cup Merge \cup Drain \cup Start

SyncerTypeOK ==
    /\ pc \in [Epochs -> {"absent", "done", "ended"} \cup Running]
    /\ job \in [Epochs -> 0 .. MaxBatch]
    /\ memory \in [Epochs -> -1 .. version]
    /\ base \in [Batches -> Nat \cup {-1}]
    /\ written \subseteq Publications
    /\ head \in [Epochs -> Nat \cup {-1}]
    /\ wanted \in BOOLEAN
    /\ drained \subseteq Epochs
    /\ stopped \subseteq Epochs

SyncerInit ==
    /\ Init
    /\ pc = [e \in Epochs |-> "absent"]
    /\ job = [e \in Epochs |-> None]
    /\ memory = [e \in Epochs |-> -1]
    /\ base = [b \in Batches |-> -1]
    /\ written = {}
    /\ head = [e \in Epochs |-> -1]
    /\ wanted = FALSE
    /\ drained = {}
    /\ stopped = {}

\* Process e goes from one point of its program to another.
Go(e, from, to) == pc[e] = from /\ pc' = [pc EXCEPT ![e] = to]

Stay(e, at) == pc[e] \in at /\ UNCHANGED pc

\* Variant: any token that was granted once is accepted.
CommandingOnceGranted(e) == leader >= e

\* A command of process e reaches the database only while e leads.
Commanding(e) == leader = e

-----------------------------------------------------------------------------
(* Taking over.                                                            *)

\* syncer_entrypoint.main: the candidate acquires the lease, of a leader that
\* ended, resigned or outlived its lease.
Takeover ==
    /\ AcquireLeader
    /\ pc' = [pc EXCEPT ![leader + 1] = "reconcile"]
    /\ UNCHANGED <<memVars, fileVars, wanted>>

\* run_fenced_syncer: the predecessors' publications.
Reconcile(e) ==
    /\ Commanding(e)
    /\ Go(e, "reconcile", "load")
    /\ ReconcilePublications
    /\ UNCHANGED <<memVars, fileVars, wanted>>

\* run_fenced_syncer: resume from the latest version, if there is one.
Load(e) ==
    /\ Go(e, "load", IF version = -1 THEN "genesis" ELSE "first")
    /\ memory' = [memory EXCEPT ![e] = version]
    /\ UNCHANGED <<vars, job, base, fileVars, wanted>>

\* _initialize_genesis, first command.
InitializeGenesis(e) ==
    /\ Commanding(e)
    /\ Go(e, "genesis", "init")
    /\ PrepareGenesis
    /\ UNCHANGED <<memVars, fileVars, wanted>>

\* _initialize_genesis: the files, and the commit that verifies them.
WriteGenesis(e) ==
    /\ Stay(e, {"init"})
    /\ <<"genesis", e>> \notin written
    /\ written' = written \cup {<<"genesis", e>>}
    /\ UNCHANGED <<vars, memVars, head, drained, stopped, wanted>>

FinishGenesis(e) ==
    /\ Commanding(e)
    /\ Go(e, "init", "first")
    /\ <<"genesis", e>> \in written
    /\ CommitGenesis(e)
    /\ memory' = [memory EXCEPT ![e] = 0]
    /\ UNCHANGED <<job, base, fileVars, wanted>>

\* run_fenced_syncer: publish the latest version under the own epoch, and the
\* terminal record if a predecessor has finalized the run.
PublishFirst(e) ==
    /\ Go(e, "first", IF ctl.state \in Closed THEN "stop" ELSE "admit")
    /\ head' = [head EXCEPT ![e] = memory[e]]
    /\ UNCHANGED <<vars, memVars, written, drained, stopped, wanted>>

-----------------------------------------------------------------------------
(* The main loop.                                                          *)

\* _admit_requests: before the runtime starts (_admit_before_runtime_import),
\* in the loop, and in the scan for requests made before the cutoff.
Admit(e) ==
    /\ Commanding(e)
    /\ Stay(e, {"reconcile", "admit", "late"})
    /\ \E l \in Learners : BindAttempt(l)
    /\ UNCHANGED <<memVars, fileVars, wanted>>

\* _ingest_proposals: receipts and proposals of the files it finds.
Ingest(e) ==
    /\ Commanding(e)
    /\ Stay(e, {"ingest", "drain", "visible", "final"})
    /\ \/ \E l \in Learners, expected \in BOOLEAN : IngestReceipt(l, expected)
       \/ \E u \in Slots : IngestProposal(u)
    /\ UNCHANGED <<memVars, fileVars, wanted>>

\* terminal_close_reason: a close in progress is resumed.
CloseReason == wanted \/ ctl.state # "open"

Advance(e) ==
    /\ \/ Go(e, "admit", "ingest")
       \/ Go(e, "ingest", "decide")
       \/ Go(e, "decide", IF CloseReason THEN "preclose" ELSE "select")
    /\ UNCHANGED <<vars, memVars, fileVars, wanted>>

\* The configured target, deadline, request or budget is reached.
WantClose ==
    /\ MaxClose > 0
    /\ wanted' = TRUE
    /\ UNCHANGED <<vars, pc, memVars, fileVars>>

-----------------------------------------------------------------------------
(* MergeService.merge_once, of a normal merge ("select") or, during the    *)
(* close, of a terminal one ("final").                                     *)

Quorum == IF ctl.state \in Closing THEN 1 ELSE QuorumMin

\* The terminal loop ends when no merge is left in the budget.
SelectFrom == IF ctl.state \in Closing THEN "final" ELSE "select"

\* merge_once returns to the loop it was called from.
Return == IF ctl.state \in Closing THEN "final" ELSE "admit"

BudgetLeft == ctl.state \in Closing => ctl.merges < TerminalMergeLimit

\* try_select_batch found a quorum.
Select(e) ==
    /\ Commanding(e)
    /\ Go(e, SelectFrom, "prepare")
    /\ BudgetLeft
    /\ TrySelectBatch(Quorum)
    /\ \E b \in Batches : batch[b] # batch'[b] /\ job' = [job EXCEPT ![e] = b]
    /\ UNCHANGED <<memory, base, fileVars, wanted>>

\* try_select_batch found none, or there is no merge left.
SelectNone(e) ==
    /\ Commanding(e)
    /\ Go(e, SelectFrom, IF ctl.state \in Closing THEN "finalize" ELSE "admit")
    /\ IF BudgetLeft
         THEN ~Quorate(Quorum) /\ TrySelectBatch(Quorum)
         ELSE UNCHANGED vars
    /\ UNCHANGED <<memVars, fileVars, wanted>>

\* sqlite3.IntegrityError out of try_select_batch ends the candidate.
SelectFails(e) ==
    /\ Commanding(e)
    /\ Go(e, SelectFrom, "ended")
    /\ BudgetLeft /\ Quorate(Quorum) /\ SelectionConflict
    /\ UNCHANGED <<vars, memVars, fileVars, wanted>>

\* The next theta is computed from the state in memory, then prepared.
Prepare(e) ==
    /\ Commanding(e)
    /\ Go(e, "prepare", "write")
    /\ PreparePublication(job[e])
    /\ base' = [base EXCEPT ![job[e]] = memory[e]]
    /\ UNCHANGED <<job, memory, fileVars, wanted>>

\* Variant: the new version is published before it is committed.
WriteAndPublish(e) ==
    /\ Go(e, "write", "commit")
    /\ written' = written \cup {<<"batch", job[e]>>}
    /\ head' = [head EXCEPT ![e] = batch[job[e]].target]
    /\ UNCHANGED <<vars, memVars, drained, stopped, wanted>>

\* publish_immutable_bytes of both files.
Write(e) ==
    /\ Go(e, "write", "commit")
    /\ written' = written \cup {<<"batch", job[e]>>}
    /\ UNCHANGED <<vars, memVars, head, drained, stopped, wanted>>

\* Variant: the state in memory is not replaced by the committed one.
ReloadedNot(e) == memory[e]

\* load_outer_state of the committed version after commit_merge, or of the
\* latest one after a conflict.
Reloaded(e) == version'

\* commit_merge verifies the files first.
Commit(e) ==
    /\ Commanding(e)
    /\ <<"batch", job[e]>> \in written
    /\ CommitMerge(job[e], ctl.state \in Closing)
    /\ Go(e, "commit", IF version' # version THEN "publish" ELSE Return)
    /\ memory' = [memory EXCEPT ![e] = Reloaded(e)]
    /\ UNCHANGED <<job, base, fileVars, wanted>>

\* control.publish_latest.
Publish(e) ==
    /\ Go(e, "publish", Return)
    /\ head' = [head EXCEPT ![e] = memory[e]]
    /\ UNCHANGED <<vars, memVars, written, drained, stopped, wanted>>

-----------------------------------------------------------------------------
(* TerminalService.finalize.                                               *)

\* The admission cutoff, where it is configured, then the freeze.
Preclose(e) ==
    /\ Commanding(e)
    /\ IF ctl.state = "open" /\ AllowPreclose
         THEN BeginPreclose ELSE UNCHANGED vars
    /\ Go(e, "preclose", IF ctl'.state = "preclosing" THEN "late" ELSE "close")
    /\ UNCHANGED <<memVars, fileVars, wanted>>

\* The registration deadline has passed.
CloseAdmission(e) ==
    /\ Go(e, "late", "close")
    /\ UNCHANGED <<vars, memVars, fileVars, wanted>>

Close(e) ==
    /\ Commanding(e)
    /\ Go(e, "close", "announce")
    /\ IF ctl.state \in {"open", "preclosing"} THEN BeginClose ELSE UNCHANGED vars
    /\ UNCHANGED <<memVars, fileVars, wanted>>

\* publish_drain.
Announce(e) ==
    /\ Go(e, "announce", "drain")
    /\ drained' = drained \cup {e}
    /\ UNCHANGED <<vars, memVars, written, head, stopped, wanted>>

\* _ingest_acks: contributors answer a drain they have seen.
IngestAck(e) ==
    /\ Commanding(e)
    /\ Stay(e, {"drain"})
    /\ \E l \in Learners : Acknowledge(l)
    /\ UNCHANGED <<memVars, fileVars, wanted>>

\* Nobody is awaited any more, or the acknowledgement deadline has passed.
AckDeadline(e) ==
    /\ Go(e, "drain", "adjudicate")
    /\ UNCHANGED <<vars, memVars, fileVars, wanted>>

\* Variant: the contributors that did not answer are passed over.
AdjudicateNobody(e) ==
    /\ Commanding(e)
    /\ Go(e, "adjudicate", "visible")
    /\ UNCHANGED <<vars, memVars, fileVars, wanted>>

\* _adjudicate_hard_crashes, one command for each contributor that did not
\* answer, and begin_terminal_proposal_visibility after them.
Adjudicate(e) ==
    /\ Commanding(e)
    /\ \/ /\ Stay(e, {"adjudicate"})
          /\ \E l \in Learners : HardCrash(l)
       \/ /\ Go(e, "adjudicate", "visible")
          /\ \A l \in Learners : ~Awaits(l)
          /\ UNCHANGED vars
    /\ UNCHANGED <<memVars, fileVars, wanted>>

\* The declared final updates are visible, or the deadline has passed.
ProposalDeadline(e) ==
    /\ Go(e, "visible", "final")
    /\ UNCHANGED <<vars, memVars, fileVars, wanted>>

Finalize(e) ==
    /\ Commanding(e)
    /\ Go(e, "finalize", "stop")
    /\ FinalizeTerminal(FALSE)
    /\ UNCHANGED <<memVars, fileVars, wanted>>

\* publish_terminal; then the candidate releases the lease and exits.
PublishTerminal(e) ==
    /\ Go(e, "stop", "done")
    /\ stopped' = stopped \cup {e}
    /\ UNCHANGED <<vars, memVars, written, head, drained, wanted>>

-----------------------------------------------------------------------------
\* The process dies, or an exception ends it: a stale token above all.
Crash(e) ==
    /\ pc[e] \in Running
    /\ pc' = [pc EXCEPT ![e] = "ended"]
    /\ UNCHANGED <<vars, memVars, fileVars, wanted>>

Step(e) ==
    \/ Reconcile(e) \/ Load(e)
    \/ InitializeGenesis(e) \/ WriteGenesis(e) \/ FinishGenesis(e) \/ PublishFirst(e)
    \/ Admit(e) \/ Ingest(e) \/ Advance(e)
    \/ Select(e) \/ SelectNone(e) \/ SelectFails(e)
    \/ Prepare(e) \/ Write(e) \/ Commit(e) \/ Publish(e)
    \/ Preclose(e) \/ CloseAdmission(e) \/ Close(e) \/ Announce(e)
    \/ IngestAck(e) \/ AckDeadline(e) \/ Adjudicate(e) \/ ProposalDeadline(e)
    \/ Finalize(e) \/ PublishTerminal(e)

SyncerNext ==
    \/ Takeover
    \/ WantClose
    \/ \E e \in Epochs : Step(e) \/ Crash(e)

SyncerSpec == SyncerInit /\ [][SyncerNext]_allVars
=============================================================================
