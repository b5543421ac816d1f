------------------------------ MODULE Authority ------------------------------
(***************************************************************************)
(* The SQLite authority of storage/authority.py for a run with static      *)
(* membership: attempt bindings, cycle receipts, proposals, selection      *)
(* batches, publications, token fates and the terminal close.  A           *)
(* LeaderSession command is one transaction, so each command is one        *)
(* action; the commands may come in any order the leader issues them in.   *)
(* A command whose guard fails raises and rolls back, and a command id     *)
(* that is replayed returns its stored result: neither changes state.      *)
(* Leadership is the abstraction of LeaderLease that LeaderEpoch states:   *)
(* only the epoch that leads commits a command.                            *)
(*                                                                         *)
(* Data abstracted: an attempt is its binding generation; a receipt and    *)
(* the update it plans are one slot <<learner, cycle>> (both tables have   *)
(* UNIQUE(run, contributor, cycle_seq)); receipt hashes and data cursors   *)
(* say no more than that cycles are contiguous; every receipt weighs one   *)
(* token.  A contributor proposes on a version it has read, so that the    *)
(* filter base_global_version <= latest never excludes an update.          *)
(***************************************************************************)
EXTENDS Integers, FiniteSets

CONSTANTS
    Learners,            \* the static contributor keys, ordered as numbers
    QuorumMin, QuorumMax,
    TerminalMergeLimit,  \* terminal_merge_limit
    \* Bounds of the model, each the last value its counter takes.
    MaxCycle, MaxGen, MaxEpoch, MaxBatch,
    MaxClose             \* terminal closes: 0 leaves the run open for ever

ASSUME AuthorityAssumption ==
    /\ Learners \subseteq Nat /\ IsFiniteSet(Learners)
    /\ QuorumMin \in Nat \ {0} /\ QuorumMax \in Nat /\ QuorumMax >= QuorumMin
    /\ TerminalMergeLimit \in Nat
    /\ MaxCycle \in Nat /\ MaxGen \in Nat /\ MaxEpoch \in Nat
    /\ MaxBatch \in Nat /\ MaxClose \in Nat

Cycles  == 1 .. MaxCycle
Slots   == Learners \X Cycles
Batches == 1 .. MaxBatch
Epochs  == 1 .. MaxEpoch

VARIABLES
    leader,    \* syncer_leader.epoch: 0 before the first leader
    version,   \* MAX(global_versions.version), -1 before genesis
    genesis,   \* publication intent for version 0 that each epoch made
    binding,   \* static_contributor_bindings by learner
    progress,  \* contributor_progress.last_cycle_seq by learner
    receipt,   \* cycle_receipts by slot: generation of its fence, expected
    fate,      \* token_fates.direct_fate by slot
    rollup,    \* token_rollups: tokens by direct fate
    update,    \* updates by slot: status, selected batch, applied version
    batch,     \* selection_batches with their selection_batch_updates
    intent,    \* publication_intents of the batches: state, owner epoch
    service,   \* selection_state: committed_credit, last_committed_version
    ctl,       \* controller_state: state and terminal_merge_count
    frozen,    \* terminal_contributor_fences by learner
    terminal   \* terminal_state: its final_version, or -1

vars == <<leader, version, genesis, binding, progress, receipt, fate, rollup,
          update, batch, intent, service, ctl, frozen, terminal>>

\* What the contributors' work is made of, and what closing a run adds.
workVars  == <<fate, rollup, update, batch, intent>>
closeVars == <<ctl, frozen, terminal>>

Fates   == {"outstanding", "unpublished", "applied", "dropped"}
Active  == {"pending", "selected"}     \* statuses of an update not yet settled
Live    == {"selected", "prepared"}    \* states of a batch not yet settled
Closing == {"closing", "draining"}
Closed  == {"finalized", "error"}

TypeOK ==
    /\ leader \in 0 .. MaxEpoch
    /\ version \in Nat \cup {-1}
    /\ genesis \in [Epochs -> {"none", "prepared", "committed", "abandoned"}]
    /\ binding \in [Learners -> [gen : 0 .. MaxGen,
                                 status : {"none", "active", "terminal"}]]
    /\ progress \in [Learners -> 0 .. MaxCycle]
    /\ receipt \in [Slots -> [gen : 0 .. MaxGen, expected : BOOLEAN]]
    /\ fate \in [Slots -> Fates \cup {"none"}]
    /\ rollup \in [Fates -> Int]
    /\ update \in [Slots -> [status : Active \cup {"none", "applied", "dropped"},
                             batch : 0 .. MaxBatch, applied : Nat \cup {-1}]]
    /\ batch \in [Batches -> [state : Live \cup {"none", "committed", "abandoned"},
                              epoch : 0 .. MaxEpoch, target : Nat,
                              members : SUBSET Slots]]
    /\ intent \in [Batches -> [state : {"none", "prepared", "committed", "abandoned"},
                               epoch : 0 .. MaxEpoch]]
    /\ service \in [Learners -> [credit : Nat, last : Nat \cup {-1}]]
    /\ ctl \in [state : {"open", "preclosing"} \cup Closing \cup Closed,
                merges : 0 .. TerminalMergeLimit]
    /\ frozen \in [Learners -> [state : {"none", "awaiting_ack", "acked", "hard_crash"},
                                gen : 0 .. MaxGen, close : 0 .. MaxCycle,
                                final : 0 .. MaxCycle]]
    /\ terminal \in Nat \cup {-1}

Init ==
    /\ leader = 0
    /\ version = -1
    /\ genesis = [e \in Epochs |-> "none"]
    /\ binding = [l \in Learners |-> [gen |-> 0, status |-> "none"]]
    /\ progress = [l \in Learners |-> 0]
    /\ receipt = [u \in Slots |-> [gen |-> 0, expected |-> FALSE]]
    /\ fate = [u \in Slots |-> "none"]
    /\ rollup = [f \in Fates |-> 0]
    /\ update = [u \in Slots |-> [status |-> "none", batch |-> 0, applied |-> -1]]
    /\ batch = [b \in Batches |-> [state |-> "none", epoch |-> 0, target |-> 0,
                               members |-> {}]]
    /\ intent = [b \in Batches |-> [state |-> "none", epoch |-> 0]]
    /\ service = [l \in Learners |-> [credit |-> 0, last |-> -1]]
    /\ ctl = [state |-> "open", merges |-> 0]
    /\ frozen = [l \in Learners |->
                   [state |-> "none", gen |-> 0, close |-> 0, final |-> 0]]
    /\ terminal = -1

-----------------------------------------------------------------------------
(* Fences.                                                                 *)

Key(u) == u[1]
Cycle(u) == u[2]

\* The command is the leader's, after LeaderEpoch!Grant.
Leads == leader > 0

\* _require_current_fence for a static fence, and _fence_is_current_json for
\* the fence of an update, which is the fence of its receipt.
FenceCurrent(l, g) == binding[l].status = "active" /\ binding[l].gen = g

Current(u) == FenceCurrent(Key(u), receipt[u].gen)

Pending(u) == update[u].status = "pending"

Others(u) == {v \in Slots : Key(v) = Key(u) /\ v # u}

\* Variant: input is taken in until the run is finished.
InputAllowedAlways(u, names) == ctl.state \notin Closed

\* _require_terminal_input_allowed: `names` says whether the input names the
\* update planned for the cycle.
InputAllowed(u, names) ==
    \/ ctl.state \in {"open", "preclosing"}
    \/ LET f == frozen[Key(u)]
       IN /\ ctl.state \in Closing
          /\ f.state # "none" /\ f.gen = binding[Key(u)].gen
          /\ \/ f.state = "awaiting_ack"
             \/ f.state = "acked" /\ names /\ f.final = Cycle(u)
          /\ Cycle(u) \in {f.close, f.close + 1}
          /\ f.final # 0 => names /\ f.final = Cycle(u)

-----------------------------------------------------------------------------
(* Token fates: _transition_token_fate moves a receipt's tokens from the   *)
(* rollup column of its old fate to that of the new one.                   *)

Moved(S, f) == {u \in S : fate[u] # f}

SetFate(S, f) == fate' = [u \in Slots |-> IF u \in S THEN f ELSE fate[u]]

MoveTokens(S, f) ==
    rollup' = [g \in Fates |->
                 rollup[g] - Cardinality({u \in Moved(S, f) : fate[u] = g})
                   + IF g = f THEN Cardinality(Moved(S, f)) ELSE 0]

-----------------------------------------------------------------------------
(* Reconciling batches.                                                    *)

Members(B) == UNION {batch[b].members : b \in B}

\* Members that _reconcile_invalid_batch puts back to pending: the valid
\* ones, unless the contributor has another pending update.
Returned(B, invalid) ==
    {u \in Members(B) \ invalid :
        /\ update[u].status = "selected"
        /\ Current(u)
        /\ \A v \in Others(u) : ~Pending(v)}

\* The other members, as far as they are not settled yet, are dropped.
Rejected(B, invalid) ==
    {u \in Members(B) \ Returned(B, invalid) : update[u].status \in Active}

\* _drop_active_update for the updates of D, and `back` to pending.
SettleUpdates(D, back) ==
    update' = [u \in Slots |->
                 IF u \in D
                   THEN [update[u] EXCEPT !.status = "dropped", !.batch = 0]
                 ELSE IF u \in back
                   THEN [update[u] EXCEPT !.status = "pending", !.batch = 0]
                 ELSE update[u]]

\* _abandon_publication_artifacts for the prepared intents of the batches.
AbandonIntents(B) ==
    intent' = [b \in Batches |->
                 IF b \in B /\ intent[b].state = "prepared"
                   THEN [intent[b] EXCEPT !.state = "abandoned"] ELSE intent[b]]

\* The batches of B are abandoned, with the prepared intents they have.
AbandonBatches(B) ==
    /\ AbandonIntents(B)
    /\ batch' = [b \in Batches |->
                   IF b \in B /\ batch[b].state \in Live
                     THEN [batch[b] EXCEPT !.state = "abandoned"] ELSE batch[b]]

\* Variant: the members of an abandoned batch are forgotten.
ReconcileBatchesOnly(B, invalid) ==
    /\ AbandonBatches(B)
    /\ UNCHANGED <<update, fate, rollup>>

\* _reconcile_invalid_batch for each batch of B.  The index on selected
\* updates gives a contributor one of them, so that the order of the batches
\* does not matter.
ReconcileBatches(B, invalid) ==
    /\ AbandonBatches(B)
    /\ SettleUpdates(Rejected(B, invalid), Returned(B, invalid))
    /\ SetFate(Rejected(B, invalid), "dropped")
    /\ MoveTokens(Rejected(B, invalid), "dropped")

\* _terminalize_fenced_updates for the current fences of the learners L,
\* keeping the slots of `preserve`: their unsettled updates are dropped, the
\* batches these were selected in are abandoned, and receipts whose update
\* has not arrived lose the tokens they promised.
FenceSlots(L, preserve) ==
    {u \in Slots \ preserve : Key(u) \in L /\ receipt[u].gen = binding[Key(u)].gen
                               /\ receipt[u].gen # 0}

Affected(L, preserve) ==
    {u \in FenceSlots(L, preserve) : update[u].status \in Active}

\* Variant: the batches of the dropped updates are forgotten.
AffectedBatchesNone(L, preserve) == {}

AffectedBatches(L, preserve) ==
    {update[u].batch : u \in Affected(L, preserve)} \ {0}

Dropped(L, preserve) ==
    Affected(L, preserve)
      \cup Rejected(AffectedBatches(L, preserve), Affected(L, preserve))

\* Variant: receipts without an update are forgotten.
OrphanReceiptsNone(L, preserve) == {}

OrphanReceipts(L, preserve) ==
    {u \in FenceSlots(L, preserve) :
        fate[u] = "outstanding" /\ update[u].status \notin Active}

Terminalize(L, preserve) ==
    LET B == AffectedBatches(L, preserve)
        A == Affected(L, preserve)
        D == Dropped(L, preserve) \cup OrphanReceipts(L, preserve)
    IN /\ AbandonBatches(B)
       /\ SettleUpdates(Dropped(L, preserve), Returned(B, A))
       /\ SetFate(D, "dropped")
       /\ MoveTokens(D, "dropped")

-----------------------------------------------------------------------------
(* Leadership.                                                             *)

\* acquire_leader, of a candidate that found the lease free or expired.
AcquireLeader ==
    /\ leader < MaxEpoch
    /\ leader' = leader + 1
    /\ UNCHANGED <<version, genesis, binding, progress, receipt, service>>
    /\ UNCHANGED workVars /\ UNCHANGED closeVars

-----------------------------------------------------------------------------
(* Membership and the contributors' input.                                 *)

\* Variant: a replacement leaves the old attempt's work alone.
BindAttemptKeepsWork(l) ==
    /\ Leads
    /\ ctl.state \in {"open", "preclosing"}
    /\ binding[l].gen < MaxGen
    /\ binding' = [binding EXCEPT ![l] = [gen |-> @.gen + 1, status |-> "active"]]
    /\ UNCHANGED <<leader, version, genesis, progress, receipt, service>>
    /\ UNCHANGED workVars /\ UNCHANGED closeVars

\* bind_or_replace_static_attempt: a first attempt, an attempt that replaces
\* an active one (authorized with its generation and a reason), or one after
\* a terminal binding.  A request by the bound attempt itself changes
\* nothing.  Before the freeze, a request made before the cutoff may come.
BindAttempt(l) ==
    /\ Leads
    /\ ctl.state \in {"open", "preclosing"}
    /\ binding[l].gen < MaxGen
    /\ IF binding[l].status = "active"
         THEN Terminalize({l}, {})
         ELSE UNCHANGED workVars
    /\ binding' = [binding EXCEPT ![l] = [gen |-> @.gen + 1, status |-> "active"]]
    /\ UNCHANGED <<leader, version, genesis, progress, receipt, service>>
    /\ UNCHANGED closeVars

\* mark_static_attempt_terminal.
MarkTerminal(l) ==
    /\ Leads
    /\ binding[l].status = "active"
    /\ Terminalize({l}, {})
    /\ binding' = [binding EXCEPT ![l].status = "terminal"]
    /\ UNCHANGED <<leader, version, genesis, progress, receipt, service>>
    /\ UNCHANGED closeVars

\* ingest_cycle_receipt: the next cycle of the contributor, by its current
\* attempt, with or without an update that is planned for it.
IngestReceipt(l, expected) ==
    LET u == <<l, progress[l] + 1>>
        f == IF expected THEN "outstanding" ELSE "unpublished"
    IN /\ Leads
       /\ progress[l] < MaxCycle
       /\ binding[l].status = "active"
       /\ InputAllowed(u, expected)
       /\ receipt' = [receipt EXCEPT ![u] = [gen |-> binding[l].gen,
                                            expected |-> expected]]
       /\ progress' = [progress EXCEPT ![l] = @ + 1]
       /\ fate' = [fate EXCEPT ![u] = f]
       /\ rollup' = [rollup EXCEPT ![f] = @ + 1]
       /\ UNCHANGED <<leader, version, genesis, binding, update, batch, intent,
                      service>>
       /\ UNCHANGED closeVars

\* Variant: an update that exists already is not recognized.
UnseenNot(u) == TRUE

\* No row of `updates` has the update id or the cycle yet.
Unseen(u) == update[u].status = "none"

\* ingest_proposal, of an update that its receipt planned and that was not
\* ingested before.  (A replay, an identity collision and a conflicting
\* update for the same cycle leave these tables as they are.)  The newest
\* pending update of the contributor supersedes the others.
IngestProposal(u) ==
    LET older == {v \in Others(u) : Pending(v) /\ Cycle(v) < Cycle(u)}
        newer == {v \in Others(u) : Pending(v) /\ Cycle(v) > Cycle(u)}
        D == older \cup IF newer # {} THEN {u} ELSE {}
    IN /\ Leads
       /\ version >= 0
       /\ receipt[u].expected /\ Current(u)
       /\ InputAllowed(u, TRUE)
       /\ Unseen(u)
       /\ SettleUpdates(D, {u})
       /\ SetFate(D, "dropped")
       /\ MoveTokens(D, "dropped")
       /\ UNCHANGED <<leader, version, genesis, binding, progress, receipt,
                      batch, intent, service>>
       /\ UNCHANGED closeVars

-----------------------------------------------------------------------------
(* Selection.                                                              *)

\* The newest pending update of each contributor.
Candidates ==
    {u \in Slots : Pending(u) /\ \A v \in Others(u) : Pending(v) => Cycle(v) < Cycle(u)}

Eligible == {u \in Candidates : Current(u)}

\* ORDER BY selection_credit, service_version, stable_contributor_key.
ServedBefore(u, v) ==
    LET s == service[Key(u)]
        t == service[Key(v)]
    IN \/ s.credit < t.credit
       \/ s.credit = t.credit /\ s.last < t.last
       \/ s.credit = t.credit /\ s.last = t.last /\ Key(u) < Key(v)

\* The first quorum_max of the eligible updates.
Chosen ==
    {u \in Eligible : Cardinality({v \in Eligible : ServedBefore(v, u)}) < QuorumMax}

\* Variant: there is no such index.
SelectionConflictNone == FALSE

\* idx_selected_update_per_contributor: the UPDATE to 'selected' raises
\* sqlite3.IntegrityError when the contributor has a selected update.
SelectionConflict ==
    \E u \in Chosen : \E v \in Others(u) : update[v].status = "selected"

Quorate(quorum) == Cardinality(Chosen) >= quorum

\* try_select_batch.  Candidates whose fence is stale are dropped even if no
\* quorum is left for a batch.
TrySelectBatch(quorum) ==
    LET stale == Candidates \ Eligible
        picked == IF Quorate(quorum) THEN Chosen ELSE {}
    IN /\ Leads
       /\ version >= 0
       /\ Quorate(quorum) => ~SelectionConflict
       /\ SetFate(stale, "dropped")
       /\ MoveTokens(stale, "dropped")
       /\ \E b \in Batches :
            /\ batch[b].state = "none"
            /\ \A k \in 1 .. (b - 1) : batch[k].state # "none"
            /\ batch' = IF picked = {} THEN batch
                        ELSE [batch EXCEPT ![b] =
                                [state |-> "selected", epoch |-> leader,
                                 target |-> version + 1, members |-> picked]]
            /\ update' = [u \in Slots |->
                            IF u \in picked
                              THEN [update[u] EXCEPT !.status = "selected", !.batch = b]
                            ELSE IF u \in stale
                              THEN [update[u] EXCEPT !.status = "dropped", !.batch = 0]
                            ELSE update[u]]
       /\ UNCHANGED <<leader, version, genesis, binding, progress, receipt,
                      intent, service>>
       /\ UNCHANGED closeVars

-----------------------------------------------------------------------------
(* Publication.                                                            *)

\* prepare_publication of version 0.
PrepareGenesis ==
    /\ Leads
    /\ version = -1
    /\ genesis[leader] = "none"
    /\ genesis' = [genesis EXCEPT ![leader] = "prepared"]
    /\ UNCHANGED <<leader, version, binding, progress, receipt, service>>
    /\ UNCHANGED workVars /\ UNCHANGED closeVars

\* commit_merge of version 0.
CommitGenesis(e) ==
    /\ Leads
    /\ genesis[e] = "prepared"
    /\ version = -1
    /\ genesis' = [genesis EXCEPT ![e] = "committed"]
    /\ version' = 0
    /\ UNCHANGED <<leader, binding, progress, receipt, service>>
    /\ UNCHANGED workVars /\ UNCHANGED closeVars

\* abandon_publication of version 0.
AbandonGenesis(e) ==
    /\ Leads
    /\ genesis[e] = "prepared"
    /\ genesis' = [genesis EXCEPT ![e] = "abandoned"]
    /\ UNCHANGED <<leader, version, binding, progress, receipt, service>>
    /\ UNCHANGED workVars /\ UNCHANGED closeVars

\* Variant: the target is not compared with the latest version.
TargetsNextNot(b) == version >= 0

\* The target of the batch is the successor of the latest version.
TargetsNext(b) == version >= 0 /\ batch[b].target = version + 1

\* prepare_publication of a batch.
PreparePublication(b) ==
    /\ Leads
    /\ batch[b].state = "selected"
    /\ TargetsNext(b)
    /\ batch' = [batch EXCEPT ![b].state = "prepared"]
    /\ intent' = [intent EXCEPT ![b] = [state |-> "prepared", epoch |-> leader]]
    /\ UNCHANGED <<leader, version, genesis, binding, progress, receipt, fate,
                   rollup, update, service>>
    /\ UNCHANGED closeVars

\* The members of a batch that commit_merge finds no longer valid.
Invalid(b) == {u \in batch[b].members : update[u].status # "selected" \/ ~Current(u)}

\* A normal commit needs an open controller; a terminal one, the close in
\* progress and a merge left in its budget.
CommitAllowed(isTerminal) ==
    IF isTerminal
      THEN ctl.state \in Closing /\ ctl.merges < TerminalMergeLimit
      ELSE ctl.state = "open"

\* Variant: the version that served the contributor is not recorded.
ServedUndated(l, v) == [service[l] EXCEPT !.credit = @ + 1]

\* selection_state after version v applied an update of l.
Served(l, v) == [credit |-> service[l].credit + 1, last |-> v]

\* The version, the batch and its updates, their credit and their tokens
\* change together.
ApplyBatch(b) ==
    LET applied == batch[b].members
        served == {Key(u) : u \in applied}
    IN /\ version' = batch[b].target
       /\ intent' = [intent EXCEPT ![b].state = "committed"]
       /\ batch' = [batch EXCEPT ![b].state = "committed"]
       /\ update' = [u \in Slots |->
                       IF u \in applied
                         THEN [update[u] EXCEPT !.status = "applied",
                                                !.applied = batch[b].target]
                         ELSE update[u]]
       /\ service' = [l \in Learners |->
                        IF l \in served THEN Served(l, batch[b].target)
                        ELSE service[l]]
       /\ SetFate(applied, "applied")
       /\ MoveTokens(applied, "applied")

\* commit_merge: apply the batch, or reconcile it when a member lost its
\* fence since the selection.
CommitMerge(b, isTerminal) ==
    /\ Leads
    /\ intent[b].state = "prepared"
    /\ TargetsNext(b)
    /\ CommitAllowed(isTerminal)
    /\ batch[b].state = "prepared"
    /\ IF Invalid(b) = {}
         THEN /\ ApplyBatch(b)
              /\ ctl' = IF isTerminal THEN [ctl EXCEPT !.merges = @ + 1] ELSE ctl
         ELSE /\ ReconcileBatches({b}, Invalid(b))
              /\ UNCHANGED <<version, service, ctl>>
    /\ UNCHANGED <<leader, genesis, binding, progress, receipt, frozen, terminal>>

\* abandon_publication of a batch.
AbandonPublication(b) ==
    /\ Leads
    /\ intent[b].state = "prepared"
    /\ ReconcileBatches({b}, {})
    /\ UNCHANGED <<leader, version, genesis, binding, progress, receipt, service>>
    /\ UNCHANGED closeVars

\* The prepared intents of other epochs than the leader's.
Predecessors == {b \in Batches : intent[b].state = "prepared" /\ intent[b].epoch # leader}

\* reconcile_publications.
ReconcilePublications ==
    /\ Leads
    /\ genesis' = [e \in Epochs |->
                     IF genesis[e] = "prepared" /\ e # leader
                       THEN "abandoned" ELSE genesis[e]]
    /\ ReconcileBatches(Predecessors, {})
    /\ UNCHANGED <<leader, version, binding, progress, receipt, service>>
    /\ UNCHANGED closeVars

-----------------------------------------------------------------------------
(* The terminal close.                                                     *)

\* begin_terminal_preclose: the admission cutoff.
BeginPreclose ==
    /\ Leads
    /\ MaxClose > 0
    /\ ctl.state = "open"
    /\ ctl' = [state |-> "preclosing", merges |-> 0]
    /\ UNCHANGED <<leader, version, genesis, binding, progress, receipt, service,
                   frozen, terminal>>
    /\ UNCHANGED workVars

\* begin_terminal_close: the active contributors are frozen, each with the
\* cycle it has reached.
BeginClose ==
    /\ Leads
    /\ MaxClose > 0
    /\ ctl.state \in {"open", "preclosing"}
    /\ ctl' = [state |-> "closing", merges |-> 0]
    /\ frozen' = [l \in Learners |->
                    IF binding[l].status = "active"
                      THEN [state |-> "awaiting_ack", gen |-> binding[l].gen,
                            close |-> progress[l], final |-> 0]
                      ELSE frozen[l]]
    /\ UNCHANGED <<leader, version, genesis, binding, progress, receipt, service,
                   terminal>>
    /\ UNCHANGED workVars

\* The frozen fence awaits an acknowledgement and names l's binding.
Awaits(l) ==
    /\ ctl.state \in Closing
    /\ frozen[l].state = "awaiting_ack"

\* The frozen fences of L that are still bound come to their end.
Ended(L) ==
    [l \in Learners |->
        IF l \in L /\ FenceCurrent(l, frozen[l].gen)
          THEN [binding[l] EXCEPT !.status = "terminal"] ELSE binding[l]]

\* Variant: the work of a contributor that crashed is left alone.
HardCrashKeepsWork(l) ==
    /\ Leads
    /\ Awaits(l)
    /\ binding' = [binding EXCEPT ![l].status = "terminal"]
    /\ frozen' = [frozen EXCEPT ![l].state = "hard_crash"]
    /\ ctl' = [ctl EXCEPT !.state = "draining"]
    /\ UNCHANGED <<leader, version, genesis, progress, receipt, service, terminal>>
    /\ UNCHANGED workVars

\* acknowledge_terminal_contributor without a final cycle: the contributor
\* did not answer, its work is dropped and its binding ends.
HardCrash(l) ==
    /\ Leads
    /\ Awaits(l)
    /\ Terminalize({l}, {})
    /\ binding' = Ended({l})
    /\ frozen' = [frozen EXCEPT ![l].state = "hard_crash"]
    /\ ctl' = [ctl EXCEPT !.state = "draining"]
    /\ UNCHANGED <<leader, version, genesis, progress, receipt, service, terminal>>

\* acknowledge_terminal_contributor with the final cycle: the one reached at
\* the freeze or the one after it, and the last one ingested.  A final update
\* is declared exactly if the receipt of that cycle planned one; all other
\* work of the contributor is dropped.
Acknowledge(l) ==
    LET last == progress[l]
        declares == last > 0 /\ receipt[<<l, last>>].expected
    IN /\ Leads
       /\ Awaits(l)
       /\ last \in {frozen[l].close, frozen[l].close + 1}
       /\ declares => \/ receipt[<<l, last>>].gen = frozen[l].gen
                      \/ update[<<l, last>>].status \notin Active
       /\ Terminalize({l}, IF declares THEN {<<l, last>>} ELSE {})
       /\ frozen' = [frozen EXCEPT ![l].state = "acked",
                                   ![l].final = IF declares THEN last ELSE 0]
       /\ ctl' = [ctl EXCEPT !.state = "draining"]
       /\ UNCHANGED <<leader, version, genesis, binding, progress, receipt,
                      service, terminal>>

\* finalize_terminal, as a success or as an error: final updates that were
\* not merged are dropped, the acknowledged bindings end, and nothing may be
\* left open.
FinalizeTerminal(error) ==
    LET acked == {l \in Learners : frozen[l].state = "acked"}
    IN /\ Leads
       /\ ctl.state \in Closing
       /\ Terminalize(acked, {})
       /\ \A u \in Slots : update'[u].status \notin Active
       /\ \A b \in Batches : intent'[b].state # "prepared"
       /\ \A e \in Epochs : genesis[e] # "prepared"
       /\ \A l \in Learners : frozen[l].state # "awaiting_ack"
       /\ rollup'["outstanding"] = 0
       /\ version >= 0
       /\ binding' = Ended(acked)
       /\ terminal' = version
       /\ ctl' = [ctl EXCEPT !.state = IF error THEN "error" ELSE "finalized"]
       /\ UNCHANGED <<leader, version, genesis, progress, receipt, service, frozen>>

-----------------------------------------------------------------------------
Membership ==
    \E l \in Learners :
        \/ BindAttempt(l)
        \/ MarkTerminal(l)
        \/ \E expected \in BOOLEAN : IngestReceipt(l, expected)

Merging ==
    \/ \E quorum \in {1, QuorumMin} : TrySelectBatch(quorum)
    \/ PrepareGenesis
    \/ \E e \in Epochs : CommitGenesis(e) \/ AbandonGenesis(e)
    \/ \E b \in Batches :
          \/ PreparePublication(b)
          \/ AbandonPublication(b)
          \/ \E isTerminal \in BOOLEAN : CommitMerge(b, isTerminal)
    \/ ReconcilePublications

Terminating ==
    \/ BeginPreclose
    \/ BeginClose
    \/ \E l \in Learners : HardCrash(l) \/ Acknowledge(l)
    \/ \E error \in BOOLEAN : FinalizeTerminal(error)

Next ==
    \/ AcquireLeader
    \/ Membership
    \/ \E u \in Slots : IngestProposal(u)
    \/ Merging
    \/ Terminating

Spec == Init /\ [][Next]_vars
=============================================================================
