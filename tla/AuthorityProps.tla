--------------------------- MODULE AuthorityProps ---------------------------
(***************************************************************************)
(* What the commands of Authority keep true between them.                  *)
(***************************************************************************)
EXTENDS Authority

\* Work that is not settled belongs to the attempt that is bound now: every
\* way an attempt loses its binding (replacement, terminal mark, hard crash,
\* finalization) settles its updates in the same transaction.  The fence
\* tests of try_select_batch and commit_merge are a second line of defence.
LiveWorkIsCurrent ==
    \A u \in Slots : update[u].status \in Active => Current(u)

\* A contributor has at most one pending and at most one selected update,
\* however its proposals arrive and however its batches end.
SingleInFlight ==
    \A u \in Slots : \A v \in Others(u) :
        update[u].status \in Active => update[u].status # update[v].status

\* An update is selected exactly while it is a member of one batch that is
\* not settled, and all members of such a batch are selected in it.
BatchAgreement ==
    /\ \A u \in Slots : update[u].status = "selected" =>
         /\ update[u].batch \in Batches
         /\ batch[update[u].batch].state \in Live
         /\ u \in batch[update[u].batch].members
    /\ \A b \in Batches : batch[b].state \in Live =>
         /\ batch[b].members # {}
         /\ \A u \in batch[b].members :
              update[u].status = "selected" /\ update[u].batch = b

\* A batch is prepared, or committed, exactly if its publication intent is;
\* an intent never outlives its batch.
IntentAgreement ==
    \A b \in Batches :
        /\ batch[b].state = "prepared" <=> intent[b].state = "prepared"
        /\ batch[b].state = "committed" <=> intent[b].state = "committed"
        /\ intent[b].state = "abandoned" => batch[b].state = "abandoned"

\* The committed batches are the versions 1 .. version, each once and after
\* one genesis; an update is applied by the one committed batch it was in,
\* as its version.
VersionChain ==
    /\ \A v \in 1 .. version :
         Cardinality({b \in Batches : batch[b].state = "committed"
                                      /\ batch[b].target = v}) = 1
    /\ \A b \in Batches : batch[b].state = "committed" =>
         /\ batch[b].target \in 1 .. version
         /\ \A u \in batch[b].members :
              update[u].status = "applied" /\ update[u].applied = batch[b].target
    /\ version >= 0 <=> \E e \in Epochs : genesis[e] = "committed"

\* The token ledger counts every receipt's tokens once, under the fate its
\* update has: applied tokens are in a committed version, and tokens stay
\* outstanding only while their update is expected from the current attempt.
TokensConserved ==
    /\ \A f \in Fates : rollup[f] = Cardinality({u \in Slots : fate[u] = f})
    /\ \A u \in Slots :
         /\ fate[u] = "none" <=> receipt[u].gen = 0
         /\ fate[u] = "unpublished" <=> receipt[u].gen > 0 /\ ~receipt[u].expected
         /\ fate[u] = "applied" <=> update[u].status = "applied"
         /\ fate[u] = "dropped" => update[u].status \in {"none", "dropped"}
         /\ update[u].status = "dropped" => fate[u] = "dropped"
         /\ fate[u] = "outstanding" => Current(u)

\* The fairness state is what the commits did: a contributor's credit is its
\* number of applied updates and its service version the last of them.
\* Selection, preparation, crash and abandonment cost and earn nothing.
CreditAgrees ==
    \A l \in Learners :
        LET applied == {u \in Slots : Key(u) = l /\ update[u].status = "applied"}
        IN /\ service[l].credit = Cardinality(applied)
           /\ \A u \in applied : update[u].applied <= service[l].last
           /\ applied # {} => \E u \in applied : update[u].applied = service[l].last
           /\ applied = {} => service[l].last = -1

\* What is settled stays settled: an applied or dropped update and the fate
\* of its tokens never change again, and a committed or abandoned batch is
\* never revived, whatever is ingested, reconciled or closed later.
SettledForEver ==
    [][/\ \A u \in Slots :
            update[u].status \in {"applied", "dropped"}
              => update'[u] = update[u] /\ fate'[u] = fate[u]
       /\ \A u \in Slots : fate[u] \notin {"none", "outstanding"} => fate'[u] = fate[u]
       /\ \A b \in Batches :
            batch[b].state \in {"committed", "abandoned"} => batch'[b] = batch[b]]_vars

-----------------------------------------------------------------------------
(* The terminal close.                                                     *)

\* A close that waits for nobody can finish: every update not settled and
\* every token outstanding belongs to an acknowledged contributor, which
\* finalize_terminal settles, so that only a genesis publication in flight
\* can hold the finalization up.
CloseCanFinish ==
    ctl.state \in Closing /\ (\A l \in Learners : frozen[l].state # "awaiting_ack") =>
        /\ \A u \in Slots :
             update[u].status \in Active \/ fate[u] = "outstanding"
               => frozen[Key(u)].state = "acked" /\ Current(u)
        /\ \A b \in Batches : intent[b].state = "prepared" =>
             \E u \in batch[b].members : frozen[Key(u)].state = "acked"

\* After the freeze a contributor adds at most the cycle that was in flight.
FrozenBound ==
    \A l \in Learners : frozen[l].state # "none" =>
        progress[l] \in {frozen[l].close, frozen[l].close + 1}

\* An acknowledgement is final: no receipt follows it, and no update but the
\* one it declared is still taken in.
AckIsFinal ==
    [][\A l \in Learners : frozen[l].state \in {"acked", "hard_crash"} =>
         /\ progress'[l] = progress[l]
         /\ \A u \in Slots :
              Key(u) = l /\ update[u].status = "none" /\ update'[u].status # "none"
                => Cycle(u) = frozen[l].final]_vars

\* Once the close has begun, versions come out of its merge budget only.
MergeBudget ==
    [][ctl.state \in Closing /\ version' # version /\ version >= 0
         => ctl'.merges = ctl.merges + 1]_vars

\* A finished run is final: nothing is left open, the version on record is
\* the last one, and no later command, of any leader, changes the work.
FinishedForEver ==
    [][ctl.state \in Closed =>
         /\ UNCHANGED <<version, binding, progress, receipt, service>>
         /\ UNCHANGED workVars /\ UNCHANGED closeVars]_vars

-----------------------------------------------------------------------------
(* What contributors see of all this: TrainingLedger.                      *)

Phase ==
    IF ctl.state \in Closing THEN "closing"
    ELSE IF ctl.state \in Closed THEN "closed" ELSE ctl.state

\* The last cycle that _require_terminal_input_allowed lets l report.
LastAllowed(l) ==
    IF Phase \in {"open", "preclosing"} THEN MaxCycle
    ELSE IF frozen[l].state = "awaiting_ack" THEN frozen[l].close + 1
    ELSE progress[l]

AppliedAs(u) == IF fate[u] = "applied" THEN update[u].applied ELSE -1

Ledger ==
    INSTANCE TrainingLedger WITH
        phase <- Phase,
        merges <- ctl.merges,
        reported <- progress,
        bound <- [l \in Learners |-> LastAllowed(l)],
        merged <- [u \in Slots |-> AppliedAs(u)],
        final <- terminal

\* The commands implement TrainingLedger, whatever leaders, attempts and
\* batches come to nothing in between: a version merges work of different
\* contributors that was reported and neither merged nor dropped before, at
\* most terminal_merge_limit of them after the freeze; after the freeze a
\* contributor reports at most the cycle it was in, and none once its end is
\* recorded; and a closed run leaves nothing outstanding and stays as it is.
ImplementsLedger == Ledger!LedgerSpec
=============================================================================
