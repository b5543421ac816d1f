----------------------------- MODULE SyncerProps -----------------------------
(***************************************************************************)
(* What candidates that crash, pause and take over from one another keep   *)
(* true of the database, the files and their memory.                       *)
(***************************************************************************)
EXTENDS Syncer

\* The publication that committed version v.
Committed(v) ==
    IF v = 0 THEN {p \in {"genesis"} \X Epochs : genesis[p[2]] = "committed"}
    ELSE {p \in {"batch"} \X Batches :
            batch[p[2]].state = "committed" /\ batch[p[2]].target = v}

\* What readers are pointed to is there: every epoch's head names a version
\* that is committed and whose files are in place, whoever wrote it last and
\* wherever its writer was interrupted.
HeadIsReadable ==
    \A e \in Epochs : head[e] >= 0 =>
        head[e] <= version /\ Committed(head[e]) \cap written # {}

\* What a reader sees: the head of the highest epoch that has published one.
View ==
    LET epochs == {e \in Epochs : head[e] >= 0}
    IN IF epochs = {} THEN -1
       ELSE head[CHOOSE e \in epochs : \A f \in epochs : f <= e]

\* Following the highest epoch never takes a reader back to an older version:
\* not when a successor publishes its first head, and not when a deposed
\* candidate wakes up and still publishes what it holds.  (A deposed
\* candidate may well be ahead of its successor's head, because it reads the
\* latest version without a fence; nobody follows it then.)
ViewNeverRetreats == [][View' >= View]_allVars

\* No merge is lost: every committed version was computed from the state of
\* the version before it, although the state lives in the memory of
\* candidates that come and go and only the version number is compared.
BuiltOnPredecessor ==
    \A b \in Batches : batch[b].state = "committed" => base[b] = batch[b].target - 1

\* The plan's rule for a takeover: a batch of a predecessor, selected or
\* prepared, is settled by the time the successor goes on.
PredecessorsSettled ==
    \A b \in Batches :
        batch[b].state \in Live /\ leader > 0 /\ pc[leader] \in Running \ {"reconcile"}
          => batch[b].epoch = leader

\* A close that is wanted is carried through: the terminal record reaches the
\* contributors unless the last candidate is gone, wherever its predecessors
\* were interrupted, and whether or not the contributors answer.
CloseCompletes ==
    wanted ~> stopped # {} \/ (leader = MaxEpoch /\ pc[MaxEpoch] = "ended")
=============================================================================
