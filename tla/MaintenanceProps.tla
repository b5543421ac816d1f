--------------------------- MODULE MaintenanceProps ---------------------------
(***************************************************************************)
(* What archiving and deletion must not take away from a run that goes on. *)
(***************************************************************************)
EXTENDS Maintenance, SyncerProps, AuthorityProps

\* Nobody, a deposed candidate with old claims included, unlinks a file that
\* is still read: those of the latest version, which a successor resumes
\* from, of the version that learners follow, and of a publication that is
\* prepared, and the payload of an update that is not settled.
NeededFilesKept ==
    /\ (Committed(version) \cup Committed(View)) \cap unlinked = {}
    /\ \A b \in Batches : intent[b].state = "prepared" => <<"batch", b>> \notin unlinked
    /\ \A u \in Slots : update[u].status \in Active => <<"payload", u>> \notin unlinked

\* No command loses a row it still reads: the latest version, unsettled work,
\* and until the run is over the last receipt of a contributor with its
\* update, which the barrier and the terminal acknowledgement ask for.
NeededRowsKept ==
    /\ \A p \in Committed(version) : <<"publication", p>> \notin pruned
    /\ \A b \in Batches : batch[b].state \in Live => <<"batch", b>> \notin pruned
    /\ \A u \in Slots :
         /\ update[u].status \in Active => <<"update", u>> \notin pruned
         /\ update[u].status \in Active \/ fate[u] = "outstanding"
              => <<"receipt", u>> \notin pruned
         /\ ctl.state \notin Closed /\ Cycle(u) = progress[Key(u)]
              => <<"update", u>> \notin pruned /\ <<"receipt", u>> \notin pruned

\* History is never lost: a deleted row is in a batch file on disk, or in a
\* partition that holds its batch, wherever the pass was interrupted.
HistoryKept ==
    \A r \in pruned : \E k \in AuditIds :
        /\ r \in audit[k].rows
        /\ \/ audit[k].state = "hot" /\ OnDisk(<<"audit", k>>)
           \/ audit[k].state = "folded" /\ \E P \in partition : k \in P

\* A proposal file that is scanned again after its rows are gone is answered
\* from the record of its first command, not run a second time.
RescanAnswered ==
    \A u \in Slots : update[u].status # "none" => Rescanned(u)

\* _audit_history_records returns "the exact dependency-closed rows safe to
\* remove": what a pass registers can be deleted.
ArchiveIsClosed ==
    \A e \in Epochs :
        mpc[e] = "register" /\ Commanding(e) => DependencyClosed(audit[hand[e]].rows)
=============================================================================
