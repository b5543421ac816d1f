---------------------------- MODULE RunInitProps ----------------------------
(***************************************************************************)
(* What initializers that race, die and start again make of a run.         *)
(***************************************************************************)
EXTENDS RunInit

\* What has become of an initializer, for RunPublication.
Outcome(step) ==
    IF step = "success" THEN "success"
    ELSE IF step \in Ended THEN "failed" ELSE "none"

\* The files that whoever waits for the marker sees.
Visible == IF Completed THEN {<<e, final[e]>> : e \in Entries} ELSE {}

Publication ==
    INSTANCE RunPublication WITH
        run <- Visible,
        outcome <- [p \in Initializers |-> Outcome(pc[p])]

\* Readers that wait for the marker see nothing, or the whole work of one
\* initializer, for ever, whichever processes took part in linking it; and an
\* initializer that returns without an exception finds the run of its own
\* configuration there.
ImplementsPublication == Publication!PublicationSpec

\* A final root can always be completed or used: it has a reservation, no
\* file in it is of another staging root than the reserved one, and until
\* the marker is there the staging root is untouched, so that an initializer
\* of its configuration can resume it.  The exception is a claimant that
\* took its own reservation back while others were publishing under it.
RootIsOwned ==
    rootExists =>
        \/ \E p \in Initializers : pc[p] = "tookBack"
        \/ /\ reservation # None
           /\ \A e \in Entries : final[e] \in {None, reservation}
           /\ ~Completed => staged[reservation] = Entries
=============================================================================
