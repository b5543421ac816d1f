--------------------------- MODULE RunPublication ---------------------------
(***************************************************************************)
(* What the initialization of a run promises: readers see nothing, or the  *)
(* whole of one initializer's work, for ever; and whoever is told that the *)
(* run is there finds the run it asked for.                                *)
(***************************************************************************)
CONSTANTS Initializers, Configs, Entries

VARIABLES
    config,    \* the configuration each initializer was started with
    run,       \* the files that readers see, each with whose work it is
    outcome    \* what each initializer has been told

publicationVars == <<config, run, outcome>>

PublicationInit ==
    /\ config \in [Initializers -> Configs]
    /\ run = {}
    /\ outcome = [p \in Initializers |-> "none"]

\* The run appears, all of it the work of s, who may be gone by now.
Publish(s) ==
    /\ run = {}
    /\ run' = Entries \X {s}
    /\ UNCHANGED <<config, outcome>>

\* p is told that its run is there.
Succeed(p) ==
    /\ outcome[p] = "none"
    /\ run # {}
    /\ \A file \in run : config[file[2]] = config[p]
    /\ outcome' = [outcome EXCEPT ![p] = "success"]
    /\ UNCHANGED <<config, run>>

\* p is refused, or dies.
Fail(p) ==
    /\ outcome[p] = "none"
    /\ outcome' = [outcome EXCEPT ![p] = "failed"]
    /\ UNCHANGED <<config, run>>

PublicationNext ==
    \E p \in Initializers : Publish(p) \/ Succeed(p) \/ Fail(p)

PublicationSpec == PublicationInit /\ [][PublicationNext]_publicationVars
=============================================================================
