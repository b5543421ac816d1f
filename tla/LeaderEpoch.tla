----------------------------- MODULE LeaderEpoch -----------------------------
(***************************************************************************)
(* What the leader lease promises to everything built on it: leadership is *)
(* a sequence of epochs, each granted to one candidate and never granted   *)
(* again, and the authority commits a command only for the epoch that      *)
(* leads at that instant.  So the committed commands are ordered by epoch: *)
(* once a successor leads, nothing a predecessor does can reach the        *)
(* database.  LeaderLease shows how clocks, rows and transactions keep it. *)
(***************************************************************************)
EXTENDS Naturals

CONSTANTS
    Candidates,
    NoOne       \* nobody; not a candidate

VARIABLES
    epoch,      \* the latest epoch granted; 0 before the first
    holder,     \* the candidate that leads, or NoOne
    committed   \* the epoch whose command was committed last; 0 if none

evars == <<epoch, holder, committed>>

TypeOK ==
    /\ epoch \in Nat
    /\ holder \in Candidates \cup {NoOne}
    /\ committed \in Nat

Init == epoch = 0 /\ holder = NoOne /\ committed = 0

\* A new epoch starts; whoever led before is deposed by it.
Grant(c) ==
    /\ c # holder
    /\ epoch' = epoch + 1
    /\ holder' = c
    /\ UNCHANGED committed

\* The leader gives the lease back, or its error boundary does.
Resign ==
    /\ holder # NoOne
    /\ holder' = NoOne
    /\ UNCHANGED <<epoch, committed>>

\* A command of the leading epoch is committed.
Commit ==
    /\ holder # NoOne
    /\ committed' = epoch
    /\ UNCHANGED <<epoch, holder>>

Next == Resign \/ Commit \/ \E c \in Candidates : Grant(c)

Spec == Init /\ [][Next]_evars
=============================================================================
