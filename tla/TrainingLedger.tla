---------------------------- MODULE TrainingLedger ----------------------------
(***************************************************************************)
(* What the authority promises those who train: every cycle that is        *)
(* reported is accounted for once, a version merges work of different      *)
(* contributors that nobody has merged or dropped before, and a run that   *)
(* is closed leaves nothing open.  Attempts, batches, intents, leaders and *)
(* crashes are not seen here.                                              *)
(***************************************************************************)
EXTENDS Integers

CONSTANTS Learners, MaxCycle, TerminalMergeLimit

VARIABLES
    version,    \* the latest version, -1 before genesis
    phase,      \* how far the terminal close is
    merges,     \* versions made since the close began
    reported,   \* the last cycle that each contributor has reported
    bound,      \* the last cycle that it may report
    fate,       \* what has become of each cycle's work
    merged,     \* the version that applied it, or -1
    final       \* the version a closed run ends with, or -1

ledgerVars == <<version, phase, merges, reported, bound, fate, merged, final>>

Reports == Learners \X (1 .. MaxCycle)

Outstanding == {u \in Reports : fate[u] = "outstanding"}

LedgerInit ==
    /\ version = -1
    /\ phase = "open"
    /\ merges = 0
    /\ reported = [l \in Learners |-> 0]
    /\ bound = [l \in Learners |-> MaxCycle]
    /\ fate = [u \in Reports |-> "none"]
    /\ merged = [u \in Reports |-> -1]
    /\ final = -1

\* The first version, of nobody's work.
Begin ==
    /\ version = -1
    /\ version' = 0
    /\ UNCHANGED <<phase, merges, reported, bound, fate, merged, final>>

\* A contributor reports its next cycle, with work to come or without.
Report(l) ==
    /\ phase # "closed"
    /\ reported[l] < MaxCycle /\ reported[l] < bound[l]
    /\ reported' = [reported EXCEPT ![l] = @ + 1]
    /\ \E f \in {"outstanding", "unpublished"} :
         fate' = [fate EXCEPT ![<<l, reported[l] + 1>>] = f]
    /\ UNCHANGED <<version, phase, merges, bound, merged, final>>

\* Work is given up; of a run that closes, contributors may have come to
\* their end with it.
Drop(S, L) ==
    /\ S \subseteq Outstanding
    /\ L # {} => phase = "closing"
    /\ fate' = [u \in Reports |-> IF u \in S THEN "dropped" ELSE fate[u]]
    /\ bound' = [l \in Learners |-> IF l \in L THEN reported[l] ELSE bound[l]]
    /\ UNCHANGED <<version, phase, merges, reported, merged, final>>

\* The next version merges work of different contributors; once the close
\* has begun, it comes out of a budget.
Merge(S) ==
    /\ version >= 0
    /\ S # {} /\ S \subseteq Outstanding
    /\ \A u \in S : \A v \in S : u[1] = v[1] => u = v
    /\ \/ phase = "open" /\ UNCHANGED merges
       \/ phase = "closing" /\ merges < TerminalMergeLimit /\ merges' = merges + 1
    /\ version' = version + 1
    /\ fate' = [u \in Reports |-> IF u \in S THEN "applied" ELSE fate[u]]
    /\ merged' = [u \in Reports |-> IF u \in S THEN version + 1 ELSE merged[u]]
    /\ UNCHANGED <<phase, reported, bound, final>>

\* Newcomers are refused from here on.
CutOff ==
    /\ phase = "open"
    /\ phase' = "preclosing"
    /\ merges' = 0
    /\ UNCHANGED <<version, reported, bound, fate, merged, final>>

\* The contributors of L may report the cycle they are in, the others none.
Close(L) ==
    /\ phase \in {"open", "preclosing"}
    /\ phase' = "closing"
    /\ merges' = 0
    /\ bound' = [l \in Learners |-> reported[l] + IF l \in L THEN 1 ELSE 0]
    /\ UNCHANGED <<version, reported, fate, merged, final>>

\* Nobody may report any more, and what is outstanding is given up.
Finish ==
    /\ phase = "closing"
    /\ version >= 0
    /\ \A l \in Learners : reported[l] = bound[l]
    /\ phase' = "closed"
    /\ final' = version
    /\ fate' = [u \in Reports |-> IF u \in Outstanding THEN "dropped" ELSE fate[u]]
    /\ UNCHANGED <<version, merges, reported, bound, merged>>

LedgerNext ==
    \/ Begin
    \/ \E l \in Learners : Report(l)
    \/ \E S \in SUBSET Reports :
         \/ Merge(S)
         \/ \E L \in SUBSET Learners : Drop(S, L)
    \/ CutOff
    \/ \E L \in SUBSET Learners : Close(L)
    \/ Finish

LedgerSpec == LedgerInit /\ [][LedgerNext]_ledgerVars
=============================================================================
