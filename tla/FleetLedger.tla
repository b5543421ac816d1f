----------------------------- MODULE FleetLedger -----------------------------
(***************************************************************************)
(* What dynamic membership promises: a stream has one owner at a time, and *)
(* those that own it one after the other are told apart by its epochs; an  *)
(* instance joins once; and it joins at the start of the run or for        *)
(* capacity that was promised, once, to its stream and within a budget.    *)
(* Placements, jobs, the scheduler, the operator and the leaders are not   *)
(* seen here.                                                              *)
(***************************************************************************)
EXTENDS Integers, FiniteSets

CONSTANTS Streams, Instances, Requests, None, Budget

VARIABLES
    state,      \* how far the terminal close is, as far as newcomers see it
    owner,      \* who works on each stream
    epoch,      \* how many have joined each stream
    joined,     \* stream, epoch and request of each instance that has joined
    promised,   \* the stream that each request was made for
    open        \* the requests that may still bring somebody

fleetVars == <<state, owner, epoch, joined, promised, open>>

FleetInit ==
    /\ state = "open"
    /\ owner = [s \in Streams |-> None]
    /\ epoch = [s \in Streams |-> 0]
    /\ joined = [i \in Instances |-> None]
    /\ promised = [r \in Requests |-> None]
    /\ open = {}

\* Capacity is promised to a stream that has no owner or loses it with this.
Promise(r, s) ==
    /\ state = "open"
    /\ promised[r] = None
    /\ Cardinality(open) < Budget
    /\ \A q \in open : promised[q] # s
    /\ promised' = [promised EXCEPT ![r] = s]
    /\ open' = open \cup {r}
    /\ owner' = [owner EXCEPT ![s] = None]
    /\ UNCHANGED <<state, epoch, joined>>

\* Nobody will come for r.
GiveUp(r) ==
    /\ r \in open
    /\ open' = open \ {r}
    /\ UNCHANGED <<state, owner, epoch, joined, promised>>

\* i, which has not been there before, joins s for r or for no request, under
\* the stream's next epoch.  At most one other, old, gives way to it, from
\* this stream or from another.
Join(i, s, r, old) ==
    /\ state \in {"open", "preclosing"}
    /\ joined[i] = None
    /\ r # None => r \in open /\ promised[r] = s
    /\ owner[s] \in {None, old}
    /\ owner' = [t \in Streams |->
                   IF t = s THEN i ELSE IF owner[t] = old THEN None ELSE owner[t]]
    /\ epoch' = [epoch EXCEPT ![s] = @ + 1]
    /\ joined' = [joined EXCEPT ![i] =
                    [stream |-> s, epoch |-> epoch[s] + 1, request |-> r]]
    /\ open' = open \ {r}
    /\ UNCHANGED <<state, promised>>

\* The owner of s ends, or is ended.
Leave(s) ==
    /\ owner[s] # None
    /\ owner' = [owner EXCEPT ![s] = None]
    /\ UNCHANGED <<state, epoch, joined, promised, open>>

\* Nothing more is promised from the first of these on, and nobody joins
\* from the second on.
Preclose ==
    /\ state = "open"
    /\ state' = "preclosing"
    /\ UNCHANGED <<owner, epoch, joined, promised, open>>

Close ==
    /\ state \in {"open", "preclosing"}
    /\ state' = "closing"
    /\ UNCHANGED <<owner, epoch, joined, promised, open>>

\* The run ends with nobody left in it.
Finish ==
    /\ state = "closing"
    /\ state' = "finalized"
    /\ owner' = [s \in Streams |-> None]
    /\ UNCHANGED <<epoch, joined, promised, open>>

FleetNext ==
    \/ \E r \in Requests : GiveUp(r) \/ \E s \in Streams : Promise(r, s)
    \/ \E s \in Streams :
         \/ Leave(s)
         \/ \E i \in Instances, r \in Requests \cup {None}, old \in Instances \cup {None} :
              Join(i, s, r, old)
    \/ Preclose
    \/ Close
    \/ Finish

FleetSpec == FleetInit /\ [][FleetNext]_fleetVars
=============================================================================
