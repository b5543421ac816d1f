--------------------------- MODULE MembershipProps ---------------------------
(***************************************************************************)
(* What the membership commands keep true whoever issues them, in whatever *)
(* order.                                                                  *)
(***************************************************************************)
EXTENDS Membership

\* The three tables that say who contributes agree: a stream and a placement
\* are owned by an instance that is present there at their current epochs,
\* and an instance that is present owns both.  Every fence check joins the
\* three, so that a disagreement would silence a contributor for ever.
OwnersAgree ==
    /\ \A s \in Streams : stream[s].owner # None =>
         FenceCurrent(stream[s].owner) /\ instance[stream[s].owner].stream = s
    /\ \A p \in Placements : placement[p].owner # None =>
         FenceCurrent(placement[p].owner) /\ instance[placement[p].owner].place = p
    /\ \A i \in Instances : instance[i].status \in Present => FenceCurrent(i)

\* A stream that is taken over gets a new epoch, larger than all before: what
\* an earlier owner wrote is never taken for the new owner's work.
EpochsGrow ==
    \A i, j \in Instances :
        i # j /\ instance[i].stream = instance[j].stream /\ instance[i].stream # None
          => /\ instance[i].epoch # instance[j].epoch
             /\ instance[i].status \in Present => instance[i].epoch > instance[j].epoch

\* A launch request admits one instance, however often its job is started and
\* registers, and its row names that instance.
OneAdmission ==
    \A i \in Instances : instance[i].request # None =>
        /\ launch[instance[i].request].state = "admitted"
        /\ launch[instance[i].request].admitted = i

\* Capacity that may still arrive is reserved, in uncertainty and manual
\* review too, for one request per stream and within the budget; a request
\* that is over holds nothing back.
ReservationHeld ==
    /\ \A r \in Requests : launch[r].reserved <=> Planned(r) /\ launch[r].state \notin Released
    /\ \A q, r \in Requests : launch[q].reserved /\ launch[r].reserved
         /\ launch[q].stream = launch[r].stream => q = r
    /\ Cardinality({r \in Requests : launch[r].reserved}) <= MaxPending

\* One uncertainty has one deadline, fixed when it was first observed: further
\* observations, by whichever leader, do not postpone the end of it.
DeadlineFixed ==
    [][\A r \in Requests :
         launch[r].state \in Unsure /\ launch'[r].state \in Unsure
           => launch'[r].deadline = launch[r].deadline]_vars

\* Once the terminal input is closed nobody is admitted any more.
ClosedToAdmission ==
    [][ctl.state \in Closed =>
         \A i \in Instances : instance[i].status = "none" =>
           instance'[i].status = "none"]_vars

-----------------------------------------------------------------------------
(* What remains when placements, jobs and the scheduler are left out:      *)
(* FleetLedger.                                                            *)

JoinedAs(i) ==
    IF instance[i].status = "none" THEN None
    ELSE [stream |-> instance[i].stream, epoch |-> instance[i].epoch,
          request |-> instance[i].request]

Owned      == [s \in Streams |-> stream[s].owner]
Granted    == [s \in Streams |-> IF UsedBefore(s) THEN stream[s].epoch ELSE 0]
Joined     == [i \in Instances |-> JoinedAs(i)]
PromisedTo == [r \in Requests |-> IF Planned(r) THEN launch[r].stream ELSE None]
Open       == {r \in Requests : launch[r].reserved}

Fleet ==
    INSTANCE FleetLedger WITH
        Budget <- MaxPending, state <- ctl.state, owner <- Owned, epoch <- Granted,
        joined <- Joined, promised <- PromisedTo, open <- Open

\* The commands implement FleetLedger, whatever leaders, jobs and operators
\* make of launches: owners of a stream follow one another under consecutive
\* epochs; an instance joins once, for a request that is open and is closed
\* by this, or at the start of the run; one instance at most gives way to
\* it; and promises stay within the budget, one for a stream at a time.
ImplementsFleet == Fleet!FleetSpec
=============================================================================
