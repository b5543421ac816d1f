------------------------------ MODULE Membership ------------------------------
(***************************************************************************)
(* The tables that storage/authority.py adds for a run with dynamic        *)
(* membership (schema_dynamic.sql) and the LeaderSession commands on them: *)
(* streams and the instances that own them, the placements the instances   *)
(* run on, and the launch requests that reserve a stream while a batch job *)
(* is being started for it.  As in Authority a command is one transaction  *)
(* of the leading epoch, issued in any order; the caller that issues them  *)
(* is module Capacity.                                                     *)
(*                                                                         *)
(* Data abstracted: an instance's admission generation is its placement    *)
(* epoch (both count the admissions of the placement), its token and host  *)
(* are the instance; statuses stopped, revoked and expired are "retired";  *)
(* what a retirement does to the instance's work is Authority!Terminalize. *)
(***************************************************************************)
EXTENDS Naturals, FiniteSets

CONSTANTS
    Streams,       \* stream ids
    Instances, Placements, Jobs,
    None,          \* SQL NULL
    MaxTotal,      \* max_total_launch_requests
    MaxPending,    \* max_pending_launch_requests
    Uncertainty,   \* scheduler_uncertainty_timeout_seconds
    Ttl,           \* launch_request_ttl_seconds
    \* Bounds of the model: the last leader epoch and the last clock tick.
    MaxEpoch, Horizon

ASSUME MembershipAssumption ==
    /\ Streams \subseteq Nat /\ IsFiniteSet(Streams)
    /\ None \notin Streams \cup Instances \cup Placements \cup Jobs \cup Nat
    /\ MaxTotal \in Nat /\ MaxPending \in Nat
    /\ Uncertainty \in Nat \ {0} /\ Ttl \in Nat \ {0}
    /\ MaxEpoch \in Nat /\ Horizon \in Nat

Requests == 1 .. MaxTotal   \* planned requests, in the order they are planned

VARIABLES
    leader,     \* syncer_leader.epoch: 0 before the first leader
    now,        \* the wall clock of the leaders
    ctl,        \* controller_state: state and, for the preclose, cutoff; and
                \* the terminal_contributor_fences of the close
    stream,     \* streams: current epoch and owner
    placement,  \* placements: current epoch and owner
    instance,   \* learner_instances
    launch,     \* launch_requests other than the bootstrap rows
    slots       \* bootstrap slots that have their launch_requests row

vars == <<leader, now, ctl, stream, placement, instance, launch, slots>>

ownerVars == <<stream, placement, instance>>

Unsure == {"submission_unknown", "terminal_uncertain"}
Admissible == {"submitting", "submitted", "started"} \cup Unsure
Released == {"admitted", "failed", "expired"}
LaunchStates == {"planned", "manual_review"} \cup Admissible \cup Released
\* Controller states, "closing" standing for draining too; and what an instance
\* is in the close, if it was frozen by it.
ControllerStates == {"open", "preclosing", "closing", "finalized"}
Closed == {"closing", "finalized"}
FrozenStates == {"none", "awaiting_ack", "acked", "hard_crash"}
Actions == {"confirm_job_id", "mark_failed", "mark_expired",
            "record_external_cancel_evidence"}

\* An admission request file.
Registrations == [inst : Instances, place : Placements, stream : Streams,
                  request : Requests \cup {None}, replaces : Instances \cup {None},
                  job : Jobs, created : 0 .. Horizon]

MembershipTypeOK ==
    /\ leader \in 0 .. MaxEpoch
    /\ now \in 0 .. Horizon
    /\ ctl \in [state : ControllerStates, cutoff : Nat,
                frozen : [Instances -> FrozenStates]]
    /\ stream \in [Streams -> [epoch : Nat \ {0}, owner : Instances \cup {None}]]
    /\ placement \in [Placements -> [epoch : Nat, owner : Instances \cup {None}]]
    /\ instance \in [Instances ->
         [status : {"none", "admitted", "draining", "retired"},
          stream : Streams \cup {None}, epoch : Nat,
          place : Placements \cup {None}, generation : Nat,
          request : Requests \cup {None}, job : Jobs \cup {None}]]
    /\ launch \in [Requests ->
         [state : LaunchStates \cup {"none"}, stream : Streams \cup {None},
          replaces : Instances \cup {None}, expires : Nat,
          job : Jobs \cup {None}, deadline : Nat \cup {None}, noted : BOOLEAN,
          reserved : BOOLEAN, admitted : Instances \cup {None}]]
    /\ \A r \in Requests :   \* a deadline belongs to an uncertainty
         /\ launch[r].state \in Unsure => launch[r].deadline # None
         /\ launch[r].deadline # None =>
              launch[r].state \in Unsure \cup {"manual_review", "failed", "expired"}
    /\ slots \subseteq Streams

MembershipInit ==
    /\ leader = 0
    /\ now = 0
    /\ ctl = [state |-> "open", cutoff |-> 0,
              frozen |-> [i \in Instances |-> "none"]]
    /\ stream = [s \in Streams |-> [epoch |-> 1, owner |-> None]]
    /\ placement = [p \in Placements |-> [epoch |-> 0, owner |-> None]]
    /\ instance = [i \in Instances |->
         [status |-> "none", stream |-> None, epoch |-> 0, place |-> None,
          generation |-> 0, request |-> None, job |-> None]]
    /\ launch = [r \in Requests |->
         [state |-> "none", stream |-> None, replaces |-> None, expires |-> 0,
          job |-> None, deadline |-> None, noted |-> FALSE,
          reserved |-> FALSE, admitted |-> None]]
    /\ slots = {}

Leads == leader > 0

-----------------------------------------------------------------------------
(* The leadership, the clock and the controller.                           *)

Present == {"admitted", "draining"}

AcquireLeader ==
    /\ leader < MaxEpoch
    /\ leader' = leader + 1
    /\ UNCHANGED <<now, ctl, ownerVars, launch, slots>>

Tick ==
    /\ now < Horizon
    /\ now' = now + 1
    /\ UNCHANGED <<leader, ctl, ownerVars, launch, slots>>

BeginPreclose ==
    /\ Leads
    /\ ctl.state = "open"
    /\ ctl' = [ctl EXCEPT !.state = "preclosing", !.cutoff = now]
    /\ UNCHANGED <<leader, now, ownerVars, launch, slots>>

\* begin_terminal_close freezes the fences of those that are present.
BeginClose ==
    /\ Leads
    /\ ctl.state \in {"open", "preclosing"}
    /\ ctl' = [ctl EXCEPT !.state = "closing", !.cutoff = 0,
         !.frozen = [i \in Instances |->
           IF instance[i].status \in Present THEN "awaiting_ack" ELSE "none"]]
    /\ UNCHANGED <<leader, now, ownerVars, launch, slots>>

-----------------------------------------------------------------------------
(* Instances.                                                              *)

\* _require_current_fence for the fence of instance i, draining allowed.
FenceCurrent(i) ==
    /\ instance[i].status \in Present
    /\ stream[instance[i].stream].owner = i
    /\ stream[instance[i].stream].epoch = instance[i].epoch
    /\ placement[instance[i].place].owner = i
    /\ placement[instance[i].place].epoch = instance[i].generation

\* Variant: the placement keeps its owner.
RetireFromStream(i, status) ==
    /\ FenceCurrent(i)
    /\ instance' = [instance EXCEPT ![i].status = status]
    /\ stream' = IF status = "draining" THEN stream
                 ELSE [stream EXCEPT ![instance[i].stream].owner = None]
    /\ UNCHANGED placement

\* _retire_dynamic_in_transaction: a draining instance keeps what it owns.
Retire(i, status) ==
    /\ FenceCurrent(i)
    /\ instance' = [instance EXCEPT ![i].status = status]
    /\ stream' = IF status = "draining" THEN stream
                 ELSE [stream EXCEPT ![instance[i].stream].owner = None]
    /\ placement' = IF status = "draining" THEN placement
                    ELSE [placement EXCEPT ![instance[i].place].owner = None]

RetireIncarnation(i, status) ==
    /\ Leads
    /\ Retire(i, status)
    /\ UNCHANGED <<leader, now, ctl, launch, slots>>

\* acknowledge_terminal_contributor, for a fence that awaits its answer.
Answered(i, state) ==
    /\ Leads
    /\ ctl.state = "closing" /\ ctl.frozen[i] = "awaiting_ack"
    /\ ctl' = [ctl EXCEPT !.frozen[i] = state]
    /\ UNCHANGED <<leader, now, launch, slots>>

\* Variant: the contributor is retired for good by its answer.
AcknowledgeForGood(i, final) ==
    /\ Answered(i, "acked")
    /\ IF final THEN Retire(i, "retired") ELSE UNCHANGED ownerVars

\* A contributor has answered; it is retired now if it names a final update,
\* which it keeps its fence for, and by finalize_terminal if not.
AcknowledgeClose(i, final) ==
    /\ Answered(i, "acked")
    /\ IF final THEN Retire(i, "draining") ELSE UNCHANGED ownerVars

HardCrash(i) ==
    /\ Answered(i, "hard_crash")
    /\ Retire(i, "retired")

Acked == {i \in Instances : ctl.frozen[i] = "acked"}

\* Retire for everybody in S, in one transaction.
RetireAll(S) ==
    /\ \A i \in S : FenceCurrent(i)
    /\ instance' = [i \in Instances |->
         IF i \in S THEN [instance[i] EXCEPT !.status = "retired"] ELSE instance[i]]
    /\ stream' = [s \in Streams |->
         IF \E i \in S : instance[i].stream = s
           THEN [stream[s] EXCEPT !.owner = None] ELSE stream[s]]
    /\ placement' = [p \in Placements |->
         IF \E i \in S : instance[i].place = p
           THEN [placement[p] EXCEPT !.owner = None] ELSE placement[p]]

\* finalize_terminal; that the work of the run is settled by then is part of
\* Authority.
FinalizeClose ==
    /\ Leads
    /\ ctl.state = "closing"
    /\ \A i \in Instances : ctl.frozen[i] # "awaiting_ack"
    /\ RetireAll(Acked)
    /\ ctl' = [ctl EXCEPT !.state = "finalized"]
    /\ UNCHANGED <<leader, now, launch, slots>>

Owners(g) == {placement[g.place].owner, stream[g.stream].owner} \ {None}

OnTime(g) ==
    \/ ctl.state = "open"
    \/ ctl.state = "preclosing" /\ g.created <= ctl.cutoff

\* A launch row that names this stream and predecessor, or an unused slot.
Authorized(g) ==
    IF g.request = None THEN g.stream \notin slots
    ELSE /\ launch[g.request].stream = g.stream
         /\ launch[g.request].replaces = g.replaces
         /\ launch[g.request].state \in Admissible

JobUnknown(g) == g.request # None /\ launch[g.request].job = None
WrongJob(g)   == g.request # None /\ launch[g.request].job # g.job

\* How admit_dynamic_incarnation ends for an instance without a row: its
\* checks in the order it makes them.  A refusal is MembershipFenceError, a
\* deferral RuntimeError, "fatal" the AuthoritySchemaError of line 2802.
Verdict(g) ==
    IF ~OnTime(g) \/ ~Authorized(g) THEN "refuse"
    ELSE IF JobUnknown(g) THEN "defer"
    ELSE IF WrongJob(g) THEN "refuse"
    ELSE IF Cardinality(Owners(g)) > 1 THEN "fatal"
    ELSE IF Owners(g) \subseteq {g.replaces} THEN "admit"
    ELSE "refuse"

UsedBefore(s) == \E i \in Instances : instance[i].stream = s

\* Variant: a stream keeps its epoch when its owner changes.
NextEpochSame(s) == stream[s].epoch

NextEpoch(s) == stream[s].epoch + (IF UsedBefore(s) THEN 1 ELSE 0)

\* Variant: the launch row is left as it is.
SettleRequestNot(g) == UNCHANGED launch

SettleRequest(g) ==
    launch' = IF g.request = None THEN launch
              ELSE [launch EXCEPT ![g.request] =
                      [@ EXCEPT !.state = "admitted", !.admitted = g.inst,
                                !.deadline = None, !.reserved = FALSE]]

AdmitIncarnation(g) ==
    /\ Leads
    /\ instance[g.inst].status = "none"
    /\ Verdict(g) = "admit"
    /\ placement' = [p \in Placements |->
         IF p = g.place
           THEN [epoch |-> placement[p].epoch + 1, owner |-> g.inst]
         ELSE IF placement[p].owner \in Owners(g)
           THEN [placement[p] EXCEPT !.owner = None] ELSE placement[p]]
    /\ stream' = [s \in Streams |->
         IF s = g.stream THEN [epoch |-> NextEpoch(s), owner |-> g.inst]
         ELSE IF stream[s].owner \in Owners(g)
           THEN [stream[s] EXCEPT !.owner = None] ELSE stream[s]]
    /\ instance' = [i \in Instances |->
         IF i = g.inst
           THEN [status |-> "admitted", stream |-> g.stream,
                 epoch |-> NextEpoch(g.stream), place |-> g.place,
                 generation |-> placement[g.place].epoch + 1,
                 request |-> g.request, job |-> g.job]
         ELSE IF i \in Owners(g)
           THEN [instance[i] EXCEPT !.status = "retired"] ELSE instance[i]]
    /\ SettleRequest(g)
    /\ slots' = IF g.request = None THEN slots \cup {g.stream} ELSE slots
    /\ UNCHANGED <<leader, now, ctl>>

-----------------------------------------------------------------------------
(* Launch requests.                                                        *)

Planned(r) == launch[r].state # "none"

Reserved(s) == \E r \in Requests : launch[r].reserved /\ launch[r].stream = s

\* Variant: a launch counts until it is submitted.
PlannableSubmitted(s) ==
    \A r \in Requests : launch[r].reserved => launch[r].state = "submitted"

\* The budget of pending requests, and one reservation for a stream.
Plannable(s) ==
    /\ Cardinality({r \in Requests : launch[r].reserved}) < MaxPending
    /\ ~Reserved(s)

\* A scale-out (old = None) wants a stream without an owner; a replacement
\* names the owner and its scheduler job, and retires it.
PlanLaunch(s, old, job) ==
    /\ Leads
    /\ ctl.state = "open"
    /\ Plannable(s)
    /\ \E r \in Requests :
         /\ ~Planned(r) /\ \A q \in Requests : q < r => Planned(q)
         /\ launch' = [launch EXCEPT ![r] =
              [@ EXCEPT !.state = "planned", !.stream = s, !.replaces = old,
                        !.expires = now + Ttl, !.reserved = TRUE]]
    /\ IF old = None
         THEN stream[s].owner = None /\ UNCHANGED ownerVars
         ELSE /\ stream[s].owner = old
              /\ instance[old].status = "admitted"
              /\ job # None /\ instance[old].job = job
              /\ Retire(old, "retired")
    /\ UNCHANGED <<leader, now, ctl, slots>>

Moves == ({"planned"} \X {"submitting", "expired"})
    \cup ({"submitting"} \X {"submission_unknown", "submitted", "failed"})
    \cup ({"submission_unknown"} \X {"submitted", "terminal_uncertain", "failed"})
    \cup ({"submitted"} \X {"started", "terminal_uncertain", "failed"})
    \cup ({"started"} \X {"terminal_uncertain", "failed"})
    \cup ({"terminal_uncertain"} \X
            {"submitted", "started", "failed", "expired", "manual_review"})

DeadlinePassed(r) == launch[r].deadline # None /\ now >= launch[r].deadline

\* uncertainty_deadline after a transition: fixed by the first uncertain
\* observation of an episode, cleared by positive evidence.
Deadline(r, state) ==
    IF state \in {"submitted", "started"} THEN None
    ELSE IF state \in Unsure /\ launch[r].deadline = None THEN now + Uncertainty
    ELSE launch[r].deadline

\* Uncertainty ends badly on terminal evidence or after its deadline only.
MayEnd(r, state, terminal) ==
    launch[r].state \in Unsure /\ state \in {"failed", "expired", "manual_review"}
      => terminal \/ DeadlinePassed(r)

TransitionLaunch(r, from, state, job, terminal) ==
    /\ Leads
    /\ launch[r].state = from
    /\ <<from, state>> \in Moves
    /\ terminal => state = "failed"
    /\ MayEnd(r, state, terminal)
    /\ state = "expired" => now >= launch[r].expires
    /\ launch' = [launch EXCEPT ![r] =
         [@ EXCEPT !.state = state,
                   !.job = IF job = None THEN launch[r].job ELSE job,
                   !.deadline = Deadline(r, state),
                   !.reserved = launch[r].reserved /\ state \notin Released]]
    /\ UNCHANGED <<leader, now, ctl, ownerVars, slots>>

-----------------------------------------------------------------------------
(* The operator's resolution of an uncertain launch.                       *)

\* apply_scheduler_operator_request, once its request is known to be neither
\* a replay nor stale.
ResolveLaunch(r, action, job) ==
    /\ Leads
    /\ launch[r].state \in Unsure \cup {"manual_review"}
    /\ job # None <=> action = "confirm_job_id"
    /\ launch' = [launch EXCEPT ![r] =
         CASE action = "confirm_job_id" ->
                [@ EXCEPT !.state = "submitted", !.job = job, !.deadline = None]
           [] action = "mark_failed" ->
                [@ EXCEPT !.state = "failed", !.noted = TRUE, !.reserved = FALSE]
           [] action = "mark_expired" ->
                [@ EXCEPT !.state = "expired", !.noted = TRUE, !.reserved = FALSE]
           [] action = "record_external_cancel_evidence" ->
                [@ EXCEPT !.state = "manual_review", !.noted = TRUE]]
    /\ UNCHANGED <<leader, now, ctl, ownerVars, slots>>

-----------------------------------------------------------------------------
MembershipNext ==
    \/ AcquireLeader \/ Tick \/ BeginPreclose \/ BeginClose
    \/ \E i \in Instances, status \in {"draining", "retired"} :
         RetireIncarnation(i, status)
    \/ \E i \in Instances :
         HardCrash(i) \/ \E final \in BOOLEAN : AcknowledgeClose(i, final)
    \/ FinalizeClose
    \/ \E g \in Registrations : AdmitIncarnation(g)
    \/ \E s \in Streams, old \in Instances \cup {None}, job \in Jobs \cup {None} :
         PlanLaunch(s, old, job)
    \/ \E r \in Requests, job \in Jobs \cup {None}, terminal \in BOOLEAN :
         \E move \in Moves : TransitionLaunch(r, move[1], move[2], job, terminal)
    \/ \E r \in Requests, action \in Actions, job \in Jobs \cup {None} :
         ResolveLaunch(r, action, job)

MembershipSpec == MembershipInit /\ [][MembershipNext]_vars
=============================================================================
