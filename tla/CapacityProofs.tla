---------------------------- MODULE CapacityProofs ----------------------------
(***************************************************************************)
(* What the membership commands keep true for any number of streams,       *)
(* placements, instances and launch requests, and for any budget; and what *)
(* the leaders' programs make of these commands, against any scheduler and *)
(* any operator, for any number of jobs and candidates.                    *)
(***************************************************************************)
EXTENDS CapacityProps, FiniteSetTheorems, TLAPS

-----------------------------------------------------------------------------
(* The membership commands.                                                *)
(* Type correctness, in two parts: who owns what, and the launch rows.     *)

InstanceRows == [status : {"none", "admitted", "draining", "retired"},
                 stream : Streams \cup {None}, epoch : Nat,
                 place : Placements \cup {None}, generation : Nat,
                 request : Requests \cup {None}, job : Jobs \cup {None}]

LaunchRows == [state : LaunchStates \cup {"none"}, stream : Streams \cup {None},
               replaces : Instances \cup {None}, expires : Nat,
               job : Jobs \cup {None}, deadline : Nat \cup {None}, noted : BOOLEAN,
               reserved : BOOLEAN, admitted : Instances \cup {None}]

OwnerType ==
    /\ stream \in [Streams -> [epoch : Nat \ {0}, owner : Instances \cup {None}]]
    /\ placement \in [Placements -> [epoch : Nat, owner : Instances \cup {None}]]
    /\ instance \in [Instances -> InstanceRows]

DeadlineType ==
    \A r \in Requests :
        /\ launch[r].state \in Unsure => launch[r].deadline # None
        /\ launch[r].deadline # None =>
             launch[r].state \in Unsure \cup {"manual_review", "failed", "expired"}

LaunchType == launch \in [Requests -> LaunchRows] /\ DeadlineType

RestType ==
    /\ leader \in 0 .. MaxEpoch
    /\ now \in 0 .. Horizon
    /\ ctl \in [state : ControllerStates, cutoff : Nat,
                frozen : [Instances -> FrozenStates]]
    /\ slots \subseteq Streams

\* The type invariant is the conjunction of its parts.
LEMMA TypeParts == MembershipTypeOK <=> OwnerType /\ LaunchType /\ RestType
  BY DEF MembershipTypeOK, OwnerType, LaunchType, DeadlineType, RestType,
         InstanceRows, LaunchRows

\* The initial state is well typed.
LEMMA InitType == MembershipInit => MembershipTypeOK
  BY MembershipAssumption
     DEF MembershipInit, MembershipTypeOK, LaunchStates, Unsure, ControllerStates, FrozenStates

-----------------------------------------------------------------------------
(* What a command does to the launch rows: one row moves, or none.         *)

\* A row after a plan, a transition, an admission or an operator's decision.
Planning(r) ==
    /\ ~Planned(r) /\ ctl.state = "open"
    /\ \E s \in Streams, old \in Instances \cup {None} :
         /\ Plannable(s)
         /\ launch' = [launch EXCEPT ![r] =
              [@ EXCEPT !.state = "planned", !.stream = s, !.replaces = old,
                        !.expires = now + Ttl, !.reserved = TRUE]]

Transition(r) ==
    \E state \in LaunchStates, kept \in Jobs \cup {None}, held \in BOOLEAN :
        /\ <<launch[r].state, state>> \in Moves
        /\ held <=> launch[r].reserved /\ state \notin Released
        /\ launch' = [launch EXCEPT ![r] =
             [@ EXCEPT !.state = state, !.job = kept,
                       !.deadline = Deadline(r, state), !.reserved = held]]

Resolution(r) ==
    \E action \in Actions, job \in Jobs \cup {None} : ResolveLaunch(r, action, job)

Admitted(r) ==
    \E i \in Instances :
        /\ launch[r].state \in Admissible
        /\ launch' = [launch EXCEPT ![r] =
             [@ EXCEPT !.state = "admitted", !.admitted = i,
                       !.deadline = None, !.reserved = FALSE]]

LaunchStep ==
    \/ UNCHANGED launch
    \/ \E r \in Requests : Planning(r) \/ Transition(r) \/ Resolution(r) \/ Admitted(r)

\* Both ends of a move are states of a launch row; no move starts from a row
\* that is not planned, is released or is under review.
LEMMA MoveEnds ==
  ASSUME NEW from, NEW state, <<from, state>> \in Moves
  PROVE  /\ from \in {"planned", "submitting", "submission_unknown", "submitted",
                      "started", "terminal_uncertain"}
         /\ state \in LaunchStates
  BY DEF Moves, LaunchStates, Admissible, Unsure, Released

\* What an admission has checked.
LEMMA AdmitChecks ==
  ASSUME NEW g \in Registrations, AdmitIncarnation(g)
  PROVE  /\ instance[g.inst].status = "none"
         /\ ctl.state \notin Closed
         /\ g.request # None => /\ launch[g.request].state \in Admissible
                                /\ launch[g.request].stream = g.stream
         /\ Owners(g) \subseteq {g.replaces}
  <1>1. Verdict(g) = "admit"
    BY DEF AdmitIncarnation
  <1>2. OnTime(g) /\ Authorized(g) /\ Owners(g) \subseteq {g.replaces}
    BY <1>1 DEF Verdict
  <1> QED BY <1>2 DEF AdmitIncarnation, OnTime, Authorized, Closed

\* Every step of the module is one of these on the launch rows.
LEMMA NextLaunch == LaunchType /\ [MembershipNext]_vars => LaunchStep
  <1> SUFFICES ASSUME LaunchType, [MembershipNext]_vars PROVE LaunchStep
    OBVIOUS
  <1>1. CASE AcquireLeader \/ Tick \/ BeginPreclose \/ BeginClose
    BY <1>1 DEF AcquireLeader, Tick, BeginPreclose, BeginClose, LaunchStep
  <1>2. CASE \E i \in Instances, status \in {"draining", "retired"} :
               RetireIncarnation(i, status)
    BY <1>2 DEF RetireIncarnation, LaunchStep
  <1>8. CASE (\E i \in Instances : HardCrash(i)
                \/ \E final \in BOOLEAN : AcknowledgeClose(i, final)) \/ FinalizeClose
    BY <1>8 DEF HardCrash, AcknowledgeClose, Answered, FinalizeClose, LaunchStep
  <1>3. CASE \E g \in Registrations : AdmitIncarnation(g)
    <2>1. PICK g \in Registrations : AdmitIncarnation(g)
      BY <1>3
    <2>2. SettleRequest(g)
      BY <2>1 DEF AdmitIncarnation
    <2>3. CASE g.request = None
      BY <2>2, <2>3 DEF SettleRequest, LaunchStep
    <2>4. CASE g.request # None
      <3>1. g.request \in Requests /\ g.inst \in Instances
        BY <2>4 DEF Registrations
      <3>2. Admitted(g.request)
        BY <2>1, <2>2, <2>4, <3>1, AdmitChecks DEF SettleRequest, Admitted
      <3> QED BY <3>1, <3>2 DEF LaunchStep
    <2> QED BY <2>3, <2>4
  <1>4. CASE \E s \in Streams, old \in Instances \cup {None}, job \in Jobs \cup {None} :
               PlanLaunch(s, old, job)
    <2>1. PICK s \in Streams, old \in Instances \cup {None}, job \in Jobs \cup {None} :
                 PlanLaunch(s, old, job)
      BY <1>4
    <2>2. PICK r \in Requests :
                 /\ ~Planned(r)
                 /\ launch' = [launch EXCEPT ![r] =
                      [@ EXCEPT !.state = "planned", !.stream = s, !.replaces = old,
                                !.expires = now + Ttl, !.reserved = TRUE]]
      BY <2>1 DEF PlanLaunch
    <2>3. Planning(r)
      BY <2>1, <2>2 DEF Planning, PlanLaunch
    <2> QED BY <2>3 DEF LaunchStep
  <1>5. CASE \E r \in Requests, job \in Jobs \cup {None}, terminal \in BOOLEAN :
               \E move \in Moves : TransitionLaunch(r, move[1], move[2], job, terminal)
    <2>1. PICK r \in Requests, job \in Jobs \cup {None}, terminal \in BOOLEAN :
                 \E move \in Moves :
                   TransitionLaunch(r, move[1], move[2], job, terminal)
      BY <1>5
    <2>2. PICK from, state : TransitionLaunch(r, from, state, job, terminal)
      BY <2>1
    <2>3. state \in LaunchStates
      BY <2>2, MoveEnds DEF TransitionLaunch
    <2> DEFINE kept == IF job = None THEN launch[r].job ELSE job
               held == launch[r].reserved /\ state \notin Released
    <2>4. <<launch[r].state, state>> \in Moves
      BY <2>2 DEF TransitionLaunch
    <2>5. launch' = [launch EXCEPT ![r] =
            [@ EXCEPT !.state = state, !.job = kept,
                      !.deadline = Deadline(r, state), !.reserved = held]]
      BY <2>2 DEF TransitionLaunch
    <2>6. kept \in Jobs \cup {None}
      BY DEF LaunchType, LaunchRows
    <2>7. held \in BOOLEAN /\ (held <=> launch[r].reserved /\ state \notin Released)
      OBVIOUS
    <2> HIDE DEF kept, held
    <2>8. Transition(r)
      BY <2>3, <2>4, <2>5, <2>6, <2>7 DEF Transition
    <2> QED BY <2>8 DEF LaunchStep
  <1>6. CASE \E r \in Requests, action \in Actions, job \in Jobs \cup {None} :
               ResolveLaunch(r, action, job)
    BY <1>6 DEF LaunchStep, Resolution
  <1>7. CASE UNCHANGED vars
    BY <1>7 DEF vars, LaunchStep
  <1> QED
    BY <1>1, <1>2, <1>3, <1>4, <1>5, <1>6, <1>7, <1>8 DEF MembershipNext

-----------------------------------------------------------------------------
(* The launch rows: types, and what is reserved.                           *)

\* What a transition makes of a row.
LEMMA MovedRow ==
  ASSUME LaunchType, RestType, NEW r \in Requests, Transition(r)
  PROVE  \E row \in LaunchRows :
           /\ launch' = [launch EXCEPT ![r] = row]
           /\ <<launch[r].state, row.state>> \in Moves
           /\ row.deadline = Deadline(r, row.state)
           /\ row.reserved <=> launch[r].reserved /\ row.state \notin Released
           /\ row.stream = launch[r].stream /\ row.admitted = launch[r].admitted
  <1>1. launch[r] \in LaunchRows
    BY DEF LaunchType
  <1>2. PICK state \in LaunchStates, kept \in Jobs \cup {None}, held \in BOOLEAN :
          /\ <<launch[r].state, state>> \in Moves
          /\ held <=> launch[r].reserved /\ state \notin Released
          /\ launch' = [launch EXCEPT ![r] =
               [@ EXCEPT !.state = state, !.job = kept,
                         !.deadline = Deadline(r, state), !.reserved = held]]
    BY DEF Transition
  <1>3. Deadline(r, state) \in Nat \cup {None}
    <2>1. now + Uncertainty \in Nat
      BY MembershipAssumption DEF RestType
    <2>2. launch[r].deadline \in Nat \cup {None}
      BY <1>1 DEF LaunchRows
    <2> QED BY <2>1, <2>2 DEF Deadline
  <1> DEFINE row == [launch[r] EXCEPT !.state = state, !.job = kept,
                                      !.deadline = Deadline(r, state), !.reserved = held]
  <1>4. row \in LaunchRows /\ row.state = state /\ row.deadline = Deadline(r, state)
        /\ row.reserved = held
        /\ row.stream = launch[r].stream /\ row.admitted = launch[r].admitted
    BY <1>1, <1>3 DEF LaunchRows
  <1>5. launch' = [launch EXCEPT ![r] = row]
    BY <1>2
  <1> HIDE DEF row
  <1>6. row.reserved <=> launch[r].reserved /\ row.state \notin Released
    BY <1>2, <1>4
  <1> QED BY <1>2, <1>4, <1>5, <1>6

\* What the operator's decision makes of a row.
LEMMA ResolvedRow ==
  ASSUME LaunchType, NEW r \in Requests, Resolution(r)
  PROVE  /\ launch[r].state \in Unsure \cup {"manual_review"}
         /\ \E row \in LaunchRows :
              /\ launch' = [launch EXCEPT ![r] = row]
              /\ row.stream = launch[r].stream /\ row.admitted = launch[r].admitted
              /\ \/ /\ row.state = "submitted"
                    /\ row.deadline = None /\ row.reserved = launch[r].reserved
                 \/ /\ row.state = "manual_review"
                    /\ row.reserved = launch[r].reserved
                 \/ /\ row.state \in {"failed", "expired"}
                    /\ row.reserved = FALSE
  <1>1. PICK action \in Actions, job \in Jobs \cup {None} : ResolveLaunch(r, action, job)
    BY DEF Resolution
  <1>2. launch[r] \in LaunchRows
    BY DEF LaunchType
  <1>3. launch[r].state \in Unsure \cup {"manual_review"}
    BY <1>1 DEF ResolveLaunch
  <1>4. CASE action = "confirm_job_id"
    <2>1. launch' = [launch EXCEPT ![r] =
            [launch[r] EXCEPT !.state = "submitted", !.job = job, !.deadline = None]]
      BY <1>1, <1>4 DEF ResolveLaunch
    <2>2. [launch[r] EXCEPT !.state = "submitted", !.job = job, !.deadline = None]
            \in LaunchRows
      BY <1>2 DEF LaunchRows, LaunchStates, Admissible
    <2> QED BY <1>2, <1>3, <2>1, <2>2 DEF LaunchRows
  <1>5. CASE action = "mark_failed"
    <2>1. launch' = [launch EXCEPT ![r] =
            [launch[r] EXCEPT !.state = "failed", !.noted = TRUE, !.reserved = FALSE]]
      BY <1>1, <1>5 DEF ResolveLaunch
    <2>2. [launch[r] EXCEPT !.state = "failed", !.noted = TRUE, !.reserved = FALSE]
            \in LaunchRows
      BY <1>2 DEF LaunchRows, LaunchStates, Released
    <2> QED BY <1>2, <1>3, <2>1, <2>2 DEF LaunchRows
  <1>6. CASE action = "mark_expired"
    <2>1. launch' = [launch EXCEPT ![r] =
            [launch[r] EXCEPT !.state = "expired", !.noted = TRUE, !.reserved = FALSE]]
      BY <1>1, <1>6 DEF ResolveLaunch
    <2>2. [launch[r] EXCEPT !.state = "expired", !.noted = TRUE, !.reserved = FALSE]
            \in LaunchRows
      BY <1>2 DEF LaunchRows, LaunchStates, Released
    <2> QED BY <1>2, <1>3, <2>1, <2>2 DEF LaunchRows
  <1>7. CASE action = "record_external_cancel_evidence"
    <2>1. launch' = [launch EXCEPT ![r] =
            [launch[r] EXCEPT !.state = "manual_review", !.noted = TRUE]]
      BY <1>1, <1>7 DEF ResolveLaunch
    <2>2. [launch[r] EXCEPT !.state = "manual_review", !.noted = TRUE] \in LaunchRows
      BY <1>2 DEF LaunchRows, LaunchStates
    <2> QED BY <1>2, <1>3, <2>1, <2>2 DEF LaunchRows
  <1> QED BY <1>4, <1>5, <1>6, <1>7 DEF Actions

\* A launch row is well typed after each of these steps.
LEMMA LaunchTypeStep ==
  ASSUME LaunchType, RestType, LaunchStep
  PROVE  LaunchType'
  <1>1. CASE UNCHANGED launch
    BY <1>1 DEF LaunchType, DeadlineType
  <1>2. ASSUME NEW r \in Requests, Planning(r) PROVE LaunchType'
    <2>1. PICK s \in Streams, old \in Instances \cup {None} :
                 launch' = [launch EXCEPT ![r] =
                   [@ EXCEPT !.state = "planned", !.stream = s, !.replaces = old,
                             !.expires = now + Ttl, !.reserved = TRUE]]
      BY <1>2 DEF Planning
    <2>2. now + Ttl \in Nat
      BY MembershipAssumption DEF RestType
    <2>3. launch' \in [Requests -> LaunchRows]
      <3>1. launch[r] \in LaunchRows
        BY DEF LaunchType
      <3>2. [launch[r] EXCEPT !.state = "planned", !.stream = s, !.replaces = old,
                              !.expires = now + Ttl, !.reserved = TRUE] \in LaunchRows
        BY <2>2, <3>1 DEF LaunchRows, LaunchStates
      <3> QED BY <2>1, <3>2 DEF LaunchType
    <2>4. launch[r].deadline = None
      BY <1>2 DEF Planning, Planned, LaunchType, DeadlineType, Unsure
    <2>5. DeadlineType'
      BY <2>1, <2>4 DEF LaunchType, DeadlineType, LaunchRows, Unsure
    <2> QED BY <2>3, <2>5 DEF LaunchType
  <1>3. ASSUME NEW r \in Requests, Transition(r) PROVE LaunchType'
    <2>1. PICK row \in LaunchRows :
                 /\ launch' = [launch EXCEPT ![r] = row]
                 /\ <<launch[r].state, row.state>> \in Moves
                 /\ row.deadline = Deadline(r, row.state)
      BY <1>3, MovedRow
    <2>2. ASSUME row.state \in Unsure PROVE row.deadline # None
      BY <2>1, <2>2, MembershipAssumption DEF Deadline, Unsure, RestType
    <2>3. ASSUME row.deadline # None
          PROVE  row.state \in Unsure \cup {"manual_review", "failed", "expired"}
      BY <2>1, <2>3 DEF Deadline, LaunchType, DeadlineType, Moves, Unsure
    <2>4. DeadlineType'
      BY <2>1, <2>2, <2>3 DEF LaunchType, DeadlineType
    <2> QED BY <2>1, <2>4 DEF LaunchType
  <1>4. ASSUME NEW r \in Requests, Resolution(r) PROVE LaunchType'
    <2>1. PICK row \in LaunchRows :
                 /\ launch' = [launch EXCEPT ![r] = row]
                 /\ \/ row.deadline = None /\ row.state = "submitted"
                    \/ row.state \in {"failed", "expired", "manual_review"}
      BY <1>4, ResolvedRow
    <2>2. launch' \in [Requests -> LaunchRows]
      BY <2>1 DEF LaunchType
    <2>3. DeadlineType'
      BY <2>1 DEF LaunchType, DeadlineType, Unsure
    <2> QED BY <2>2, <2>3 DEF LaunchType
  <1>5. ASSUME NEW r \in Requests, Admitted(r) PROVE LaunchType'
    <2>1. PICK i \in Instances :
                 launch' = [launch EXCEPT ![r] =
                   [@ EXCEPT !.state = "admitted", !.admitted = i,
                             !.deadline = None, !.reserved = FALSE]]
      BY <1>5 DEF Admitted
    <2> DEFINE row == [launch[r] EXCEPT !.state = "admitted", !.admitted = i,
                                        !.deadline = None, !.reserved = FALSE]
    <2>2. row \in LaunchRows /\ row.deadline = None /\ row.state = "admitted"
      <3>1. launch[r] \in LaunchRows
        BY DEF LaunchType
      <3> QED BY <3>1 DEF LaunchRows, LaunchStates, Released
    <2>3. launch' = [launch EXCEPT ![r] = row]
      BY <2>1
    <2> HIDE DEF row
    <2>4. launch' \in [Requests -> LaunchRows]
      BY <2>2, <2>3 DEF LaunchType
    <2>5. DeadlineType'
      BY <2>2, <2>3 DEF LaunchType, DeadlineType, Unsure
    <2> QED BY <2>4, <2>5 DEF LaunchType
  <1> QED BY <1>1, <1>2, <1>3, <1>4, <1>5 DEF LaunchStep

ReservedRequests == {r \in Requests : launch[r].reserved}

\* Requests can be counted.
LEMMA RequestsCount ==
  ASSUME NEW S \in SUBSET Requests
  PROVE  IsFiniteSet(S) /\ Cardinality(S) \in Nat
  <1>1. IsFiniteSet(Requests)
    BY MembershipAssumption, FS_Interval DEF Requests
  <1> QED BY <1>1, FS_Subset, FS_CardinalityType

\* A step that frees reservations, or none, and moves no request to another
\* stream keeps the reservations within the budget and one to a stream.
LEMMA FewerReserved ==
  ASSUME LaunchType, ReservationHeld,
         \A r \in Requests : launch'[r].reserved =>
            launch[r].reserved /\ launch'[r].stream = launch[r].stream,
         \A r \in Requests : launch'[r].reserved <=>
            launch'[r].state # "none" /\ launch'[r].state \notin Released
  PROVE  ReservationHeld'
  <1>1. ReservedRequests' \subseteq ReservedRequests
    BY DEF ReservedRequests
  <1>2. Cardinality(ReservedRequests') <= Cardinality(ReservedRequests)
    BY <1>1, RequestsCount, FS_Subset DEF ReservedRequests
  <1>3. Cardinality(ReservedRequests') <= MaxPending
    BY <1>2, RequestsCount, MembershipAssumption DEF ReservationHeld, ReservedRequests
  <1> QED BY <1>3 DEF ReservationHeld, ReservedRequests, Planned

\* Reservations after a step.
LEMMA ReservationStep ==
  ASSUME LaunchType, RestType, ReservationHeld, LaunchStep
  PROVE  ReservationHeld'
  <1>1. CASE UNCHANGED launch
    BY <1>1 DEF ReservationHeld, Planned
  <1>2. ASSUME NEW r \in Requests, Planning(r) PROVE ReservationHeld'
    <2>1. PICK s \in Streams, old \in Instances \cup {None} :
                 /\ Plannable(s)
                 /\ launch' = [launch EXCEPT ![r] =
                      [@ EXCEPT !.state = "planned", !.stream = s, !.replaces = old,
                                !.expires = now + Ttl, !.reserved = TRUE]]
      BY <1>2 DEF Planning
    <2>2. ~launch[r].reserved
      BY <1>2 DEF Planning, ReservationHeld
    <2>3. ReservedRequests' = ReservedRequests \cup {r}
      BY <2>1 DEF ReservedRequests, LaunchType, LaunchRows
    <2>4. Cardinality(ReservedRequests') = Cardinality(ReservedRequests) + 1
      BY <2>2, <2>3, RequestsCount, FS_AddElement DEF ReservedRequests
    <2>5. Cardinality(ReservedRequests') <= MaxPending
      BY <2>1, <2>4, RequestsCount, MembershipAssumption DEF Plannable, ReservedRequests
    <2>6. \A q \in Requests : launch'[q].reserved <=>
            Planned(q)' /\ launch'[q].state \notin Released
      BY <2>1 DEF LaunchType, LaunchRows, ReservationHeld, Planned, Released
    <2>7. \A p, q \in Requests : launch'[p].reserved /\ launch'[q].reserved
            /\ launch'[p].stream = launch'[q].stream => p = q
      BY <2>1 DEF LaunchType, LaunchRows, ReservationHeld, Plannable, Reserved
    <2> QED BY <2>5, <2>6, <2>7 DEF ReservationHeld, ReservedRequests
  <1>3. ASSUME NEW r \in Requests, Transition(r) PROVE ReservationHeld'
    <2>1. PICK row \in LaunchRows :
                 /\ launch' = [launch EXCEPT ![r] = row]
                 /\ <<launch[r].state, row.state>> \in Moves
                 /\ row.reserved <=> launch[r].reserved /\ row.state \notin Released
                 /\ row.stream = launch[r].stream
      BY <1>3, MovedRow
    <2>2. launch[r].reserved
      BY <2>1, MoveEnds DEF ReservationHeld, Planned, Released
    <2>3. row.state # "none"
      BY <2>1, MoveEnds DEF LaunchStates, Admissible, Unsure, Released
    <2> QED BY <2>1, <2>2, <2>3, FewerReserved DEF LaunchType, ReservationHeld, Planned
  <1>4. ASSUME NEW r \in Requests, Resolution(r) PROVE ReservationHeld'
    <2>1. launch[r].reserved
      BY <1>4, ResolvedRow DEF ReservationHeld, Planned, Unsure, Released
    <2>2. PICK row \in LaunchRows :
                 /\ launch' = [launch EXCEPT ![r] = row]
                 /\ row.stream = launch[r].stream
                 /\ row.reserved <=> row.state # "none" /\ row.state \notin Released
      BY <1>4, <2>1, ResolvedRow DEF Released
    <2> QED BY <2>1, <2>2, FewerReserved DEF LaunchType, ReservationHeld, Planned
  <1>5. ASSUME NEW r \in Requests, Admitted(r) PROVE ReservationHeld'
    BY <1>5, FewerReserved
       DEF Admitted, LaunchType, LaunchRows, ReservationHeld, Planned, Released
  <1> QED BY <1>1, <1>2, <1>3, <1>4, <1>5 DEF LaunchStep

-----------------------------------------------------------------------------
(* What a command does to the owners: one instance is retired, or several  *)
(* at the end, or one is admitted in the place of those that own its stream *)
(* and placement.                                                          *)

OwnerStep ==
    \/ UNCHANGED ownerVars
    \/ \E i \in Instances, status \in {"draining", "retired"} : Retire(i, status)
    \/ \E S \in SUBSET Instances : RetireAll(S)
    \/ \E g \in Registrations : AdmitIncarnation(g)

\* Every step of the module is one of these on the owners.
LEMMA NextOwners == [MembershipNext]_vars => OwnerStep
  <1> SUFFICES ASSUME [MembershipNext]_vars PROVE OwnerStep
    OBVIOUS
  <1>1. CASE AcquireLeader \/ Tick \/ BeginPreclose \/ BeginClose
    BY <1>1 DEF AcquireLeader, Tick, BeginPreclose, BeginClose, ownerVars, OwnerStep
  <1>2. CASE \E i \in Instances, status \in {"draining", "retired"} :
               RetireIncarnation(i, status)
    BY <1>2 DEF RetireIncarnation, OwnerStep
  <1>8. CASE \E i \in Instances : HardCrash(i)
               \/ \E final \in BOOLEAN : AcknowledgeClose(i, final)
    BY <1>8 DEF HardCrash, AcknowledgeClose, OwnerStep
  <1>9. CASE FinalizeClose
    BY <1>9 DEF FinalizeClose, Acked, OwnerStep
  <1>3. CASE \E g \in Registrations : AdmitIncarnation(g)
    BY <1>3 DEF OwnerStep
  <1>4. CASE \E s \in Streams, old \in Instances \cup {None}, job \in Jobs \cup {None} :
               PlanLaunch(s, old, job)
    BY <1>4 DEF PlanLaunch, OwnerStep
  <1>5. CASE \E r \in Requests, job \in Jobs \cup {None}, terminal \in BOOLEAN :
               \E move \in Moves : TransitionLaunch(r, move[1], move[2], job, terminal)
    BY <1>5 DEF TransitionLaunch, OwnerStep
  <1>6. CASE \E r \in Requests, action \in Actions, job \in Jobs \cup {None} :
               ResolveLaunch(r, action, job)
    BY <1>6 DEF ResolveLaunch, OwnerStep
  <1>7. CASE UNCHANGED vars
    BY <1>7 DEF vars, ownerVars, OwnerStep
  <1> QED
    BY <1>1, <1>2, <1>3, <1>4, <1>5, <1>6, <1>7, <1>8, <1>9 DEF MembershipNext

\* The controller's row with other fields.
LEMMA CtlRow ==
  ASSUME NEW row \in [state : ControllerStates, cutoff : Nat,
                      frozen : [Instances -> FrozenStates]],
         NEW state \in ControllerStates, NEW cutoff \in Nat,
         NEW frozen \in [Instances -> FrozenStates]
  PROVE  LET new == [row EXCEPT !.state = state, !.cutoff = cutoff, !.frozen = frozen]
         IN  /\ new \in [state : ControllerStates, cutoff : Nat,
                         frozen : [Instances -> FrozenStates]]
             /\ new.state = state /\ new.cutoff = cutoff /\ new.frozen = frozen
  OBVIOUS

\* The same for a preclose, which leaves the frozen fences alone.
LEMMA PrecloseRow ==
  ASSUME NEW row \in [state : ControllerStates, cutoff : Nat,
                      frozen : [Instances -> FrozenStates]],
         NEW state \in ControllerStates, NEW cutoff \in Nat
  PROVE  LET new == [row EXCEPT !.state = state, !.cutoff = cutoff]
         IN  /\ new \in [state : ControllerStates, cutoff : Nat,
                         frozen : [Instances -> FrozenStates]]
             /\ new.state = state /\ new.cutoff = cutoff /\ new.frozen = row.frozen
  OBVIOUS

\* The rest of the state is well typed after each step.
LEMMA NextRest == RestType /\ [MembershipNext]_vars => RestType'
  <1> SUFFICES ASSUME RestType, [MembershipNext]_vars PROVE RestType'
    OBVIOUS
  <1>1. CASE AcquireLeader \/ Tick
    <2>1. leader' \in 0 .. MaxEpoch /\ now' \in 0 .. Horizon
      BY <1>1, MembershipAssumption DEF AcquireLeader, Tick, RestType
    <2>2. UNCHANGED <<ctl, slots>>
      BY <1>1 DEF AcquireLeader, Tick
    <2> QED BY <2>1, <2>2 DEF RestType
  <1>6. CASE BeginPreclose
    <2>1. ctl' = [ctl EXCEPT !.state = "preclosing", !.cutoff = now]
      BY <1>6 DEF BeginPreclose
    <2>2. "preclosing" \in ControllerStates /\ now \in Nat
      BY MembershipAssumption DEF ControllerStates, RestType
    <2>3. ctl' \in [state : ControllerStates, cutoff : Nat,
                   frozen : [Instances -> FrozenStates]]
      BY <2>1, <2>2, PrecloseRow DEF RestType
    <2> QED BY <1>6, <2>3 DEF BeginPreclose, RestType
  <1>5. CASE BeginClose
    <2> DEFINE frozen == [i \in Instances |->
                 IF instance[i].status \in Present THEN "awaiting_ack" ELSE "none"]
    <2>1. frozen \in [Instances -> FrozenStates]
      BY DEF FrozenStates
    <2>2. ctl' = [ctl EXCEPT !.state = "closing", !.cutoff = 0, !.frozen = frozen]
      BY <1>5 DEF BeginClose
    <2> HIDE DEF frozen
    <2>3. ctl' \in [state : ControllerStates, cutoff : Nat,
                   frozen : [Instances -> FrozenStates]]
      BY <2>1, <2>2, CtlRow DEF RestType, ControllerStates
    <2> QED BY <1>5, <2>3 DEF BeginClose, RestType
  <1>2. CASE \E g \in Registrations : AdmitIncarnation(g)
    BY <1>2 DEF AdmitIncarnation, Registrations, RestType
  <1>4. CASE (\E i \in Instances : HardCrash(i)
                \/ \E final \in BOOLEAN : AcknowledgeClose(i, final)) \/ FinalizeClose
    BY <1>4 DEF HardCrash, AcknowledgeClose, Answered, FinalizeClose, RestType,
                ControllerStates, FrozenStates
  <1>3. CASE UNCHANGED <<leader, now, ctl, slots>>
    BY <1>3 DEF RestType
  <1> QED
    BY <1>1, <1>2, <1>3, <1>4, <1>5, <1>6
       DEF MembershipNext, RetireIncarnation, PlanLaunch, TransitionLaunch,
           ResolveLaunch, vars

\* An instance has a row from its admission on, with a stream and a placement.
Rowed ==
    \A i \in Instances :
        /\ instance[i].status = "none" =>
             instance[i].stream = None /\ instance[i].request = None
        /\ instance[i].status # "none" =>
             instance[i].stream \in Streams /\ instance[i].place \in Placements

\* An instance's row with another status.
LEMMA StatusRow ==
  ASSUME NEW row \in InstanceRows,
         NEW status \in {"none", "admitted", "draining", "retired"}
  PROVE  LET new == [row EXCEPT !.status = status]
         IN  /\ new \in InstanceRows /\ new.status = status
             /\ new.stream = row.stream /\ new.epoch = row.epoch
             /\ new.place = row.place /\ new.generation = row.generation
             /\ new.request = row.request /\ new.job = row.job
  BY DEF InstanceRows

\* A retirement changes the status of one present instance, and nobody owns
\* what it owned unless it only drains.
RetireChanges(i, status) ==
    /\ instance[i].status \in Present /\ FenceCurrent(i)
    /\ instance[i].stream \in Streams /\ instance[i].place \in Placements
    /\ instance' = [instance EXCEPT ![i].status = status]
    /\ \A s \in Streams : stream'[s].epoch = stream[s].epoch
    /\ \A p \in Placements : placement'[p].epoch = placement[p].epoch
    /\ \A s \in Streams : stream'[s].owner =
         IF status = "retired" /\ s = instance[i].stream THEN None ELSE stream[s].owner
    /\ \A p \in Placements : placement'[p].owner =
         IF status = "retired" /\ p = instance[i].place THEN None
         ELSE placement[p].owner

\* Retire makes these changes.
LEMMA RetireEffect ==
  ASSUME OwnerType, Rowed, NEW i \in Instances, NEW status \in {"draining", "retired"},
         Retire(i, status)
  PROVE  RetireChanges(i, status)
  BY DEF Retire, RetireChanges, FenceCurrent, Present, Rowed, OwnerType

\* Retiring several changes the status of each, and nobody owns what they owned.
RetireAllChanges(S) ==
    /\ \A i \in S : FenceCurrent(i)
    /\ \A i \in Instances :
         /\ instance'[i] \in InstanceRows
         /\ instance'[i].stream = instance[i].stream
         /\ instance'[i].epoch = instance[i].epoch
         /\ instance'[i].place = instance[i].place
         /\ instance'[i].generation = instance[i].generation
         /\ instance'[i].request = instance[i].request
         /\ instance'[i].status = IF i \in S THEN "retired" ELSE instance[i].status
    /\ \A s \in Streams :
         /\ stream'[s] \in [epoch : Nat \ {0}, owner : Instances \cup {None}]
         /\ stream'[s].epoch = stream[s].epoch
         /\ stream'[s].owner = IF stream[s].owner \in S THEN None ELSE stream[s].owner
    /\ \A p \in Placements :
         /\ placement'[p] \in [epoch : Nat, owner : Instances \cup {None}]
         /\ placement'[p].epoch = placement[p].epoch
         /\ placement'[p].owner =
              IF placement[p].owner \in S THEN None ELSE placement[p].owner

\* RetireAll makes these changes.
LEMMA RetireAllEffect ==
  ASSUME OwnerType, OwnersAgree, NEW S \in SUBSET Instances, RetireAll(S)
  PROVE  RetireAllChanges(S)
  <1>1. \A i \in S : FenceCurrent(i)
    BY DEF RetireAll
  <1>2. ASSUME NEW i \in Instances
        PROVE  /\ instance'[i] \in InstanceRows
               /\ instance'[i].stream = instance[i].stream
               /\ instance'[i].epoch = instance[i].epoch
               /\ instance'[i].place = instance[i].place
               /\ instance'[i].generation = instance[i].generation
               /\ instance'[i].request = instance[i].request
               /\ instance'[i].status = IF i \in S THEN "retired" ELSE instance[i].status
    <2>1. instance[i] \in InstanceRows
      BY DEF OwnerType
    <2>2. instance'[i] = IF i \in S THEN [instance[i] EXCEPT !.status = "retired"]
                         ELSE instance[i]
      BY DEF RetireAll
    <2>3. CASE i \in S
      <3> DEFINE new == [instance[i] EXCEPT !.status = "retired"]
      <3>1. instance'[i] = new
        BY <2>2, <2>3
      <3>2. "retired" \in {"none", "admitted", "draining", "retired"}
        OBVIOUS
      <3>3. /\ new \in InstanceRows /\ new.status = "retired"
            /\ new.stream = instance[i].stream /\ new.epoch = instance[i].epoch
            /\ new.place = instance[i].place /\ new.generation = instance[i].generation
            /\ new.request = instance[i].request
        BY <2>1, <3>2, StatusRow
      <3> HIDE DEF new
      <3> QED BY <2>3, <3>1, <3>3
    <2>4. CASE i \notin S
      BY <2>1, <2>2, <2>4
    <2> QED BY <2>3, <2>4
  <1>3. ASSUME NEW s \in Streams
        PROVE  /\ stream'[s] \in [epoch : Nat \ {0}, owner : Instances \cup {None}]
               /\ stream'[s].epoch = stream[s].epoch
               /\ stream'[s].owner =
                    IF stream[s].owner \in S THEN None ELSE stream[s].owner
    <2>1. stream[s] \in [epoch : Nat \ {0}, owner : Instances \cup {None}]
      BY DEF OwnerType
    <2>2. (\E i \in S : instance[i].stream = s) <=> stream[s].owner \in S
      BY <1>1, <2>1, MembershipAssumption DEF FenceCurrent, OwnersAgree
    <2>3. stream'[s] = IF stream[s].owner \in S THEN [stream[s] EXCEPT !.owner = None]
                       ELSE stream[s]
      BY <2>2 DEF RetireAll
    <2>4. CASE stream[s].owner \in S
      <3>1. stream'[s] = [stream[s] EXCEPT !.owner = None]
        BY <2>3, <2>4
      <3>2. /\ [stream[s] EXCEPT !.owner = None] \in
                 [epoch : Nat \ {0}, owner : Instances \cup {None}]
            /\ [stream[s] EXCEPT !.owner = None].epoch = stream[s].epoch
            /\ [stream[s] EXCEPT !.owner = None].owner = None
        BY <2>1
      <3> QED BY <2>4, <3>1, <3>2
    <2>5. CASE stream[s].owner \notin S
      BY <2>1, <2>3, <2>5
    <2> QED BY <2>4, <2>5
  <1>4. ASSUME NEW p \in Placements
        PROVE  /\ placement'[p] \in [epoch : Nat, owner : Instances \cup {None}]
               /\ placement'[p].epoch = placement[p].epoch
               /\ placement'[p].owner =
                    IF placement[p].owner \in S THEN None ELSE placement[p].owner
    <2>1. placement[p] \in [epoch : Nat, owner : Instances \cup {None}]
      BY DEF OwnerType
    <2>2. (\E i \in S : instance[i].place = p) <=> placement[p].owner \in S
      BY <1>1, <2>1, MembershipAssumption DEF FenceCurrent, OwnersAgree
    <2>3. placement'[p] = IF placement[p].owner \in S
                          THEN [placement[p] EXCEPT !.owner = None] ELSE placement[p]
      BY <2>2 DEF RetireAll
    <2>4. CASE placement[p].owner \in S
      <3>1. placement'[p] = [placement[p] EXCEPT !.owner = None]
        BY <2>3, <2>4
      <3>2. /\ [placement[p] EXCEPT !.owner = None] \in
                 [epoch : Nat, owner : Instances \cup {None}]
            /\ [placement[p] EXCEPT !.owner = None].epoch = placement[p].epoch
            /\ [placement[p] EXCEPT !.owner = None].owner = None
        BY <2>1
      <3> QED BY <2>4, <3>1, <3>2
    <2>5. CASE placement[p].owner \notin S
      BY <2>1, <2>3, <2>5
    <2> QED BY <2>4, <2>5
  <1> QED BY <1>1, <1>2, <1>3, <1>4 DEF RetireAllChanges

\* An admission gives a new row the stream and the placement and retires those
\* that owned one of them from all that they owned.
AdmitChanges(g) ==
    /\ g.inst \in Instances /\ g.stream \in Streams /\ g.place \in Placements
    /\ g.request \in Requests \cup {None} /\ g.job \in Jobs
    /\ instance[g.inst].status = "none"
    /\ stream'[g.stream] = [epoch |-> NextEpoch(g.stream), owner |-> g.inst]
    /\ placement'[g.place] = [epoch |-> placement[g.place].epoch + 1, owner |-> g.inst]
    /\ instance'[g.inst] =
         [status |-> "admitted", stream |-> g.stream,
          epoch |-> NextEpoch(g.stream), place |-> g.place,
          generation |-> placement[g.place].epoch + 1,
          request |-> g.request, job |-> g.job]
    /\ \A s \in Streams \ {g.stream} :
         stream'[s] = IF stream[s].owner \in Owners(g)
                      THEN [stream[s] EXCEPT !.owner = None] ELSE stream[s]
    /\ \A p \in Placements \ {g.place} :
         placement'[p] = IF placement[p].owner \in Owners(g)
                         THEN [placement[p] EXCEPT !.owner = None] ELSE placement[p]
    /\ \A i \in Instances \ {g.inst} :
         instance'[i] = IF i \in Owners(g)
                        THEN [instance[i] EXCEPT !.status = "retired"] ELSE instance[i]

\* AdmitIncarnation makes these changes.
LEMMA AdmitEffect ==
  ASSUME OwnerType, NEW g \in Registrations, AdmitIncarnation(g)
  PROVE  AdmitChanges(g)
  BY DEF AdmitIncarnation, AdmitChanges, Registrations

\* The rows of the other instances after an admission.
LEMMA AdmitRow ==
  ASSUME OwnerType, NEW g \in Registrations, AdmitChanges(g),
         NEW i \in Instances, i # g.inst
  PROVE  /\ instance'[i] \in InstanceRows
         /\ instance'[i].stream = instance[i].stream
         /\ instance'[i].epoch = instance[i].epoch
         /\ instance'[i].place = instance[i].place
         /\ instance'[i].generation = instance[i].generation
         /\ instance'[i].request = instance[i].request
         /\ instance'[i].status =
              IF i \in Owners(g) THEN "retired" ELSE instance[i].status
  <1>1. instance[i] \in InstanceRows
    BY DEF OwnerType
  <1>2. CASE i \notin Owners(g)
    BY <1>1, <1>2 DEF AdmitChanges
  <1>3. CASE i \in Owners(g)
    <2>1. instance'[i] = [instance[i] EXCEPT !.status = "retired"]
      BY <1>3 DEF AdmitChanges
    <2>2. [instance[i] EXCEPT !.status = "retired"] \in InstanceRows
      BY <1>1 DEF InstanceRows
    <2> QED BY <1>1, <1>3, <2>1, <2>2 DEF InstanceRows
  <1> QED BY <1>2, <1>3

\* Those that an admission retires are present.
LEMMA OwnersPresent ==
  ASSUME OwnersAgree, NEW g \in Registrations, NEW i \in Owners(g)
  PROVE  FenceCurrent(i)
  BY DEF Owners, OwnersAgree, Registrations

\* The epoch that an admission gives is positive.
LEMMA EpochType ==
  ASSUME OwnerType, NEW s \in Streams
  PROVE  /\ NextEpoch(s) \in Nat \ {0} /\ NextEpoch(s) >= stream[s].epoch
         /\ UsedBefore(s) => NextEpoch(s) > stream[s].epoch
  <1>1. stream[s].epoch \in Nat \ {0}
    BY DEF OwnerType
  <1> QED BY <1>1 DEF NextEpoch

\* The owners are well typed after each of these steps, and rows stay whole.
LEMMA OwnerTypeStep ==
  ASSUME OwnerType, Rowed, OwnersAgree, OwnerStep
  PROVE  OwnerType' /\ Rowed'
  <1>1. CASE UNCHANGED ownerVars
    BY <1>1 DEF OwnerType, Rowed, ownerVars
  <1>2. ASSUME NEW i \in Instances, NEW status \in {"draining", "retired"},
               Retire(i, status)
        PROVE  OwnerType' /\ Rowed'
    <2>1. RetireChanges(i, status)
      BY <1>2, RetireEffect
    <2>2. instance' \in [Instances -> InstanceRows]
      BY <2>1, StatusRow DEF RetireChanges, OwnerType
    <2>3. stream' \in [Streams -> [epoch : Nat \ {0}, owner : Instances \cup {None}]]
      BY <1>2 DEF Retire, OwnerType
    <2>4. placement' \in [Placements -> [epoch : Nat, owner : Instances \cup {None}]]
      BY <1>2 DEF Retire, OwnerType
    <2>5. Rowed'
      BY <2>1 DEF RetireChanges, Rowed, OwnerType, InstanceRows, Present
    <2> QED BY <2>2, <2>3, <2>4, <2>5 DEF OwnerType
  <1>3. ASSUME NEW g \in Registrations, AdmitIncarnation(g)
        PROVE  OwnerType' /\ Rowed'
    <2>1. AdmitChanges(g)
      BY <1>3, AdmitEffect
    <2>2. NextEpoch(g.stream) \in Nat \ {0}
      BY <2>1, EpochType DEF AdmitChanges
    <2>3. placement[g.place].epoch + 1 \in Nat
      BY <2>1 DEF AdmitChanges, OwnerType
    <2>4. instance' \in [Instances -> InstanceRows]
      <3>1. instance'[g.inst] \in InstanceRows
        BY <2>1, <2>2, <2>3 DEF AdmitChanges, InstanceRows
      <3>2. ASSUME NEW i \in Instances \ {g.inst} PROVE instance'[i] \in InstanceRows
        BY <2>1, AdmitRow
      <3> QED BY <1>3, <3>1, <3>2 DEF AdmitIncarnation
    <2>5. stream' \in [Streams -> [epoch : Nat \ {0}, owner : Instances \cup {None}]]
      <3>1. stream'[g.stream] \in [epoch : Nat \ {0}, owner : Instances \cup {None}]
        BY <2>1, <2>2 DEF AdmitChanges
      <3>2. ASSUME NEW s \in Streams \ {g.stream}
            PROVE  stream'[s] \in [epoch : Nat \ {0}, owner : Instances \cup {None}]
        <4>1. stream[s] \in [epoch : Nat \ {0}, owner : Instances \cup {None}]
          BY DEF OwnerType
        <4> QED BY <2>1, <4>1 DEF AdmitChanges
      <3> QED BY <1>3, <3>1, <3>2 DEF AdmitIncarnation
    <2>6. placement' \in [Placements -> [epoch : Nat, owner : Instances \cup {None}]]
      <3>1. placement'[g.place] \in [epoch : Nat, owner : Instances \cup {None}]
        BY <2>1, <2>3 DEF AdmitChanges
      <3>2. ASSUME NEW p \in Placements \ {g.place}
            PROVE  placement'[p] \in [epoch : Nat, owner : Instances \cup {None}]
        <4>1. placement[p] \in [epoch : Nat, owner : Instances \cup {None}]
          BY DEF OwnerType
        <4> QED BY <2>1, <4>1 DEF AdmitChanges
      <3> QED BY <1>3, <3>1, <3>2 DEF AdmitIncarnation
    <2>7. ASSUME NEW i \in Instances
          PROVE  /\ instance'[i].status = "none" =>
                      instance'[i].stream = None /\ instance'[i].request = None
                 /\ instance'[i].status # "none" =>
                      instance'[i].stream \in Streams /\ instance'[i].place \in Placements
      <3>1. CASE i = g.inst
        BY <2>1, <3>1 DEF AdmitChanges
      <3>2. CASE i # g.inst
        <4>1. i \in Owners(g) => instance[i].status # "none"
          BY OwnersPresent DEF FenceCurrent, Present
        <4> QED BY <2>1, <3>2, <4>1, AdmitRow DEF Rowed
      <3> QED BY <3>1, <3>2
    <2> QED BY <2>4, <2>5, <2>6, <2>7 DEF OwnerType, Rowed
  <1>4. ASSUME NEW S \in SUBSET Instances, RetireAll(S)
        PROVE  OwnerType' /\ Rowed'
    <2>1. RetireAllChanges(S)
      BY <1>4, RetireAllEffect
    <2>2. instance' \in [Instances -> InstanceRows]
      BY <1>4, <2>1 DEF RetireAll, RetireAllChanges
    <2>3. stream' \in [Streams -> [epoch : Nat \ {0}, owner : Instances \cup {None}]]
      BY <1>4, <2>1 DEF RetireAll, RetireAllChanges, OwnerType
    <2>4. placement' \in [Placements -> [epoch : Nat, owner : Instances \cup {None}]]
      BY <1>4, <2>1 DEF RetireAll, RetireAllChanges, OwnerType
    <2>5. Rowed'
      BY <2>1 DEF RetireAllChanges, Rowed, FenceCurrent, Present
    <2> QED BY <2>2, <2>3, <2>4, <2>5 DEF OwnerType
  <1> QED BY <1>1, <1>2, <1>3, <1>4 DEF OwnerStep

-----------------------------------------------------------------------------
(* The tables agree on the owners.                                         *)

\* An instance that is present elsewhere than at g's stream and placement, and
\* is not among those retired, keeps its fence.
LEMMA FenceKept ==
  ASSUME OwnerType, Rowed, NEW g \in Registrations, AdmitChanges(g),
         NEW i \in Instances, i # g.inst, i \notin Owners(g), FenceCurrent(i)
  PROVE  FenceCurrent(i)' /\ instance'[i] = instance[i]
  <1>1. instance'[i] = instance[i]
    BY DEF AdmitChanges
  <1>2. instance[i].stream \in Streams /\ instance[i].place \in Placements
    BY DEF FenceCurrent, Present, Rowed
  <1>3. i # None
    BY MembershipAssumption
  <1>4. instance[i].stream # g.stream /\ instance[i].place # g.place
    BY <1>3 DEF FenceCurrent, Owners
  <1>5. stream'[instance[i].stream] = stream[instance[i].stream]
        /\ placement'[instance[i].place] = placement[instance[i].place]
    BY <1>2, <1>4 DEF FenceCurrent, AdmitChanges
  <1> QED BY <1>1, <1>5 DEF FenceCurrent

\* OwnersAgree after a step, stated for one instance at a time.
LEMMA AgreeByInstance ==
  ASSUME OwnerType',
         \A s \in Streams, j \in Instances : stream'[s].owner = j =>
           FenceCurrent(j)' /\ instance'[j].stream = s,
         \A p \in Placements, j \in Instances : placement'[p].owner = j =>
           FenceCurrent(j)' /\ instance'[j].place = p,
         \A j \in Instances : instance'[j].status \in Present => FenceCurrent(j)'
  PROVE  OwnersAgree'
  BY DEF OwnersAgree, OwnerType, FenceCurrent

\* Ownership after each of these steps.
LEMMA OwnersStep ==
  ASSUME OwnerType, Rowed, OwnersAgree, OwnerStep
  PROVE  OwnersAgree'
  <1>0. OwnerType'
    BY OwnerTypeStep
  <1>1. CASE UNCHANGED ownerVars
    BY <1>1 DEF OwnersAgree, FenceCurrent, ownerVars
  <1>2. ASSUME NEW i \in Instances, NEW status \in {"draining", "retired"},
               Retire(i, status)
        PROVE  OwnersAgree'
    <2>1. RetireChanges(i, status)
      BY <1>2, RetireEffect
    <2>2. ASSUME NEW j \in Instances, FenceCurrent(j), j # i \/ status = "draining"
          PROVE  FenceCurrent(j)' /\ instance'[j].stream = instance[j].stream
                 /\ instance'[j].place = instance[j].place
      <3>1. instance[j].stream \in Streams /\ instance[j].place \in Placements
        BY <2>2 DEF FenceCurrent, Present, Rowed
      <3>2. /\ instance'[j].stream = instance[j].stream
            /\ instance'[j].place = instance[j].place
            /\ instance'[j].epoch = instance[j].epoch
            /\ instance'[j].generation = instance[j].generation
            /\ instance'[j].status = IF j = i THEN status ELSE instance[j].status
        BY <2>1 DEF RetireChanges, OwnerType, InstanceRows
      <3>3. stream'[instance[j].stream].owner = j /\ placement'[instance[j].place].owner = j
        BY <2>1, <2>2, <3>1 DEF RetireChanges, FenceCurrent
      <3> QED BY <2>1, <2>2, <3>1, <3>2, <3>3 DEF RetireChanges, FenceCurrent, Present
    <2>3. ASSUME NEW s \in Streams, NEW j \in Instances, stream'[s].owner = j
          PROVE  FenceCurrent(j)' /\ instance'[j].stream = s
      <3>1. stream[s].owner = j
        BY <2>1, <2>3, MembershipAssumption DEF RetireChanges
      <3>2. FenceCurrent(j) /\ instance[j].stream = s
        BY <3>1, MembershipAssumption DEF OwnersAgree
      <3>3. j # i \/ status = "draining"
        BY <2>1, <2>3, <3>2, MembershipAssumption DEF RetireChanges
      <3> QED BY <2>2, <3>2, <3>3
    <2>4. ASSUME NEW p \in Placements, NEW j \in Instances, placement'[p].owner = j
          PROVE  FenceCurrent(j)' /\ instance'[j].place = p
      <3>1. placement[p].owner = j
        BY <2>1, <2>4, MembershipAssumption DEF RetireChanges
      <3>2. FenceCurrent(j) /\ instance[j].place = p
        BY <3>1, MembershipAssumption DEF OwnersAgree
      <3>3. j # i \/ status = "draining"
        BY <2>1, <2>4, <3>2, MembershipAssumption DEF RetireChanges
      <3> QED BY <2>2, <3>2, <3>3
    <2>5. ASSUME NEW j \in Instances, instance'[j].status \in Present
          PROVE  FenceCurrent(j)'
      <3>1. instance[j].status \in Present /\ (j # i \/ status = "draining")
        BY <2>1, <2>5 DEF RetireChanges, OwnerType, InstanceRows, Present
      <3> QED BY <2>2, <3>1 DEF OwnersAgree
    <2> QED BY <1>0, <2>3, <2>4, <2>5, AgreeByInstance
  <1>3. ASSUME NEW g \in Registrations, AdmitIncarnation(g)
        PROVE  OwnersAgree'
    <2>1. AdmitChanges(g)
      BY <1>3, AdmitEffect
    <2>2. FenceCurrent(g.inst)'
      BY <2>1 DEF AdmitChanges, FenceCurrent, Present
    <2>3. ~FenceCurrent(g.inst)
      BY <2>1 DEF AdmitChanges, FenceCurrent, Present
    <2>4. ASSUME NEW s \in Streams, NEW j \in Instances, stream'[s].owner = j
          PROVE  FenceCurrent(j)' /\ instance'[j].stream = s
      <3>1. CASE s = g.stream
        BY <2>1, <2>2, <2>4, <3>1 DEF AdmitChanges
      <3>2. CASE s # g.stream
        <4>1. stream[s] \in [epoch : Nat \ {0}, owner : Instances \cup {None}]
          BY DEF OwnerType
        <4>2. CASE stream[s].owner \in Owners(g)
          <5>1. stream'[s] = [stream[s] EXCEPT !.owner = None]
            BY <2>1, <3>2, <4>2 DEF AdmitChanges
          <5>2. stream'[s].owner = None
            BY <4>1, <5>1
          <5> QED BY <2>4, <5>2, MembershipAssumption
        <4>3. CASE stream[s].owner \notin Owners(g)
          <5>1. stream[s].owner = j /\ j \notin Owners(g)
            BY <2>1, <2>4, <3>2, <4>3 DEF AdmitChanges
          <5>2. FenceCurrent(j) /\ instance[j].stream = s
            BY <5>1, MembershipAssumption DEF OwnersAgree
          <5>3. j # g.inst
            BY <2>3, <5>2
          <5> QED BY <2>1, <5>1, <5>2, <5>3, FenceKept
        <4> QED BY <4>2, <4>3
      <3> QED BY <3>1, <3>2
    <2>5. ASSUME NEW p \in Placements, NEW j \in Instances, placement'[p].owner = j
          PROVE  FenceCurrent(j)' /\ instance'[j].place = p
      <3>1. CASE p = g.place
        BY <2>1, <2>2, <2>5, <3>1 DEF AdmitChanges
      <3>2. CASE p # g.place
        <4>1. placement[p] \in [epoch : Nat, owner : Instances \cup {None}]
          BY DEF OwnerType
        <4>2. CASE placement[p].owner \in Owners(g)
          <5>1. placement'[p] = [placement[p] EXCEPT !.owner = None]
            BY <2>1, <3>2, <4>2 DEF AdmitChanges
          <5>2. placement'[p].owner = None
            BY <4>1, <5>1
          <5> QED BY <2>5, <5>2, MembershipAssumption
        <4>3. CASE placement[p].owner \notin Owners(g)
          <5>1. placement[p].owner = j /\ j \notin Owners(g)
            BY <2>1, <2>5, <3>2, <4>3 DEF AdmitChanges
          <5>2. FenceCurrent(j) /\ instance[j].place = p
            BY <5>1, MembershipAssumption DEF OwnersAgree
          <5>3. j # g.inst
            BY <2>3, <5>2
          <5> QED BY <2>1, <5>1, <5>2, <5>3, FenceKept
        <4> QED BY <4>2, <4>3
      <3> QED BY <3>1, <3>2
    <2>6. ASSUME NEW j \in Instances, instance'[j].status \in Present
          PROVE  FenceCurrent(j)'
      <3>1. CASE j = g.inst
        BY <2>1, <3>1 DEF AdmitChanges, FenceCurrent, Present
      <3>2. CASE j # g.inst
        <4>1. j \notin Owners(g) /\ instance[j].status \in Present
          BY <2>1, <2>6, <3>2, AdmitRow DEF Present
        <4>2. FenceCurrent(j)
          BY <4>1 DEF OwnersAgree
        <4> QED BY <2>1, <3>2, <4>1, <4>2, FenceKept
      <3> QED BY <3>1, <3>2
    <2> QED BY <1>0, <2>4, <2>5, <2>6, AgreeByInstance
  <1>4. ASSUME NEW S \in SUBSET Instances, RetireAll(S)
        PROVE  OwnersAgree'
    <2>1. RetireAllChanges(S)
      BY <1>4, RetireAllEffect
    <2>2. ASSUME NEW j \in Instances, FenceCurrent(j), j \notin S
          PROVE  FenceCurrent(j)' /\ instance'[j].stream = instance[j].stream
                 /\ instance'[j].place = instance[j].place
      <3>1. instance[j].stream \in Streams /\ instance[j].place \in Placements
        BY <2>2 DEF FenceCurrent, Present, Rowed
      <3> QED BY <2>1, <2>2, <3>1 DEF RetireAllChanges, FenceCurrent
    <2>3. ASSUME NEW s \in Streams, NEW j \in Instances, stream'[s].owner = j
          PROVE  FenceCurrent(j)' /\ instance'[j].stream = s
      <3>1. stream[s].owner = j /\ j \notin S
        BY <2>1, <2>3, MembershipAssumption DEF RetireAllChanges
      <3>2. FenceCurrent(j) /\ instance[j].stream = s
        BY <3>1, MembershipAssumption DEF OwnersAgree
      <3> QED BY <2>2, <3>1, <3>2
    <2>4. ASSUME NEW p \in Placements, NEW j \in Instances, placement'[p].owner = j
          PROVE  FenceCurrent(j)' /\ instance'[j].place = p
      <3>1. placement[p].owner = j /\ j \notin S
        BY <2>1, <2>4, MembershipAssumption DEF RetireAllChanges
      <3>2. FenceCurrent(j) /\ instance[j].place = p
        BY <3>1, MembershipAssumption DEF OwnersAgree
      <3> QED BY <2>2, <3>1, <3>2
    <2>5. ASSUME NEW j \in Instances, instance'[j].status \in Present
          PROVE  FenceCurrent(j)'
      <3>1. instance[j].status \in Present /\ j \notin S
        BY <2>1, <2>5 DEF RetireAllChanges, Present
      <3> QED BY <2>2, <3>1 DEF OwnersAgree
    <2> QED BY <1>0, <2>3, <2>4, <2>5, AgreeByInstance
  <1> QED BY <1>1, <1>2, <1>3, <1>4 DEF OwnerStep

-----------------------------------------------------------------------------
(* Requests and the instances they admitted.                               *)

\* A row that is over by an admission is not written again.
LEMMA AdmittedStays ==
  ASSUME LaunchType, RestType, LaunchStep, NEW q \in Requests,
         launch[q].state = "admitted"
  PROVE  launch'[q] = launch[q]
  <1>1. ASSUME NEW r \in Requests, Planning(r) PROVE launch'[q] = launch[q]
    BY <1>1 DEF Planning, Planned, LaunchType
  <1>2. ASSUME NEW r \in Requests, Transition(r) PROVE launch'[q] = launch[q]
    <2>1. r # q
      BY <1>2, MovedRow, MoveEnds
    <2> QED BY <1>2, <2>1, MovedRow DEF LaunchType
  <1>3. ASSUME NEW r \in Requests, Resolution(r) PROVE launch'[q] = launch[q]
    <2>1. r # q
      BY <1>3, ResolvedRow DEF Unsure
    <2> QED BY <1>3, <2>1, ResolvedRow DEF LaunchType
  <1>4. ASSUME NEW r \in Requests, Admitted(r) PROVE launch'[q] = launch[q]
    BY <1>4 DEF Admitted, Admissible, Unsure, LaunchType
  <1> QED BY <1>1, <1>2, <1>3, <1>4 DEF LaunchStep

\* The steps that admit nobody: only statuses of present instances change.
LeavingStep ==
    \/ UNCHANGED ownerVars
    \/ \E j \in Instances, status \in {"draining", "retired"} : Retire(j, status)
    \/ \E S \in SUBSET Instances : RetireAll(S)

\* These keep each row but for its status.
LEMMA RowsKept ==
  ASSUME OwnerType, Rowed, OwnersAgree, NEW i \in Instances, LeavingStep
  PROVE  /\ instance'[i].request = instance[i].request
         /\ instance'[i].stream = instance[i].stream
         /\ instance'[i].epoch = instance[i].epoch
         /\ instance'[i].status \in Present => instance[i].status \in Present
         /\ instance[i].status = "none" => instance'[i].status = "none"
         /\ \A s \in Streams : stream'[s].epoch = stream[s].epoch
  <1>1. CASE UNCHANGED ownerVars
    BY <1>1 DEF ownerVars
  <1>2. ASSUME NEW j \in Instances, NEW status \in {"draining", "retired"},
               Retire(j, status)
        PROVE  /\ instance'[i].request = instance[i].request
               /\ instance'[i].stream = instance[i].stream
               /\ instance'[i].epoch = instance[i].epoch
               /\ instance'[i].status \in Present => instance[i].status \in Present
               /\ instance[i].status = "none" => instance'[i].status = "none"
               /\ \A s \in Streams : stream'[s].epoch = stream[s].epoch
    <2>1. RetireChanges(j, status)
      BY <1>2, RetireEffect
    <2>2. instance[i] \in InstanceRows
      BY DEF OwnerType
    <2>3. CASE i = j
      <3>1. instance'[i] = [instance[i] EXCEPT !.status = status]
        BY <2>1, <2>3 DEF RetireChanges, OwnerType
      <3> QED BY <2>1, <2>2, <2>3, <3>1, StatusRow DEF RetireChanges, Present
    <2>4. CASE i # j
      BY <2>1, <2>4 DEF RetireChanges, OwnerType
    <2> QED BY <2>3, <2>4
  <1>3. ASSUME NEW S \in SUBSET Instances, RetireAll(S)
        PROVE  /\ instance'[i].request = instance[i].request
               /\ instance'[i].stream = instance[i].stream
               /\ instance'[i].epoch = instance[i].epoch
               /\ instance'[i].status \in Present => instance[i].status \in Present
               /\ instance[i].status = "none" => instance'[i].status = "none"
               /\ \A s \in Streams : stream'[s].epoch = stream[s].epoch
    <2>1. RetireAllChanges(S)
      BY <1>3, RetireAllEffect
    <2> QED BY <2>1 DEF RetireAllChanges, FenceCurrent, Present
  <1> QED BY <1>1, <1>2, <1>3 DEF LeavingStep

\* Admissions after a step.
LEMMA AdmissionStep ==
  ASSUME OwnerType, LaunchType, RestType, Rowed, OwnersAgree, OneAdmission,
         OwnerStep, LaunchStep
  PROVE  OneAdmission'
  <1>1. ASSUME NEW i \in Instances, instance[i].request # None
        PROVE  /\ launch'[instance[i].request].state = "admitted"
               /\ launch'[instance[i].request].admitted = i
    <2>1. instance[i].request \in Requests
      BY <1>1 DEF OwnerType, InstanceRows
    <2> QED BY <1>1, <2>1, AdmittedStays DEF OneAdmission
  <1>2. CASE LeavingStep
    BY <1>1, <1>2, RowsKept DEF OneAdmission
  <1>3. ASSUME NEW g \in Registrations, AdmitIncarnation(g) PROVE OneAdmission'
    <2>1. AdmitChanges(g)
      BY <1>3, AdmitEffect
    <2>2. ASSUME NEW i \in Instances, instance'[i].request # None
          PROVE  /\ launch'[instance'[i].request].state = "admitted"
                 /\ launch'[instance'[i].request].admitted = i
      <3>1. CASE i = g.inst
        <4>1. instance'[i].request = g.request /\ g.request \in Requests
          BY <2>1, <2>2, <3>1 DEF AdmitChanges
        <4>2. launch' = [launch EXCEPT ![g.request] =
                [@ EXCEPT !.state = "admitted", !.admitted = g.inst,
                          !.deadline = None, !.reserved = FALSE]]
          BY <1>3, <2>2, <4>1 DEF AdmitIncarnation, SettleRequest
        <4> QED BY <3>1, <4>1, <4>2 DEF LaunchType, LaunchRows
      <3>2. CASE i # g.inst
        BY <1>1, <2>1, <2>2, <3>2, AdmitRow
      <3> QED BY <3>1, <3>2
    <2> QED BY <2>2 DEF OneAdmission
  <1> QED BY <1>2, <1>3 DEF OwnerStep, LeavingStep

-----------------------------------------------------------------------------
(* Stream epochs.                                                          *)

\* No instance has an epoch that its stream has not reached.
EpochBound ==
    \A i \in Instances : instance[i].stream # None =>
        instance[i].epoch <= stream[instance[i].stream].epoch

\* Epochs after a step.
LEMMA EpochStep ==
  ASSUME OwnerType, Rowed, OwnersAgree, EpochBound, EpochsGrow, OwnerStep
  PROVE  EpochBound' /\ EpochsGrow'
  <1>0. \A i \in Instances : /\ instance[i].epoch \in Nat
                             /\ instance[i].stream \in Streams \cup {None}
    BY DEF OwnerType, InstanceRows
  <1>1. CASE LeavingStep
    <2>1. \A i \in Instances :
            /\ instance'[i].stream = instance[i].stream
            /\ instance'[i].epoch = instance[i].epoch
            /\ instance'[i].status \in Present => instance[i].status \in Present
            /\ \A s \in Streams : stream'[s].epoch = stream[s].epoch
      BY <1>1, RowsKept
    <2>2. EpochBound'
      BY <1>0, <2>1 DEF EpochBound
    <2>3. EpochsGrow'
      BY <2>1 DEF EpochsGrow
    <2> QED BY <2>2, <2>3
  <1>2. ASSUME NEW g \in Registrations, AdmitIncarnation(g)
        PROVE  EpochBound' /\ EpochsGrow'
    <2>1. AdmitChanges(g)
      BY <1>2, AdmitEffect
    <2>2. /\ g.inst \in Instances /\ g.stream \in Streams
          /\ instance'[g.inst].stream = g.stream
          /\ instance'[g.inst].epoch = NextEpoch(g.stream)
          /\ stream'[g.stream].epoch = NextEpoch(g.stream)
      BY <2>1 DEF AdmitChanges
    <2>3. /\ NextEpoch(g.stream) \in Nat
          /\ NextEpoch(g.stream) >= stream[g.stream].epoch
          /\ UsedBefore(g.stream) => NextEpoch(g.stream) > stream[g.stream].epoch
      BY <2>2, EpochType
    <2>4. \A i \in Instances \ {g.inst} :
            /\ instance'[i].stream = instance[i].stream
            /\ instance'[i].epoch = instance[i].epoch
            /\ instance'[i].status =
                 IF i \in Owners(g) THEN "retired" ELSE instance[i].status
      BY <2>1, AdmitRow
    <2>5. \A s \in Streams : stream[s].epoch \in Nat
      BY DEF OwnerType
    <2>6. \A s \in Streams \ {g.stream} : stream'[s].epoch = stream[s].epoch
      <3> SUFFICES ASSUME NEW s \in Streams \ {g.stream}
                   PROVE  stream'[s].epoch = stream[s].epoch
        OBVIOUS
      <3>1. stream[s] \in [epoch : Nat \ {0}, owner : Instances \cup {None}]
        BY DEF OwnerType
      <3> QED BY <2>1, <3>1 DEF AdmitChanges
    <2>7. ASSUME NEW j \in Instances \ {g.inst}, instance[j].stream = g.stream
          PROVE  /\ instance'[j].epoch < NextEpoch(g.stream)
                 /\ instance'[j].status \notin Present
      <3>1. instance[j].stream # None
        BY <2>2, <2>7, MembershipAssumption
      <3>2. instance[j].epoch <= stream[g.stream].epoch /\ UsedBefore(g.stream)
        BY <2>7, <3>1 DEF EpochBound, UsedBefore
      <3>3. instance'[j].epoch < NextEpoch(g.stream)
        BY <1>0, <2>2, <2>3, <2>4, <2>5, <3>2
      <3>4. instance[j].status \in Present => j \in Owners(g)
        BY <2>7, MembershipAssumption DEF OwnersAgree, FenceCurrent, Owners
      <3> QED BY <2>4, <3>3, <3>4 DEF Present
    <2>8. EpochBound'
      <3> SUFFICES ASSUME NEW i \in Instances, instance'[i].stream # None
                   PROVE  instance'[i].epoch <= stream'[instance'[i].stream].epoch
        BY DEF EpochBound
      <3>1. CASE i = g.inst
        BY <2>2, <2>3, <3>1
      <3>2. CASE i # g.inst /\ instance[i].stream = g.stream
        BY <1>0, <2>2, <2>3, <2>4, <2>7, <3>2
      <3>3. CASE i # g.inst /\ instance[i].stream # g.stream
        BY <1>0, <2>4, <2>6, <3>3 DEF EpochBound
      <3> QED BY <3>1, <3>2, <3>3
    <2>9. EpochsGrow'
      <3> SUFFICES ASSUME NEW i \in Instances, NEW j \in Instances, i # j,
                          instance'[i].stream = instance'[j].stream,
                          instance'[i].stream # None
                   PROVE  /\ instance'[i].epoch # instance'[j].epoch
                          /\ instance'[i].status \in Present =>
                               instance'[i].epoch > instance'[j].epoch
        BY DEF EpochsGrow
      <3>1. CASE i = g.inst
        BY <1>0, <2>2, <2>3, <2>4, <2>7, <3>1
      <3>2. CASE j = g.inst
        BY <1>0, <2>2, <2>3, <2>4, <2>7, <3>2
      <3>3. CASE i # g.inst /\ j # g.inst
        BY <2>4, <3>3 DEF EpochsGrow, Present
      <3> QED BY <3>1, <3>2, <3>3
    <2> QED BY <2>8, <2>9
  <1> QED BY <1>1, <1>2 DEF OwnerStep, LeavingStep

-----------------------------------------------------------------------------
(* The close.                                                              *)

\* Fences are frozen by the close; whoever is present in it was frozen and not
\* given up, and nobody is after it.
CloseFrozen ==
    /\ ctl.state \in {"open", "preclosing"} =>
         \A i \in Instances : ctl.frozen[i] = "none"
    /\ ctl.state = "closing" =>
         \A i \in Instances : instance[i].status \in Present =>
           ctl.frozen[i] \in {"awaiting_ack", "acked"}
    /\ ctl.state = "finalized" =>
         \A i \in Instances : instance[i].status \notin Present

\* What each step does to the controller's row.
CtlStep ==
    \/ UNCHANGED ctl
    \/ /\ ctl.state = "open" /\ ctl'.state = "preclosing" /\ ctl'.frozen = ctl.frozen
       /\ UNCHANGED ownerVars
    \/ /\ ctl.state \in {"open", "preclosing"} /\ ctl'.state = "closing"
       /\ \A i \in Instances : ctl'.frozen[i] =
            IF instance[i].status \in Present THEN "awaiting_ack" ELSE "none"
       /\ UNCHANGED ownerVars
    \/ \E i \in Instances, state \in {"acked", "hard_crash"} :
         /\ ctl.state = "closing" /\ ctl'.state = "closing"
         /\ ctl.frozen[i] = "awaiting_ack" /\ ctl'.frozen[i] = state
         /\ \A j \in Instances \ {i} : ctl'.frozen[j] = ctl.frozen[j]
         /\ \/ state = "acked" /\ UNCHANGED ownerVars
            \/ state = "acked" /\ Retire(i, "draining")
            \/ state = "hard_crash" /\ Retire(i, "retired")
    \/ /\ ctl.state = "closing" /\ ctl'.state = "finalized" /\ ctl'.frozen = ctl.frozen
       /\ \A i \in Instances : ctl.frozen[i] # "awaiting_ack"
       /\ RetireAll(Acked)

\* An answer changes the state of one frozen fence.
LEMMA AnsweredRow ==
  ASSUME RestType, NEW i \in Instances, NEW state \in {"acked", "hard_crash"},
         Answered(i, state)
  PROVE  /\ ctl.state = "closing" /\ ctl'.state = "closing"
         /\ ctl.frozen[i] = "awaiting_ack" /\ ctl'.frozen[i] = state
         /\ \A j \in Instances \ {i} : ctl'.frozen[j] = ctl.frozen[j]
  BY DEF Answered, RestType

\* These are all the steps of the module.
LEMMA NextCtl == RestType /\ [MembershipNext]_vars => CtlStep
  <1> SUFFICES ASSUME RestType, [MembershipNext]_vars PROVE CtlStep
    OBVIOUS
  <1>1. CASE BeginPreclose
    <2>1. /\ ctl' = [ctl EXCEPT !.state = "preclosing", !.cutoff = now]
          /\ ctl.state = "open" /\ UNCHANGED ownerVars
      BY <1>1 DEF BeginPreclose, ownerVars
    <2>2. "preclosing" \in ControllerStates /\ now \in Nat
      BY MembershipAssumption DEF ControllerStates, RestType
    <2>3. ctl'.state = "preclosing" /\ ctl'.frozen = ctl.frozen
      BY <2>1, <2>2, PrecloseRow DEF RestType
    <2> QED BY <2>1, <2>3 DEF CtlStep
  <1>2. CASE BeginClose
    <2> DEFINE frozen == [i \in Instances |->
                 IF instance[i].status \in Present THEN "awaiting_ack" ELSE "none"]
    <2>1. /\ frozen \in [Instances -> FrozenStates]
          /\ \A i \in Instances : frozen[i] =
               IF instance[i].status \in Present THEN "awaiting_ack" ELSE "none"
      BY DEF FrozenStates
    <2>2. /\ ctl' = [ctl EXCEPT !.state = "closing", !.cutoff = 0, !.frozen = frozen]
          /\ ctl.state \in {"open", "preclosing"} /\ UNCHANGED ownerVars
      BY <1>2 DEF BeginClose, ownerVars
    <2> HIDE DEF frozen
    <2>3. ctl'.state = "closing" /\ ctl'.frozen = frozen
      BY <2>1, <2>2, CtlRow DEF RestType, ControllerStates
    <2> QED BY <2>1, <2>2, <2>3 DEF CtlStep
  <1>3. ASSUME NEW i \in Instances, HardCrash(i) PROVE CtlStep
    BY <1>3, AnsweredRow DEF HardCrash, CtlStep
  <1>4. ASSUME NEW i \in Instances, NEW final \in BOOLEAN, AcknowledgeClose(i, final)
        PROVE  CtlStep
    <2>1. Answered(i, "acked") /\ (Retire(i, "draining") \/ UNCHANGED ownerVars)
      BY <1>4 DEF AcknowledgeClose
    <2> QED BY <2>1, AnsweredRow DEF CtlStep
  <1>5. CASE FinalizeClose
    <2>1. /\ ctl.state = "closing" /\ RetireAll(Acked)
          /\ \A i \in Instances : ctl.frozen[i] # "awaiting_ack"
          /\ ctl' = [ctl EXCEPT !.state = "finalized"]
      BY <1>5 DEF FinalizeClose
    <2>2. ctl'.state = "finalized" /\ ctl'.frozen = ctl.frozen
      BY <2>1 DEF RestType
    <2> QED BY <2>1, <2>2 DEF CtlStep
  <1>6. CASE UNCHANGED ctl
    BY <1>6 DEF CtlStep
  <1> QED
    BY <1>1, <1>2, <1>3, <1>4, <1>5, <1>6
       DEF MembershipNext, AcquireLeader, Tick, RetireIncarnation, AdmitIncarnation,
           PlanLaunch, TransitionLaunch, ResolveLaunch, vars

\* A fence that has answered or was given up in the close stays so.
LEMMA AnswerStands ==
  ASSUME CloseFrozen, CtlStep, NEW i \in Instances,
         ctl.frozen[i] \in {"acked", "hard_crash"}
  PROVE  ctl'.frozen[i] \in {"acked", "hard_crash"}
  BY DEF CloseFrozen, CtlStep

\* Nobody is present after a step who was not before, once the input is closed.
LEMMA ClosedStep ==
  ASSUME OwnerType, Rowed, OwnersAgree, OwnerStep, ctl.state \in Closed,
         NEW i \in Instances, instance'[i].status \in Present
  PROVE  instance[i].status \in Present
  <1>1. LeavingStep
    BY AdmitChecks DEF OwnerStep, LeavingStep
  <1> QED BY <1>1, RowsKept

\* The frozen fences after each of these steps.
LEMMA CloseStep ==
  ASSUME OwnerType, Rowed, OwnersAgree, RestType, CloseFrozen, OwnerStep, CtlStep
  PROVE  CloseFrozen'
  <1>1. CASE UNCHANGED ctl
    BY <1>1, ClosedStep DEF CloseFrozen, Closed
  <1>2. CASE /\ ctl.state = "open" /\ ctl'.state = "preclosing"
             /\ ctl'.frozen = ctl.frozen
    BY <1>2 DEF CloseFrozen
  <1>3. CASE /\ ctl.state \in {"open", "preclosing"} /\ ctl'.state = "closing"
             /\ \A i \in Instances : ctl'.frozen[i] =
                  IF instance[i].status \in Present THEN "awaiting_ack" ELSE "none"
             /\ UNCHANGED ownerVars
    BY <1>3 DEF CloseFrozen, ownerVars
  <1>4. ASSUME NEW i \in Instances, NEW state \in {"acked", "hard_crash"},
               ctl.state = "closing", ctl'.state = "closing",
               ctl.frozen[i] = "awaiting_ack", ctl'.frozen[i] = state,
               \A j \in Instances \ {i} : ctl'.frozen[j] = ctl.frozen[j],
               state = "acked" \/ Retire(i, "retired")
        PROVE  CloseFrozen'
    <2> SUFFICES ASSUME NEW j \in Instances, instance'[j].status \in Present
                 PROVE  ctl'.frozen[j] \in {"awaiting_ack", "acked"}
      BY <1>4 DEF CloseFrozen
    <2>1. instance[j].status \in Present
      BY <1>4, ClosedStep DEF Closed
    <2>2. CASE j # i
      BY <1>4, <2>1, <2>2 DEF CloseFrozen
    <2>3. CASE j = i /\ state = "acked"
      BY <1>4, <2>3
    <2>4. CASE j = i /\ Retire(i, "retired")
      <3>1. instance'[i].status = "retired"
        BY <2>4 DEF Retire, OwnerType, InstanceRows
      <3> QED BY <2>4, <3>1 DEF Present
    <2> QED BY <1>4, <2>2, <2>3, <2>4
  <1>5. CASE /\ ctl.state = "closing" /\ ctl'.state = "finalized"
             /\ \A i \in Instances : ctl.frozen[i] # "awaiting_ack"
             /\ RetireAll(Acked)
    <2> SUFFICES ASSUME NEW j \in Instances, instance'[j].status \in Present
                 PROVE  FALSE
      BY <1>5 DEF CloseFrozen
    <2>1. instance[j].status \in Present
      BY <1>5, ClosedStep DEF Closed
    <2>2. j \in Acked
      BY <1>5, <2>1 DEF CloseFrozen, Acked
    <2>3. RetireAllChanges(Acked)
      BY <1>5, RetireAllEffect DEF Acked
    <2> QED BY <2>2, <2>3 DEF RetireAllChanges, Present
  <1> QED BY <1>1, <1>2, <1>3, <1>4, <1>5 DEF CtlStep

-----------------------------------------------------------------------------
(* The theorems.                                                           *)

OwnerInv  == OwnerType /\ Rowed /\ OwnersAgree /\ EpochBound /\ EpochsGrow
LaunchInv == LaunchType /\ RestType /\ ReservationHeld

IInv == OwnerInv /\ LaunchInv /\ OneAdmission /\ CloseFrozen

\* The inductive invariant holds at first.
LEMMA InitIInv == MembershipInit => IInv
  <1> SUFFICES ASSUME MembershipInit PROVE IInv
    OBVIOUS
  <1>1. OwnerType /\ LaunchType /\ RestType
    BY InitType, TypeParts
  <1>2. Rowed /\ OwnersAgree /\ EpochBound /\ EpochsGrow /\ OneAdmission
    BY DEF MembershipInit, Rowed, OwnersAgree, EpochBound, EpochsGrow, OneAdmission,
           Present
  <1>7. CloseFrozen
    BY DEF MembershipInit, CloseFrozen
  <1>3. ReservedRequests = {}
    BY DEF MembershipInit, ReservedRequests
  <1>4. Cardinality({}) = 0 /\ 0 <= MaxPending
    BY FS_EmptySet, MembershipAssumption
  <1>5. Cardinality(ReservedRequests) <= MaxPending
    BY ONLY <1>3, <1>4
  <1>6. ReservationHeld
    BY <1>5 DEF MembershipInit, ReservationHeld, ReservedRequests, Planned
  <1> QED BY <1>1, <1>2, <1>6, <1>7 DEF IInv, OwnerInv, LaunchInv

\* Every step keeps the inductive invariant.
LEMMA NextIInv == IInv /\ [MembershipNext]_vars => IInv'
  <1> SUFFICES ASSUME IInv, [MembershipNext]_vars PROVE IInv'
    OBVIOUS
  <1>1. LaunchStep /\ OwnerStep /\ CtlStep /\ RestType'
    BY NextLaunch, NextOwners, NextCtl, NextRest DEF IInv, LaunchInv
  <1>2. LaunchType' /\ ReservationHeld'
    BY <1>1, LaunchTypeStep, ReservationStep DEF IInv, LaunchInv
  <1>3. OwnerType' /\ Rowed' /\ OwnersAgree'
    BY <1>1, OwnerTypeStep, OwnersStep DEF IInv, OwnerInv
  <1>4. EpochBound' /\ EpochsGrow'
    BY <1>1, EpochStep DEF IInv, OwnerInv
  <1>5. OneAdmission'
    BY <1>1, AdmissionStep DEF IInv, OwnerInv, LaunchInv
  <1>6. CloseFrozen'
    BY <1>1, CloseStep DEF IInv, OwnerInv, LaunchInv
  <1> QED BY <1>1, <1>2, <1>3, <1>4, <1>5, <1>6 DEF IInv, OwnerInv, LaunchInv

\* The inductive invariant holds in every reachable state.
LEMMA Inductive == MembershipSpec => []IInv
  <1> QED BY InitIInv, NextIInv, PTL DEF MembershipSpec

\* Every variable keeps its type, and every uncertain launch has a deadline.
THEOREM MembershipTyped == MembershipSpec => []MembershipTypeOK
  <1>1. IInv => MembershipTypeOK
    BY TypeParts DEF IInv, OwnerInv, LaunchInv
  <1> QED BY <1>1, Inductive, PTL

\* The instance, stream and placement tables name the same owners, whatever
\* sequence of admissions, replacements and retirements the leaders issue.
THEOREM TablesAgree == MembershipSpec => []OwnersAgree
  <1>1. IInv => OwnersAgree
    BY DEF IInv, OwnerInv
  <1> QED BY <1>1, Inductive, PTL

\* Every takeover of a stream gets an epoch above all that came before it.
THEOREM TakeoversFence == MembershipSpec => []EpochsGrow
  <1>1. IInv => EpochsGrow
    BY DEF IInv, OwnerInv
  <1> QED BY <1>1, Inductive, PTL

\* A launch request admits at most one instance.
THEOREM RequestsAdmitOnce == MembershipSpec => []OneAdmission
  <1>1. IInv => OneAdmission
    BY DEF IInv
  <1> QED BY <1>1, Inductive, PTL

\* Reservations stay within the budget, one to a stream, until a request is
\* admitted, has failed or has expired.
THEOREM BudgetHeld == MembershipSpec => []ReservationHeld
  <1>1. IInv => ReservationHeld
    BY DEF IInv, LaunchInv
  <1> QED BY <1>1, Inductive, PTL

\* A deadline is not moved while the uncertainty it belongs to lasts.
THEOREM DeadlineStands == MembershipSpec => DeadlineFixed
  <1>1. ASSUME LaunchType, RestType, LaunchStep, NEW q \in Requests,
               launch[q].state \in Unsure, launch'[q].state \in Unsure
        PROVE  launch'[q].deadline = launch[q].deadline
    <2>1. launch[q].deadline # None
      BY <1>1 DEF LaunchType, DeadlineType
    <2>2. ASSUME NEW r \in Requests, Planning(r)
          PROVE  launch'[q].deadline = launch[q].deadline
      BY <1>1, <2>2 DEF Planning, Planned, LaunchType, Unsure
    <2>3. ASSUME NEW r \in Requests, Transition(r)
          PROVE  launch'[q].deadline = launch[q].deadline
      <3>1. PICK row \in LaunchRows :
                   /\ launch' = [launch EXCEPT ![r] = row]
                   /\ row.deadline = Deadline(r, row.state)
        BY <1>1, <2>3, MovedRow
      <3>2. CASE r = q
        <4>1. launch'[q] = row
          BY <1>1, <3>1, <3>2 DEF LaunchType
        <4> QED BY <1>1, <2>1, <3>1, <3>2, <4>1 DEF Deadline, Unsure
      <3>3. CASE r # q
        BY <3>1, <3>3 DEF LaunchType
      <3> QED BY <3>2, <3>3
    <2>4. ASSUME NEW r \in Requests, Resolution(r)
          PROVE  launch'[q].deadline = launch[q].deadline
      BY <1>1, <2>4, ResolvedRow DEF LaunchType, Unsure
    <2>5. ASSUME NEW r \in Requests, Admitted(r)
          PROVE  launch'[q].deadline = launch[q].deadline
      BY <1>1, <2>5 DEF Admitted, LaunchType, LaunchRows, Unsure
    <2> QED BY <1>1, <2>2, <2>3, <2>4, <2>5 DEF LaunchStep
  <1>2. IInv /\ [MembershipNext]_vars =>
          [\A r \in Requests :
             launch[r].state \in Unsure /\ launch'[r].state \in Unsure
               => launch'[r].deadline = launch[r].deadline]_vars
    BY <1>1, NextLaunch DEF IInv, LaunchInv
  <1> QED BY <1>2, Inductive, PTL DEF MembershipSpec, DeadlineFixed

\* Nobody is admitted after the terminal input is closed.
THEOREM ClosedMeansClosed == MembershipSpec => ClosedToAdmission
  <1>1. ASSUME OwnerType, Rowed, OwnersAgree, OwnerStep, ctl.state \in Closed,
               NEW i \in Instances, instance[i].status = "none"
        PROVE  instance'[i].status = "none"
    <2>1. ~ \E g \in Registrations : AdmitIncarnation(g)
      BY <1>1, AdmitChecks
    <2> QED BY <1>1, <2>1, RowsKept DEF OwnerStep, LeavingStep
  <1>2. IInv /\ [MembershipNext]_vars =>
          [ctl.state \in Closed =>
             \A i \in Instances : instance[i].status = "none" =>
               instance'[i].status = "none"]_vars
    BY <1>1, NextOwners DEF IInv, OwnerInv
  <1> QED BY <1>2, Inductive, PTL DEF MembershipSpec, ClosedToAdmission

-----------------------------------------------------------------------------
(* The leaders' programs.                                                  *)
(* Types, and what is known of jobs.                                       *)

CandRows == [at : {"absent", "idle", "submit", "posted", "dead"},
             req : Requests \cup {None}, job : Jobs \cup {None}]

JobRows == [state : JobStates, stream : Streams \cup {None}, req : Requests \cup {None},
            place : Placements \cup {None}, runs : 0 .. MaxReruns + 1]

\* A job that waits has a start left; one that was never submitted has nothing.
JobsRight ==
    /\ jobs \in [Jobs -> JobRows]
    /\ \A j \in Jobs :
         /\ jobs[j].state = "none" => jobs[j].req = None /\ jobs[j].runs = 0
         /\ jobs[j].state # "none" => jobs[j].stream \in Streams
         /\ jobs[j].state = "queued" => jobs[j].runs <= MaxReruns

JobsTyped == JobsRight /\ lost \in 0 .. MaxLost

\* Who submits, or has submitted, does it for a request.
CandsTyped ==
    /\ cand \in [Epochs -> CandRows]
    /\ \A e \in Epochs : At(e, "submit") \/ At(e, "posted") => cand[e].req \in Requests

\* A request that was planned names a stream.
RowsPlaced == \A r \in Requests : launch[r].state # "none" => launch[r].stream \in Streams

\* A learner that replaces another one was submitted for a request.
FilesTyped ==
    /\ ran \subseteq Instances
    /\ files \subseteq Registrations /\ recorded \subseteq Registrations
    /\ deferred \subseteq files \cap recorded
    /\ \A g \in files : g.request = None => g.replaces = None

AsksTyped ==
    /\ IsFiniteSet(issued) /\ IsFiniteSet(Asked)
    /\ Cardinality(Asked) <= MaxOperator
    /\ Cardinality(issued) <= Cardinality(Asked) + MaxRepeats
    /\ opfiles \subseteq issued /\ applied \subseteq issued
    /\ audit \subseteq {f.req : f \in applied}
    /\ \A f \in issued : f.req.launch \in Requests /\ f.req.action \in Actions

PostedJobs ==
    \A e \in Epochs : At(e, "posted") /\ cand[e].job # None =>
        cand[e].job \in Submitted(cand[e].req)

\* Whatever is known as the job of a request was submitted for it.
JobsKnown ==
    /\ \A r \in Requests : launch[r].job # None => launch[r].job \in Submitted(r)
    /\ PostedJobs
    /\ \A f \in issued : f.req.job # None => f.req.job \in Submitted(f.req.launch)

Typed == JobsTyped /\ CandsTyped /\ RowsPlaced /\ FilesTyped /\ AsksTyped /\ JobsKnown

Submits(e, r) == At(e, "submit") /\ cand[e].req = r

\* Nothing is submitted for a request before its row says so; one candidate
\* submits for it, and only while nothing was submitted.
Submission ==
    /\ \A r \in Requests : launch[r].state \in {"none", "planned"} =>
         Submitted(r) = {} /\ \A e \in Epochs : ~Submits(e, r)
    /\ \A r \in Requests, e, f \in Epochs : Submits(e, r) /\ Submits(f, r) => e = f
    /\ \A r \in Requests, e \in Epochs : Submits(e, r) => Submitted(r) = {}
    /\ \A r \in Requests, j, k \in Jobs : j \in Submitted(r) /\ k \in Submitted(r) => j = k

\* Constants that are not confused.
LEMMA NoneApart ==
  /\ None \notin Requests /\ None \notin Jobs /\ None \notin Instances
  /\ None \notin Streams /\ Requests \subseteq Nat /\ Epochs \subseteq Nat
  BY MembershipAssumption, CapacityAssumption DEF Requests, Epochs

\* The types are right at first.
LEMMA InitTyped == CapacityInit => Typed
  <1> SUFFICES ASSUME CapacityInit PROVE Typed
    OBVIOUS
  <1>1. JobsTyped
    BY CapacityAssumption DEF CapacityInit, JobsTyped, JobsRight, JobRows, JobStates
  <1>2. CandsTyped
    BY DEF CapacityInit, CandsTyped, CandRows, At
  <1>3. FilesTyped
    BY CapacityAssumption DEF CapacityInit, FilesTyped
  <1>4. AsksTyped
    <2>1. Asked = {} /\ issued = {} /\ opfiles = {} /\ applied = {} /\ audit = {}
      BY DEF CapacityInit, Asked
    <2>2. IsFiniteSet({}) /\ Cardinality({}) = 0
      BY FS_EmptySet
    <2>3. MaxOperator \in Nat /\ MaxRepeats \in Nat
      BY CapacityAssumption
    <2> HIDE DEF Asked
    <2>4. Cardinality(Asked) = 0 /\ Cardinality(issued) = 0
          /\ IsFiniteSet(issued) /\ IsFiniteSet(Asked)
      BY <2>1, <2>2
    <2> QED BY <2>1, <2>3, <2>4 DEF AsksTyped
  <1>5. JobsKnown
    BY DEF CapacityInit, MembershipInit, JobsKnown, PostedJobs, At
  <1>6. RowsPlaced
    BY DEF CapacityInit, MembershipInit, RowsPlaced
  <1> QED BY <1>1, <1>2, <1>3, <1>4, <1>5, <1>6 DEF Typed

-----------------------------------------------------------------------------
(* What a step does to the jobs, the candidates and the tables.            *)

\* A job that waits or runs starts, ends or waits again.
JobMoves(j) ==
    /\ jobs[j].state \in Positive
    /\ \E row \in JobRows :
         /\ jobs' = [jobs EXCEPT ![j] = row]
         /\ row.req = jobs[j].req /\ row.stream = jobs[j].stream
         /\ row.state \in Positive \cup {"finished"}
         /\ row.state = "queued" => row.runs <= MaxReruns

\* A job is submitted.
Enqueued(j, r) == \E s \in Streams : Enqueue(j, s, r)

\* The operator asks for a decision on the row as it is.
SeenByOperator(r) == \E f \in opfiles : f.req.launch = r /\ f.req.seen = Seen(r)

\* A launch row goes on, on evidence of its jobs or by the operator's decision.
RowMoves(r) ==
    \E row \in LaunchRows :
        /\ launch' = [launch EXCEPT ![r] = row]
        /\ launch[r].state \notin {"none", "failed", "expired", "admitted"}
        /\ row.state \notin {"none", "planned"}
        /\ row.replaces = launch[r].replaces /\ row.stream = launch[r].stream
        /\ row.job = launch[r].job \/ row.job \in Submitted(r)
        /\ launch[r].noted => row.noted
        /\ row.noted => launch[r].noted \/ SeenByOperator(r)
        /\ row.state \in {"failed", "expired"} /\ ~row.noted =>
             \/ launch[r].state = "planned"
             \/ \E j \in Submitted(r) : jobs[j].state = "finished"

\* The kinds of steps.
Rests == UNCHANGED <<launch, ownerVars, cand, jobs, lost>>

Becomes ==
    /\ UNCHANGED <<launch, ownerVars, jobs, lost>>
    /\ \E e \in Epochs, at \in {"idle", "dead"} : Become(e, at, None, None)

JobStep ==
    /\ UNCHANGED <<launch, ownerVars, cand, lost>>
    /\ \E j \in Jobs : JobMoves(j) \/ Enqueued(j, None)

PlanStep ==
    /\ UNCHANGED <<cand, jobs, lost>>
    /\ \/ \E s \in Streams : PlanLaunch(s, None, None)
       \/ \E old \in Instances :
            /\ PlanLaunch(instance[old].stream, old, instance[old].job)
            /\ instance[old].stream \in Streams /\ instance[old].job \in Jobs \cup {None}
            /\ "finished" \in Answers(instance[old].job)

MoveStep ==
    /\ UNCHANGED <<ownerVars, cand, jobs, lost>>
    /\ \E r \in Requests : RowMoves(r)

StartStep ==
    /\ UNCHANGED <<ownerVars, jobs, lost>>
    /\ \E e \in Epochs, r \in Requests :
         /\ launch[r].state = "planned" /\ launch'[r].state = "submitting" /\ RowMoves(r)
         /\ Become(e, "submit", r, None)

SubmitStep ==
    /\ UNCHANGED <<launch, ownerVars>>
    /\ lost' \in {lost, lost + 1} /\ lost' <= MaxLost
    /\ \E e \in Epochs :
         /\ At(e, "submit")
         /\ \/ UNCHANGED jobs /\ Become(e, "posted", cand[e].req, None)
            \/ \E j \in Jobs : /\ Enqueued(j, cand[e].req)
                              /\ \E k \in {j, None} : Become(e, "posted", cand[e].req, k)

RecordStep ==
    /\ UNCHANGED <<ownerVars, jobs, lost>>
    /\ \E e \in Epochs : /\ RowMoves(cand[e].req) /\ cand[e].req \in Requests
                        /\ Become(e, "idle", None, None)

AdmitStep ==
    /\ UNCHANGED <<cand, jobs, lost>>
    /\ \E g \in files :
         /\ AdmitIncarnation(g)
         /\ UNCHANGED launch \/ (g.request \in Requests /\ RowMoves(g.request))

LeaveStep ==
    /\ UNCHANGED <<launch, cand, jobs, lost>>
    /\ \/ \E i \in Instances :
            HardCrash(i) \/ \E final \in BOOLEAN : AcknowledgeClose(i, final)
       \/ FinalizeClose

StepKind ==
    \/ Rests \/ Becomes \/ JobStep \/ PlanStep \/ MoveStep
    \/ StartStep \/ SubmitStep \/ RecordStep \/ AdmitStep \/ LeaveStep

\* A transition that does not end the request, or ends it on evidence, moves
\* its row by a command.
LEMMA TransitionMoves ==
  ASSUME LaunchType, RestType, NEW r \in Requests, NEW from, NEW state,
         NEW job \in Submitted(r) \cup {None}, NEW terminal \in BOOLEAN,
         TransitionLaunch(r, from, state, job, terminal),
         state \in {"failed", "expired"} =>
           from = "planned" \/ \E j \in Submitted(r) : jobs[j].state = "finished"
  PROVE  launch[r].state = from /\ RowMoves(r) /\ MembershipNext
  <1>1. launch[r] \in LaunchRows
    BY DEF LaunchType
  <1>2. /\ launch[r].state = from /\ state \in LaunchStates
        /\ from \notin {"none", "failed", "expired", "admitted"}
    BY MoveEnds DEF TransitionLaunch
  <1>3. state \notin {"none", "planned"}
    BY DEF TransitionLaunch, Moves
  <1> DEFINE kept == IF job = None THEN launch[r].job ELSE job
             held == launch[r].reserved /\ state \notin Released
             row == [launch[r] EXCEPT !.state = state, !.job = kept,
                                      !.deadline = Deadline(r, state), !.reserved = held]
  <1>4. kept \in Jobs \cup {None} /\ (kept = launch[r].job \/ kept \in Submitted(r))
    BY <1>1 DEF LaunchRows, Submitted
  <1>5. Deadline(r, state) \in Nat \cup {None}
    <2>1. now + Uncertainty \in Nat
      BY MembershipAssumption DEF RestType
    <2>2. launch[r].deadline \in Nat \cup {None}
      BY <1>1 DEF LaunchRows
    <2> QED BY <2>1, <2>2 DEF Deadline
  <1>6. held \in BOOLEAN
    OBVIOUS
  <1>7. launch' = [launch EXCEPT ![r] = row]
    BY DEF TransitionLaunch
  <1> HIDE DEF kept, held
  <1>8. /\ row \in LaunchRows /\ row.state = state /\ row.replaces = launch[r].replaces
        /\ row.stream = launch[r].stream
        /\ row.job = kept /\ row.noted = launch[r].noted
    BY <1>1, <1>2, <1>4, <1>5, <1>6 DEF LaunchRows
  <1> HIDE DEF row
  <1>9. RowMoves(r)
    BY <1>2, <1>3, <1>4, <1>7, <1>8 DEF RowMoves
  <1>10. MembershipNext
    <2>1. job \in Jobs \cup {None} /\ <<from, state>> \in Moves
      BY DEF Submitted, TransitionLaunch
    <2>2. <<from, state>>[1] = from /\ <<from, state>>[2] = state
      OBVIOUS
    <2>3. \E move \in Moves : TransitionLaunch(r, move[1], move[2], job, terminal)
      BY <2>1, <2>2
    <2> QED BY <2>1, <2>3 DEF MembershipNext
  <1> QED BY <1>2, <1>9, <1>10

\* Only a job that has ended is said to be finished.
LEMMA FinishedAnswer ==
  ASSUME NEW j, "finished" \in Answers(j)
  PROVE  jobs[j].state = "finished"
  BY DEF Answers

\* An observation of a job moves the row of its request.
LEMMA ObservationMoves ==
  ASSUME LaunchType, RestType, NEW r \in Requests, NEW from, NEW j \in Submitted(r),
         NEW class, class = "finished" => jobs[j].state = "finished",
         Observe(r, from, j, class)
  PROVE  launch[r].state = from /\ RowMoves(r) /\ MembershipNext
  <1>1. CASE class = "finished"
    BY <1>1, TransitionMoves DEF Observe
  <1>2. CASE class # "finished"
    <2>1. PICK state \in {"started", "submitted"} :
                 TransitionLaunch(r, from, state, j, FALSE)
      BY <1>2 DEF Observe
    <2> QED BY <2>1, TransitionMoves
  <1> QED BY <1>1, <1>2

\* The operator's decision moves the row.
LEMMA ResolutionMoves ==
  ASSUME LaunchType, NEW r \in Requests, NEW action \in Actions,
         NEW job \in Submitted(r) \cup {None}, ResolveLaunch(r, action, job),
         SeenByOperator(r)
  PROVE  RowMoves(r)
  <1>1. launch[r] \in LaunchRows /\ launch[r].state \in Unsure \cup {"manual_review"}
    BY DEF LaunchType, ResolveLaunch
  <1>2. launch[r].state \notin {"none", "failed", "expired", "admitted"}
    BY <1>1 DEF Unsure
  <1>3. CASE action = "confirm_job_id"
    <2> DEFINE row == [launch[r] EXCEPT !.state = "submitted", !.job = job, !.deadline = None]
    <2>1. launch' = [launch EXCEPT ![r] = row] /\ job \in Submitted(r) /\ job \in Jobs
      BY <1>3 DEF ResolveLaunch, Submitted
    <2>2. /\ row \in LaunchRows /\ row.state = "submitted" /\ row.job = job
          /\ row.replaces = launch[r].replaces /\ row.stream = launch[r].stream
          /\ row.noted = launch[r].noted
      BY <1>1, <2>1 DEF LaunchRows, LaunchStates, Admissible
    <2> HIDE DEF row
    <2> QED BY <1>2, <2>1, <2>2 DEF RowMoves
  <1>4. CASE action \in {"mark_failed", "mark_expired"}
    <2>1. PICK state \in {"failed", "expired"} : launch' = [launch EXCEPT ![r] =
                 [launch[r] EXCEPT !.state = state, !.noted = TRUE, !.reserved = FALSE]]
      BY <1>4 DEF ResolveLaunch
    <2> DEFINE row == [launch[r] EXCEPT !.state = state, !.noted = TRUE, !.reserved = FALSE]
    <2>2. /\ row \in LaunchRows /\ row.state = state /\ row.job = launch[r].job
          /\ row.replaces = launch[r].replaces /\ row.stream = launch[r].stream
          /\ row.noted = TRUE
      BY <1>1 DEF LaunchRows, LaunchStates, Released
    <2>3. launch' = [launch EXCEPT ![r] = row]
      BY <2>1
    <2> HIDE DEF row
    <2> QED BY <1>2, <2>2, <2>3 DEF RowMoves
  <1>5. CASE action = "record_external_cancel_evidence"
    <2> DEFINE row == [launch[r] EXCEPT !.state = "manual_review", !.noted = TRUE]
    <2>1. launch' = [launch EXCEPT ![r] = row]
      BY <1>5 DEF ResolveLaunch
    <2>2. /\ row \in LaunchRows /\ row.state = "manual_review" /\ row.job = launch[r].job
          /\ row.replaces = launch[r].replaces /\ row.stream = launch[r].stream
          /\ row.noted = TRUE
      BY <1>1 DEF LaunchRows, LaunchStates
    <2> HIDE DEF row
    <2> QED BY <1>2, <2>1, <2>2 DEF RowMoves
  <1> QED BY <1>3, <1>4, <1>5 DEF Actions

\* An admission moves the row of its request, or none.
LEMMA AdmissionMoves ==
  ASSUME LaunchType, NEW g \in Registrations, AdmitIncarnation(g)
  PROVE  UNCHANGED launch \/ (g.request \in Requests /\ RowMoves(g.request))
  <1>0. SettleRequest(g)
    BY DEF AdmitIncarnation
  <1>1. CASE g.request = None
    <2>1. launch' = launch
      BY <1>0, <1>1 DEF SettleRequest
    <2> QED BY <2>1
  <1>2. CASE g.request # None
    <2>1. g.request \in Requests /\ g.inst \in Instances
      BY <1>2 DEF Registrations
    <2>2. launch[g.request].state \in Admissible
      BY <1>2, AdmitChecks
    <2> DEFINE row == [launch[g.request] EXCEPT !.state = "admitted", !.admitted = g.inst,
                                                !.deadline = None, !.reserved = FALSE]
    <2>3. launch' = [launch EXCEPT ![g.request] = row]
      BY <1>0, <1>2 DEF SettleRequest
    <2>4. launch[g.request] \in LaunchRows
      BY <2>1 DEF LaunchType
    <2>5. /\ row \in LaunchRows /\ row.state = "admitted"
          /\ row.replaces = launch[g.request].replaces
          /\ row.stream = launch[g.request].stream
          /\ row.job = launch[g.request].job /\ row.noted = launch[g.request].noted
      BY <2>1, <2>4 DEF LaunchRows, LaunchStates, Released
    <2> HIDE DEF row
    <2> QED BY <2>1, <2>2, <2>3, <2>5 DEF RowMoves, Admissible, Unsure
  <1> QED BY <1>1, <1>2

\* Every step of the programs and of what surrounds them is of one of these
\* kinds, and a command or no change of the tables.
LEMMA StepKinds ==
  ASSUME IInv, Typed, Submission, [CapacityNext]_capacityVars
  PROVE  StepKind /\ [MembershipNext]_vars
  <1>0. /\ LaunchType /\ RestType /\ OwnerType
        /\ JobsTyped /\ CandsTyped /\ FilesTyped /\ AsksTyped /\ JobsKnown
        /\ RowsPlaced
    BY DEF IInv, LaunchInv, OwnerInv, Typed
  <1>1. CASE Takeover
    <2>1. leader + 1 \in Epochs
      BY <1>0, <1>1, MembershipAssumption DEF Takeover, AcquireLeader, RestType, Epochs
    <2>2. Becomes
      BY <1>1, <2>1 DEF Takeover, AcquireLeader, jobVars, Becomes
    <2> QED BY <1>1, <2>2 DEF StepKind, Takeover, MembershipNext
  <1>2. CASE ClockTick
    BY <1>2 DEF ClockTick, Tick, jobVars, StepKind, Rests, MembershipNext
  <1>3. CASE External
    <2>1. ASSUME NEW s \in Streams, SubmitBootstrap(s) PROVE StepKind /\ UNCHANGED vars
      <3>1. PICK j \in Jobs : Enqueue(j, s, None)
        BY <2>1 DEF SubmitBootstrap
      <3>2. Enqueued(j, None)
        BY <3>1 DEF Enqueued
      <3>3. UNCHANGED <<launch, ownerVars, cand, lost>> /\ UNCHANGED vars
        BY <2>1 DEF SubmitBootstrap, vars, ownerVars
      <3> QED BY <3>2, <3>3 DEF StepKind, JobStep
    <2>2. ASSUME NEW j \in Jobs, StartJob(j) \/ FinishJob(j) \/ RequeueJob(j)
          PROVE  StepKind /\ UNCHANGED vars
      <3>1. jobs[j] \in JobRows /\ (jobs[j].state = "queued" => jobs[j].runs <= MaxReruns)
        BY <1>0 DEF JobsTyped, JobsRight
      <3>2. MaxReruns \in Nat
        BY CapacityAssumption
      <3>3. UNCHANGED <<launch, ownerVars, cand, lost>> /\ UNCHANGED vars
        BY <2>2 DEF StartJob, FinishJob, RequeueJob, vars, ownerVars
      <3>4. CASE StartJob(j)
        <4>0. PICK p \in Placements : \E i \in Instances \ ran :
                jobs' = [jobs EXCEPT ![j].state = "running", ![j].place = p,
                                     ![j].runs = @ + 1]
          BY <3>4 DEF StartJob
        <4>1. jobs' = [jobs EXCEPT ![j] =
                [jobs[j] EXCEPT !.state = "running", !.place = p, !.runs = jobs[j].runs + 1]]
          BY <1>0, <3>1, <4>0 DEF JobsTyped, JobsRight, JobRows
        <4> DEFINE row == [jobs[j] EXCEPT !.state = "running", !.place = p,
                                          !.runs = jobs[j].runs + 1]
        <4>2. jobs[j].state = "queued"
          BY <3>4 DEF StartJob
        <4>6. jobs[j].runs + 1 \in 0 .. MaxReruns + 1
          BY <3>1, <3>2, <4>2 DEF JobRows
        <4>3. row \in JobRows /\ row.req = jobs[j].req /\ row.stream = jobs[j].stream
              /\ row.state = "running"
          BY <3>1, <4>6 DEF JobRows, JobStates
        <4>4. jobs' = [jobs EXCEPT ![j] = row]
          BY <4>1
        <4> HIDE DEF row
        <4>5. JobMoves(j)
          BY <4>2, <4>3, <4>4 DEF JobMoves, Positive
        <4> QED BY <3>3, <4>5 DEF StepKind, JobStep
      <3>5. CASE FinishJob(j)
        <4> DEFINE row == [jobs[j] EXCEPT !.state = "finished", !.place = None]
        <4>1. jobs' = [jobs EXCEPT ![j] = row] /\ jobs[j].state \in Positive
          BY <1>0, <3>5 DEF FinishJob, JobsTyped, JobsRight
        <4>2. row \in JobRows /\ row.req = jobs[j].req /\ row.stream = jobs[j].stream
              /\ row.state = "finished"
          BY <3>1 DEF JobRows, JobStates
        <4> HIDE DEF row
        <4>3. JobMoves(j)
          BY <4>1, <4>2 DEF JobMoves
        <4> QED BY <3>3, <4>3 DEF StepKind, JobStep
      <3>6. CASE RequeueJob(j)
        <4> DEFINE row == [jobs[j] EXCEPT !.state = "queued", !.place = None]
        <4>1. /\ jobs' = [jobs EXCEPT ![j] = row] /\ jobs[j].state \in Positive
              /\ jobs[j].runs <= MaxReruns
          BY <1>0, <3>6 DEF RequeueJob, JobsTyped, JobsRight, Positive
        <4>2. /\ row \in JobRows /\ row.req = jobs[j].req /\ row.stream = jobs[j].stream
              /\ row.state = "queued"
              /\ row.runs = jobs[j].runs
          BY <3>1 DEF JobRows, JobStates
        <4> HIDE DEF row
        <4>3. JobMoves(j)
          BY <4>1, <4>2 DEF JobMoves, Positive
        <4> QED BY <3>3, <4>3 DEF StepKind, JobStep
      <3> QED BY <2>2, <3>4, <3>5, <3>6
    <2>3. ASSUME NEW q, Write(q) PROVE StepKind /\ UNCHANGED vars
      BY <2>3 DEF Write, vars, ownerVars, jobVars, StepKind, Rests
    <2>4. ASSUME NEW r \in Requests, NEW action \in Actions, OperatorWrites(r, action)
          PROVE  StepKind /\ UNCHANGED vars
      BY <2>3, <2>4 DEF OperatorWrites
    <2>5. ASSUME NEW f \in issued, OperatorRepeats(f) PROVE StepKind /\ UNCHANGED vars
      BY <2>3, <2>5 DEF OperatorRepeats
    <2> QED BY <1>3, <2>1, <2>2, <2>4, <2>5 DEF External
  <1>4. ASSUME NEW e \in Epochs, PlanScaleOut(e) \/ PlanReplacement(e)
        PROVE  StepKind /\ MembershipNext
    <2>1. CASE PlanScaleOut(e)
      <3>1. PICK s \in Streams : PlanLaunch(s, None, None)
        BY <2>1 DEF PlanScaleOut
      <3>2. UNCHANGED <<cand, jobs, lost>>
        BY <2>1 DEF PlanScaleOut, jobVars
      <3>3. StepKind
        BY <3>1, <3>2 DEF StepKind, PlanStep
      <3>4. MembershipNext
        BY <3>1 DEF MembershipNext
      <3> QED BY <3>3, <3>4
    <2>2. CASE PlanReplacement(e)
      <3>1. PICK old \in Instances :
                   /\ instance[old].status = "admitted"
                   /\ "finished" \in Answers(instance[old].job)
                   /\ PlanLaunch(instance[old].stream, old, instance[old].job)
        BY <2>2 DEF PlanReplacement, ConfirmedLost
      <3>2. UNCHANGED <<cand, jobs, lost>>
        BY <2>2 DEF PlanReplacement, jobVars
      <3>3. instance[old].stream \in Streams /\ instance[old].job \in Jobs \cup {None}
        BY <1>0, <3>1 DEF IInv, OwnerInv, Rowed, OwnerType, InstanceRows
      <3>4. StepKind
        BY <3>1, <3>2, <3>3 DEF StepKind, PlanStep
      <3>5. MembershipNext
        BY <3>1, <3>3 DEF MembershipNext
      <3> QED BY <3>4, <3>5
    <2> QED BY <1>4, <2>1, <2>2
  <1>5. ASSUME NEW e \in Epochs, Qsub(e) PROVE StepKind /\ UNCHANGED vars
    <2>1. At(e, "submit") /\ UNCHANGED <<launch, ownerVars>> /\ UNCHANGED vars
      BY <1>5 DEF Qsub, vars, ownerVars
    <2>2. cand[e].req \in Requests
      BY <1>0, <2>1 DEF CandsTyped
    <2>3. launch[cand[e].req].stream \in Streams
      BY <1>0, <2>1, <2>2 DEF RowsPlaced, Submission, Submits
    <2>4. ASSUME NEW j \in Jobs, Enqueue(j, launch[cand[e].req].stream, cand[e].req)
          PROVE  Enqueued(j, cand[e].req)
      BY <2>3, <2>4 DEF Enqueued
    <2>5. /\ lost' \in {lost, lost + 1} /\ lost' <= MaxLost
          /\ \/ UNCHANGED jobs /\ Become(e, "posted", cand[e].req, None)
             \/ \E j \in Jobs : /\ Enqueue(j, launch[cand[e].req].stream, cand[e].req)
                               /\ \E k \in {j, None} : Become(e, "posted", cand[e].req, k)
      <3>1. lost \in 0 .. MaxLost /\ MaxLost \in Nat
        BY <1>0, CapacityAssumption DEF JobsTyped, JobsRight
      <3> QED BY <1>5, <3>1 DEF Qsub
    <2>6. SubmitStep
      BY <2>1, <2>4, <2>5 DEF SubmitStep
    <2> QED BY <2>1, <2>6 DEF StepKind
  <1>6. ASSUME NEW e \in Epochs, Record(e) PROVE StepKind /\ MembershipNext
    <2>1. /\ At(e, "posted") /\ Become(e, "idle", None, None)
          /\ UNCHANGED <<jobs, lost>>
      BY <1>6 DEF Record, jobVars
    <2> DEFINE r == cand[e].req  j == cand[e].job
    <2>2. r \in Requests /\ (j # None => j \in Submitted(r))
      BY <1>0, <2>1 DEF CandsTyped, JobsKnown, PostedJobs
    <2>3. UNCHANGED ownerVars /\ RowMoves(r) /\ MembershipNext
      <3>1. CASE j # None
        <4>1. TransitionLaunch(r, "submitting", "submitted", j, FALSE)
          BY <1>6, <3>1 DEF Record
        <4>2. RowMoves(r) /\ MembershipNext
          BY <1>0, <2>2, <3>1, <4>1, TransitionMoves
        <4> QED BY <4>1, <4>2 DEF TransitionLaunch
      <3>2. CASE j = None /\ Found(r, "submitting")
        <4>1. PICK k \in Submitted(r) : \E class \in Positively(k) :
                     Observe(r, "submitting", k, class)
          BY <3>2 DEF Found
        <4>2. PICK class \in Positively(k) : Observe(r, "submitting", k, class)
          BY <4>1
        <4>3. class = "finished" => jobs[k].state = "finished"
          BY <4>2, FinishedAnswer DEF Positively
        <4>4. RowMoves(r) /\ MembershipNext
          BY <1>0, <2>2, <4>2, <4>3, ObservationMoves
        <4>5. UNCHANGED ownerVars
          BY <4>2 DEF Observe, TransitionLaunch
        <4> QED BY <4>4, <4>5
      <3>3. CASE j = None /\ ~Found(r, "submitting")
        <4>1. TransitionLaunch(r, "submitting", "submission_unknown", None, FALSE)
          BY <1>6, <3>3 DEF Record
        <4>2. RowMoves(r) /\ MembershipNext
          BY <1>0, <2>2, <4>1, TransitionMoves
        <4> QED BY <4>1, <4>2 DEF TransitionLaunch
      <3> QED BY <3>1, <3>2, <3>3
    <2> HIDE DEF j
    <2>4. RecordStep
      BY <2>1, <2>2, <2>3 DEF RecordStep
    <2> QED BY <2>3, <2>4 DEF StepKind
  <1>7. ASSUME NEW e \in Epochs, NEW r \in Requests, Reconcile(e, r)
        PROVE  StepKind /\ MembershipNext
    <2>0. ASSUME RowMoves(r), UNCHANGED <<ownerVars, cand, jobs, lost>> PROVE StepKind
      BY <2>0 DEF StepKind, MoveStep
    <2>1. CASE ExpirePlanned(e, r)
      <3>1. TransitionLaunch(r, "planned", "expired", None, FALSE)
        BY <2>1 DEF ExpirePlanned
      <3>2. UNCHANGED <<ownerVars, cand, jobs, lost>>
        BY <2>1, <3>1 DEF ExpirePlanned, TransitionLaunch, jobVars
      <3> QED BY <1>0, <2>0, <3>1, <3>2, TransitionMoves
    <2>2. CASE StartSubmit(e, r)
      <3>1. TransitionLaunch(r, "planned", "submitting", None, FALSE)
        BY <2>2 DEF StartSubmit
      <3>2. launch[r].state = "planned" /\ RowMoves(r) /\ MembershipNext
        BY <1>0, <3>1, TransitionMoves
      <3>3. UNCHANGED <<ownerVars, jobs, lost>> /\ Become(e, "submit", r, None)
        BY <2>2, <3>1 DEF StartSubmit, TransitionLaunch, jobVars
      <3>4. launch'[r].state = "submitting"
        BY <1>0, <3>1 DEF TransitionLaunch, LaunchType, LaunchRows
      <3>5. StartStep
        BY <3>2, <3>3, <3>4 DEF StartStep
      <3> QED BY <3>2, <3>5 DEF StepKind
    <2>3. CASE SuccessorScan(e, r)
      <3>1. CASE TransitionLaunch(r, "submitting", "submission_unknown", None, FALSE)
        <4>1. UNCHANGED <<ownerVars, cand, jobs, lost>>
          BY <2>3, <3>1 DEF SuccessorScan, TransitionLaunch, jobVars
        <4> QED BY <1>0, <2>0, <3>1, <4>1, TransitionMoves
      <3>2. ASSUME NEW j \in Submitted(r), NEW class \in Answers(j) \ {"none"},
                   Observe(r, "submitting", j, class)
            PROVE  StepKind /\ MembershipNext
        <4>1. UNCHANGED <<ownerVars, cand, jobs, lost>>
          BY <2>3, <3>2 DEF SuccessorScan, Observe, TransitionLaunch, jobVars
        <4>2. class = "finished" => jobs[j].state = "finished"
          BY <3>2, FinishedAnswer
        <4> QED BY <1>0, <2>0, <3>2, <4>1, <4>2, ObservationMoves
      <3> QED BY <2>3, <3>1, <3>2 DEF SuccessorScan
    <2>4. CASE Rescan(e, r)
      <3>0. UNCHANGED <<cand, jobs, lost>>
        BY <2>4 DEF Rescan, jobVars
      <3>1. ASSUME NEW from, NEW state \in {"terminal_uncertain", "manual_review"},
                   TransitionLaunch(r, from, state, None, FALSE)
            PROVE  StepKind /\ MembershipNext
        <4>1. UNCHANGED ownerVars
          BY <3>1 DEF TransitionLaunch
        <4> QED BY <1>0, <2>0, <3>0, <3>1, <4>1, TransitionMoves
      <3>2. ASSUME NEW from, Found(r, from) PROVE StepKind /\ MembershipNext
        <4>1. PICK j \in Submitted(r) : \E class \in Positively(j) :
                     Observe(r, from, j, class)
          BY <3>2 DEF Found
        <4>2. PICK class \in Positively(j) : Observe(r, from, j, class)
          BY <4>1
        <4>3. class = "finished" => jobs[j].state = "finished"
          BY <4>2, FinishedAnswer DEF Positively
        <4>4. UNCHANGED ownerVars
          BY <4>2 DEF Observe, TransitionLaunch
        <4> QED BY <1>0, <2>0, <3>0, <4>2, <4>3, <4>4, ObservationMoves
      <3> QED BY <2>4, <3>1, <3>2 DEF Rescan
    <2>5. CASE Requery(e, r)
      <3> DEFINE from == launch[r].state  j == launch[r].job
      <3>0. UNCHANGED <<cand, jobs, lost>> /\ j \in Submitted(r)
        BY <1>0, <2>5 DEF Requery, jobVars, JobsKnown
      <3>1. ASSUME NEW state \in {"terminal_uncertain", "manual_review"},
                   TransitionLaunch(r, from, state, j, FALSE)
            PROVE  StepKind /\ MembershipNext
        <4>1. UNCHANGED ownerVars
          BY <3>1 DEF TransitionLaunch
        <4> QED BY <1>0, <2>0, <3>0, <3>1, <4>1, TransitionMoves
      <3>2. ASSUME NEW class, class = "finished" => "finished" \in Answers(j),
                   Observe(r, from, j, class)
            PROVE  StepKind /\ MembershipNext
        <4>1. class = "finished" => jobs[j].state = "finished"
          BY <3>2, FinishedAnswer
        <4>2. UNCHANGED ownerVars
          BY <3>2 DEF Observe, TransitionLaunch
        <4> QED BY <1>0, <2>0, <3>0, <3>2, <4>1, <4>2, ObservationMoves
      <3>3. \/ "finished" \in Answers(j) /\ Observe(r, from, j, "finished")
            \/ Observe(r, from, j, "running") \/ Observe(r, from, j, "queued")
            \/ TransitionLaunch(r, from, "terminal_uncertain", j, FALSE)
            \/ TransitionLaunch(r, from, "manual_review", j, FALSE)
        BY <2>5 DEF Requery
      <3> HIDE DEF from, j
      <3>4. CASE "finished" \in Answers(j) /\ Observe(r, from, j, "finished")
        BY <3>2, <3>4
      <3>5. CASE Observe(r, from, j, "running") \/ Observe(r, from, j, "queued")
        BY <3>2, <3>5
      <3>6. CASE \/ TransitionLaunch(r, from, "terminal_uncertain", j, FALSE)
                 \/ TransitionLaunch(r, from, "manual_review", j, FALSE)
        BY <3>1, <3>6
      <3> QED BY <3>3, <3>4, <3>5, <3>6
    <2> QED BY <1>7, <2>1, <2>2, <2>3, <2>4, <2>5 DEF Reconcile
  <1>8. ASSUME NEW e \in Epochs, NEW g \in files, Admission(e, g)
        PROVE  StepKind /\ [MembershipNext]_vars
    <2>0. g \in Registrations
      BY <1>0 DEF FilesTyped
    <2>1. CASE AdmitFile(e, g)
      <3>1. AdmitIncarnation(g) /\ UNCHANGED <<cand, jobs, lost>>
        BY <2>1 DEF AdmitFile, jobVars
      <3>2. UNCHANGED launch \/ (g.request \in Requests /\ RowMoves(g.request))
        BY <1>0, <2>0, <3>1, AdmissionMoves
      <3>3. StepKind
        BY <3>1, <3>2 DEF StepKind, AdmitStep
      <3>4. MembershipNext
        BY <2>0, <3>1 DEF MembershipNext
      <3> QED BY <3>3, <3>4
    <2>2. CASE AnswerFile(e, g) \/ DeferFile(e, g) \/ RejectFile(e, g)
      BY <2>2 DEF AnswerFile, DeferFile, RejectFile, vars, ownerVars, jobVars,
                  StepKind, Rests
    <2>3. CASE FatalFile(e, g)
      BY <2>3 DEF FatalFile, Dies, vars, ownerVars, jobVars, StepKind, Becomes
    <2> QED BY <1>8, <2>1, <2>2, <2>3 DEF Admission
  <1>9. ASSUME NEW e \in Epochs, NEW f \in opfiles, ApplyOperator(e, f)
        PROVE  StepKind /\ [MembershipNext]_vars
    <2>1. UNCHANGED <<cand, jobs, lost>>
      BY <1>9 DEF ApplyOperator, jobVars
    <2>2. CASE Stale(f)
      <3>1. UNCHANGED vars
        BY <1>9, <2>2 DEF ApplyOperator
      <3>2. Rests
        BY <2>1, <3>1 DEF vars, ownerVars, Rests
      <3> QED BY <3>1, <3>2 DEF StepKind
    <2>3. CASE ~Stale(f)
      <3>1. ResolveLaunch(f.req.launch, f.req.action, f.req.job)
        BY <1>9, <2>3 DEF ApplyOperator
      <3>2. /\ f.req.launch \in Requests /\ f.req.action \in Actions
            /\ f.req.job \in Submitted(f.req.launch) \cup {None}
        BY <1>0, <1>9 DEF AsksTyped, JobsKnown
      <3>3. RowMoves(f.req.launch)
        <4>1. SeenByOperator(f.req.launch)
          BY <2>3 DEF Stale, SeenByOperator
        <4> QED BY <1>0, <3>1, <3>2, <4>1, ResolutionMoves
      <3>4. UNCHANGED ownerVars
        BY <3>1 DEF ResolveLaunch
      <3>5. MoveStep
        BY <2>1, <3>2, <3>3, <3>4 DEF MoveStep
      <3>6. f.req.job \in Jobs \cup {None}
        BY <3>2 DEF Submitted
      <3>7. MembershipNext
        BY <3>1, <3>2, <3>6 DEF MembershipNext
      <3> QED BY <3>5, <3>7 DEF StepKind
    <2> QED BY <2>2, <2>3
  <1>10. ASSUME NEW e \in Epochs, NEW f \in opfiles,
                OperatorConflict(e, f) \/ DisposeOperator(e, f)
         PROVE  StepKind /\ UNCHANGED vars
    <2>1. CASE OperatorConflict(e, f)
      BY <2>1 DEF OperatorConflict, Dies, vars, ownerVars, jobVars, StepKind, Becomes
    <2>2. CASE DisposeOperator(e, f)
      BY <2>2 DEF DisposeOperator, vars, ownerVars, jobVars, StepKind, Rests
    <2> QED BY <1>10, <2>1, <2>2
  <1>11. ASSUME NEW e \in Epochs, Preclose(e) \/ Close(e) PROVE StepKind /\ MembershipNext
    BY <1>11 DEF Preclose, Close, BeginPreclose, BeginClose, jobVars, StepKind, Rests,
                 MembershipNext
  <1>15. ASSUME NEW e \in Epochs,
                Finalize(e) \/ \E i \in Instances : IngestAck(e, i) \/ AdjudicateHardCrash(e, i)
         PROVE  StepKind /\ MembershipNext
    <2>1. /\ UNCHANGED <<cand, jobs, lost>>
          /\ \/ \E i \in Instances :
                  HardCrash(i) \/ \E final \in BOOLEAN : AcknowledgeClose(i, final)
             \/ FinalizeClose
      BY <1>15 DEF Finalize, IngestAck, AdjudicateHardCrash, jobVars
    <2>2. UNCHANGED launch
      BY <2>1 DEF HardCrash, AcknowledgeClose, Answered, FinalizeClose
    <2>3. LeaveStep
      BY <2>1, <2>2 DEF LeaveStep
    <2>4. MembershipNext
      BY <2>1 DEF MembershipNext
    <2> QED BY <2>3, <2>4 DEF StepKind
  <1>12. ASSUME NEW e \in Epochs, Crash(e) PROVE StepKind /\ UNCHANGED vars
    BY <1>12 DEF Crash, vars, ownerVars, jobVars, StepKind, Becomes
  <1>13. CASE UNCHANGED capacityVars
    BY <1>13 DEF capacityVars, vars, ownerVars, jobVars, StepKind, Rests
  <1>14. ASSUME NEW e \in Epochs, LeaderNext(e) PROVE StepKind /\ [MembershipNext]_vars
    BY <1>14, <1>4, <1>5, <1>6, <1>7, <1>8, <1>9, <1>10, <1>11, <1>15 DEF LeaderNext
  <1> QED BY <1>1, <1>2, <1>3, <1>12, <1>13, <1>14 DEF CapacityNext

-----------------------------------------------------------------------------
(* Jobs and submitters.                                                    *)

\* Jobs after one of them moved.
LEMMA MovedJob ==
  ASSUME JobsRight, NEW j \in Jobs, JobMoves(j)
  PROVE  /\ JobsRight'
         /\ \A k \in Jobs : /\ jobs'[k].req = jobs[k].req
                            /\ jobs[k].state = "finished" => jobs'[k].state = "finished"
  <1>1. PICK row \in JobRows :
          /\ jobs' = [jobs EXCEPT ![j] = row]
          /\ row.req = jobs[j].req /\ row.stream = jobs[j].stream
          /\ row.state \in Positive \cup {"finished"}
          /\ row.state = "queued" => row.runs <= MaxReruns
    BY DEF JobMoves
  <1>2. jobs[j].state \in Positive /\ jobs' \in [Jobs -> JobRows]
    BY <1>1 DEF JobMoves, JobsRight
  <1>3. \A k \in Jobs : jobs'[k] = IF k = j THEN row ELSE jobs[k]
    BY <1>1 DEF JobsRight
  <1> QED BY <1>1, <1>2, <1>3 DEF JobsRight, Positive

\* Jobs after one more was submitted.
LEMMA EnqueuedJob ==
  ASSUME JobsRight, NEW j \in Jobs, NEW r \in Requests \cup {None}, Enqueued(j, r)
  PROVE  /\ JobsRight'
         /\ \A k \in Jobs \ {j} : jobs'[k] = jobs[k]
         /\ jobs[j].state = "none" /\ jobs[j].req = None /\ jobs'[j].req = r
  <1>1. PICK s \in Streams : Enqueue(j, s, r)
    BY DEF Enqueued
  <1>2. /\ jobs[j] \in JobRows /\ jobs[j].state = "none"
        /\ jobs[j].req = None /\ jobs[j].runs = 0
    BY <1>1 DEF JobsRight, Enqueue
  <1> DEFINE row == [jobs[j] EXCEPT !.state = "queued", !.stream = s, !.req = r]
  <1>3. jobs' = [jobs EXCEPT ![j] = row]
    BY <1>1 DEF Enqueue
  <1>4. row \in JobRows /\ row.state = "queued" /\ row.req = r /\ row.runs = 0
        /\ row.stream = s
    BY <1>2 DEF JobRows, JobStates
  <1> HIDE DEF row
  <1>5. \A k \in Jobs : jobs'[k] = IF k = j THEN row ELSE jobs[k]
    BY <1>3 DEF JobsRight
  <1>6. jobs' \in [Jobs -> JobRows]
    BY <1>3, <1>4 DEF JobsRight
  <1>7. 0 <= MaxReruns
    BY CapacityAssumption
  <1> QED BY <1>2, <1>4, <1>5, <1>6, <1>7 DEF JobsRight

\* A job is submitted for the request of a candidate that was submitting.
Posts(e, j) ==
    /\ At(e, "submit") /\ cand[e].req \in Requests
    /\ UNCHANGED <<launch, ownerVars>>
    /\ \A q \in Requests :
         Submitted(q)' = IF q = cand[e].req THEN Submitted(q) \cup {j} ELSE Submitted(q)
    /\ \A f \in Epochs, q \in Requests : Submits(f, q)' => f # e /\ Submits(f, q)

\* A candidate begins to submit.
Starts(e, r) ==
    /\ launch[r].state = "planned" /\ launch'[r].state = "submitting"
    /\ \A q \in Requests : Submitted(q)' = Submitted(q)
    /\ \A f \in Epochs, q \in Requests :
         Submits(f, q)' => Submits(f, q) \/ (f = e /\ q = r)

NoSubmission ==
    /\ \A q \in Requests : Submitted(q)' = Submitted(q)
    /\ \A f \in Epochs, q \in Requests : Submits(f, q)' => Submits(f, q)

\* Where new jobs and new submitters come from.
LEMMA SubmissionKinds ==
  ASSUME Typed, StepKind
  PROVE  /\ JobsTyped'
         /\ \A k \in Jobs : jobs[k].state = "finished" => jobs'[k].state = "finished"
         /\ \/ NoSubmission
            \/ \E e \in Epochs, j \in Jobs : Posts(e, j)
            \/ \E e \in Epochs, r \in Requests : Starts(e, r)
  <1>0. /\ JobsTyped /\ JobsRight /\ CandsTyped
        /\ cand \in [Epochs -> CandRows]
        /\ None \notin Requests
    BY NoneApart DEF Typed, JobsTyped, CandsTyped
  <1>1. ASSUME UNCHANGED jobs
        PROVE  /\ JobsRight'
               /\ \A q \in Requests : Submitted(q)' = Submitted(q)
    BY <1>0, <1>1 DEF JobsRight, Submitted
  <1>2. ASSUME UNCHANGED cand, NEW f \in Epochs, NEW q \in Requests
        PROVE  Submits(f, q)' <=> Submits(f, q)
    BY <1>2 DEF Submits, At
  <1>3. ASSUME UNCHANGED <<cand, jobs, lost>> PROVE NoSubmission /\ JobsTyped'
    BY <1>0, <1>1, <1>2, <1>3 DEF NoSubmission, JobsTyped
  <1>4. CASE Rests \/ PlanStep \/ MoveStep \/ AdmitStep \/ LeaveStep
    BY <1>3, <1>4 DEF Rests, PlanStep, MoveStep, AdmitStep, LeaveStep
  <1>5. ASSUME NEW e \in Epochs, NEW at, NEW r, NEW j, Become(e, at, r, j),
               NEW f \in Epochs, NEW q \in Requests
        PROVE  Submits(f, q)' <=> IF f = e THEN at = "submit" /\ r = q ELSE Submits(f, q)
    BY <1>0, <1>5 DEF Submits, At, Become
  <1>6. ASSUME NEW e \in Epochs, NEW at \in {"idle", "dead", "posted"}, NEW r, NEW j,
               Become(e, at, r, j), NEW f \in Epochs, NEW q \in Requests, Submits(f, q)'
        PROVE  f # e /\ Submits(f, q)
    BY <1>5, <1>6
  <1>7. CASE Becomes \/ RecordStep
    <2>1. UNCHANGED <<jobs, lost>>
      BY <1>7 DEF Becomes, RecordStep
    <2>2. PICK e \in Epochs, at \in {"idle", "dead"} : Become(e, at, None, None)
      BY <1>7 DEF Becomes, RecordStep
    <2>3. NoSubmission
      BY <1>1, <1>6, <2>1, <2>2 DEF NoSubmission
    <2> QED BY <1>0, <1>1, <2>1, <2>3 DEF JobsTyped
  <1>8. CASE StartStep
    <2>1. UNCHANGED <<jobs, lost>>
      BY <1>8 DEF StartStep
    <2>2. PICK e \in Epochs, r \in Requests :
                 /\ launch[r].state = "planned" /\ launch'[r].state = "submitting"
                 /\ Become(e, "submit", r, None)
      BY <1>8 DEF StartStep
    <2>3. Starts(e, r)
      BY <1>1, <1>5, <2>1, <2>2 DEF Starts
    <2> QED BY <1>0, <1>1, <2>1, <2>3 DEF JobsTyped
  <1>9. CASE JobStep
    <2>1. UNCHANGED <<cand, lost>>
      BY <1>9 DEF JobStep
    <2>2. PICK j \in Jobs : JobMoves(j) \/ Enqueued(j, None)
      BY <1>9 DEF JobStep
    <2>3. /\ JobsRight'
          /\ \A k \in Jobs : /\ jobs[k].state = "finished" => jobs'[k].state = "finished"
                             /\ jobs'[k].req = jobs[k].req
      BY <1>0, <2>2, MovedJob, EnqueuedJob
    <2>4. \A q \in Requests : Submitted(q)' = Submitted(q)
      BY <2>3 DEF Submitted
    <2>5. NoSubmission
      BY <1>2, <2>1, <2>4 DEF NoSubmission
    <2> QED BY <1>0, <2>1, <2>3, <2>5 DEF JobsTyped
  <1>10. CASE SubmitStep
    <2>1. PICK e \in Epochs :
            /\ At(e, "submit")
            /\ \/ UNCHANGED jobs /\ Become(e, "posted", cand[e].req, None)
               \/ \E j \in Jobs : /\ Enqueued(j, cand[e].req)
                                 /\ \E k \in {j, None} : Become(e, "posted", cand[e].req, k)
      BY <1>10 DEF SubmitStep
    <2>2. UNCHANGED <<launch, ownerVars>> /\ lost' \in 0 .. MaxLost
      BY <1>0, <1>10, CapacityAssumption DEF SubmitStep, JobsTyped
    <2>3. CASE UNCHANGED jobs /\ Become(e, "posted", cand[e].req, None)
      <3>1. NoSubmission
        BY <1>1, <1>6, <2>3 DEF NoSubmission
      <3> QED BY <1>0, <1>1, <2>2, <2>3, <3>1 DEF JobsTyped
    <2>4. ASSUME NEW j \in Jobs, Enqueued(j, cand[e].req), NEW k \in {j, None},
                 Become(e, "posted", cand[e].req, k)
          PROVE  /\ JobsTyped' /\ Posts(e, j)
                 /\ \A i \in Jobs : jobs[i].state = "finished" => jobs'[i].state = "finished"
      <3>1. cand[e].req \in Requests
        BY <1>0, <2>1 DEF CandsTyped
      <3>2. /\ JobsRight'
            /\ \A i \in Jobs \ {j} : jobs'[i] = jobs[i]
            /\ jobs[j].state = "none" /\ jobs[j].req = None /\ jobs'[j].req = cand[e].req
        BY <1>0, <2>4, <3>1, EnqueuedJob
      <3>3. \A q \in Requests : Submitted(q)' =
              IF q = cand[e].req THEN Submitted(q) \cup {j} ELSE Submitted(q)
        BY <1>0, <3>2 DEF Submitted
      <3>4. \A f \in Epochs, q \in Requests : Submits(f, q)' => f # e /\ Submits(f, q)
        BY <1>6, <2>4
      <3>5. Posts(e, j)
        BY <2>1, <2>2, <3>1, <3>3, <3>4 DEF Posts
      <3> QED BY <2>2, <3>2, <3>5 DEF JobsTyped
    <2> QED BY <2>1, <2>3, <2>4
  <1> QED BY <1>4, <1>7, <1>8, <1>9, <1>10 DEF StepKind

-----------------------------------------------------------------------------
(* One submission, and the books.                                          *)

\* A request that is over, and not by the operator.
Over(r) == launch[r].state \in {"failed", "expired"} /\ ~launch[r].noted

\* What was submitted for it has ended, and nobody submits for it.
Books ==
    \A r \in Requests : Over(r) =>
        /\ \A j \in Submitted(r) : jobs[j].state = "finished"
        /\ \A e \in Epochs : ~Submits(e, r)

\* The launch rows before and after a step.
LEMMA RowsBack ==
  ASSUME LaunchType, StepKind, CandsTyped, NEW r \in Requests
  PROVE  /\ launch'[r].state \in {"none", "planned"} =>
              launch[r].state \in {"none", "planned"}
         /\ launch'[r].job = launch[r].job \/ launch'[r].job \in Submitted(r)
         /\ ~PlanStep => launch'[r].replaces = launch[r].replaces
         /\ RowsPlaced /\ launch'[r].state # "none" => launch'[r].stream \in Streams
         /\ launch'[r].noted => launch[r].noted \/ SeenByOperator(r)
         /\ Over(r)' => \/ Over(r) \/ launch[r].state = "planned"
                        \/ \E j \in Submitted(r) : jobs[j].state = "finished"
  <1>1. ASSUME UNCHANGED launch
        PROVE  launch'[r] = launch[r] /\ (Over(r)' => Over(r))
    BY <1>1 DEF Over
  <1>2. ASSUME NEW q \in Requests, RowMoves(q)
        PROVE  /\ launch'[r].state \in {"none", "planned"} =>
                    launch[r].state \in {"none", "planned"}
               /\ launch'[r].job = launch[r].job \/ launch'[r].job \in Submitted(r)
               /\ launch'[r].replaces = launch[r].replaces
               /\ RowsPlaced /\ launch'[r].state # "none" => launch'[r].stream \in Streams
               /\ launch'[r].noted => launch[r].noted \/ SeenByOperator(r)
               /\ Over(r)' => \/ Over(r) \/ launch[r].state = "planned"
                              \/ \E j \in Submitted(r) : jobs[j].state = "finished"
    <2>1. PICK row \in LaunchRows :
            /\ launch' = [launch EXCEPT ![q] = row] /\ launch[q].state # "none"
            /\ row.state \notin {"none", "planned"}
            /\ row.replaces = launch[q].replaces /\ row.stream = launch[q].stream
            /\ row.job = launch[q].job \/ row.job \in Submitted(q)
            /\ row.noted => launch[q].noted \/ SeenByOperator(q)
            /\ row.state \in {"failed", "expired"} /\ ~row.noted =>
                 \/ launch[q].state = "planned"
                 \/ \E j \in Submitted(q) : jobs[j].state = "finished"
      BY <1>2 DEF RowMoves
    <2>2. CASE r = q
      <3>1. launch'[r] = row
        BY <2>1, <2>2 DEF LaunchType
      <3> QED BY <2>1, <2>2, <3>1 DEF Over, RowsPlaced
    <2>3. CASE r # q
      <3>1. launch'[r] = launch[r]
        BY <2>1, <2>3 DEF LaunchType
      <3> QED BY <3>1 DEF Over, RowsPlaced
    <2> QED BY <2>2, <2>3
  <1>3. CASE UNCHANGED launch
    BY <1>1, <1>3 DEF RowsPlaced
  <1>4. CASE MoveStep \/ StartStep \/ RecordStep
    <2>1. UNCHANGED jobs /\ \E q \in Requests : RowMoves(q)
      BY <1>4 DEF MoveStep, StartStep, RecordStep
    <2> QED BY <1>2, <2>1
  <1>5. CASE AdmitStep
    <2>1. UNCHANGED jobs /\ (UNCHANGED launch \/ \E q \in Requests : RowMoves(q))
      BY <1>5 DEF AdmitStep
    <2> QED BY <1>2, <1>3, <2>1
  <1>6. CASE PlanStep
    <2>1. \E s \in Streams : \E old, job : PlanLaunch(s, old, job)
      BY <1>6 DEF PlanStep
    <2>2. PICK s \in Streams : \E old, job : PlanLaunch(s, old, job)
      BY <2>1
    <2>3. PICK old, job : PlanLaunch(s, old, job)
      BY <2>2
    <2>7. PICK q \in Requests :
            /\ launch[q].state = "none"
            /\ launch' = [launch EXCEPT ![q] =
                 [@ EXCEPT !.state = "planned", !.stream = s, !.replaces = old,
                           !.expires = now + Ttl, !.reserved = TRUE]]
      BY <2>3 DEF PlanLaunch, Planned
    <2>4. launch[q] \in LaunchRows /\ launch[r] \in LaunchRows
      BY DEF LaunchType
    <2>5. CASE r = q
      <3>1. launch'[r].state = "planned" /\ launch'[r].job = launch[r].job
              /\ launch'[r].stream = s /\ launch'[r].noted = launch[r].noted
        BY <2>4, <2>5, <2>7 DEF LaunchType, LaunchRows
      <3> QED BY <1>6, <2>5, <2>7, <3>1 DEF Over
    <2>6. CASE r # q
      <3>1. launch'[r] = launch[r]
        BY <2>6, <2>7 DEF LaunchType
      <3> QED BY <1>6, <3>1 DEF Over, RowsPlaced
    <2> QED BY <2>5, <2>6
  <1>7. CASE Rests \/ Becomes \/ JobStep \/ SubmitStep \/ LeaveStep
    BY <1>3, <1>7 DEF Rests, Becomes, JobStep, SubmitStep, LeaveStep
  <1> QED BY <1>4, <1>5, <1>6, <1>7 DEF StepKind

\* A step submits for a request once, and closes the books of one only when
\* what was submitted has ended.
LEMMA SubmissionStep ==
  ASSUME IInv, Typed, StepKind, Submission, Books
  PROVE  Submission' /\ Books'
  <1>0. LaunchType /\ CandsTyped
    BY DEF IInv, LaunchInv, Typed
  <1>1. \A r \in Requests :
          /\ launch'[r].state \in {"none", "planned"} => launch[r].state \in {"none", "planned"}
          /\ Over(r)' => \/ Over(r) \/ launch[r].state = "planned"
                         \/ \E j \in Submitted(r) : jobs[j].state = "finished"
    BY <1>0, RowsBack
  <1>3. \A k \in Jobs : jobs[k].state = "finished" => jobs'[k].state = "finished"
    BY SubmissionKinds
  <1>4. \A r \in Requests : Submitted(r) \subseteq Jobs
    BY DEF Submitted
  \* A request that is over has only jobs that have ended, and no submitter.
  <1>5. ASSUME NEW r \in Requests, Over(r)'
        PROVE  \/ launch[r].state = "planned" /\ Submitted(r) = {}
                    /\ \A e \in Epochs : ~Submits(e, r)
               \/ /\ \A j \in Submitted(r) : jobs[j].state = "finished"
                  /\ \A e \in Epochs : ~Submits(e, r)
                  /\ launch[r].state # "planned"
    <2>1. CASE launch[r].state = "planned"
      BY <2>1 DEF Submission
    <2>2. CASE launch[r].state # "planned" /\ Over(r)
      BY <2>2 DEF Books
    <2>3. CASE launch[r].state # "planned" /\ \E j \in Submitted(r) : jobs[j].state = "finished"
      BY <1>4, <2>3 DEF Submission
    <2> QED BY <1>1, <1>5, <2>1, <2>2, <2>3
  <1>6. CASE NoSubmission
    <2>1. Submission'
      BY <1>1, <1>6 DEF Submission, NoSubmission
    <2>2. Books'
      BY <1>3, <1>4, <1>5, <1>6 DEF Books, NoSubmission
    <2> QED BY <2>1, <2>2
  <1>7. ASSUME NEW e \in Epochs, NEW r \in Requests, Starts(e, r)
        PROVE  Submission' /\ Books'
    <2>1. Submitted(r) = {} /\ \A f \in Epochs : ~Submits(f, r)
      BY <1>7 DEF Starts, Submission
    <2>2. \A q \in Requests : launch'[q].state \in {"none", "planned"} => q # r
      BY <1>7 DEF Starts
    <2>3. Submission'
      BY <1>1, <1>7, <2>1, <2>2 DEF Submission, Starts
    <2>4. \A q \in Requests : Over(q)' => q # r
      BY <1>7 DEF Starts, Over
    <2>5. Books'
      BY <1>3, <1>4, <1>5, <1>7, <2>4 DEF Books, Starts
    <2> QED BY <2>3, <2>5
  <1>8. ASSUME NEW e \in Epochs, NEW j \in Jobs, Posts(e, j)
        PROVE  Submission' /\ Books'
    <2> DEFINE r == cand[e].req
    <2>1. Submits(e, r) /\ r \in Requests /\ Submitted(r) = {}
      BY <1>8 DEF Posts, Submits, Submission
    <2>2. \A f \in Epochs : Submits(f, r) => f = e
      BY <2>1 DEF Submission
    <2>3. \A q \in Requests :
            Submitted(q)' = IF q = r THEN {j} ELSE Submitted(q)
      BY <1>8, <2>1 DEF Posts
    <2>4. \A f \in Epochs, q \in Requests : Submits(f, q)' => q # r /\ Submits(f, q)
      BY <1>8, <2>2 DEF Posts
    <2>5. \A q \in Requests : launch'[q].state \in {"none", "planned"} => q # r
      BY <1>1, <2>1 DEF Submission
    <2> HIDE DEF r
    <2>6. Submission'
      <3>1. \A q \in Requests : launch'[q].state \in {"none", "planned"} =>
              Submitted(q)' = {} /\ \A f \in Epochs : ~Submits(f, q)'
        BY <1>1, <2>3, <2>4, <2>5 DEF Submission
      <3>2. \A q \in Requests, f, g \in Epochs : Submits(f, q)' /\ Submits(g, q)' => f = g
        BY <2>4 DEF Submission
      <3>3. \A q \in Requests, f \in Epochs : Submits(f, q)' => Submitted(q)' = {}
        BY <2>3, <2>4 DEF Submission
      <3>4. \A q \in Requests, i, k \in Jobs :
              i \in Submitted(q)' /\ k \in Submitted(q)' => i = k
        BY <2>3 DEF Submission
      <3> QED BY <3>1, <3>2, <3>3, <3>4 DEF Submission
    <2>7. \A q \in Requests : Over(q)' => q # r
      BY <1>5, <2>1
    <2>8. Books'
      BY <1>3, <1>4, <1>5, <2>3, <2>4, <2>7 DEF Books
    <2> QED BY <2>6, <2>8
  <1> QED BY <1>6, <1>7, <1>8, SubmissionKinds

-----------------------------------------------------------------------------
(* Candidates, files and the operator's requests.                          *)

OpStep ==
    \/ UNCHANGED opVars
    \/ \E r \in Requests, action \in Actions : OperatorWrites(r, action)
    \/ \E f \in issued : OperatorRepeats(f)
    \/ \E e \in Epochs, f \in opfiles : ApplyOperator(e, f)
    \/ \E e \in Epochs, f \in opfiles : DisposeOperator(e, f)

FileStep ==
    \/ UNCHANGED <<ran, fileVars>>
    \/ Takeover
    \/ \E j \in Jobs : StartJob(j)
    \/ \E e \in Epochs, g \in files :
         AdmitFile(e, g) \/ AnswerFile(e, g) \/ DeferFile(e, g) \/ RejectFile(e, g)

\* What happens to the files.
LEMMA OtherKinds ==
  ASSUME [CapacityNext]_capacityVars
  PROVE  OpStep /\ FileStep
  <1>1. CASE Takeover
    BY <1>1 DEF Takeover, opVars, OpStep, FileStep
  <1>2. CASE ClockTick
    BY <1>2 DEF ClockTick, jobVars, opVars, fileVars, OpStep, FileStep
  <1>3. CASE External
    <2>1. ASSUME NEW s \in Streams, SubmitBootstrap(s) PROVE OpStep /\ FileStep
      BY <2>1 DEF SubmitBootstrap, opVars, fileVars, OpStep, FileStep
    <2>2. ASSUME NEW j \in Jobs, StartJob(j) PROVE OpStep /\ FileStep
      <3>1. UNCHANGED opVars
        BY <2>2 DEF StartJob, opVars
      <3> QED BY <2>2, <3>1 DEF OpStep, FileStep
    <2>3. ASSUME NEW j \in Jobs, FinishJob(j) \/ RequeueJob(j) PROVE OpStep /\ FileStep
      BY <2>3 DEF FinishJob, RequeueJob, opVars, fileVars, OpStep, FileStep
    <2>4. ASSUME NEW q, Write(q) PROVE UNCHANGED <<ran, fileVars>>
      BY <2>4 DEF Write, jobVars, fileVars
    <2>5. ASSUME NEW r \in Requests, NEW action \in Actions, OperatorWrites(r, action)
          PROVE  OpStep /\ FileStep
      <3>1. UNCHANGED <<ran, fileVars>>
        BY <2>4, <2>5 DEF OperatorWrites
      <3> QED BY <2>5, <3>1 DEF OpStep, FileStep
    <2>6. ASSUME NEW f \in issued, OperatorRepeats(f) PROVE OpStep /\ FileStep
      <3>1. UNCHANGED <<ran, fileVars>>
        BY <2>4, <2>6 DEF OperatorRepeats
      <3> QED BY <2>6, <3>1 DEF OpStep, FileStep
    <2> QED BY <1>3, <2>1, <2>2, <2>3, <2>5, <2>6 DEF External
  <1>4. ASSUME NEW e \in Epochs, LeaderNext(e) PROVE OpStep /\ FileStep
    <2>1. CASE PlanScaleOut(e) \/ PlanReplacement(e)
      BY <2>1 DEF PlanScaleOut, PlanReplacement, jobVars, opVars, fileVars, OpStep, FileStep
    <2>2. CASE Qsub(e)
      BY <2>2 DEF Qsub, opVars, fileVars, OpStep, FileStep
    <2>3. CASE Record(e)
      BY <2>3 DEF Record, jobVars, opVars, fileVars, OpStep, FileStep
    <2>4. ASSUME NEW r \in Requests, Reconcile(e, r) PROVE OpStep /\ FileStep
      <3>1. CASE ExpirePlanned(e, r) \/ StartSubmit(e, r)
        BY <3>1 DEF ExpirePlanned, StartSubmit, jobVars, opVars, fileVars, OpStep, FileStep
      <3>2. CASE SuccessorScan(e, r)
        BY <3>2 DEF SuccessorScan, jobVars, opVars, fileVars, OpStep, FileStep
      <3>3. CASE Rescan(e, r)
        BY <3>3 DEF Rescan, jobVars, opVars, fileVars, OpStep, FileStep
      <3>4. CASE Requery(e, r)
        BY <3>4 DEF Requery, jobVars, opVars, fileVars, OpStep, FileStep
      <3> QED BY <2>4, <3>1, <3>2, <3>3, <3>4 DEF Reconcile
    <2>5. ASSUME NEW g \in files, Admission(e, g) PROVE OpStep /\ FileStep
      <3>1. CASE AdmitFile(e, g) \/ AnswerFile(e, g) \/ DeferFile(e, g) \/ RejectFile(e, g)
        <4>1. UNCHANGED opVars
          BY <3>1 DEF AdmitFile, AnswerFile, DeferFile, RejectFile, opVars
        <4> QED BY <3>1, <4>1 DEF OpStep, FileStep
      <3>2. CASE FatalFile(e, g)
        BY <3>2 DEF FatalFile, jobVars, opVars, fileVars, OpStep, FileStep
      <3> QED BY <2>5, <3>1, <3>2 DEF Admission
    <2>6. ASSUME NEW f \in opfiles, ApplyOperator(e, f) \/ DisposeOperator(e, f)
          PROVE  OpStep /\ FileStep
      <3>1. UNCHANGED <<ran, fileVars>>
        BY <2>6 DEF ApplyOperator, DisposeOperator, jobVars, fileVars
      <3> QED BY <2>6, <3>1 DEF OpStep, FileStep
    <2>7. ASSUME NEW f \in opfiles, OperatorConflict(e, f) PROVE OpStep /\ FileStep
      BY <2>7 DEF OperatorConflict, jobVars, opVars, fileVars, OpStep, FileStep
    <2>8. CASE Preclose(e) \/ Close(e)
      BY <2>8 DEF Preclose, Close, jobVars, opVars, fileVars, OpStep, FileStep
    <2>9. CASE Finalize(e) \/ \E i \in Instances : IngestAck(e, i) \/ AdjudicateHardCrash(e, i)
      <3>1. UNCHANGED <<jobVars, fileVars, opVars>>
        BY <2>9 DEF Finalize, IngestAck, AdjudicateHardCrash
      <3> QED BY <3>1 DEF jobVars, OpStep, FileStep
    <2> QED BY <1>4, <2>1, <2>2, <2>3, <2>4, <2>5, <2>6, <2>7, <2>8, <2>9 DEF LeaderNext
  <1>5. ASSUME NEW e \in Epochs, Crash(e) PROVE OpStep /\ FileStep
    BY <1>5 DEF Crash, jobVars, opVars, fileVars, OpStep, FileStep
  <1>6. CASE UNCHANGED capacityVars
    BY <1>6 DEF capacityVars, jobVars, opVars, fileVars, OpStep, FileStep
  <1> QED BY <1>1, <1>2, <1>3, <1>4, <1>5, <1>6 DEF CapacityNext

\* The admission files after a step.
LEMMA FilesStep ==
  ASSUME IInv, Typed, FileStep
  PROVE  FilesTyped'
  <1>0. FilesTyped /\ JobsRight /\ LaunchType /\ RestType
    BY DEF Typed, JobsTyped, IInv, LaunchInv
  <1>1. CASE UNCHANGED <<ran, fileVars>>
    BY <1>0, <1>1 DEF FilesTyped, fileVars
  <1>2. CASE Takeover
    BY <1>0, <1>2 DEF FilesTyped, Takeover, jobVars
  <1>3. ASSUME NEW j \in Jobs, StartJob(j) PROVE FilesTyped'
    <2>1. PICK p \in Placements, i \in Instances \ ran :
            ran' = ran \cup {i} /\ files' = files \cup {Registration(i, j, p)}
      BY <1>3 DEF StartJob
    <2>2. UNCHANGED <<recorded, deferred>>
      BY <1>3 DEF StartJob
    <2> DEFINE g == Registration(i, j, p)
    <2>3. g \in Registrations /\ (g.request = None => g.replaces = None)
      <3>1. jobs[j] \in JobRows /\ jobs[j].state = "queued"
        BY <1>0, <1>3 DEF JobsRight, StartJob
      <3>2. jobs[j].stream \in Streams
        BY <1>0, <3>1 DEF JobsRight
      <3>3. jobs[j].req \in Requests \cup {None}
        BY <3>1 DEF JobRows
      <3>4. jobs[j].req # None => launch[jobs[j].req].replaces \in Instances \cup {None}
        BY <1>0, <3>3 DEF LaunchType, LaunchRows
      <3> QED BY <1>0, <3>2, <3>3, <3>4 DEF Registration, Registrations, RestType
    <2> HIDE DEF g
    <2>4. ran' \subseteq Instances /\ files' = files \cup {g}
      BY <1>0, <2>1 DEF FilesTyped, g
    <2> QED BY <1>0, <2>2, <2>3, <2>4 DEF FilesTyped
  <1>4. ASSUME NEW e \in Epochs, NEW g \in files,
               AdmitFile(e, g) \/ AnswerFile(e, g) \/ DeferFile(e, g) \/ RejectFile(e, g)
        PROVE  FilesTyped'
    <2>1. CASE AdmitFile(e, g)
      BY <1>0, <2>1 DEF FilesTyped, AdmitFile, jobVars
    <2>2. CASE AnswerFile(e, g)
      BY <1>0, <2>2 DEF FilesTyped, AnswerFile, jobVars
    <2>3. CASE DeferFile(e, g)
      BY <1>0, <2>3, CapacityAssumption DEF FilesTyped, DeferFile, jobVars
    <2>4. CASE RejectFile(e, g)
      BY <1>0, <2>4 DEF FilesTyped, RejectFile, jobVars
    <2> QED BY <1>4, <2>1, <2>2, <2>3, <2>4
  <1> QED BY <1>1, <1>2, <1>3, <1>4 DEF FileStep

\* The candidates after a step: what one has posted was submitted.
LEMMA CandsStep ==
  ASSUME Typed, StepKind
  PROVE  CandsTyped' /\ PostedJobs'
  <1>0. /\ JobsRight /\ CandsTyped /\ PostedJobs
        /\ None \notin Requests /\ None \notin Jobs
        /\ cand \in [Epochs -> CandRows]
    BY NoneApart DEF Typed, JobsTyped, CandsTyped, JobsKnown
  <1>1. \A q \in Requests : \A k \in Submitted(q) : k \in Submitted(q)'
    BY SubmissionKinds DEF NoSubmission, Posts, Starts
  <1>2. \A k \in Jobs : jobs[k].req \in Requests => jobs'[k].req = jobs[k].req
    BY <1>1 DEF Submitted
  <1>3. CASE UNCHANGED cand
    BY <1>0, <1>2, <1>3 DEF CandsTyped, PostedJobs, Submitted, At
  <1>4. ASSUME NEW e \in Epochs, NEW at \in {"idle", "dead", "submit", "posted"},
               NEW r \in Requests \cup {None}, NEW j \in Jobs \cup {None},
               Become(e, at, r, j), at \in {"submit", "posted"} => r \in Requests,
               at = "posted" /\ j # None => jobs'[j].req = r
        PROVE  CandsTyped' /\ PostedJobs'
    <2>1. \A f \in Epochs : cand'[f] =
            IF f = e THEN [at |-> at, req |-> r, job |-> j] ELSE cand[f]
      BY <1>0, <1>4 DEF Become
    <2>2. cand' \in [Epochs -> CandRows]
      BY <1>0, <1>4 DEF Become, CandRows
    <2>3. \A f \in Epochs : At(f, "submit")' \/ At(f, "posted")' => cand'[f].req \in Requests
      BY <1>0, <1>4, <2>1 DEF CandsTyped, At
    <2>4. ASSUME NEW f \in Epochs, cand'[f].at = "posted", cand'[f].job # None
          PROVE  cand'[f].job \in Jobs /\ jobs'[cand'[f].job].req = cand'[f].req
      <3>1. CASE f = e
        <4>1. cand'[f].req = r /\ cand'[f].job = j /\ at = "posted"
          BY <2>1, <2>4, <3>1
        <4> QED BY <1>4, <2>4, <4>1
      <3>2. CASE f # e
        <4>1. cand'[f] = cand[f] /\ cand[f].at = "posted" /\ cand[f].job # None
          BY <2>1, <2>4, <3>2
        <4>2. cand[f].req \in Requests /\ cand[f].job \in Jobs
              /\ jobs[cand[f].job].req = cand[f].req
          BY <1>0, <4>1 DEF CandsTyped, PostedJobs, Submitted, At
        <4> QED BY <1>2, <4>1, <4>2
      <3> QED BY <3>1, <3>2
    <2>5. PostedJobs'
      BY <2>4 DEF PostedJobs, Submitted, At
    <2> QED BY <2>2, <2>3, <2>5 DEF CandsTyped
  <1>5. CASE Becomes \/ RecordStep
    <2>1. PICK e \in Epochs, at \in {"idle", "dead"} : Become(e, at, None, None)
      BY <1>5 DEF Becomes, RecordStep
    <2> QED BY <1>4, <2>1
  <1>6. CASE StartStep
    <2>1. PICK e \in Epochs, r \in Requests : Become(e, "submit", r, None)
      BY <1>6 DEF StartStep
    <2> QED BY <1>4, <2>1
  <1>7. CASE SubmitStep
    <2>1. PICK e \in Epochs :
            /\ At(e, "submit")
            /\ \/ Become(e, "posted", cand[e].req, None)
               \/ \E j \in Jobs : /\ Enqueued(j, cand[e].req)
                                 /\ \E k \in {j, None} : Become(e, "posted", cand[e].req, k)
      BY <1>7 DEF SubmitStep
    <2>2. cand[e].req \in Requests
      BY <1>0, <2>1 DEF CandsTyped
    <2>3. CASE Become(e, "posted", cand[e].req, None)
      BY <1>4, <2>2, <2>3
    <2>4. ASSUME NEW j \in Jobs, Enqueued(j, cand[e].req), NEW k \in {j, None},
                 Become(e, "posted", cand[e].req, k)
          PROVE  CandsTyped' /\ PostedJobs'
      <3>1. jobs'[j].req = cand[e].req
        BY <1>0, <2>2, <2>4, EnqueuedJob
      <3> QED BY <1>4, <2>2, <2>4, <3>1
    <2> QED BY <2>1, <2>3, <2>4
  <1> QED BY <1>3, <1>5, <1>6, <1>7
          DEF StepKind, Rests, JobStep, PlanStep, MoveStep, AdmitStep, LeaveStep

\* What the operator has asked for after one more file.
LEMMA AskStep ==
  ASSUME AsksTyped, NEW q, Write(q), q.launch \in Requests, q.action \in Actions,
         \/ q \in Asked
         \/ Cardinality(Asked) < MaxOperator /\ q \notin Asked,
         q \in Asked => Cardinality(issued) < Cardinality(Asked) + MaxRepeats
  PROVE  AsksTyped' /\ \A f \in issued' : f \in issued \/ f.req = q
  <1> DEFINE f == Named(q, Cardinality(issued) + 1)
  <1>1. f.req = q /\ issued' = issued \cup {f} /\ opfiles' = opfiles \cup {f}
        /\ UNCHANGED <<audit, applied>>
    BY DEF Write, Named
  <1> HIDE DEF f
  <1>2. Asked' = Asked \cup {q}
    BY <1>1 DEF Asked
  <1>3. IsFiniteSet(issued) /\ IsFiniteSet(Asked)
    BY DEF AsksTyped
  <1>4. Cardinality(issued) \in Nat /\ Cardinality(Asked) \in Nat
    BY <1>3, FS_CardinalityType
  <1>8. IsFiniteSet(Asked')
    BY <1>2, <1>3, FS_AddElement
  <1>5. IsFiniteSet(issued') /\ Cardinality(issued') \in Nat
        /\ Cardinality(issued') <= Cardinality(issued) + 1
    <2>1. IsFiniteSet(issued \cup {f})
          /\ (Cardinality(issued \cup {f}) = Cardinality(issued)
              \/ Cardinality(issued \cup {f}) = Cardinality(issued) + 1)
      BY <1>3, FS_AddElement
    <2> QED BY <1>1, <1>4, <2>1
  <1>6. /\ Cardinality(Asked') <= MaxOperator
        /\ Cardinality(issued') <= Cardinality(Asked') + MaxRepeats
    <2>0. MaxOperator \in Nat /\ MaxRepeats \in Nat
      BY CapacityAssumption
    <2>1. CASE q \in Asked
      <3>1. Asked' = Asked
        BY <1>2, <2>1
      <3> QED BY <1>4, <1>5, <2>0, <2>1, <3>1 DEF AsksTyped
    <2>2. CASE q \notin Asked
      <3>1. Cardinality(Asked') = Cardinality(Asked) + 1
        BY <1>2, <1>3, <2>2, FS_AddElement
      <3>2. Cardinality(issued) <= Cardinality(Asked) + MaxRepeats
        BY DEF AsksTyped
      <3> QED BY <1>4, <1>5, <2>0, <2>2, <3>1, <3>2
    <2> QED BY <2>1, <2>2
  <1>7. \A g \in issued' : g.req.launch \in Requests /\ g.req.action \in Actions
    BY <1>1 DEF AsksTyped
  <1> QED BY <1>1, <1>5, <1>6, <1>7, <1>8 DEF AsksTyped

\* The operator's requests after a step: a job that one names was submitted.
LEMMA AsksStep ==
  ASSUME Typed, OpStep
  PROVE  /\ AsksTyped'
         /\ \A f \in issued' : f.req.job # None => f.req.job \in Submitted(f.req.launch)
  <1>0. /\ AsksTyped
        /\ \A f \in issued : f.req.job # None => f.req.job \in Submitted(f.req.launch)
    BY DEF Typed, JobsKnown
  <1>1. CASE UNCHANGED opVars
    BY <1>0, <1>1 DEF AsksTyped, Asked, opVars
  <1>2. ASSUME NEW r \in Requests, NEW action \in Actions, OperatorWrites(r, action)
        PROVE  /\ AsksTyped'
               /\ \A f \in issued' : f.req.job # None => f.req.job \in Submitted(f.req.launch)
    <2>1. PICK j \in IF action = "confirm_job_id" THEN Submitted(r) ELSE {None} :
            LET q == [launch |-> r, action |-> action, job |-> j, seen |-> Seen(r)]
            IN  q \notin Asked /\ Write(q)
      BY <1>2 DEF OperatorWrites
    <2> DEFINE q == [launch |-> r, action |-> action, job |-> j, seen |-> Seen(r)]
    <2>2. /\ q \notin Asked /\ Write(q)
          /\ q.launch = r /\ q.action = action /\ q.job = j
      BY <2>1
    <2> HIDE DEF q
    <2>3. Cardinality(Asked) < MaxOperator
      BY <1>2 DEF OperatorWrites
    <2>4. AsksTyped' /\ \A f \in issued' : f \in issued \/ f.req = q
      BY <1>0, <2>2, <2>3, AskStep
    <2>5. q.job # None => q.job \in Submitted(q.launch)
      BY <2>1, <2>2
    <2> QED BY <1>0, <2>4, <2>5
  <1>3. ASSUME NEW g \in issued, OperatorRepeats(g)
        PROVE  /\ AsksTyped'
               /\ \A f \in issued' : f.req.job # None => f.req.job \in Submitted(f.req.launch)
    <2>1. g.req \in Asked /\ Write(g.req)
          /\ Cardinality(issued) < Cardinality(Asked) + MaxRepeats
      BY <1>3 DEF OperatorRepeats, Asked
    <2>2. AsksTyped' /\ \A f \in issued' : f \in issued \/ f.req = g.req
      BY <1>0, <2>1, AskStep DEF AsksTyped
    <2> QED BY <1>0, <2>2
  <1>4. ASSUME NEW e \in Epochs, NEW g \in opfiles, ApplyOperator(e, g)
        PROVE  AsksTyped' /\ issued' = issued
    <2>1. /\ UNCHANGED <<opfiles, issued>>
          /\ applied' = applied \cup {g} /\ audit' = audit \cup {g.req}
      BY <1>4 DEF ApplyOperator
    <2>2. Asked' = Asked
      BY <2>1 DEF Asked
    <2> QED BY <1>0, <2>1, <2>2 DEF AsksTyped
  <1>5. ASSUME NEW e \in Epochs, NEW g \in opfiles, DisposeOperator(e, g)
        PROVE  AsksTyped' /\ issued' = issued
    <2>1. UNCHANGED <<issued, audit, applied>> /\ opfiles' = opfiles \ {g}
      BY <1>5 DEF DisposeOperator
    <2>2. Asked' = Asked
      BY <2>1 DEF Asked
    <2> QED BY <1>0, <2>1, <2>2 DEF AsksTyped
  <1> QED BY <1>0, <1>1, <1>2, <1>3, <1>4, <1>5 DEF OpStep, opVars

\* The types after a step, and what is known of jobs.
LEMMA TypedStep ==
  ASSUME IInv, Typed, StepKind, OpStep, FileStep
  PROVE  Typed'
  <1>0. LaunchType /\ CandsTyped /\ RowsPlaced /\ JobsKnown /\ AsksTyped
    BY DEF IInv, LaunchInv, Typed
  <1>1. JobsTyped' /\ CandsTyped' /\ FilesTyped' /\ AsksTyped'
    BY SubmissionKinds, CandsStep, FilesStep, AsksStep
  <1>2. RowsPlaced'
    BY <1>0, RowsBack DEF RowsPlaced
  <1>3. \A q \in Requests : Submitted(q) \subseteq Submitted(q)'
    BY SubmissionKinds DEF NoSubmission, Posts, Starts
  <1>4. \A r \in Requests : launch'[r].job # None => launch'[r].job \in Submitted(r)'
    BY <1>0, <1>3, RowsBack DEF JobsKnown
  <1>5. \A f \in issued' : f.req.job # None => f.req.job \in Submitted(f.req.launch)'
    <2> SUFFICES ASSUME NEW f \in issued', f.req.job # None
                 PROVE  f.req.job \in Submitted(f.req.launch)'
      OBVIOUS
    <2>1. f.req.launch \in Requests
      BY <1>1 DEF AsksTyped
    <2>2. f.req.job \in Submitted(f.req.launch)
      BY AsksStep
    <2> QED BY <1>3, <2>1, <2>2
  <1>6. JobsKnown'
    BY <1>4, <1>5, CandsStep DEF JobsKnown
  <1> QED BY <1>1, <1>2, <1>6 DEF Typed

-----------------------------------------------------------------------------
(* Whose job has ended.                                                    *)

\* Who is retired has ended, or was frozen by the close and needed no more; and
\* who is named as replaced is retired.
Kept ==
    /\ \A i \in Instances : instance[i].status = "retired" =>
         \/ instance[i].job \in Jobs /\ jobs[instance[i].job].state = "finished"
         \/ ctl.frozen[i] \in {"acked", "hard_crash"}
    /\ \A r \in Requests : launch[r].replaces # None =>
         instance[launch[r].replaces].status = "retired"

\* A plan changes one row, and retires whom it replaces.
LEMMA PlanKeeps ==
  ASSUME IInv, Typed, Kept, PlanStep
  PROVE  Kept'
  <1>0. /\ LaunchType /\ OwnerType /\ Rowed /\ UNCHANGED jobs
        /\ None \notin Instances
    BY NoneApart DEF IInv, LaunchInv, OwnerInv, PlanStep
  <1>1. ASSUME NEW s, NEW old \in Instances \cup {None}, NEW job, PlanLaunch(s, old, job)
        PROVE  \A r \in Requests :
                 launch'[r].replaces = launch[r].replaces \/ launch'[r].replaces = old
    <2>1. PICK q \in Requests :
            launch' = [launch EXCEPT ![q] =
              [@ EXCEPT !.state = "planned", !.stream = s, !.replaces = old,
                        !.expires = now + Ttl, !.reserved = TRUE]]
      BY <1>1 DEF PlanLaunch
    <2>2. launch[q] \in LaunchRows
      BY <1>0 DEF LaunchType
    <2> QED BY <1>0, <2>1, <2>2 DEF LaunchType, LaunchRows
  <1>2. ASSUME NEW s \in Streams, PlanLaunch(s, None, None) PROVE Kept'
    <2>1. UNCHANGED <<instance, ctl>>
      BY <1>2 DEF PlanLaunch, ownerVars
    <2>2. \A r \in Requests : launch'[r].replaces # None =>
            launch'[r].replaces = launch[r].replaces
      BY <1>1, <1>2
    <2> QED BY <1>0, <2>1, <2>2 DEF Kept
  <1>3. ASSUME NEW old \in Instances, "finished" \in Answers(instance[old].job),
               instance[old].job \in Jobs \cup {None},
               PlanLaunch(instance[old].stream, old, instance[old].job)
        PROVE  Kept'
    <2>1. /\ instance[old].job \in Jobs
          /\ jobs[instance[old].job].state = "finished"
          /\ Retire(old, "retired") /\ UNCHANGED ctl
      BY <1>0, <1>3, FinishedAnswer DEF PlanLaunch
    <2>2. instance' = [instance EXCEPT ![old].status = "retired"]
      BY <2>1 DEF Retire
    <2>3. \A i \in Instances :
            /\ instance'[i].job = instance[i].job
            /\ instance'[i].status = IF i = old THEN "retired" ELSE instance[i].status
      BY <1>0, <2>2 DEF OwnerType, InstanceRows
    <2>4. \A r \in Requests : launch[r].replaces \in Instances \cup {None}
      BY <1>0 DEF LaunchType, LaunchRows
    <2>5. \A r \in Requests :
            launch'[r].replaces = launch[r].replaces \/ launch'[r].replaces = old
      BY <1>1, <1>3
    <2> QED BY <1>0, <2>1, <2>3, <2>4, <2>5 DEF Kept
  <1> QED BY <1>2, <1>3 DEF PlanStep

\* An admission retires nobody but the one that its request replaces.
LEMMA AdmissionKeeps ==
  ASSUME IInv, Typed, Kept, AdmitStep
  PROVE  Kept'
  <1>0. /\ LaunchType /\ OwnerType /\ CandsTyped /\ FilesTyped /\ UNCHANGED jobs
        /\ None \notin Instances
    BY NoneApart DEF IInv, LaunchInv, OwnerInv, Typed, AdmitStep
  <1>1. PICK g \in files : AdmitIncarnation(g)
    BY DEF AdmitStep
  <1>2. /\ g \in Registrations /\ (g.request = None => g.replaces = None)
        /\ g.inst \in Instances
    BY <1>0 DEF FilesTyped, Registrations
  <1>3. /\ AdmitChanges(g) /\ Owners(g) \subseteq {g.replaces}
        /\ instance[g.inst].status = "none"
    BY <1>0, <1>1, <1>2, AdmitEffect, AdmitChecks
  <1>4. ASSUME NEW i \in Owners(g) PROVE instance[i].status = "retired" /\ i # g.inst
    <2>1. i = g.replaces /\ i # None
      BY <1>3, <1>4 DEF Owners
    <2>2. g.request \in Requests
      BY <1>2, <2>1 DEF Registrations
    <2>3. launch[g.request].replaces = g.replaces
      <3>1. Verdict(g) = "admit"
        BY <1>1 DEF AdmitIncarnation
      <3>2. Authorized(g)
        BY <3>1 DEF Verdict
      <3> QED BY <1>2, <2>1, <3>2 DEF Authorized
    <2> QED BY <1>3, <2>1, <2>2, <2>3 DEF Kept
  <1>5. \A i \in Instances \ {g.inst} : instance'[i].status = instance[i].status
                                        /\ instance'[i].job = instance[i].job
    <2> SUFFICES ASSUME NEW i \in Instances \ {g.inst}
                 PROVE  instance'[i].status = instance[i].status
                        /\ instance'[i].job = instance[i].job
      OBVIOUS
    <2>1. instance[i] \in InstanceRows
      BY <1>0 DEF OwnerType
    <2>2. instance'[i] = IF i \in Owners(g)
                         THEN [instance[i] EXCEPT !.status = "retired"] ELSE instance[i]
      BY <1>3 DEF AdmitChanges
    <2> QED BY <1>4, <2>1, <2>2 DEF InstanceRows
  <1>6. instance'[g.inst].status = "admitted"
    BY <1>3 DEF AdmitChanges
  <1>7. \A r \in Requests : launch'[r].replaces = launch[r].replaces
    <2>1. PICK h \in files : /\ AdmitIncarnation(h)
                            /\ \/ UNCHANGED launch
                               \/ h.request \in Requests /\ RowMoves(h.request)
      BY DEF AdmitStep
    <2>2. CASE UNCHANGED launch
      BY <2>2
    <2>3. ASSUME NEW q \in Requests, RowMoves(q)
          PROVE  \A r \in Requests : launch'[r].replaces = launch[r].replaces
      BY <1>0, <2>3 DEF RowMoves, LaunchType
    <2> QED BY <2>1, <2>2, <2>3
  <1>8. \A r \in Requests : launch[r].replaces \in Instances \cup {None}
    BY <1>0 DEF LaunchType, LaunchRows
  <1>9. UNCHANGED ctl
    BY <1>1 DEF AdmitIncarnation
  <1> QED BY <1>0, <1>3, <1>5, <1>6, <1>7, <1>8, <1>9 DEF Kept

\* What a step of the close does to the instances: the one that answers keeps
\* its row but for its status, and those that are retired need no more.
LEMMA LeaveEffect ==
  ASSUME IInv, LeaveStep, NEW i \in Instances
  PROVE  /\ instance'[i].job = instance[i].job
         /\ instance[i].status = "retired" => instance'[i].status = "retired"
         /\ instance'[i].status = "retired" =>
              instance[i].status = "retired" \/ ctl'.frozen[i] \in {"acked", "hard_crash"}
         /\ ctl'.state = "closing" /\ ctl'.frozen[i] \in {"awaiting_ack", "acked"} =>
              /\ ctl.frozen[i] \in {"awaiting_ack", "acked"}
              /\ instance[i].status \in Present => instance'[i].status \in Present
  <1>0. OwnerType /\ Rowed /\ OwnersAgree /\ RestType /\ instance[i] \in InstanceRows
    BY DEF IInv, OwnerInv, LaunchInv, OwnerType
  <1>1. ASSUME NEW j \in Instances, NEW status \in {"draining", "retired"},
               Retire(j, status)
        PROVE  /\ instance'[i].job = instance[i].job
               /\ instance'[i].status = IF i = j THEN status ELSE instance[i].status
               /\ instance[j].status \in Present
    <2>1. instance[j].status \in Present /\ instance' = [instance EXCEPT ![j].status = status]
      BY <1>1 DEF Retire, FenceCurrent
    <2>2. CASE i = j
      <3> DEFINE new == [instance[i] EXCEPT !.status = status]
      <3>1. instance'[i] = new
        BY <1>0, <2>1, <2>2 DEF OwnerType
      <3>2. new.status = status /\ new.job = instance[i].job
        BY <1>0, StatusRow
      <3> HIDE DEF new
      <3> QED BY <2>1, <2>2, <3>1, <3>2
    <2>3. CASE i # j
      BY <1>0, <2>1, <2>3 DEF OwnerType
    <2> QED BY <2>1, <2>2, <2>3
  <1>2. ASSUME NEW j \in Instances, HardCrash(j)
        PROVE  /\ instance'[i].job = instance[i].job
               /\ instance[i].status = "retired" => instance'[i].status = "retired"
               /\ instance'[i].status = "retired" =>
                    instance[i].status = "retired" \/ ctl'.frozen[i] = "hard_crash"
               /\ ctl'.frozen[i] \in {"awaiting_ack", "acked"} =>
                    /\ ctl.frozen[i] \in {"awaiting_ack", "acked"}
                    /\ instance[i].status \in Present => instance'[i].status \in Present
    <2>1. Answered(j, "hard_crash") /\ Retire(j, "retired")
      BY <1>2 DEF HardCrash
    <2>2. /\ ctl'.frozen[j] = "hard_crash"
          /\ \A k \in Instances \ {j} : ctl'.frozen[k] = ctl.frozen[k]
      BY <1>0, <2>1, AnsweredRow
    <2> QED BY <1>1, <2>1, <2>2
  <1>3. ASSUME NEW j \in Instances, NEW final \in BOOLEAN, AcknowledgeClose(j, final)
        PROVE  /\ instance'[i].job = instance[i].job
               /\ instance[i].status = "retired" => instance'[i].status = "retired"
               /\ instance'[i].status = "retired" => instance[i].status = "retired"
               /\ ctl'.frozen[i] \in {"awaiting_ack", "acked"} =>
                    /\ ctl.frozen[i] \in {"awaiting_ack", "acked"}
                    /\ instance[i].status \in Present => instance'[i].status \in Present
    <2>1. /\ ctl.frozen[j] = "awaiting_ack"
          /\ \A k \in Instances \ {j} : ctl'.frozen[k] = ctl.frozen[k]
      BY <1>0, <1>3, AnsweredRow DEF AcknowledgeClose
    <2>2. CASE Retire(j, "draining")
      BY <1>1, <2>1, <2>2 DEF Present
    <2>3. CASE UNCHANGED ownerVars
      BY <2>1, <2>3 DEF ownerVars
    <2> QED BY <1>3, <2>2, <2>3 DEF AcknowledgeClose
  <1>4. CASE FinalizeClose
    <2>1. RetireAll(Acked) /\ ctl' = [ctl EXCEPT !.state = "finalized"]
      BY <1>4 DEF FinalizeClose
    <2>2. ctl'.state = "finalized" /\ ctl'.frozen = ctl.frozen
      BY <1>0, <2>1 DEF RestType
    <2>3. instance'[i] = IF i \in Acked THEN [instance[i] EXCEPT !.status = "retired"]
                         ELSE instance[i]
      BY <2>1 DEF RetireAll
    <2>4. CASE i \in Acked
      <3>1. instance'[i] = [instance[i] EXCEPT !.status = "retired"]
        BY <2>3, <2>4
      <3>2. instance'[i].job = instance[i].job /\ instance'[i].status = "retired"
        BY <1>0, <3>1, StatusRow
      <3>3. ctl'.frozen[i] = "acked"
        BY <2>2, <2>4 DEF Acked
      <3> QED BY <2>2, <3>2, <3>3
    <2>5. CASE i \notin Acked
      BY <2>2, <2>3, <2>5
    <2> QED BY <2>4, <2>5
  <1> QED BY <1>2, <1>3, <1>4 DEF LeaveStep

\* Every step keeps the learners whose job has not ended.
LEMMA KeptStep ==
  ASSUME IInv, Typed, StepKind, CtlStep, Kept
  PROVE  Kept'
  <1>0. LaunchType /\ CandsTyped /\ CloseFrozen
    BY DEF IInv, LaunchInv, Typed
  <1>1. CASE PlanStep
    BY <1>1, PlanKeeps
  <1>2. CASE AdmitStep
    BY <1>2, AdmissionKeeps
  <1>3. CASE ~PlanStep /\ ~AdmitStep
    <2>1. \A i \in Instances :
            /\ instance'[i].job = instance[i].job
            /\ instance[i].status = "retired" => instance'[i].status = "retired"
            /\ instance'[i].status = "retired" =>
                 instance[i].status = "retired" \/ ctl'.frozen[i] \in {"acked", "hard_crash"}
      <3>1. CASE LeaveStep
        BY <3>1, LeaveEffect
      <3>2. CASE UNCHANGED instance
        BY <3>2
      <3> QED BY <1>3, <3>1, <3>2
              DEF StepKind, Rests, Becomes, JobStep, MoveStep, StartStep, SubmitStep,
                  RecordStep, ownerVars
    <2>2. \A r \in Requests : launch'[r].replaces = launch[r].replaces
      BY <1>0, <1>3, RowsBack
    <2>3. \A k \in Jobs : jobs[k].state = "finished" => jobs'[k].state = "finished"
      BY SubmissionKinds
    <2>4. \A i \in Instances : ctl.frozen[i] \in {"acked", "hard_crash"} =>
            ctl'.frozen[i] \in {"acked", "hard_crash"}
      BY <1>0, AnswerStands
    <2>5. \A r \in Requests : launch[r].replaces \in Instances \cup {None}
      BY <1>0 DEF LaunchType, LaunchRows
    <2> QED BY <2>1, <2>2, <2>3, <2>4, <2>5 DEF Kept
  <1> QED BY <1>1, <1>2, <1>3

\* Who still has to be retired by the close is present.
CloseHeld ==
    ctl.state = "closing" => \A i \in Instances :
        ctl.frozen[i] \in {"awaiting_ack", "acked"} => instance[i].status \in Present

\* Nothing retires them before: plans and admissions have ended.
LEMMA HeldStep ==
  ASSUME IInv, StepKind, CtlStep, CloseHeld, Typed
  PROVE  CloseHeld'
  <1>1. CASE LeaveStep
    <2>1. ctl.state = "closing"
      BY <1>1 DEF LeaveStep, HardCrash, AcknowledgeClose, Answered, FinalizeClose
    <2> QED BY <1>1, <2>1, LeaveEffect DEF CloseHeld
  <1>2. CASE PlanStep
    <2>1. ctl.state = "open" /\ UNCHANGED ctl
      BY <1>2 DEF PlanStep, PlanLaunch
    <2> QED BY <2>1 DEF CloseHeld
  <1>3. CASE AdmitStep
    <2>1. PICK g \in files : AdmitIncarnation(g)
      BY <1>3 DEF AdmitStep
    <2>2. g \in Registrations
      BY DEF Typed, FilesTyped
    <2>3. ctl.state \notin Closed /\ UNCHANGED ctl
      BY <2>1, <2>2, AdmitChecks DEF AdmitIncarnation
    <2> QED BY <2>3 DEF CloseHeld, Closed
  <1>4. CASE UNCHANGED ownerVars
    BY <1>4 DEF CtlStep, CloseHeld, ownerVars
  <1> QED BY <1>1, <1>2, <1>3, <1>4
          DEF StepKind, Rests, Becomes, JobStep, MoveStep, StartStep, SubmitStep, RecordStep

-----------------------------------------------------------------------------
(* The theorems.                                                           *)

CapacityInv == IInv /\ Typed /\ Submission /\ Books /\ Kept /\ CloseHeld

\* The inductive invariant holds at first.
LEMMA CapacityBegins == CapacityInit => CapacityInv
  <1> SUFFICES ASSUME CapacityInit PROVE CapacityInv
    OBVIOUS
  <1>1. MembershipInit
    BY DEF CapacityInit
  <1>2. IInv /\ Typed
    BY <1>1, InitIInv, InitTyped
  <1>3. \A r \in Requests : Submitted(r) = {} /\ \A e \in Epochs : ~Submits(e, r)
    BY NoneApart DEF CapacityInit, Submitted, Submits, At
  <1>4. Submission /\ Books
    BY <1>1, <1>3 DEF Submission, Books, Over, MembershipInit
  <1>5. Kept
    BY <1>1 DEF Kept, MembershipInit
  <1>6. CloseHeld
    BY <1>1 DEF CloseHeld, MembershipInit
  <1> QED BY <1>2, <1>4, <1>5, <1>6 DEF CapacityInv

\* Every step keeps it, and is a command or leaves the tables alone.
LEMMA CapacityStep ==
  CapacityInv /\ [CapacityNext]_capacityVars => CapacityInv' /\ [MembershipNext]_vars
  <1> SUFFICES ASSUME CapacityInv, [CapacityNext]_capacityVars
               PROVE  CapacityInv' /\ [MembershipNext]_vars
    OBVIOUS
  <1>0. IInv /\ Typed /\ Submission /\ Books /\ Kept /\ CloseHeld /\ RestType
    BY DEF CapacityInv, IInv, LaunchInv
  <1>1. StepKind /\ [MembershipNext]_vars /\ OpStep /\ FileStep
    BY <1>0, StepKinds, OtherKinds
  <1>2. IInv'
    BY <1>0, <1>1, NextIInv
  <1>3. Typed'
    BY <1>0, <1>1, TypedStep
  <1>4. Submission' /\ Books'
    BY <1>0, <1>1, SubmissionStep
  <1>5. Kept' /\ CloseHeld'
    <2>1. CtlStep
      BY <1>0, <1>1, NextCtl
    <2> QED BY <1>0, <1>1, <2>1, KeptStep, HeldStep
  <1> QED BY <1>1, <1>2, <1>3, <1>4, <1>5 DEF CapacityInv

\* The inductive invariant holds in every reachable state.
LEMMA CapacityInvariant == CapacitySpec => []CapacityInv
  <1> QED BY CapacityBegins, CapacityStep, PTL DEF CapacitySpec

\* The leaders' programs do nothing to the membership tables but issue
\* commands, whatever the scheduler, the learners and the operator do.
THEOREM CapacityImplementsMembership == CapacitySpec => AreMembershipCommands
  <1>1. CapacityInit => MembershipInit
    BY DEF CapacityInit
  <1> QED BY <1>1, CapacityInvariant, CapacityStep, PTL
          DEF CapacitySpec, AreMembershipCommands, MembershipSpec

\* Every variable keeps its type.
THEOREM CapacityTypeCorrect == CapacitySpec => []CapacityTypeOK
  <1>1. ASSUME CapacityInv PROVE CapacityTypeOK
    <2>1. MembershipTypeOK
      BY <1>1, TypeParts DEF CapacityInv, IInv, OwnerInv, LaunchInv
    <2>2. JobsTyped /\ JobsRight /\ CandsTyped /\ FilesTyped /\ AsksTyped
      BY <1>1 DEF CapacityInv, Typed, JobsTyped
    <2> QED BY <2>1, <2>2 DEF CapacityTypeOK, JobsTyped, JobsRight, JobRows, CandsTyped,
                              CandRows, FilesTyped, AsksTyped
  <1> QED BY <1>1, CapacityInvariant, PTL

\* A request is submitted at most once.
THEOREM CapacityOneSubmission == CapacitySpec => []OneSubmission
  <1>1. ASSUME CapacityInv, NEW r \in Requests PROVE Cardinality(Submitted(r)) <= 1
    <2>1. \A j, k \in Submitted(r) : j = k
      BY <1>1 DEF CapacityInv, Submission, Submitted
    <2>2. CASE Submitted(r) = {}
      BY <2>2, FS_EmptySet
    <2>3. ASSUME NEW j \in Submitted(r) PROVE Cardinality(Submitted(r)) <= 1
      <3>1. Submitted(r) = {j}
        BY <2>1, <2>3
      <3> QED BY <3>1, FS_Singleton
    <2> QED BY <2>2, <2>3
  <1>2. CapacityInv => OneSubmission
    BY <1>1 DEF OneSubmission
  <1> QED BY <1>2, CapacityInvariant, PTL

\* Capacity that runs, waits or may still be submitted is in the books.
THEOREM CapacityIsAccounted == CapacitySpec => []LiveJobIsAccounted
  <1>1. ASSUME CapacityInv, NEW r \in Requests,
               \/ \E j \in Submitted(r) : jobs[j].state \in Positive
               \/ \E e \in Epochs : Submits(e, r)
        PROVE  launch[r].reserved \/ launch[r].state = "admitted" \/ launch[r].noted
    <2>1. launch[r].state # "none"
      BY <1>1 DEF CapacityInv, Submission
    <2>2. ~Over(r)
      BY <1>1 DEF CapacityInv, Books, Positive
    <2>3. launch[r].reserved <=> launch[r].state \notin Released
      BY <1>1, <2>1 DEF CapacityInv, IInv, LaunchInv, ReservationHeld, Planned
    <2> QED BY <2>2, <2>3 DEF Over, Released
  <1>2. CapacityInv => LiveJobIsAccounted
    BY <1>1 DEF LiveJobIsAccounted, Submits
  <1> QED BY <1>2, CapacityInvariant, PTL

\* A learner is fenced off only when the job it runs in has ended, or by the
\* close once it has answered or was given up.
THEOREM CapacityLiveInstanceKept == CapacitySpec => []LiveInstanceKept
  <1>1. CapacityInv => LiveInstanceKept
    BY DEF CapacityInv, Kept, LiveInstanceKept
  <1> QED BY <1>1, CapacityInvariant, PTL

\* The close can retire everybody it froze and did not give up, nobody else is
\* present in it, and nobody is after it.
THEOREM CapacityCloseRetiresAll == CapacitySpec => []CloseRetiresAll
  <1>1. ASSUME CapacityInv PROVE CloseRetiresAll
    <2>1. CloseHeld /\ CloseFrozen /\ OwnersAgree
      BY <1>1 DEF CapacityInv, IInv, OwnerInv
    <2> QED BY <2>1 DEF CloseHeld, CloseFrozen, OwnersAgree, CloseRetiresAll
  <1> QED BY <1>1, CapacityInvariant, PTL

\* The operator's decision is applied to the state the operator saw.
THEOREM CapacityOperatorSawIt == CapacitySpec => OperatorSawIt
  <1>1. ASSUME CapacityInv, [CapacityNext]_capacityVars, NEW r \in Requests,
               launch'[r].noted, ~launch[r].noted
        PROVE  \E f \in opfiles : f.req.launch = r /\ f.req.seen = Seen(r)
    <2>1. StepKind /\ LaunchType /\ CandsTyped
      BY <1>1, StepKinds DEF CapacityInv, IInv, LaunchInv, Typed
    <2> QED BY <1>1, <2>1, RowsBack DEF SeenByOperator
  <1>2. CapacityInv /\ [CapacityNext]_capacityVars =>
          [\A r \in Requests :
             (launch'[r].noted /\ ~launch[r].noted) =>
               \E f \in opfiles : f.req.launch = r /\ f.req.seen = Seen(r)]_capacityVars
    BY <1>1
  <1> QED BY <1>2, CapacityInvariant, PTL DEF CapacitySpec, OperatorSawIt

-----------------------------------------------------------------------------
(* The membership commands implement FleetLedger.                          *)

\* The first owner of a stream gets the epoch that the stream begins with.
FirstEpochs == \A s \in Streams : ~UsedBefore(s) => stream[s].epoch = 1

\* A retirement leaves what was granted and who has joined, and takes at most
\* the retired instance's stream.
LEMMA RetireSeen ==
  ASSUME OwnerType, Rowed, NEW i \in Instances, NEW status \in {"draining", "retired"},
         Retire(i, status)
  PROVE  /\ \A s \in Streams : UsedBefore(s)' <=> UsedBefore(s)
         /\ \A s \in Streams : stream'[s].epoch = stream[s].epoch
         /\ Granted' = Granted /\ Joined' = Joined
         /\ instance[i].stream \in Streams /\ Owned[instance[i].stream] = i
         /\ status = "draining" => Owned' = Owned
         /\ status = "retired" => Owned' = [Owned EXCEPT ![instance[i].stream] = None]
  <1>1. RetireChanges(i, status)
    BY RetireEffect
  <1>2. \A j \in Instances : /\ instance'[j].stream = instance[j].stream
                             /\ instance'[j].epoch = instance[j].epoch
                             /\ instance'[j].request = instance[j].request
                             /\ instance'[j].status = "none" <=> instance[j].status = "none"
    <2> TAKE j \in Instances
    <2>1. instance[j] \in InstanceRows
      BY DEF OwnerType
    <2>2. CASE j = i
      <3>1. instance'[j] = [instance[j] EXCEPT !.status = status]
        BY <1>1, <2>2 DEF RetireChanges, OwnerType
      <3> QED BY <1>1, <2>1, <2>2, <3>1, StatusRow DEF RetireChanges, Present
    <2>3. CASE j # i
      BY <1>1, <2>3 DEF RetireChanges, OwnerType
    <2> QED BY <2>2, <2>3
  <1>3. \A s \in Streams : UsedBefore(s)' <=> UsedBefore(s)
    BY <1>2 DEF UsedBefore
  <1>4. \A s \in Streams : stream'[s].epoch = stream[s].epoch
    BY <1>1 DEF RetireChanges
  <1>5. Granted' = Granted
    BY <1>3, <1>4 DEF Granted
  <1>6. Joined' = Joined
    BY <1>2 DEF Joined, JoinedAs
  <1>7. instance[i].stream \in Streams /\ Owned[instance[i].stream] = i
    BY <1>1 DEF RetireChanges, FenceCurrent, Owned
  <1>8. status = "draining" => Owned' = Owned
    BY DEF Retire, Owned
  <1>9. status = "retired" => Owned' = [Owned EXCEPT ![instance[i].stream] = None]
    BY <1>1 DEF RetireChanges, Owned
  <1> QED BY <1>3, <1>4, <1>5, <1>6, <1>7, <1>8, <1>9

\* Retiring several is their leaving; nobody owns a stream any more when they
\* are all that are present.
LEMMA RetireAllSeen ==
  ASSUME OwnerType, Rowed, OwnersAgree, NEW S \in SUBSET Instances, RetireAll(S)
  PROVE  /\ \A s \in Streams : UsedBefore(s)' <=> UsedBefore(s)
         /\ \A s \in Streams : stream'[s].epoch = stream[s].epoch
         /\ Granted' = Granted /\ Joined' = Joined
         /\ (\A i \in Instances : instance[i].status \in Present => i \in S) =>
              Owned' = [s \in Streams |-> None]
  <1>1. RetireAllChanges(S)
    BY RetireAllEffect
  <1>2. \A j \in Instances : /\ instance'[j].stream = instance[j].stream
                             /\ instance'[j].epoch = instance[j].epoch
                             /\ instance'[j].request = instance[j].request
                             /\ instance'[j].status = "none" <=> instance[j].status = "none"
    BY <1>1 DEF RetireAllChanges, FenceCurrent, Present
  <1>3. \A s \in Streams : UsedBefore(s)' <=> UsedBefore(s)
    BY <1>2 DEF UsedBefore
  <1>4. \A s \in Streams : stream'[s].epoch = stream[s].epoch
    BY <1>1 DEF RetireAllChanges
  <1>5. Granted' = Granted
    BY <1>3, <1>4 DEF Granted
  <1>6. Joined' = Joined
    BY <1>2 DEF Joined, JoinedAs
  <1>7. ASSUME \A i \in Instances : instance[i].status \in Present => i \in S
        PROVE  Owned' = [s \in Streams |-> None]
    <2> SUFFICES ASSUME NEW s \in Streams PROVE stream'[s].owner = None
      BY DEF Owned
    <2>1. stream[s].owner # None => stream[s].owner \in S
      BY <1>7 DEF OwnersAgree, FenceCurrent, OwnerType
    <2> QED BY <1>1, <2>1 DEF RetireAllChanges
  <1> QED BY <1>3, <1>4, <1>5, <1>6, <1>7

\* An admission is a joining in the place of one other at most, or of nobody.
LEMMA AdmitSeen ==
  ASSUME OwnerType, Rowed, OwnersAgree, FirstEpochs, NEW g \in Registrations, AdmitIncarnation(g)
  PROVE  /\ FirstEpochs'
         /\ Joined[g.inst] = None
         /\ Granted' = [Granted EXCEPT ![g.stream] = @ + 1]
         /\ Joined' = [Joined EXCEPT ![g.inst] =
                         [stream |-> g.stream, epoch |-> Granted[g.stream] + 1,
                          request |-> g.request]]
         /\ \E old \in Instances \cup {None} :
              /\ Owned[g.stream] \in {None, old}
              /\ Owned' = [t \in Streams |->
                             IF t = g.stream THEN g.inst
                             ELSE IF Owned[t] = old THEN None ELSE Owned[t]]
  <1>1. AdmitChanges(g)
    BY AdmitEffect
  <1>2. g.inst \in Instances /\ g.stream \in Streams /\ g.replaces \in Instances \cup {None}
    BY DEF Registrations
  <1>3. NextEpoch(g.stream) = Granted[g.stream] + 1
    <2>1. stream[g.stream].epoch \in Nat
      BY <1>2 DEF OwnerType
    <2>2. ~UsedBefore(g.stream) => stream[g.stream].epoch = 1
      BY <1>2 DEF FirstEpochs
    <2> QED BY <1>2, <2>1, <2>2 DEF NextEpoch, Granted
  <1>4. /\ instance'[g.inst].status = "admitted"
        /\ instance'[g.inst].stream = g.stream
        /\ instance'[g.inst].epoch = NextEpoch(g.stream)
        /\ instance'[g.inst].request = g.request
        /\ stream'[g.stream].epoch = NextEpoch(g.stream)
        /\ stream'[g.stream].owner = g.inst
    BY <1>1 DEF AdmitChanges
  <1>5. \A j \in Instances \ {g.inst} :
           /\ instance'[j].stream = instance[j].stream
           /\ instance'[j].epoch = instance[j].epoch
           /\ instance'[j].request = instance[j].request
           /\ instance'[j].status =
                IF j \in Owners(g) THEN "retired" ELSE instance[j].status
    BY <1>1, AdmitRow
  <1>6. \A s \in Streams \ {g.stream} :
           /\ stream'[s].epoch = stream[s].epoch
           /\ stream'[s].owner = IF stream[s].owner \in Owners(g) THEN None
                                 ELSE stream[s].owner
    <2> TAKE s \in Streams \ {g.stream}
    <2>1. stream[s] \in [epoch : Nat \ {0}, owner : Instances \cup {None}]
      BY DEF OwnerType
    <2> QED BY <1>1, <2>1 DEF AdmitChanges
  <1>7. instance[g.inst].status = "none" /\ instance[g.inst].stream = None
    BY <1>1, <1>2 DEF AdmitChanges, Rowed
  <1>8. UsedBefore(g.stream)'
    BY <1>2, <1>4 DEF UsedBefore
  <1>9. \A s \in Streams \ {g.stream} : UsedBefore(s)' <=> UsedBefore(s)
    <2> TAKE s \in Streams \ {g.stream}
    <2>1. instance'[g.inst].stream # s /\ instance[g.inst].stream # s
      BY <1>4, <1>7, MembershipAssumption
    <2> QED BY <1>5, <2>1 DEF UsedBefore
  <1>10. FirstEpochs'
    BY <1>6, <1>8, <1>9 DEF FirstEpochs
  <1>11. Joined[g.inst] = None
    BY <1>2, <1>7 DEF Joined, JoinedAs
  <1>12. Granted' = [Granted EXCEPT ![g.stream] = @ + 1]
    BY <1>2, <1>3, <1>4, <1>6, <1>8, <1>9 DEF Granted
  <1>13. \A j \in Owners(g) : instance[j].status # "none"
    BY OwnersPresent DEF FenceCurrent, Present
  <1>14. Joined' = [Joined EXCEPT ![g.inst] =
                      [stream |-> g.stream, epoch |-> Granted[g.stream] + 1,
                       request |-> g.request]]
    <2>1. ASSUME NEW j \in Instances, j # g.inst PROVE JoinedAs(j)' = JoinedAs(j)
      BY <1>5, <1>13, <2>1 DEF JoinedAs
    <2>2. JoinedAs(g.inst)' = [stream |-> g.stream, epoch |-> Granted[g.stream] + 1,
                               request |-> g.request]
      BY <1>3, <1>4 DEF JoinedAs
    <2> QED BY <1>2, <2>1, <2>2 DEF Joined
  <1>15. \E old \in Instances \cup {None} :
           /\ Owned[g.stream] \in {None, old}
           /\ Owned' = [t \in Streams |->
                          IF t = g.stream THEN g.inst
                          ELSE IF Owned[t] = old THEN None ELSE Owned[t]]
    <2>1. Owners(g) \subseteq {g.replaces}
      BY AdmitChecks
    <2>2. None \notin Owners(g)
      BY DEF Owners
    <2>3. \A s \in Streams : stream[s].owner \in Instances \cup {None}
      BY DEF OwnerType
    <2>4. CASE Owners(g) = {}
      <3>1. Owned[g.stream] = None
        BY <1>2, <2>3, <2>4 DEF Owners, Owned
      <3>2. Owned' = [t \in Streams |->
                        IF t = g.stream THEN g.inst
                        ELSE IF Owned[t] = None THEN None ELSE Owned[t]]
        BY <1>4, <1>6, <2>4 DEF Owned
      <3> QED BY <3>1, <3>2
    <2>5. CASE Owners(g) # {}
      <3>1. Owners(g) = {g.replaces} /\ g.replaces # None
        BY <2>1, <2>2, <2>5
      <3>2. Owned[g.stream] \in {None, g.replaces}
        BY <1>2, <2>1, <2>3 DEF Owners, Owned
      <3>3. Owned' = [t \in Streams |->
                        IF t = g.stream THEN g.inst
                        ELSE IF Owned[t] = g.replaces THEN None ELSE Owned[t]]
        BY <1>4, <1>6, <3>1 DEF Owned
      <3> QED BY <1>2, <3>2, <3>3
    <2> QED BY <2>4, <2>5
  <1> QED BY <1>10, <1>11, <1>12, <1>14, <1>15

\* A plan is a promise within the budget to a stream that has no other.
LEMMA PlanSeen ==
  ASSUME LaunchType, ReservationHeld, NEW r \in Requests, NEW s \in Streams, ~Planned(r),
         Plannable(s),
         NEW old \in Instances \cup {None},
         launch' = [launch EXCEPT ![r] =
           [@ EXCEPT !.state = "planned", !.stream = s, !.replaces = old,
                     !.expires = now + Ttl, !.reserved = TRUE]]
  PROVE  /\ PromisedTo[r] = None
         /\ PromisedTo' = [PromisedTo EXCEPT ![r] = s]
         /\ Open' = Open \cup {r}
         /\ Cardinality(Open) < MaxPending
         /\ \A q \in Open : PromisedTo[q] # s
  <1>1. launch[r] \in LaunchRows
    BY DEF LaunchType
  <1>2. launch'[r].state = "planned" /\ launch'[r].stream = s /\ launch'[r].reserved
    BY <1>1 DEF LaunchType, LaunchRows
  <1>3. \A q \in Requests : q # r => launch'[q] = launch[q]
    BY DEF LaunchType
  <1>4. PromisedTo[r] = None
    BY DEF PromisedTo
  <1>5. PromisedTo' = [PromisedTo EXCEPT ![r] = s]
    <2>1. PromisedTo' = [q \in Requests |->
                           IF launch'[q].state # "none" THEN launch'[q].stream ELSE None]
      BY DEF PromisedTo, Planned
    <2>2. \A q \in Requests :
            (IF launch'[q].state # "none" THEN launch'[q].stream ELSE None)
              = IF q = r THEN s
                ELSE IF launch[q].state # "none" THEN launch[q].stream ELSE None
      BY <1>2, <1>3
    <2>3. PromisedTo' = [q \in Requests |->
                           IF q = r THEN s
                           ELSE IF launch[q].state # "none" THEN launch[q].stream ELSE None]
      BY <2>1, <2>2
    <2> QED BY <2>3 DEF PromisedTo, Planned
  <1>6. Open' = Open \cup {r}
    BY <1>2, <1>3 DEF Open
  <1>7. Cardinality(Open) < MaxPending
    BY DEF Plannable, Open
  <1>8. \A q \in Open : PromisedTo[q] # s
    BY DEF Plannable, Reserved, Open, PromisedTo, ReservationHeld
  <1> QED BY <1>4, <1>5, <1>6, <1>7, <1>8

\* A planned row that stays with its stream and is released, or is not.
LEMMA RowSeen ==
  ASSUME LaunchType, ReservationHeld, NEW r \in Requests, NEW row \in LaunchRows,
         launch' = [launch EXCEPT ![r] = row],
         launch[r].reserved, row.state # "none", row.stream = launch[r].stream
  PROVE  /\ PromisedTo' = PromisedTo
         /\ r \in Open /\ PromisedTo[r] = launch[r].stream
         /\ row.reserved => Open' = Open
         /\ ~row.reserved => Open' = Open \ {r}
  <1>1. launch'[r] = row /\ \A q \in Requests : q # r => launch'[q] = launch[q]
    BY DEF LaunchType
  <1>2. Planned(r) /\ Planned(r)'
    BY <1>1 DEF ReservationHeld, Planned
  <1>3. PromisedTo' = PromisedTo
    BY <1>1, <1>2 DEF PromisedTo, Planned
  <1>4. r \in Open /\ PromisedTo[r] = launch[r].stream
    BY <1>2 DEF Open, PromisedTo
  <1>5. row.reserved => Open' = Open
    BY <1>1 DEF Open
  <1>6. ~row.reserved => Open' = Open \ {r}
    BY <1>1 DEF Open
  <1> QED BY <1>3, <1>4, <1>5, <1>6

\* A transition or a decision of the operator gives a promise up or leaves it.
LEMMA MoveSeen ==
  ASSUME LaunchType, RestType, ReservationHeld, NEW r \in Requests,
         Transition(r) \/ Resolution(r)
  PROVE  /\ PromisedTo' = PromisedTo
         /\ Open' = Open \/ (r \in Open /\ Open' = Open \ {r})
  <1>1. CASE Transition(r)
    <2>1. PICK row \in LaunchRows :
                 /\ launch' = [launch EXCEPT ![r] = row]
                 /\ <<launch[r].state, row.state>> \in Moves
                 /\ row.stream = launch[r].stream
      BY <1>1, MovedRow
    <2>2. launch[r].reserved
      BY <2>1, MoveEnds DEF ReservationHeld, Planned, Released
    <2>3. row.state # "none"
      BY <2>1, MoveEnds DEF LaunchStates, Admissible, Unsure, Released
    <2> QED BY <2>1, <2>2, <2>3, RowSeen
  <1>2. CASE Resolution(r)
    <2>1. launch[r].reserved
      BY <1>2, ResolvedRow DEF ReservationHeld, Planned, Unsure, Released
    <2>2. PICK row \in LaunchRows :
                 /\ launch' = [launch EXCEPT ![r] = row]
                 /\ row.stream = launch[r].stream
                 /\ row.state \in {"submitted", "manual_review", "failed", "expired"}
      BY <1>2, ResolvedRow
    <2> QED BY <2>1, <2>2, RowSeen
  <1> QED BY <1>1, <1>2

\* An admission closes the request that it is for.
LEMMA RequestSeen ==
  ASSUME LaunchType, ReservationHeld, NEW g \in Registrations, AdmitIncarnation(g)
  PROVE  /\ g.request # None => g.request \in Open /\ PromisedTo[g.request] = g.stream
         /\ PromisedTo' = PromisedTo
         /\ Open' = Open \ {g.request}
  <1>1. SettleRequest(g)
    BY DEF AdmitIncarnation
  <1>2. CASE g.request = None
    <2>1. None \notin Open
      BY MembershipAssumption DEF Open, Requests
    <2> QED BY <1>1, <1>2, <2>1 DEF SettleRequest, PromisedTo, Open, Planned
  <1>3. CASE g.request # None
    <2> DEFINE r == g.request
               row == [launch[r] EXCEPT !.state = "admitted", !.admitted = g.inst,
                                        !.deadline = None, !.reserved = FALSE]
    <2>1. r \in Requests /\ g.inst \in Instances
      BY <1>3 DEF Registrations
    <2>2. launch[r] \in LaunchRows
      BY <2>1 DEF LaunchType
    <2>3. row \in LaunchRows /\ row.state = "admitted" /\ row.reserved = FALSE
          /\ row.stream = launch[r].stream
      BY <2>1, <2>2 DEF LaunchRows, LaunchStates, Released
    <2>4. launch' = [launch EXCEPT ![r] = row]
      BY <1>1, <1>3 DEF SettleRequest
    <2>5. launch[r].state \in Admissible /\ launch[r].stream = g.stream
      BY <1>3, AdmitChecks
    <2>6. launch[r].reserved
      BY <2>1, <2>5 DEF ReservationHeld, Planned, Admissible, Unsure, Released
    <2> HIDE DEF r, row
    <2>7. PromisedTo' = PromisedTo /\ r \in Open /\ PromisedTo[r] = launch[r].stream
          /\ Open' = Open \ {r}
      BY <2>1, <2>3, <2>4, <2>6, RowSeen
    <2> QED BY <2>5, <2>7 DEF r
  <1> QED BY <1>2, <1>3

\* The state as FleetLedger sees it, when owners or rows are left alone.
LEMMA OwnersUnseen ==
  UNCHANGED ownerVars => UNCHANGED <<Owned, Granted, Joined>>
  BY DEF ownerVars, Owned, Granted, Joined, JoinedAs, UsedBefore

\* The same of the launch rows.
LEMMA LaunchUnseen ==
  UNCHANGED launch => UNCHANGED <<PromisedTo, Open>>
  BY DEF PromisedTo, Planned, Open

\* What the mapping of a step to FleetLedger rests on.
FleetInv == IInv /\ FirstEpochs

\* The first epochs are kept by every step.
LEMMA FirstEpochsStep ==
  ASSUME FleetInv, [MembershipNext]_vars
  PROVE  FirstEpochs'
  <1>1. OwnerStep
    BY NextOwners
  <1>2. CASE UNCHANGED ownerVars
    BY <1>2 DEF FleetInv, FirstEpochs, UsedBefore, ownerVars
  <1>3. ASSUME NEW i \in Instances, NEW status \in {"draining", "retired"},
               Retire(i, status)
        PROVE  FirstEpochs'
    BY <1>3, RetireSeen DEF FleetInv, IInv, OwnerInv, FirstEpochs
  <1>4. ASSUME NEW g \in Registrations, AdmitIncarnation(g) PROVE FirstEpochs'
    BY <1>4, AdmitSeen DEF FleetInv, IInv, OwnerInv
  <1>5. ASSUME NEW S \in SUBSET Instances, RetireAll(S) PROVE FirstEpochs'
    BY <1>5, RetireAllSeen DEF FleetInv, IInv, OwnerInv, FirstEpochs
  <1> QED BY <1>1, <1>2, <1>3, <1>4, <1>5 DEF OwnerStep

\* The invariant holds at first and in every reachable state.
LEMMA FleetInvariant == MembershipSpec => []FleetInv
  <1>1. MembershipInit => FleetInv
    BY InitIInv DEF MembershipInit, FleetInv, FirstEpochs
  <1>2. FleetInv /\ [MembershipNext]_vars => FleetInv'
    BY NextIInv, FirstEpochsStep DEF FleetInv
  <1> QED BY <1>1, <1>2, PTL DEF MembershipSpec

\* Every command is a step of FleetLedger or is not seen there.
LEMMA FleetMapped ==
  ASSUME FleetInv, [MembershipNext]_vars
  PROVE  [Fleet!FleetNext]_(Fleet!fleetVars)
  <1> USE DEF FleetInv, IInv, OwnerInv, LaunchInv
  <1>1. CASE AcquireLeader \/ Tick \/ UNCHANGED vars
    <2>1. UNCHANGED ownerVars /\ UNCHANGED <<launch, ctl>>
      BY <1>1 DEF AcquireLeader, Tick, vars, ownerVars
    <2> QED BY <2>1, OwnersUnseen, LaunchUnseen DEF Fleet!fleetVars
  <1>2. CASE BeginPreclose
    <2>1. UNCHANGED ownerVars /\ UNCHANGED launch
          /\ ctl.state = "open" /\ ctl'.state = "preclosing"
      BY <1>2 DEF BeginPreclose, RestType
    <2>2. Fleet!Preclose
      BY <2>1, OwnersUnseen, LaunchUnseen DEF Fleet!Preclose
    <2> QED BY <2>2 DEF Fleet!FleetNext
  <1>3. CASE BeginClose
    <2>1. UNCHANGED ownerVars /\ UNCHANGED launch
          /\ ctl.state \in {"open", "preclosing"} /\ ctl'.state = "closing"
      BY <1>3 DEF BeginClose, RestType
    <2>2. Fleet!Close
      BY <2>1, OwnersUnseen, LaunchUnseen DEF Fleet!Close
    <2> QED BY <2>2 DEF Fleet!FleetNext
  <1>4. ASSUME NEW i \in Instances, NEW status \in {"draining", "retired"},
               RetireIncarnation(i, status)
        PROVE  [Fleet!FleetNext]_(Fleet!fleetVars)
    <2>1. Retire(i, status) /\ UNCHANGED <<ctl, launch>>
      BY <1>4 DEF RetireIncarnation
    <2>2. UNCHANGED <<Granted, Joined, PromisedTo, Open>>
      BY <2>1, RetireSeen, LaunchUnseen
    <2>3. CASE status = "draining"
      <3>1. UNCHANGED Owned
        BY <2>1, <2>3, RetireSeen
      <3> QED BY <2>1, <2>2, <3>1 DEF Fleet!fleetVars
    <2>4. CASE status = "retired"
      <3>1. instance[i].stream \in Streams /\ Owned[instance[i].stream] # None
            /\ Owned' = [Owned EXCEPT ![instance[i].stream] = None]
        BY <2>1, <2>4, RetireSeen, MembershipAssumption
      <3>2. Fleet!Leave(instance[i].stream)
        BY <2>1, <2>2, <3>1 DEF Fleet!Leave
      <3> QED BY <3>1, <3>2 DEF Fleet!FleetNext
    <2> QED BY <2>3, <2>4
  <1>5. ASSUME NEW g \in Registrations, AdmitIncarnation(g)
        PROVE  Fleet!FleetNext
    <2>1. g.inst \in Instances /\ g.stream \in Streams /\ g.request \in Requests \cup {None}
      BY DEF Registrations
    <2>2. PICK old \in Instances \cup {None} :
            /\ Owned[g.stream] \in {None, old}
            /\ Owned' = [t \in Streams |->
                           IF t = g.stream THEN g.inst
                           ELSE IF Owned[t] = old THEN None ELSE Owned[t]]
      BY <1>5, AdmitSeen
    <2>3. /\ Joined[g.inst] = None
          /\ Granted' = [Granted EXCEPT ![g.stream] = @ + 1]
          /\ Joined' = [Joined EXCEPT ![g.inst] =
                          [stream |-> g.stream, epoch |-> Granted[g.stream] + 1,
                           request |-> g.request]]
      BY <1>5, AdmitSeen
    <2>4. /\ g.request # None => g.request \in Open /\ PromisedTo[g.request] = g.stream
          /\ PromisedTo' = PromisedTo
          /\ Open' = Open \ {g.request}
      BY <1>5, RequestSeen
    <2>5. ctl.state \in {"open", "preclosing"} /\ ctl' = ctl
      BY <1>5, AdmitChecks DEF AdmitIncarnation, Closed, ControllerStates, RestType
    <2>6. Fleet!Join(g.inst, g.stream, g.request, old)
      BY <2>2, <2>3, <2>4, <2>5 DEF Fleet!Join
    <2> QED BY <2>1, <2>2, <2>6 DEF Fleet!FleetNext
  <1>6. ASSUME NEW s \in Streams, NEW old \in Instances \cup {None},
               NEW job \in Jobs \cup {None}, PlanLaunch(s, old, job)
        PROVE  Fleet!FleetNext
    <2>1. PICK r \in Requests :
            /\ ~Planned(r)
            /\ launch' = [launch EXCEPT ![r] =
                 [@ EXCEPT !.state = "planned", !.stream = s, !.replaces = old,
                           !.expires = now + Ttl, !.reserved = TRUE]]
      BY <1>6 DEF PlanLaunch
    <2>2. ctl.state = "open" /\ ctl' = ctl /\ Plannable(s)
      BY <1>6 DEF PlanLaunch
    <2>3. /\ PromisedTo[r] = None
          /\ PromisedTo' = [PromisedTo EXCEPT ![r] = s]
          /\ Open' = Open \cup {r}
          /\ Cardinality(Open) < MaxPending
          /\ \A q \in Open : PromisedTo[q] # s
      BY <2>1, <2>2, PlanSeen
    <2>4. Granted' = Granted /\ Joined' = Joined /\ Owned' = [Owned EXCEPT ![s] = None]
      <3>1. CASE old = None
        <4>1. UNCHANGED ownerVars /\ stream[s].owner = None
          BY <1>6, <3>1 DEF PlanLaunch
        <4>2. Owned = [Owned EXCEPT ![s] = None]
          BY <4>1 DEF Owned
        <4> QED BY <4>1, <4>2, OwnersUnseen
      <3>2. CASE old # None
        <4>1. Retire(old, "retired") /\ stream[s].owner = old /\ old \in Instances
          BY <1>6, <3>2 DEF PlanLaunch
        <4>2. instance[old].stream = s
          BY <3>2, <4>1 DEF OwnersAgree
        <4> QED BY <4>1, <4>2, RetireSeen
      <3> QED BY <3>1, <3>2
    <2>5. Fleet!Cardinality(Open) = Cardinality(Open)
      BY DEF Cardinality, Fleet!Cardinality
    <2>6. Fleet!Promise(r, s)
      BY <2>2, <2>3, <2>4, <2>5 DEF Fleet!Promise
    <2> QED BY <2>6 DEF Fleet!FleetNext
  <1>7. ASSUME UNCHANGED ownerVars, UNCHANGED ctl,
               NEW r \in Requests, Transition(r) \/ Resolution(r)
        PROVE  [Fleet!FleetNext]_(Fleet!fleetVars)
    <2>1. UNCHANGED <<Owned, Granted, Joined>>
      BY <1>7, OwnersUnseen
    <2>2. PromisedTo' = PromisedTo
          /\ (Open' = Open \/ (r \in Open /\ Open' = Open \ {r}))
      BY <1>7, MoveSeen
    <2>3. CASE Open' = Open
      BY <1>7, <2>1, <2>2, <2>3 DEF Fleet!fleetVars
    <2>4. CASE r \in Open /\ Open' = Open \ {r}
      <3>1. Fleet!GiveUp(r)
        BY <1>7, <2>1, <2>2, <2>4 DEF Fleet!GiveUp
      <3> QED BY <3>1 DEF Fleet!FleetNext
    <2> QED BY <2>2, <2>3, <2>4
  <1>8. ASSUME NEW r \in Requests, NEW job \in Jobs \cup {None}, NEW terminal \in BOOLEAN,
               NEW move \in Moves, TransitionLaunch(r, move[1], move[2], job, terminal)
        PROVE  [Fleet!FleetNext]_(Fleet!fleetVars)
    <2>1. UNCHANGED ownerVars /\ UNCHANGED ctl
      BY <1>8 DEF TransitionLaunch
    <2>2. Transition(r)
      <3> DEFINE state == move[2]
                 kept == IF job = None THEN launch[r].job ELSE job
                 held == launch[r].reserved /\ state \notin Released
      <3>1. <<launch[r].state, state>> \in Moves
        BY <1>8 DEF TransitionLaunch
      <3>2. launch' = [launch EXCEPT ![r] =
              [@ EXCEPT !.state = state, !.job = kept,
                        !.deadline = Deadline(r, state), !.reserved = held]]
        BY <1>8 DEF TransitionLaunch
      <3>3. kept \in Jobs \cup {None}
        BY DEF LaunchType, LaunchRows
      <3>4. held \in BOOLEAN /\ (held <=> launch[r].reserved /\ state \notin Released)
        OBVIOUS
      <3> HIDE DEF state, kept, held
      <3>5. state \in LaunchStates
        BY <3>1, MoveEnds
      <3> QED BY <3>1, <3>2, <3>3, <3>4, <3>5 DEF Transition
    <2> QED BY <1>7, <2>1, <2>2
  <1>9. ASSUME NEW r \in Requests, NEW action \in Actions, NEW job \in Jobs \cup {None},
               ResolveLaunch(r, action, job)
        PROVE  [Fleet!FleetNext]_(Fleet!fleetVars)
    <2>1. UNCHANGED ownerVars /\ UNCHANGED ctl
      BY <1>9 DEF ResolveLaunch
    <2>2. Resolution(r)
      BY <1>9 DEF Resolution
    <2> QED BY <1>7, <2>1, <2>2
  <1>10. ASSUME NEW i \in Instances, NEW state \in {"acked", "hard_crash"},
                Answered(i, state),
                UNCHANGED ownerVars \/ \E status \in {"draining", "retired"} : Retire(i, status)
         PROVE  [Fleet!FleetNext]_(Fleet!fleetVars)
    <2>1. UNCHANGED launch /\ ctl'.state = ctl.state
      BY <1>10, AnsweredRow DEF Answered
    <2>2. CASE UNCHANGED ownerVars
      BY <2>1, <2>2, OwnersUnseen, LaunchUnseen DEF Fleet!fleetVars
    <2>3. ASSUME NEW status \in {"draining", "retired"}, Retire(i, status)
          PROVE  [Fleet!FleetNext]_(Fleet!fleetVars)
      <3>1. UNCHANGED <<Granted, Joined, PromisedTo, Open>>
        BY <2>1, <2>3, RetireSeen, LaunchUnseen
      <3>2. CASE status = "draining"
        <4>1. UNCHANGED Owned
          BY <2>3, <3>2, RetireSeen
        <4> QED BY <2>1, <3>1, <4>1 DEF Fleet!fleetVars
      <3>3. CASE status = "retired"
        <4>1. instance[i].stream \in Streams /\ Owned[instance[i].stream] # None
              /\ Owned' = [Owned EXCEPT ![instance[i].stream] = None]
          BY <2>3, <3>3, RetireSeen, MembershipAssumption
        <4>2. Fleet!Leave(instance[i].stream)
          BY <2>1, <3>1, <4>1 DEF Fleet!Leave
        <4> QED BY <4>1, <4>2 DEF Fleet!FleetNext
      <3> QED BY <3>2, <3>3
    <2> QED BY <1>10, <2>2, <2>3
  <1>11. ASSUME NEW i \in Instances, HardCrash(i)
         PROVE  [Fleet!FleetNext]_(Fleet!fleetVars)
    BY <1>10, <1>11 DEF HardCrash
  <1>12. ASSUME NEW i \in Instances, NEW final \in BOOLEAN, AcknowledgeClose(i, final)
         PROVE  [Fleet!FleetNext]_(Fleet!fleetVars)
    <2>1. Answered(i, "acked") /\ (UNCHANGED ownerVars \/ Retire(i, "draining"))
      BY <1>12 DEF AcknowledgeClose
    <2> QED BY <1>10, <2>1
  <1>13. CASE FinalizeClose
    <2>1. /\ RetireAll(Acked) /\ UNCHANGED launch
          /\ ctl.state = "closing" /\ ctl'.state = "finalized"
      BY <1>13 DEF FinalizeClose, RestType
    <2>2. \A i \in Instances : instance[i].status \in Present => i \in Acked
      BY <1>13, <2>1 DEF FinalizeClose, CloseFrozen, Acked
    <2>3. Acked \in SUBSET Instances
      BY DEF Acked
    <2>4. UNCHANGED <<Granted, Joined, PromisedTo, Open>>
          /\ Owned' = [s \in Streams |-> None]
      BY <2>1, <2>2, <2>3, RetireAllSeen, LaunchUnseen
    <2>5. Fleet!Finish
      BY <2>1, <2>4 DEF Fleet!Finish
    <2> QED BY <2>5 DEF Fleet!FleetNext
  <1> QED
    BY <1>1, <1>2, <1>3, <1>4, <1>5, <1>6, <1>8, <1>9, <1>11, <1>12, <1>13
       DEF MembershipNext

\* The membership commands implement FleetLedger, for any streams, placements,
\* instances and budget and whoever issues them.
THEOREM MembershipImplementsFleet == MembershipSpec => ImplementsFleet
  <1>1. MembershipInit => Fleet!FleetInit
    <2> SUFFICES ASSUME MembershipInit PROVE Fleet!FleetInit
      OBVIOUS
    <2>1. \A s \in Streams : ~UsedBefore(s)
      BY MembershipAssumption DEF MembershipInit, UsedBefore
    <2>2. Owned = [s \in Streams |-> None] /\ Granted = [s \in Streams |-> 0]
      BY <2>1 DEF MembershipInit, Owned, Granted
    <2>3. Joined = [i \in Instances |-> None]
      BY DEF MembershipInit, Joined, JoinedAs
    <2>4. PromisedTo = [r \in Requests |-> None] /\ Open = {}
      BY DEF MembershipInit, PromisedTo, Planned, Open
    <2> QED BY <2>2, <2>3, <2>4 DEF MembershipInit, Fleet!FleetInit
  <1>2. FleetInv /\ [MembershipNext]_vars => [Fleet!FleetNext]_(Fleet!fleetVars)
    BY FleetMapped
  <1> QED
    BY <1>1, <1>2, FleetInvariant, PTL DEF MembershipSpec, ImplementsFleet, Fleet!FleetSpec

\* The leaders' programs implement FleetLedger, whatever the scheduler, the
\* jobs, the learners and the operator do and wherever leaders die.
THEOREM CapacityImplementsFleet == CapacitySpec => ImplementsFleet
  <1> QED BY CapacityImplementsMembership, MembershipImplementsFleet
          DEF AreMembershipCommands
=============================================================================
