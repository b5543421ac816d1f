------------------------------ MODULE Capacity ------------------------------
(***************************************************************************)
(* Dynamic capacity: the leader's part of runtime/services/                *)
(* dynamic_capacity.py and of the admission pass of runtime/syncer.py,     *)
(* which issue the commands of Membership, and what they talk to: the      *)
(* batch scheduler behind runtime/pbs_scheduler.py, the learner processes  *)
(* and their admission request files, and the operator's request files.    *)
(*                                                                         *)
(* Candidate e was granted epoch e and may crash, or be paused while a     *)
(* successor leads, between any two steps; the qsub of a deposed candidate *)
(* still reaches the scheduler.  A scheduler answer and the command that   *)
(* records it are one step: the row changes only through the leader, and   *)
(* an answer says "finished" only of a job that has finished for good.     *)
(*                                                                         *)
(* The policy that asks for capacity (thresholds, windows, cooldown, grace *)
(* periods) is a choice the leader may make at any time.                   *)
(***************************************************************************)
EXTENDS Membership

CONSTANTS
    BootSlots,    \* slots that a job was submitted for when the run started
    \* Bounds: qsubs that report no job id, repeated starts of a job by the
    \* scheduler, requests that the operator makes up and requests that the
    \* operator repeats.
    MaxLost, MaxReruns, MaxOperator, MaxRepeats

ASSUME CapacityAssumption ==
    /\ BootSlots \subseteq Streams
    /\ MaxLost \in Nat /\ MaxReruns \in Nat
    /\ MaxOperator \in Nat /\ MaxRepeats \in Nat
    /\ Jobs \subseteq Nat

VARIABLES
    cand,      \* what each candidate is doing, and its request and job id
    lost,      \* qsubs so far that reported no job id
    jobs,      \* the scheduler's jobs
    ran,       \* instances that were started
    files,     \* hot admission request files
    recorded,  \* admission commands in command_records
    deferred,  \* recorded admissions whose response could not be written yet
    opfiles,   \* hot operator request files
    issued,    \* operator request files ever written
    audit,     \* scheduler_operator_requests
    applied    \* operator commands in command_records

jobVars  == <<lost, jobs, ran>>
fileVars == <<files, recorded, deferred>>
opVars   == <<opfiles, issued, audit, applied>>
capacityVars == <<vars, cand, jobVars, fileVars, opVars>>

Epochs == 1 .. MaxEpoch
JobStates == {"none", "queued", "running", "finished"}
Positive == {"queued", "running"}   \* "queued" stands for prologue, suspended

\* What the hash of a launch row covers (scheduler_state_sha256).
Seen(r) == [state |-> launch[r].state, job |-> launch[r].job,
            deadline |-> launch[r].deadline, noted |-> launch[r].noted,
            admitted |-> launch[r].admitted]

Asked == {f.req : f \in issued}   \* what the operator has asked for

CapacityTypeOK ==
    /\ MembershipTypeOK
    /\ cand \in [Epochs -> [at : {"absent", "idle", "submit", "posted", "dead"},
                            req : Requests \cup {None}, job : Jobs \cup {None}]]
    /\ lost \in 0 .. MaxLost
    /\ jobs \in [Jobs -> [state : JobStates, stream : Streams \cup {None},
                          req : Requests \cup {None}, place : Placements \cup {None},
                          runs : 0 .. MaxReruns + 1]]
    /\ ran \subseteq Instances
    /\ files \subseteq Registrations /\ recorded \subseteq Registrations
    /\ deferred \subseteq files \cap recorded
    /\ Cardinality(Asked) <= MaxOperator
    /\ Cardinality(issued) <= Cardinality(Asked) + MaxRepeats
    /\ opfiles \subseteq issued /\ applied \subseteq issued
    /\ audit \subseteq {f.req : f \in applied}

CapacityInit ==
    /\ MembershipInit
    /\ cand = [e \in Epochs |-> [at |-> "absent", req |-> None, job |-> None]]
    /\ lost = 0
    /\ jobs = [j \in Jobs |-> [state |-> "none", stream |-> None, req |-> None,
                               place |-> None, runs |-> 0]]
    /\ ran = {} /\ files = {} /\ recorded = {} /\ deferred = {}
    /\ opfiles = {} /\ issued = {} /\ audit = {} /\ applied = {}

-----------------------------------------------------------------------------
(* Candidates.                                                             *)

Commanding(e) == leader = e
At(e, at) == cand[e].at = at

Become(e, at, r, j) == cand' = [cand EXCEPT ![e] = [at |-> at, req |-> r, job |-> j]]

Alive(e) == cand[e].at \notin {"absent", "dead"}

\* The successor starts with an admission pass of its own.
Takeover ==
    /\ AcquireLeader
    /\ Become(leader + 1, "idle", None, None)
    /\ deferred' = {}
    /\ UNCHANGED <<jobVars, files, recorded, opVars>>

\* A crash; also the end of a deposed candidate at its next command.
Crash(e) ==
    /\ Alive(e)
    /\ Become(e, "dead", None, None)
    /\ UNCHANGED <<vars, jobVars, fileVars, opVars>>

\* DynamicCapacityService.tick runs after the admission pass, which has dealt
\* with every hot file of a recorded admission or could not write for it.
Ticking(e) ==
    /\ At(e, "idle") /\ Commanding(e)
    /\ ctl.state = "open"
    /\ files \cap recorded \subseteq deferred

ClockTick == Tick /\ UNCHANGED <<cand, jobVars, fileVars, opVars>>

Preclose(e) ==
    /\ At(e, "idle") /\ BeginPreclose /\ Commanding(e)
    /\ UNCHANGED <<cand, jobVars, fileVars, opVars>>

Close(e) ==
    /\ At(e, "idle") /\ BeginClose /\ Commanding(e)
    /\ UNCHANGED <<cand, jobVars, fileVars, opVars>>

\* TerminalService in the close: an answer is ingested, silence at the deadline
\* is adjudicated, and the run is finalized.  Who answers, and when the deadline
\* has passed, is a choice here (Learner, Authority).
IngestAck(e, i) ==
    /\ At(e, "idle") /\ Commanding(e)
    /\ \E final \in BOOLEAN : AcknowledgeClose(i, final)
    /\ UNCHANGED <<cand, jobVars, fileVars, opVars>>

AdjudicateHardCrash(e, i) ==
    /\ At(e, "idle") /\ HardCrash(i) /\ Commanding(e)
    /\ UNCHANGED <<cand, jobVars, fileVars, opVars>>

Finalize(e) ==
    /\ At(e, "idle") /\ FinalizeClose /\ Commanding(e)
    /\ UNCHANGED <<cand, jobVars, fileVars, opVars>>

-----------------------------------------------------------------------------
(* The scheduler and the learner processes: external.                      *)

Submitted(r) == {j \in Jobs : jobs[j].req = r}

\* qsub of a learner job for stream s, for request r or for a bootstrap slot;
\* the scheduler numbers jobs in the order in which they are submitted.
Enqueue(j, s, r) ==
    /\ jobs[j].state = "none" /\ \A k \in Jobs : k < j => jobs[k].state # "none"
    /\ jobs' = [jobs EXCEPT ![j] =
         [@ EXCEPT !.state = "queued", !.stream = s, !.req = r]]

SubmitBootstrap(s) ==
    /\ s \in BootSlots
    /\ \A j \in Jobs : ~(jobs[j].stream = s /\ jobs[j].req = None)
    /\ \E j \in Jobs : Enqueue(j, s, None)
    /\ UNCHANGED <<vars, cand, lost, ran, fileVars, opVars>>

\* learner_entrypoint.main: a process with an instance id of its own publishes
\* its request, for the stream and the predecessor its job was submitted with.
Registration(i, j, p) ==
    [inst |-> i, place |-> p, stream |-> jobs[j].stream, request |-> jobs[j].req,
     replaces |-> IF jobs[j].req = None THEN None ELSE launch[jobs[j].req].replaces,
     job |-> j, created |-> now]

StartJob(j) ==
    /\ jobs[j].state = "queued"
    /\ \E p \in Placements, i \in Instances \ ran :
         /\ \A k \in Jobs : jobs[k].state = "running" => jobs[k].place # p
         /\ jobs' = [jobs EXCEPT ![j].state = "running", ![j].place = p,
                                 ![j].runs = @ + 1]
         /\ ran' = ran \cup {i}
         /\ files' = files \cup {Registration(i, j, p)}
    /\ UNCHANGED <<vars, cand, lost, recorded, deferred, opVars>>

\* The learner leaves, fails or is refused; a queued job may be removed.
FinishJob(j) ==
    /\ jobs[j].state \in Positive
    /\ jobs' = [jobs EXCEPT ![j].state = "finished", ![j].place = None]
    /\ UNCHANGED <<vars, cand, lost, ran, fileVars, opVars>>

\* The scheduler starts a job again whose node has failed.
RequeueJob(j) ==
    /\ jobs[j].state = "running" /\ jobs[j].runs <= MaxReruns
    /\ jobs' = [jobs EXCEPT ![j].state = "queued", ![j].place = None]
    /\ UNCHANGED <<vars, cand, lost, ran, fileVars, opVars>>

\* What qstat, live or historical, may say of job j: "none" is no record or a
\* failed query; a running job may be held, a job's state may be unreadable.
Answers(j) ==
    CASE jobs[j].state = "running"  -> {"running", "queued", "unknown", "none"}
      [] jobs[j].state = "queued"   -> {"queued", "unknown", "none"}
      [] jobs[j].state = "finished" -> {"finished", "none"}
      [] OTHER -> {"none"}

Positively(j) == Answers(j) \ {"unknown", "none"}

-----------------------------------------------------------------------------
(* _reconcile_launches.                                                    *)

PlanScaleOut(e) ==
    /\ Ticking(e)
    /\ \E s \in Streams :
         /\ stream[s].owner = None /\ ~Reserved(s)
         /\ \A t \in Streams : t < s => stream[t].owner # None \/ Reserved(t)
         /\ PlanLaunch(s, None, None)
    /\ UNCHANGED <<cand, jobVars, fileVars, opVars>>

\* Variant: no record of the job is taken for its end.
ConfirmedLostSilent(j) == Answers(j) \cap {"finished", "none"} # {}

\* _confirmed_lost_instance
ConfirmedLost(j) == "finished" \in Answers(j)

PlanReplacement(e) ==
    /\ Ticking(e)
    /\ \E old \in Instances :
         /\ instance[old].status = "admitted"
         /\ ConfirmedLost(instance[old].job)
         /\ PlanLaunch(instance[old].stream, old, instance[old].job)
    /\ UNCHANGED <<cand, jobVars, fileVars, opVars>>

ExpirePlanned(e, r) ==
    /\ Ticking(e)
    /\ now >= launch[r].expires
    /\ TransitionLaunch(r, "planned", "expired", None, FALSE)
    /\ UNCHANGED <<cand, jobVars, fileVars, opVars>>

StartSubmit(e, r) ==
    /\ Ticking(e)
    /\ now < launch[r].expires
    /\ TransitionLaunch(r, "planned", "submitting", None, FALSE)
    /\ Become(e, "submit", r, None)
    /\ UNCHANGED <<jobVars, fileVars, opVars>>

\* submit_learner: the job id is returned; or qsub times out or fails, with
\* or without a job.  Nothing here looks at the database.
Qsub(e) ==
    /\ At(e, "submit")
    /\ LET r == cand[e].req
       IN \/ \E j \in Jobs : /\ Enqueue(j, launch[r].stream, r)
                            /\ Become(e, "posted", r, j)
             /\ UNCHANGED lost
          \/ /\ lost < MaxLost
             /\ lost' = lost + 1
             /\ Become(e, "posted", r, None)
             /\ \/ \E j \in Jobs : Enqueue(j, launch[r].stream, r)
                \/ UNCHANGED jobs
    /\ UNCHANGED <<vars, ran, fileVars, opVars>>

\* _transition_observation
Observe(r, from, j, class) ==
    IF class = "finished" THEN TransitionLaunch(r, from, "failed", j, TRUE)
    ELSE TransitionLaunch(r, from,
           IF class = "running" /\ from \in {"submitted", "terminal_uncertain"}
           THEN "started" ELSE "submitted", j, FALSE)

\* The request scan finds a job with a usable state.
Found(r, from) ==
    \E j \in Submitted(r) : \E class \in Positively(j) : Observe(r, from, j, class)

Record(e) ==
    /\ At(e, "posted") /\ Commanding(e)
    /\ LET r == cand[e].req
           j == cand[e].job
       IN IF j # None THEN TransitionLaunch(r, "submitting", "submitted", j, FALSE)
          ELSE \/ Found(r, "submitting")
               \/ TransitionLaunch(r, "submitting", "submission_unknown", None, FALSE)
    /\ Become(e, "idle", None, None)
    /\ UNCHANGED <<jobVars, fileVars, opVars>>

\* Variant: a job that the scan does not find was never submitted.
SuccessorScanFailed(e, r) ==
    /\ Ticking(e)
    /\ \/ \E j \in Submitted(r) : \E class \in Answers(j) \ {"none"} :
            Observe(r, "submitting", j, class)
       \/ TransitionLaunch(r, "submitting", "failed", None, FALSE)
    /\ UNCHANGED <<cand, jobVars, fileVars, opVars>>

\* Variant: a launch that was interrupted is submitted again.
SuccessorScanResubmits(e, r) ==
    /\ Ticking(e)
    /\ launch[r].state = "submitting"
    /\ Become(e, "submit", r, None)
    /\ UNCHANGED <<vars, jobVars, fileVars, opVars>>

\* The row was left submitting by an earlier leader.  A job whose state is
\* unreadable counts as found here.
SuccessorScan(e, r) ==
    /\ Ticking(e)
    /\ \/ \E j \in Submitted(r) : \E class \in Answers(j) \ {"none"} :
            Observe(r, "submitting", j, class)
       \/ TransitionLaunch(r, "submitting", "submission_unknown", None, FALSE)
    /\ UNCHANGED <<cand, jobVars, fileVars, opVars>>

\* Variant: what no scan finds stays uncertain.
RescanForEver(e, r) ==
    /\ Ticking(e)
    /\ launch[r].job = None
    /\ \/ \E from \in Unsure : Found(r, from)
       \/ TransitionLaunch(r, "submission_unknown", "terminal_uncertain", None, FALSE)
    /\ UNCHANGED <<cand, jobVars, fileVars, opVars>>

\* An uncertain launch whose job id is not known.
Rescan(e, r) ==
    /\ Ticking(e)
    /\ launch[r].job = None
    /\ \/ \E from \in Unsure : Found(r, from)
       \/ TransitionLaunch(r, "submission_unknown", "terminal_uncertain", None, FALSE)
       \/ /\ DeadlinePassed(r)
          /\ TransitionLaunch(r, "terminal_uncertain", "manual_review", None, FALSE)
    /\ UNCHANGED <<cand, jobVars, fileVars, opVars>>

\* A launch whose job id is known.
Requery(e, r) ==
    /\ Ticking(e)
    /\ LET from == launch[r].state
           j == launch[r].job
       IN /\ from \in {"submitted", "started", "terminal_uncertain"} /\ j # None
          /\ \/ /\ "finished" \in Answers(j)
                /\ Observe(r, from, j, "finished")
             \/ /\ "running" \in Answers(j) /\ from # "started"
                /\ Observe(r, from, j, "running")
             \/ /\ "queued" \in Answers(j) /\ from = "terminal_uncertain"
                /\ Observe(r, from, j, "queued")
             \/ TransitionLaunch(r, from, "terminal_uncertain", j, FALSE)
             \/ /\ DeadlinePassed(r)
                /\ TransitionLaunch(r, from, "manual_review", j, FALSE)
    /\ UNCHANGED <<cand, jobVars, fileVars, opVars>>

Reconcile(e, r) ==
    \/ ExpirePlanned(e, r) \/ StartSubmit(e, r)
    \/ SuccessorScan(e, r) \/ Rescan(e, r) \/ Requery(e, r)

-----------------------------------------------------------------------------
(* The admission pass, one file at a time.                                 *)

Admitting(e, g) ==
    /\ At(e, "idle") /\ Commanding(e)
    /\ ctl.state \in {"open", "preclosing"}
    /\ g \in files

Dies(e) == Become(e, "dead", None, None)

AdmitFile(e, g) ==
    /\ Admitting(e, g) /\ g \notin recorded
    /\ AdmitIncarnation(g)
    /\ recorded' = recorded \cup {g}
    /\ UNCHANGED <<cand, jobVars, files, deferred, opVars>>

\* Response, disposition and archive of a file whose admission is recorded;
\* the admission command replays.
AnswerFile(e, g) ==
    /\ Admitting(e, g) /\ g \in recorded
    /\ FenceCurrent(g.inst)
    /\ files' = files \ {g} /\ deferred' = deferred \ {g}
    /\ UNCHANGED <<vars, cand, jobVars, recorded, opVars>>

\* The response cannot be written: the file stays, and the pass goes on.
DeferFile(e, g) ==
    /\ Admitting(e, g) /\ g \in recorded \ deferred
    /\ FenceCurrent(g.inst)
    /\ deferred' = deferred \cup {g}
    /\ UNCHANGED <<vars, cand, jobVars, files, recorded, opVars>>

\* Variant: a rejected file is not archived.
RejectFileStays(e, g) ==
    /\ Admitting(e, g) /\ g \notin recorded
    /\ Verdict(g) = "refuse"
    /\ UNCHANGED capacityVars

RejectFile(e, g) ==
    /\ Admitting(e, g) /\ g \notin recorded
    /\ Verdict(g) = "refuse"
    /\ files' = files \ {g}
    /\ UNCHANGED <<vars, cand, jobVars, recorded, deferred, opVars>>

\* AuthoritySchemaError and AdmissionInvariantError end the candidate; the
\* file stays.
FatalFile(e, g) ==
    /\ Admitting(e, g)
    /\ IF g \in recorded THEN ~FenceCurrent(g.inst) ELSE Verdict(g) = "fatal"
    /\ Dies(e)
    /\ UNCHANGED <<vars, jobVars, fileVars, opVars>>

Admission(e, g) ==
    \/ AdmitFile(e, g) \/ AnswerFile(e, g) \/ DeferFile(e, g)
    \/ RejectFile(e, g) \/ FatalFile(e, g)

-----------------------------------------------------------------------------
(* The operator's request files.  The name of a file is made from what it  *)
(* asks for; the time it was written (n) is part of its content only.      *)

Named(q, n) == [req |-> q, n |-> n]

Write(q) ==
    /\ \A f \in opfiles : f.req # q
    /\ LET f == Named(q, Cardinality(issued) + 1)
       IN opfiles' = opfiles \cup {f} /\ issued' = issued \cup {f}
    /\ UNCHANGED <<vars, cand, jobVars, fileVars, audit, applied>>

\* resolve_scheduler_uncertainty --apply, by an operator who looked at row r
\* and names a job only when the scheduler has it.
OperatorWrites(r, action) ==
    /\ launch[r].state \in Unsure \cup {"manual_review"}
    /\ Cardinality(Asked) < MaxOperator
    /\ \E j \in IF action = "confirm_job_id" THEN Submitted(r) ELSE {None} :
         LET q == [launch |-> r, action |-> action, job |-> j, seen |-> Seen(r)]
         IN q \notin Asked /\ Write(q)

\* The same call once more.
OperatorRepeats(f) ==
    /\ Cardinality(issued) < Cardinality(Asked) + MaxRepeats
    /\ Write(f.req)

Stale(f) == Seen(f.req.launch) # f.req.seen

\* Variant: the state that the operator saw is not compared.
ApplyBlindly(e, f) ==
    /\ Ticking(e) /\ f \in opfiles \ applied
    /\ f.req \notin audit
    /\ ResolveLaunch(f.req.launch, f.req.action, f.req.job)
    /\ applied' = applied \cup {f} /\ audit' = audit \cup {f.req}
    /\ UNCHANGED <<cand, jobVars, fileVars, opfiles, issued>>

\* apply_scheduler_operator_request: its command is named for the content of
\* the file, its audit row for the request.
ApplyOperator(e, f) ==
    /\ Ticking(e) /\ f \in opfiles \ applied
    /\ f.req \notin audit
    /\ IF Stale(f) THEN UNCHANGED vars
       ELSE ResolveLaunch(f.req.launch, f.req.action, f.req.job)
    /\ applied' = applied \cup {f} /\ audit' = audit \cup {f.req}
    /\ UNCHANGED <<cand, jobVars, fileVars, opfiles, issued>>

\* The audit row exists: IntegrityError, which nothing in the tick catches.
OperatorConflict(e, f) ==
    /\ Ticking(e) /\ f \in opfiles \ applied
    /\ f.req \in audit
    /\ Dies(e)
    /\ UNCHANGED <<vars, jobVars, fileVars, opVars>>

DisposeOperator(e, f) ==
    /\ Ticking(e) /\ f \in opfiles \cap applied
    /\ opfiles' = opfiles \ {f}
    /\ UNCHANGED <<vars, cand, jobVars, fileVars, issued, audit, applied>>

-----------------------------------------------------------------------------
External ==
    \/ \E s \in Streams : SubmitBootstrap(s)
    \/ \E j \in Jobs : StartJob(j) \/ FinishJob(j) \/ RequeueJob(j)
    \/ \E r \in Requests, action \in Actions : OperatorWrites(r, action)
    \/ \E f \in issued : OperatorRepeats(f)

LeaderNext(e) ==
    \/ PlanScaleOut(e) \/ PlanReplacement(e) \/ Qsub(e) \/ Record(e)
    \/ \E r \in Requests : Reconcile(e, r)
    \/ \E g \in files : Admission(e, g)
    \/ \E f \in opfiles :
         ApplyOperator(e, f) \/ OperatorConflict(e, f) \/ DisposeOperator(e, f)
    \/ Preclose(e) \/ Close(e) \/ Finalize(e)
    \/ \E i \in Instances : IngestAck(e, i) \/ AdjudicateHardCrash(e, i)

CapacityNext ==
    \/ Takeover \/ ClockTick \/ External
    \/ \E e \in Epochs : LeaderNext(e)
    \/ \E e \in Epochs \ {MaxEpoch} : Crash(e)

CapacitySpec == CapacityInit /\ [][CapacityNext]_capacityVars

\* The clock advances, a leader that is gone is followed by the next candidate,
\* a leader scans its rows and files in every round of its loop, and a preclose
\* has a deadline.  Nothing is assumed of jobs and of the operator.
FairCapacitySpec ==
    /\ CapacitySpec
    /\ WF_capacityVars(ClockTick)
    /\ WF_capacityVars((leader = 0 \/ cand[leader].at = "dead") /\ Takeover)
    /\ \A e \in Epochs :
         /\ WF_capacityVars(Qsub(e)) /\ WF_capacityVars(Record(e))
         /\ WF_capacityVars(ctl.state = "preclosing" /\ Close(e))
         /\ \A r \in Requests : WF_capacityVars(Reconcile(e, r))
         /\ \A g \in Registrations : WF_capacityVars(g \in files /\ Admission(e, g))
=============================================================================
