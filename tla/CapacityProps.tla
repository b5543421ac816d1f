---------------------------- MODULE CapacityProps ----------------------------
(***************************************************************************)
(* What the launch life cycle keeps true against a scheduler that answers  *)
(* late or not at all, candidates that are paused around a qsub, and an    *)
(* operator who decides about what nobody knows.                           *)
(***************************************************************************)
EXTENDS Capacity, MembershipProps

\* A request is submitted at most once, whichever leader reconciles it and
\* whatever the qsub before returned.
OneSubmission == \A r \in Requests : Cardinality(Submitted(r)) <= 1

\* Capacity that runs, waits in the queue or may still be submitted by a
\* paused leader is in the books: its request is reserved, has admitted an
\* instance, or was closed by the operator.
LiveJobIsAccounted ==
    \A r \in Requests :
        \/ \E j \in Submitted(r) : jobs[j].state \in Positive
        \/ \E e \in Epochs : At(e, "submit") /\ cand[e].req = r
        => launch[r].reserved \/ launch[r].state = "admitted" \/ launch[r].noted

\* A learner is fenced off only when the job it runs in has ended: silence of
\* the scheduler, or a replacement that registers late, is not enough.  The one
\* exception is the close of the run, and only for those it was frozen with: it
\* ends a learner that runs on after it has answered, or has failed to answer.
LiveInstanceKept ==
    \A i \in Instances : instance[i].status = "retired" =>
        \/ jobs[instance[i].job].state = "finished"
        \/ ctl.frozen[i] \in {"acked", "hard_crash"}

\* A close can always retire whom it still has to: those that it froze and did
\* not give up hold the fence it froze, so that neither an answer nor the
\* finalization, which is one transaction for all of them, fails on one; and
\* nobody else is present.  After it nobody is.
CloseRetiresAll ==
    /\ ctl.state = "closing" =>
         \A i \in Instances :
           IF ctl.frozen[i] \in {"awaiting_ack", "acked"} THEN FenceCurrent(i)
           ELSE instance[i].status \notin Present
    /\ ctl.state = "finalized" =>
         \A i \in Instances : instance[i].status \notin Present

\* A decision of the operator is applied to the state the operator saw or not
\* at all: a row that evidence has moved on meanwhile keeps what it has.
OperatorSawIt ==
    [][\A r \in Requests :
         (launch'[r].noted /\ ~launch[r].noted) =>
           \E f \in opfiles : f.req.launch = r /\ f.req.seen = Seen(r)]_capacityVars

\* Whatever these programs do to the membership tables are commands.
AreMembershipCommands == MembershipSpec

\* The last candidate has ended too: what ends it is not excluded here.
NobodyLeft == cand[MaxEpoch].at = "dead"

\* An uncertain launch does not stay uncertain: evidence, the operator or the
\* deadline ends it while the run is open and led, also across a takeover.
UncertaintyResolved ==
    \A r \in Requests :
        (launch[r].state \in Unsure /\ launch[r].deadline <= Horizon)
          ~> (launch[r].state \notin Unsure \/ ctl.state # "open" \/ NobodyLeft)

\* A learner that waits for its admission is answered, or finds the run closed.
RegistrationAnswered ==
    \A i \in Instances :
        (\E g \in files : g.inst = i)
          ~> ((\A g \in files : g.inst # i) \/ ctl.state \in Closed \/ NobodyLeft)

=============================================================================
