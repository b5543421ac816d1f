-------------------------------- MODULE Learner --------------------------------
(***************************************************************************)
(* Learners and the syncer candidates of Syncer, with the files between    *)
(* them.  An attempt <<l, g>> of learner l is one process: it waits for    *)
(* its admission response, trains a cycle, publishes the cycle's receipt   *)
(* and the proposal the receipt promises, and begins the next cycle when   *)
(* the leader that it follows has acknowledged the receipt.  It follows    *)
(* the highest epoch whose heartbeat it finds valid, and of that epoch     *)
(* alone it reads the response, the head, the acknowledgements, the drain  *)
(* and the terminal record.                                                *)
(*                                                                         *)
(* Data abstracted: the payload goes with the receipt that names its hash; *)
(* a response is the cycle to begin with; training, adoption and data      *)
(* cursors say no more than whether the cycle's work is worth a proposal.  *)
(* An attempt may end at any time: it dies, a wait runs out, or the local  *)
(* step limit is reached.  Immutable files are never half-written.         *)
(***************************************************************************)
EXTENDS SyncerProps

VARIABLES
    lpc,        \* where each attempt is
    cyc,        \* cycle_seq of each attempt
    seen,       \* the epoch in whose directory it looks for an acknowledgement
    posted,     \* receipts: attempt, cycle, proposal_expected
    proposed,   \* proposals: attempt, cycle
    declared,   \* final_cycle_seq of each attempt's terminal_ack, or -1
    beats,      \* epochs that have published a heartbeat
    response,   \* admission responses by epoch and learner
    answering,  \* the receipt a candidate has ingested and not acknowledged yet
    acked       \* receipt acknowledgements: epoch, slot

attemptVars == <<lpc, cyc, seen>>
inputVars   == <<posted, proposed, declared>>
answerVars  == <<beats, response, answering, acked>>
learnerVars == <<attemptVars, inputVars, answerVars>>
system      == <<allVars, learnerVars>>

Attempts == Learners \X (1 .. MaxGen)
Bound(l) == <<l, binding[l].gen>>     \* the attempt that holds the binding
IsBound(a) == FenceCurrent(a[1], a[2])

NoResponse == [gen |-> 0, next |-> 0]

LearnerTypeOK ==
    /\ lpc \in [Attempts -> {"absent", "waiting", "start", "top", "train", "propose",
                             "barrier", "reading", "leaving", "ended"}]
    /\ cyc \in [Attempts -> 0 .. MaxCycle + 1]
    /\ seen \in [Attempts -> 0 .. MaxEpoch]
    /\ posted \subseteq Attempts \X Cycles \X BOOLEAN
    /\ proposed \subseteq Attempts \X Cycles
    /\ declared \in [Attempts -> -1 .. MaxCycle]
    /\ beats \subseteq Epochs
    /\ response \in [Epochs \X Learners -> [gen : 0 .. MaxGen, next : 0 .. MaxCycle + 1]]
    /\ answering \in [Epochs -> SUBSET Slots]
    /\ acked \subseteq Epochs \X Slots

LearnerInit ==
    /\ SyncerInit
    /\ lpc = [a \in Attempts |-> "absent"]
    /\ cyc = [a \in Attempts |-> 0]
    /\ seen = [a \in Attempts |-> 0]
    /\ posted = {}
    /\ proposed = {}
    /\ declared = [a \in Attempts |-> -1]
    /\ beats = {}
    /\ response = [r \in Epochs \X Learners |-> NoResponse]
    /\ answering = [e \in Epochs |-> {}]
    /\ acked = {}

-----------------------------------------------------------------------------
(* The candidates' side.                                                   *)

\* syncer_entrypoint.main: the first heartbeat, before anything else.
Heartbeat(e) ==
    /\ pc[e] = "reconcile" /\ e \notin beats
    /\ beats' = beats \cup {e}
    /\ UNCHANGED <<allVars, attemptVars, inputVars, response, answering, acked>>

\* _repair_current_admission_controls and the end of _admit_requests: the
\* candidate's own response for the current fence; one that exists stays.
Respond(e, l) ==
    /\ e \in beats /\ pc[e] \in {"reconcile", "admit", "late"}
    /\ binding[l].status = "active"
    /\ response[<<e, l>>].gen # binding[l].gen
    /\ response' = [response EXCEPT ![<<e, l>>] =
                      [gen |-> binding[l].gen, next |-> progress[l] + 1]]
    /\ UNCHANGED <<allVars, attemptVars, inputVars, beats, answering, acked>>

Scanning(e) == pc[e] \in {"ingest", "drain", "visible", "final"}

\* Variant: only the cycle that is due is looked for.
ScannedNext(l) == {progress[l] + 1}

\* The cycles of a current fence whose receipt files _ingest_proposals reads.
Scanned(l) == {progress[l], progress[l] + 1}

Posted(a, c) == \E expected \in BOOLEAN : <<a, c, expected>> \in posted

\* Variant: a receipt is acknowledged whatever has become of it.
KnownAnyway(u) == TRUE

\* The command of the receipt is on record.
Known(u) == receipt[u].gen = binding[Key(u)].gen

\* ingest_cycle_receipt of a receipt that is ingested already: the command is
\* replayed, and the acknowledgement is published again.
Replay(e, l) ==
    /\ Commanding(e) /\ Scanning(e) /\ answering[e] = {}
    /\ binding[l].status = "active"
    /\ \E c \in Scanned(l) \cap Cycles :
         /\ Posted(Bound(l), c) /\ Known(<<l, c>>)
         /\ <<e, <<l, c>>>> \notin acked
         /\ answering' = [answering EXCEPT ![e] = {<<l, c>>}]
    /\ UNCHANGED <<allVars, attemptVars, inputVars, beats, response, acked>>

\* publish_receipt_ack.
Answer(e) ==
    /\ pc[e] \in Running /\ answering[e] # {}
    /\ acked' = acked \cup ({e} \X answering[e])
    /\ answering' = [answering EXCEPT ![e] = {}]
    /\ UNCHANGED <<allVars, attemptVars, inputVars, beats, response>>

\* A scan reads every file that is there: what it can take in is taken in,
\* and what is taken in is acknowledged.
ScanComplete(e) ==
    /\ \A l \in Learners : binding[l].status = "active" =>
         \A c \in Scanned(l) : \A expected \in BOOLEAN :
             <<Bound(l), c, expected>> \in posted =>
                \/ <<e, <<l, c>>>> \in acked
                \/ receipt[<<l, c>>].gen = 0 /\ ~InputAllowed(<<l, c>>, expected)
    /\ \A p \in proposed :
         LET u == <<p[1][1], p[2]>>
         IN receipt[u].gen = p[1][2] /\ Current(u) /\ InputAllowed(u, TRUE)
              => update[u].status # "none"

\* Variant: the declared final cycle is not compared with the progress.
DeclaredAny(l) == declared[Bound(l)] # -1

\* The terminal acknowledgement of the bound attempt names the cycle that was
\* ingested last.
Declared(l) == declared[Bound(l)] = progress[l]

\* What the commands of this step take in comes from files.
FromFiles ==
    /\ \A u \in Slots : receipt'[u] # receipt[u] =>
         <<Bound(Key(u)), Cycle(u), receipt'[u].expected>> \in posted
    /\ \A u \in Slots : update[u].status = "none" /\ update'[u].status # "none" =>
         <<<<Key(u), receipt[u].gen>>, Cycle(u)>> \in proposed
    /\ \A l \in Learners :
         frozen[l].state # "acked" /\ frozen'[l].state = "acked" => Declared(l)

\* The receipt that was ingested is acknowledged next; a newly bound attempt
\* is there, waiting for its response.
Announced ==
    /\ answering' = [e \in Epochs |->
                       IF pc'[e] \notin Running THEN {}
                       ELSE IF e = leader
                         THEN answering[e] \cup {u \in Slots : receipt'[u] # receipt[u]}
                       ELSE answering[e]]
    /\ lpc' = [a \in Attempts |->
                 IF binding'[a[1]].gen = a[2] /\ binding[a[1]].gen # a[2]
                   THEN "waiting" ELSE lpc[a]]
    /\ UNCHANGED <<cyc, seen, inputVars, beats, response, acked>>

CandidateStep(e) ==
    /\ e \in beats /\ answering[e] = {}
    /\ Step(e)
    /\ pc[e] \in {"ingest", "final"} /\ pc'[e] # pc[e] => ScanComplete(e)
    /\ FromFiles /\ Announced

Serve(e) ==
    \/ Heartbeat(e)
    \/ CandidateStep(e)
    \/ \E l \in Learners : Respond(e, l) \/ Replay(e, l)
    \/ Answer(e)

-----------------------------------------------------------------------------
(* The learners' side.                                                     *)

\* read_current_control picks epoch e.
Follows(e) == e \in beats /\ \A f \in beats : f <= e

\* Its heartbeat may have expired: nobody renews it any more.
Expirable(e) == leader # e \/ pc[e] \in {"done", "ended"}

Turn(a, to) ==
    /\ lpc' = [lpc EXCEPT ![a] = to]
    /\ UNCHANGED <<allVars, posted, proposed, answerVars>>

\* read_admission_response, which refuses when the run is draining.
ReadResponse(a, e) ==
    /\ lpc[a] = "waiting" /\ Follows(e)
    /\ \/ /\ e \in drained \cup stopped
          /\ Turn(a, "ended")
          /\ UNCHANGED cyc
       \/ /\ e \notin drained \cup stopped
          /\ response[<<e, a[1]>>].gen = a[2]
          /\ Turn(a, "start")
          /\ cyc' = [cyc EXCEPT ![a] = response[<<e, a[1]>>].next]
    /\ UNCHANGED <<seen, declared>>

\* wait_for_current_latest, which is ended by a terminal record.
LoadLatest(a, e) ==
    /\ lpc[a] = "start" /\ Follows(e)
    /\ e \in stopped \/ head[e] >= 0
    /\ Turn(a, IF e \in stopped THEN "ended" ELSE "top")
    /\ UNCHANGED <<cyc, seen, declared>>

\* What the loop and the barrier do first: leave at a terminal record, answer
\* a drain with the last cycle that was published.
Leave(a, e, last) ==
    \/ /\ e \in stopped
       /\ Turn(a, "ended")
       /\ UNCHANGED <<cyc, seen, declared>>
    \/ /\ e \in drained \ stopped
       /\ Turn(a, "leaving")
       /\ declared' = [declared EXCEPT ![a] = last]
       /\ UNCHANGED <<cyc, seen>>

\* The top of the loop.  A cycle begins also without a valid heartbeat; that
\* none begins once a configured target is in sight is to stay here.
LoopTop(a, e) ==
    /\ lpc[a] = "top" /\ Follows(e)
    /\ \/ Leave(a, e, cyc[a] - 1)
       \/ /\ e \notin drained \cup stopped \/ Expirable(e)
          /\ Turn(a, "train")
          /\ UNCHANGED <<cyc, seen, declared>>

\* The cycle, its payload and its receipt.
PublishReceipt(a) ==
    /\ lpc[a] = "train" /\ cyc[a] <= MaxCycle
    /\ \E expected \in BOOLEAN :
         /\ posted' = posted \cup {<<a, cyc[a], expected>>}
         /\ lpc' = [lpc EXCEPT ![a] = IF expected THEN "propose" ELSE "barrier"]
    /\ UNCHANGED <<allVars, cyc, seen, proposed, declared, answerVars>>

PublishProposal(a) ==
    /\ lpc[a] = "propose"
    /\ proposed' = proposed \cup {<<a, cyc[a]>>}
    /\ lpc' = [lpc EXCEPT ![a] = "barrier"]
    /\ UNCHANGED <<allVars, cyc, seen, posted, declared, answerVars>>

\* wait_for_receipt_barrier: the control of an epoch, and then ...
Barrier(a, e) ==
    /\ lpc[a] = "barrier" /\ Follows(e)
    /\ \/ Leave(a, e, cyc[a])
       \/ /\ e \notin drained \cup stopped
          /\ Turn(a, "reading")
          /\ seen' = [seen EXCEPT ![a] = e]
          /\ UNCHANGED <<cyc, declared>>

\* ... the acknowledgement in its directory.
ReadAck(a) ==
    /\ lpc[a] = "reading"
    /\ \/ /\ <<seen[a], <<a[1], cyc[a]>>>> \in acked
          /\ Turn(a, "top")
          /\ cyc' = [cyc EXCEPT ![a] = @ + 1]
       \/ /\ <<seen[a], <<a[1], cyc[a]>>>> \notin acked
          /\ Turn(a, "barrier")
          /\ UNCHANGED cyc
    /\ seen' = [seen EXCEPT ![a] = 0]
    /\ UNCHANGED declared

\* acknowledge_terminal waits for the terminal record.
AwaitTerminal(a, e) ==
    /\ lpc[a] = "leaving" /\ Follows(e) /\ e \in stopped
    /\ Turn(a, "ended")
    /\ UNCHANGED <<cyc, seen, declared>>

\* The process ends.
Vanish(a) ==
    /\ lpc[a] \in {"barrier", "leaving"}
    /\ Turn(a, "ended")
    /\ UNCHANGED <<cyc, seen, declared>>

\* The waits of an attempt; training may take for ever.
Poll(a) ==
    \/ \E e \in Epochs : Barrier(a, e) \/ AwaitTerminal(a, e)
    \/ ReadAck(a)

Learn(a) ==
    \/ \E e \in Epochs : ReadResponse(a, e) \/ LoadLatest(a, e) \/ LoopTop(a, e)
    \/ PublishReceipt(a) \/ PublishProposal(a)
    \/ Poll(a)

-----------------------------------------------------------------------------
Interrupted ==
    /\ Takeover \/ WantClose \/ \E e \in Epochs : Crash(e)
    /\ Announced

LearnerNext ==
    \/ Interrupted
    \/ \E e \in Epochs : Serve(e)
    \/ \E a \in Attempts : Learn(a) \/ Vanish(a)

LearnerSpec == LearnerInit /\ [][LearnerNext]_system

\* The candidate that leads goes on, and when it has ended another one takes
\* over, as long as there is one; a learner that waits looks again.
GoesOn ==
    IF leader = 0 \/ pc[leader] = "ended" THEN Takeover /\ Announced ELSE Serve(leader)

FairLearnerSpec ==
    /\ LearnerSpec
    /\ WF_system(GoesOn)
    /\ \A a \in Attempts : WF_system(Poll(a))
=============================================================================
