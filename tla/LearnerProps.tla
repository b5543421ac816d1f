----------------------------- MODULE LearnerProps -----------------------------
(***************************************************************************)
(* What learners and candidates that know of one another only by files may *)
(* rely on.                                                                *)
(***************************************************************************)
EXTENDS Learner

\* A learner and the authority never lose count of one another: the learner
\* begins a cycle only when the one before it is on record, and is at most
\* one cycle ahead, whichever candidate acknowledged it, wherever a takeover
\* fell between the receipt, its command and its acknowledgement.
InStep ==
    \A l \in Learners : binding[l].status = "active" =>
        LET a == Bound(l)
        IN CASE lpc[a] \in {"start", "top", "train"} -> cyc[a] = progress[l] + 1
             [] lpc[a] \in {"propose", "barrier", "reading"} ->
                  progress[l] \in {cyc[a] - 1, cyc[a]}
             [] lpc[a] = "leaving" -> progress[l] \in {declared[a] - 1, declared[a]}
             [] OTHER -> TRUE

\* A contributor whose terminal acknowledgement is accepted has no cycle that
\* the run did not take in: every receipt it published is on record, although
\* the drain, the acknowledgement and the receipts are files that are written
\* and read in any order.
NothingCutOff ==
    \A l \in Learners : frozen[l].state = "acked" =>
        \A r \in posted : r[1] = <<l, frozen[l].gen>> => r[2] <= progress[l]

\* The last candidate is gone.
Gone == leader = MaxEpoch /\ pc[MaxEpoch] = "ended"

\* The attempt waits for a receipt acknowledgement or for the terminal record.
Waits(a) ==
    lpc[a] = "leaving" \/ (lpc[a] \in {"barrier", "reading"} /\ IsBound(a))

\* No learner waits for ever at its barrier or for the terminal record: not
\* when the candidate that took its receipt in dies before it acknowledges it,
\* nor when the run is closed meanwhile.
WaitsEnd == \A a \in Attempts : Waits(a) ~> ~Waits(a) \/ Gone

\* The plan for the close: a contributor "completes at most its current cycle"
\* after the freeze, and its acknowledgement names that cycle.  So an
\* acknowledgement that waits to be read is one that the authority accepts.
FinalCycleInBound ==
    \A l \in Learners :
        /\ leader > 0 /\ pc[leader] = "drain" /\ frozen[l].state = "awaiting_ack"
        /\ IsBound(<<l, frozen[l].gen>>) /\ lpc[Bound(l)] = "leaving"
        => declared[Bound(l)] <= frozen[l].close + 1
=============================================================================
