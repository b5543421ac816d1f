----------------------------- MODULE LeaderLease -----------------------------
(***************************************************************************)
(* The leader lease of storage/authority.py and the candidate process of   *)
(* runtime/syncer_entrypoint.py.  A candidate polls acquire_leader, opens  *)
(* the lease, starts a renewer thread with its own SQLite connection, and  *)
(* then issues commands, each one a BEGIN IMMEDIATE transaction that       *)
(* verifies the leader token when it starts and again before it commits;   *)
(* time may pass between any two of these.  The transactions of the lease  *)
(* itself are one step each, at the instant whose clock reading they use:  *)
(* nobody else can write before they commit.                               *)
(*                                                                         *)
(* Every process compares the lease row with the wall clock of its own     *)
(* host; the clocks of two hosts differ by at most Skew.  Time is relative *)
(* here: `remaining` is the row's lease_expires_at minus the true time, so *)
(* that Tick lowers it by one, and candidate c reads the true time plus    *)
(* offset[c].  Nothing in the code depends on absolute times.              *)
(***************************************************************************)
EXTENDS Integers

CONSTANTS
    Candidates,   \* one per candidate process: owner_id is a fresh uuid
    NoOne,
    Duration,     \* lease_duration_seconds
    Skew          \* max_clock_skew_seconds

ASSUME NoOneAssumption == NoOne \notin Candidates
\* LeaderAuthority refuses a lease that is not longer than the skew.
ASSUME LeaseAssumption == Skew \in Nat /\ Duration \in Nat /\ Duration > Skew

VARIABLES
    offset,      \* how far each host's wall clock is ahead of the true time
    row,         \* syncer_leader: its epoch, owner and state
    remaining,   \* lease_expires_at of that row, relative to the true time
    final,       \* syncer_epochs.final_state by epoch owner
    superseded,  \* syncer_epochs.superseded_by_epoch is set
    token,       \* the epoch in the candidate's LeaderToken, 0 before
    pc,          \* what the candidate's main thread is doing
    renewer,     \* the candidate's renewer thread
    writer,      \* who holds SQLite's write lock for a command, or NoOne
    committed    \* the epoch of the command committed last

vars == <<offset, row, remaining, final, superseded, token, pc, renewer,
          writer, committed>>

\* `remaining` needs no smaller value: every clock test has failed there.
Floor == -(Skew + 1)

Epochs == Nat
\* In a transaction: after its first verification, and after its second one.
Writing == {"command", "committing"}
PcStates == {"waiting", "opening", "leading", "failing", "releasing",
             "exited", "crashed"} \cup Writing
FinalStates == {"none", "expired", "released", "error"}

TypeOK ==
    /\ offset \in [Candidates -> 0 .. Skew]
    /\ row \in [epoch : Epochs, owner : Candidates \cup {NoOne},
                state : {"absent", "active", "released"}]
    /\ remaining \in Floor .. (Duration + Skew)
    /\ final \in [Candidates -> FinalStates]
    /\ superseded \in [Candidates -> BOOLEAN]
    /\ token \in [Candidates -> Epochs]
    /\ pc \in [Candidates -> PcStates]
    /\ renewer \in [Candidates -> {"off", "running", "failed"}]
    /\ writer \in Candidates \cup {NoOne}
    /\ committed \in Epochs

Init ==
    /\ offset \in [Candidates -> 0 .. Skew]
    /\ row = [epoch |-> 0, owner |-> NoOne, state |-> "absent"]
    /\ remaining = Floor
    /\ final = [c \in Candidates |-> "none"]
    /\ superseded = [c \in Candidates |-> FALSE]
    /\ token = [c \in Candidates |-> 0]
    /\ pc = [c \in Candidates |-> "waiting"]
    /\ renewer = [c \in Candidates |-> "off"]
    /\ writer = NoOne
    /\ committed = 0

-----------------------------------------------------------------------------
(* The tests the code makes on the row, against the clock of c's host.     *)

\* Variant: the test forgets the epoch and the owner of the token.
OwnsRowAnyToken(c) == row.state = "active"

\* The row still names c's epoch and owner, and is active.
OwnsRow(c) ==
    row.state = "active" /\ row.owner = c /\ row.epoch = token[c]

\* _verify_token of a business call: not past lease_expires_at - skew.
Safe(c) == OwnsRow(c) /\ offset[c] <= remaining - Skew

\* _verify_token of a renewal: not past lease_expires_at itself.
Renewable(c) == OwnsRow(c) /\ offset[c] <= remaining

\* Variants: the skew is forgotten; only a released lease can be taken.
ExpiredForNoSkew(c) == offset[c] > remaining
ExpiredForNever(c) == FALSE

\* acquire_leader: strictly past lease_expires_at + skew.
ExpiredFor(c) == offset[c] > remaining + Skew

Acquirable(c) == row.state # "active" \/ ExpiredFor(c)

\* lease_expires_at as acquire_leader and renew_leader set it.
Expiry(c) == offset[c] + Duration

\* The final_state of the row's owner once acquire_leader supersedes it.
Outcome(c) ==
    IF final[c] # "none" THEN final[c]
    ELSE IF row.state = "active" THEN "expired" ELSE "released"

-----------------------------------------------------------------------------
(* The candidate's main thread.                                            *)

\* Variant: BEGIN in place of BEGIN IMMEDIATE.
UnlockedAlways == TRUE

\* BEGIN IMMEDIATE gets the write lock; else SQLITE_BUSY, in the end.
Unlocked == writer = NoOne

\* acquire_leader.  The predecessor's syncer_epochs row keeps a final state
\* it already has, and learns that it was superseded.
Acquire(c) ==
    /\ pc[c] = "waiting"
    /\ Unlocked
    /\ Acquirable(c)
    /\ row' = [epoch |-> row.epoch + 1, owner |-> c, state |-> "active"]
    /\ remaining' = Expiry(c)
    /\ token' = [token EXCEPT ![c] = row.epoch + 1]
    /\ IF row.state = "absent"
         THEN UNCHANGED <<final, superseded>>
         ELSE /\ final' = [final EXCEPT ![row.owner] = Outcome(row.owner)]
              /\ superseded' = [superseded EXCEPT ![row.owner] = TRUE]
    /\ pc' = [pc EXCEPT ![c] = "opening"]
    /\ UNCHANGED <<offset, renewer, writer, committed>>

\* LeaseUnavailableError after candidate_wait_seconds, or SQLITE_BUSY past
\* the busy timeout: the process exits.
GiveUp(c) ==
    /\ pc[c] = "waiting"
    /\ ~Unlocked \/ ~Acquirable(c)
    /\ pc' = [pc EXCEPT ![c] = "exited"]
    /\ UNCHANGED <<offset, row, remaining, final, superseded, token, renewer,
                   writer, committed>>

\* open_leader and committed_leader_lease verify the token; then the renewer
\* starts.  A token that is no longer safe ends the process through the
\* `finally` block, whose release_leader fails the same test.
Open(c) ==
    /\ pc[c] = "opening"
    /\ IF Safe(c)
         THEN /\ pc' = [pc EXCEPT ![c] = "leading"]
              /\ renewer' = [renewer EXCEPT ![c] = "running"]
         ELSE /\ pc' = [pc EXCEPT ![c] = "exited"]
              /\ UNCHANGED renewer
    /\ UNCHANGED <<offset, row, remaining, final, superseded, token, writer,
                   committed>>

\* _command: BEGIN IMMEDIATE, then the first verification.  Another writer
\* that outlasts the busy timeout is an error like a stale token.
BeginCommand(c) ==
    /\ pc[c] = "leading"
    /\ IF Unlocked /\ Safe(c)
         THEN writer' = c /\ pc' = [pc EXCEPT ![c] = "command"]
         ELSE pc' = [pc EXCEPT ![c] = "failing"] /\ UNCHANGED writer
    /\ UNCHANGED <<offset, row, remaining, final, superseded, token, renewer,
                   committed>>

\* _command: the command has been carried out before or is refused, and
\* nothing is written; a refusal that the loop does not expect ends it.
QuitCommand(c) ==
    /\ pc[c] = "command"
    /\ writer' = NoOne
    /\ \E at \in {"leading", "failing"} : pc' = [pc EXCEPT ![c] = at]
    /\ UNCHANGED <<offset, row, remaining, final, superseded, token, renewer,
                   committed>>

\* _command: the second verification, after the operation; or ROLLBACK.
VerifyCommand(c) ==
    /\ pc[c] = "command"
    /\ IF Safe(c)
         THEN pc' = [pc EXCEPT ![c] = "committing"] /\ UNCHANGED writer
         ELSE pc' = [pc EXCEPT ![c] = "failing"] /\ writer' = NoOne
    /\ UNCHANGED <<offset, row, remaining, final, superseded, token, renewer,
                   committed>>

\* _command: the record of the command and COMMIT, which a reader may block
\* for longer than the busy timeout.
CommitCommand(c) ==
    /\ pc[c] = "committing"
    /\ writer' = NoOne
    /\ \/ committed' = token[c] /\ pc' = [pc EXCEPT ![c] = "leading"]
       \/ pc' = [pc EXCEPT ![c] = "failing"] /\ UNCHANGED committed
    /\ UNCHANGED <<offset, row, remaining, final, superseded, token, renewer>>

\* raise_if_failed at the top of the loop.
NoticeRenewer(c) ==
    /\ pc[c] = "leading"
    /\ renewer[c] = "failed"
    /\ pc' = [pc EXCEPT ![c] = "failing"]
    /\ UNCHANGED <<offset, row, remaining, final, superseded, token, renewer,
                   writer, committed>>

\* run_fenced_syncer returns: the `finally` block stops the renewer first.
Finish(c) ==
    /\ pc[c] = "leading"
    /\ pc' = [pc EXCEPT ![c] = "releasing"]
    /\ renewer' = [renewer EXCEPT ![c] = "off"]
    /\ UNCHANGED <<offset, row, remaining, final, superseded, token, writer,
                   committed>>

\* release_leader and fail_leader, and the end of the process: the row is
\* released only by a token that is still safe, else it is left to expire.
Resign(c, from, state) ==
    /\ pc[c] = from
    /\ IF Unlocked /\ Safe(c)
         THEN /\ row' = [row EXCEPT !.state = "released"]
              /\ remaining' = offset[c]
              /\ final' = [final EXCEPT ![c] = state]
         ELSE UNCHANGED <<row, remaining, final>>
    /\ pc' = [pc EXCEPT ![c] = "exited"]
    /\ renewer' = [renewer EXCEPT ![c] = "off"]
    /\ UNCHANGED <<offset, superseded, token, writer, committed>>

Release(c) == Resign(c, "releasing", "released")

Fail(c) == Resign(c, "failing", "error")

\* The host or the process dies; SQLite rolls the open transaction back.
Crash(c) ==
    /\ pc[c] \in {"opening", "leading", "failing", "releasing"} \cup Writing
    /\ pc' = [pc EXCEPT ![c] = "crashed"]
    /\ renewer' = [renewer EXCEPT ![c] = "off"]
    /\ writer' = IF writer = c THEN NoOne ELSE writer
    /\ UNCHANGED <<offset, row, remaining, final, superseded, token, committed>>

-----------------------------------------------------------------------------
(* The renewer thread: its transaction competes for the same write lock.   *)

Renew(c) ==
    /\ renewer[c] = "running"
    /\ Unlocked
    /\ Renewable(c)
    /\ remaining' = Expiry(c)
    /\ UNCHANGED <<offset, row, final, superseded, token, pc, renewer, writer,
                   committed>>

\* StaleLeaderTokenError, or SQLITE_BUSY past the busy timeout.
RenewalFails(c) ==
    /\ renewer[c] = "running"
    /\ ~Unlocked \/ ~Renewable(c)
    /\ renewer' = [renewer EXCEPT ![c] = "failed"]
    /\ UNCHANGED <<offset, row, remaining, final, superseded, token, pc,
                   writer, committed>>

\* Time passes, at any moment: between two verifications, inside a
\* transaction, while a process is paused.
Tick ==
    /\ remaining > Floor
    /\ remaining' = remaining - 1
    /\ UNCHANGED <<offset, row, final, superseded, token, pc, renewer, writer,
                   committed>>

Candidate(c) ==
    \/ Acquire(c) \/ GiveUp(c) \/ Open(c)
    \/ BeginCommand(c) \/ QuitCommand(c) \/ VerifyCommand(c) \/ CommitCommand(c)
    \/ NoticeRenewer(c) \/ Finish(c)
    \/ Release(c) \/ Fail(c) \/ Crash(c)
    \/ Renew(c) \/ RenewalFails(c)

Next == Tick \/ \E c \in Candidates : Candidate(c)

Spec == Init /\ [][Next]_vars

\* Clocks advance, a candidate that waits polls the lease, and a transaction
\* ends.  Nothing else is assumed of a leader, which may pause for ever.
FairSpec ==
    /\ Spec
    /\ WF_vars(Tick)
    /\ \A c \in Candidates :
         WF_vars(Acquire(c)) /\ WF_vars(VerifyCommand(c)) /\ WF_vars(CommitCommand(c))

-----------------------------------------------------------------------------
(* Properties.                                                             *)

LE == INSTANCE LeaderEpoch WITH
        epoch <- row.epoch,
        holder <- IF row.state = "active" THEN row.owner ELSE NoOne

\* The lease implements LeaderEpoch: epochs are granted once each, and every
\* command is committed under the epoch the row names at that instant, in
\* spite of stale tokens, paused processes and skewed clocks.
ImplementsLeaderEpoch == LE!Spec

\* An active leader is deposed only when its own clock is past its lease, so
\* that neither its commands nor its renewer could still succeed: what a
\* verified leader does outside the database (files, heartbeats) is not done
\* next to a successor.  This is what the skew in acquire_leader is for.
DeposedOnlyWhenExpired ==
    [][row.state = "active" /\ row'.epoch # row.epoch
         => offset[row.owner] > remaining]_vars

\* A command is verified for the last time while its lease has not expired on
\* any host.  It may be paused after that and outlive its lease, but only
\* time can change the row until it has ended: neither its renewer nor a
\* successor whose clock finds the lease expired writes in between, so that
\* it commits under the row it was verified against.
CommitsAsVerified ==
    [][\A c \in Candidates :
         /\ pc[c] = "command" /\ pc'[c] = "committing" =>
              \A d \in Candidates : offset[d] <= remaining
         /\ pc[c] = "committing" => row' = row /\ remaining' <= remaining
         /\ pc[c] = "committing" /\ pc'[c] = "leading" =>
              OwnsRow(c) /\ committed' = row.epoch]_vars

\* The outcome of an epoch in syncer_epochs is never rewritten: a failed or
\* released leader is not turned into an expired one by its successor.
OutcomeStable ==
    [][\A c \in Candidates : final[c] # "none" => final'[c] = final[c]]_vars

\* A dead leader does not block the run: a candidate that keeps waiting sees
\* the lease pass on.
DeadLeaderReplaced ==
    \A c, d \in Candidates :
        (row.owner = c /\ pc[c] \in {"crashed", "exited"} /\ pc[d] = "waiting")
          ~> (row.owner # c \/ pc[d] # "waiting")
=============================================================================
