-------------------------- MODULE LeaderLeaseProofs --------------------------
(***************************************************************************)
(* What LeaderLease keeps for any number of candidates, any lease duration *)
(* and any clock skew below it.                                            *)
(***************************************************************************)
EXTENDS LeaderLease, TLAPS

-----------------------------------------------------------------------------
(* The inductive invariant.                                                *)

\* The lease row names a candidate from the first epoch on.
RowNamed == row.state # "absent" => row.owner \in Candidates

\* A candidate that waits has not led before, nor been given an outcome.
WaitingIsFresh ==
    \A c \in Candidates :
        pc[c] = "waiting" => row.owner # c /\ final[c] = "none"

\* The outcome of the epoch that leads is open.
LeaderHasNoOutcome == row.state = "active" => final[row.owner] = "none"

\* The process that holds the write lock is the one in a transaction.
LockHeld == \A c \in Candidates : pc[c] \in Writing <=> writer = c

\* What the last verification found stays true until the command ends.
StillVerified == \A c \in Candidates : pc[c] = "committing" => OwnsRow(c)

IInv ==
    /\ TypeOK /\ RowNamed /\ WaitingIsFresh /\ LeaderHasNoOutcome
    /\ LockHeld /\ StillVerified

\* The initial state satisfies the inductive invariant.
LEMMA InitIInv == Init => IInv
  BY LeaseAssumption, NoOneAssumption
     DEF Init, IInv, TypeOK, RowNamed, WaitingIsFresh, LeaderHasNoOutcome,
         LockHeld, StillVerified, Floor, Epochs, FinalStates, PcStates, Writing

-----------------------------------------------------------------------------
\* Every step of the lease keeps every variable in its range.
LEMMA TypeStep == TypeOK /\ [Next]_vars => TypeOK'
  <1> SUFFICES ASSUME TypeOK, [Next]_vars PROVE TypeOK'
      OBVIOUS
  <1> USE LeaseAssumption, NoOneAssumption
      DEF TypeOK, Floor, Epochs, FinalStates, PcStates, Writing
  <1>1. CASE UNCHANGED vars
      BY <1>1 DEF vars
  <1>2. CASE Tick
      BY <1>2 DEF Tick
  <1>3. ASSUME NEW c \in Candidates, Candidate(c) PROVE TypeOK'
    <2>1. CASE Acquire(c)
      <3>1. /\ row' \in [epoch : Nat, owner : Candidates \cup {NoOne},
                         state : {"absent", "active", "released"}]
            /\ remaining' \in -(Skew + 1) .. (Duration + Skew)
            /\ token' \in [Candidates -> Nat]
        BY <2>1 DEF Acquire, Expiry
      <3>2. final' \in [Candidates -> {"none", "expired", "released", "error"}]
        <4>1. row.owner \in Candidates =>
                Outcome(row.owner) \in {"none", "expired", "released", "error"}
          BY DEF Outcome
        <4> QED BY <2>1, <4>1 DEF Acquire
      <3>3. superseded' \in [Candidates -> BOOLEAN]
        BY <2>1 DEF Acquire
      <3> QED BY <2>1, <3>1, <3>2, <3>3 DEF Acquire
    <2>2. CASE GiveUp(c)
      BY <2>2 DEF GiveUp
    <2>3. CASE Open(c)
      BY <2>3 DEF Open
    <2>4. CASE BeginCommand(c)
      BY <2>4 DEF BeginCommand
    <2>5. CASE VerifyCommand(c)
      BY <2>5 DEF VerifyCommand
    <2>14. CASE QuitCommand(c)
      <3>1. PICK at \in {"leading", "failing"} : pc' = [pc EXCEPT ![c] = at]
        BY <2>14 DEF QuitCommand
      <3> QED BY <2>14, <3>1 DEF QuitCommand
    <2>15. CASE CommitCommand(c)
      BY <2>15 DEF CommitCommand
    <2>6. CASE NoticeRenewer(c)
      BY <2>6 DEF NoticeRenewer
    <2>7. CASE Finish(c)
      BY <2>7 DEF Finish
    <2>8. ASSUME NEW from \in {"releasing", "failing"},
                 NEW state \in {"released", "error"},
                 Resign(c, from, state)
          PROVE TypeOK'
      <3>1. offset[c] \in -(Skew + 1) .. (Duration + Skew)
        OBVIOUS
      <3> QED BY <2>8, <3>1 DEF Resign
    <2>9. CASE Release(c)
      BY <2>8, <2>9 DEF Release
    <2>10. CASE Fail(c)
      BY <2>8, <2>10 DEF Fail
    <2>11. CASE Crash(c)
      BY <2>11 DEF Crash
    <2>12. CASE Renew(c)
      BY <2>12 DEF Renew, Expiry
    <2>13. CASE RenewalFails(c)
      BY <2>13 DEF RenewalFails
    <2> QED BY <1>3, <2>1, <2>2, <2>3, <2>4, <2>5, <2>6, <2>7, <2>9, <2>10,
               <2>11, <2>12, <2>13, <2>14, <2>15 DEF Candidate
  <1> QED BY <1>1, <1>2, <1>3 DEF Next

\* A step of c leaves the lock alone, or takes or gives back its own.
LEMMA LockStep ==
  ASSUME IInv, TypeOK', NEW c \in Candidates,
         \A d \in Candidates : d # c => pc'[d] = pc[d],
         \/ UNCHANGED writer /\ (pc'[c] \in Writing <=> pc[c] \in Writing)
         \/ writer = NoOne /\ writer' = c /\ pc'[c] \in Writing
         \/ writer = c /\ writer' = NoOne /\ pc'[c] \notin Writing
  PROVE  LockHeld'
  BY NoOneAssumption DEF IInv, LockHeld

\* The steps that leave the row, the tokens and the outcomes alone, and take
\* nobody back to waiting, keep the rest of the invariant.
LEMMA QuietStep ==
  ASSUME IInv, TypeOK', LockHeld', UNCHANGED <<row, token, final>>,
         \A c \in Candidates : pc'[c] = "waiting" => pc[c] = "waiting",
         \A c \in Candidates :
           pc'[c] = "committing" => pc[c] = "committing" \/ Safe(c)
  PROVE  IInv'
  BY DEF IInv, RowNamed, WaitingIsFresh, LeaderHasNoOutcome, StillVerified, OwnsRow, Safe

\* The inductive invariant is inductive.
LEMMA IInvStep == IInv /\ [Next]_vars => IInv'
  <1> SUFFICES ASSUME IInv, [Next]_vars PROVE IInv'
      OBVIOUS
  <1>0. TypeOK /\ TypeOK'
      BY TypeStep DEF IInv
  <1>1. CASE UNCHANGED vars
    <2>1. LockHeld'
      BY <1>1 DEF vars, IInv, LockHeld
    <2> QED BY <1>0, <1>1, <2>1, QuietStep DEF vars
  <1>2. CASE Tick
    <2>1. LockHeld'
      BY <1>2 DEF Tick, IInv, LockHeld
    <2> QED BY <1>0, <1>2, <2>1, QuietStep DEF Tick
  <1>3. ASSUME NEW c \in Candidates, Candidate(c) PROVE IInv'
    <2>1. CASE Acquire(c)
      <3>1. row.owner # c /\ final[c] = "none"
        BY <2>1 DEF Acquire, IInv, WaitingIsFresh
      <3>2. /\ row'.owner = c /\ row'.state = "active"
            /\ pc' = [pc EXCEPT ![c] = "opening"]
        BY <2>1 DEF Acquire
      <3>3. \A d \in Candidates : d # row.owner => final'[d] = final[d]
        BY <1>0, <2>1 DEF Acquire, TypeOK
      <3>4. RowNamed'
        BY <3>2 DEF RowNamed
      <3>5. WaitingIsFresh'
        BY <1>0, <3>2, <3>3 DEF WaitingIsFresh, TypeOK, IInv
      <3>6. LeaderHasNoOutcome'
        BY <3>1, <3>2, <3>3 DEF LeaderHasNoOutcome
      <3>7. LockHeld'
        BY <1>0, <2>1, LockStep DEF Acquire, TypeOK, Writing
      <3>8. StillVerified'
        <4>1. \A d \in Candidates : pc[d] \notin Writing
          BY <2>1, NoOneAssumption DEF Acquire, Unlocked, IInv, LockHeld
        <4> QED BY <1>0, <3>2, <4>1 DEF StillVerified, TypeOK, Writing
      <3> QED BY <1>0, <3>4, <3>5, <3>6, <3>7, <3>8 DEF IInv
    <2>2. CASE GiveUp(c)
      <3>1. LockHeld'
        BY <1>0, <2>2, LockStep DEF GiveUp, TypeOK, Writing
      <3> QED BY <1>0, <2>2, <3>1, QuietStep DEF GiveUp, TypeOK
    <2>3. CASE Open(c)
      <3>1. LockHeld'
        BY <1>0, <2>3, LockStep DEF Open, TypeOK, Writing
      <3> QED BY <1>0, <2>3, <3>1, QuietStep DEF Open, TypeOK
    <2>4. CASE BeginCommand(c)
      <3>1. LockHeld'
        BY <1>0, <2>4, LockStep DEF BeginCommand, TypeOK, Writing, Unlocked
      <3> QED BY <1>0, <2>4, <3>1, QuietStep DEF BeginCommand, TypeOK
    <2>5. CASE VerifyCommand(c)
      <3>1. writer = c
        BY <2>5 DEF VerifyCommand, IInv, LockHeld, Writing
      <3>2. LockHeld'
        BY <1>0, <2>5, <3>1, LockStep DEF VerifyCommand, TypeOK, Writing
      <3> QED BY <1>0, <2>5, <3>2, QuietStep DEF VerifyCommand, TypeOK
    <2>14. CASE QuitCommand(c)
      <3>1. PICK at \in {"leading", "failing"} : pc' = [pc EXCEPT ![c] = at]
        BY <2>14 DEF QuitCommand
      <3>2. writer = c
        BY <2>14 DEF QuitCommand, IInv, LockHeld, Writing
      <3>3. LockHeld'
        BY <1>0, <2>14, <3>1, <3>2, LockStep DEF QuitCommand, TypeOK, Writing
      <3> QED BY <1>0, <2>14, <3>1, <3>3, QuietStep DEF QuitCommand, TypeOK
    <2>15. CASE CommitCommand(c)
      <3>1. writer = c
        BY <2>15 DEF CommitCommand, IInv, LockHeld, Writing
      <3>2. LockHeld'
        BY <1>0, <2>15, <3>1, LockStep DEF CommitCommand, TypeOK, Writing
      <3> QED BY <1>0, <2>15, <3>2, QuietStep DEF CommitCommand, TypeOK
    <2>6. CASE NoticeRenewer(c)
      <3>1. LockHeld'
        BY <1>0, <2>6, LockStep DEF NoticeRenewer, TypeOK, Writing
      <3> QED BY <1>0, <2>6, <3>1, QuietStep DEF NoticeRenewer, TypeOK
    <2>7. CASE Finish(c)
      <3>1. LockHeld'
        BY <1>0, <2>7, LockStep DEF Finish, TypeOK, Writing
      <3> QED BY <1>0, <2>7, <3>1, QuietStep DEF Finish, TypeOK
    <2>8. ASSUME NEW from \in {"releasing", "failing"},
                 NEW state \in {"released", "error"}, Resign(c, from, state)
          PROVE IInv'
      <3>1. pc'[c] = "exited" /\ \A d \in Candidates : d # c => pc'[d] = pc[d]
        BY <1>0, <2>8 DEF Resign, TypeOK
      <3>4. LockHeld'
        BY <1>0, <2>8, <3>1, LockStep DEF Resign, Writing
      <3>2. CASE UNCHANGED <<row, final>>
        BY <1>0, <2>8, <3>1, <3>2, <3>4, QuietStep DEF Resign
      <3>3. CASE Unlocked /\ Safe(c) /\ row' = [row EXCEPT !.state = "released"]
                         /\ final' = [final EXCEPT ![c] = state]
        <4>1. row'.state = "released" /\ row'.owner = row.owner /\ row.owner = c
          BY <1>0, <3>3 DEF Safe, OwnsRow, TypeOK
        <4>2. \A d \in Candidates : pc[d] \notin Writing
          BY <3>3, NoOneAssumption DEF Unlocked, IInv, LockHeld
        <4>3. StillVerified'
          BY <3>1, <4>2 DEF StillVerified, Writing
        <4> QED BY <1>0, <3>1, <3>3, <3>4, <4>1, <4>3
                DEF IInv, RowNamed, WaitingIsFresh, LeaderHasNoOutcome, TypeOK
      <3> QED BY <2>8, <3>2, <3>3 DEF Resign
    <2>9. CASE Release(c)
      BY <2>8, <2>9 DEF Release
    <2>10. CASE Fail(c)
      BY <2>8, <2>10 DEF Fail
    <2>11. CASE Crash(c)
      <3>1. pc[c] \in Writing <=> writer = c
        BY DEF IInv, LockHeld
      <3>2. LockHeld'
        BY <1>0, <2>11, <3>1, LockStep DEF Crash, TypeOK, Writing
      <3> QED BY <1>0, <2>11, <3>2, QuietStep DEF Crash, TypeOK
    <2>12. CASE Renew(c)
      <3>1. LockHeld'
        BY <2>12 DEF Renew, IInv, LockHeld
      <3> QED BY <1>0, <2>12, <3>1, QuietStep DEF Renew
    <2>13. CASE RenewalFails(c)
      <3>1. LockHeld'
        BY <2>13 DEF RenewalFails, IInv, LockHeld
      <3> QED BY <1>0, <2>13, <3>1, QuietStep DEF RenewalFails
    <2> QED BY <1>3, <2>1, <2>2, <2>3, <2>4, <2>5, <2>6, <2>7, <2>9, <2>10,
               <2>11, <2>12, <2>13, <2>14, <2>15 DEF Candidate
  <1> QED BY <1>1, <1>2, <1>3 DEF Next

\* The inductive invariant holds throughout.
LEMMA Invariant == Spec => []IInv
  BY InitIInv, IInvStep, PTL DEF Spec

\* Type correctness of the lease, for every number of candidates, duration
\* and skew: in particular a lease never reaches further than Duration + Skew.
THEOREM LeaseTypeOK == Spec => []TypeOK
  <1>1. IInv => TypeOK
    BY DEF IInv
  <1> QED BY <1>1, Invariant, PTL

-----------------------------------------------------------------------------
(* What a successor may do to its predecessor.                             *)

\* The skew separates the two clock tests: a lease that one clock finds
\* expired, with the skew added, has run out on every other clock too.
LEMMA ExpiredForAll ==
  ASSUME TypeOK, NEW c \in Candidates, NEW d \in Candidates, ExpiredFor(c)
  PROVE  offset[d] > remaining
  BY LeaseAssumption DEF TypeOK, Floor, ExpiredFor

\* A lease that one clock finds safe, with the skew taken off, has not run
\* out on any other clock.
LEMMA SafeForAll ==
  ASSUME TypeOK, NEW c \in Candidates, NEW d \in Candidates, Safe(c)
  PROVE  offset[d] <= remaining
  BY LeaseAssumption DEF TypeOK, Floor, Safe

\* An active leader is deposed only after its lease ran out on its own clock.
THEOREM LeaseDeposedOnlyWhenExpired == Spec => DeposedOnlyWhenExpired
  <1>1. IInv /\ [Next]_vars =>
          [row.state = "active" /\ row'.epoch # row.epoch
             => offset[row.owner] > remaining]_vars
    <2> SUFFICES ASSUME IInv, Next, row.state = "active", row'.epoch # row.epoch
                 PROVE  offset[row.owner] > remaining
        OBVIOUS
    <2>1. PICK c \in Candidates : Candidate(c)
      BY DEF Next, Tick
    <2>2. TypeOK
      BY DEF IInv
    <2>3. Acquire(c)
      <3>1. ASSUME NEW from, NEW state, Resign(c, from, state) PROVE FALSE
        BY <2>2, <3>1 DEF Resign, TypeOK
      <3> QED BY <2>1, <3>1
              DEF Candidate, GiveUp, Open, BeginCommand, QuitCommand, VerifyCommand,
                  CommitCommand, NoticeRenewer,
                  Finish, Release, Fail, Crash, Renew, RenewalFails
    <2>4. ExpiredFor(c) /\ row.owner \in Candidates
      BY <2>3 DEF Acquire, Acquirable, IInv, RowNamed
    <2> QED BY <2>2, <2>4, ExpiredForAll
  <1> QED BY <1>1, Invariant, PTL DEF Spec, DeposedOnlyWhenExpired

\* A command that was verified for the last time is verified still when it
\* commits, however long it waited in between and whoever waited with it.
THEOREM LeaseCommitsAsVerified == Spec => CommitsAsVerified
  <1>1. ASSUME IInv, [Next]_vars, NEW c \in Candidates,
               pc[c] = "command", pc'[c] = "committing", NEW d \in Candidates
        PROVE  offset[d] <= remaining
    <2>1. TypeOK
      BY <1>1 DEF IInv
    <2>2. PICK e \in Candidates : Candidate(e)
      BY <1>1 DEF Next, Tick, vars
    <2>3. VerifyCommand(e)
      <3>1. ASSUME NEW from, NEW state, Resign(e, from, state) PROVE FALSE
        BY <1>1, <2>1, <3>1 DEF Resign, TypeOK
      <3>2. ~QuitCommand(e)
        BY <1>1, <2>1 DEF QuitCommand, TypeOK
      <3> QED BY <1>1, <2>1, <2>2, <3>1, <3>2
              DEF Candidate, Acquire, GiveUp, Open, BeginCommand, CommitCommand,
                  NoticeRenewer, Finish, Release, Fail, Crash, Renew, RenewalFails, TypeOK
    <2>4. e = c /\ Safe(c)
      BY <1>1, <2>1, <2>3 DEF VerifyCommand, TypeOK
    <2> QED BY <2>1, <2>4, SafeForAll
  <1>2. ASSUME IInv, [Next]_vars, NEW c \in Candidates, pc[c] = "committing"
        PROVE  row' = row /\ remaining' <= remaining
    <2>1. remaining \in Int /\ ~Unlocked
      BY <1>2, NoOneAssumption DEF IInv, TypeOK, LockHeld, Writing, Unlocked, Floor
    <2>2. CASE UNCHANGED vars
      BY <2>1, <2>2 DEF vars
    <2>3. CASE Tick
      BY <2>1, <2>3 DEF Tick
    <2>4. ASSUME NEW e \in Candidates, Candidate(e) PROVE row' = row /\ remaining' <= remaining
      <3>1. ASSUME NEW from, NEW state, Resign(e, from, state) PROVE UNCHANGED <<row, remaining>>
        BY <2>1, <3>1 DEF Resign
      <3>2. UNCHANGED <<row, remaining>>
        BY <2>1, <2>4, <3>1
           DEF Candidate, Acquire, GiveUp, Open, BeginCommand, QuitCommand, VerifyCommand,
               CommitCommand, NoticeRenewer, Finish, Release, Fail, Crash, Renew, RenewalFails
      <3> QED BY <2>1, <3>2
    <2> QED BY <1>2, <2>2, <2>3, <2>4 DEF Next
  <1>3. ASSUME IInv, [Next]_vars, NEW c \in Candidates,
               pc[c] = "committing", pc'[c] = "leading"
        PROVE  OwnsRow(c) /\ committed' = row.epoch
    <2>1. TypeOK /\ OwnsRow(c)
      BY <1>3 DEF IInv, StillVerified
    <2>2. PICK e \in Candidates : Candidate(e)
      BY <1>3 DEF Next, Tick, vars
    <2>3. CommitCommand(e)
      <3>1. ASSUME NEW from, NEW state, Resign(e, from, state) PROVE FALSE
        BY <1>3, <2>1, <3>1 DEF Resign, TypeOK
      <3>2. ~QuitCommand(e)
        BY <1>3, <2>1 DEF QuitCommand, TypeOK
      <3> QED BY <1>3, <2>1, <2>2, <3>1, <3>2
              DEF Candidate, Acquire, GiveUp, Open, BeginCommand, VerifyCommand,
                  NoticeRenewer, Finish, Release, Fail, Crash, Renew, RenewalFails, TypeOK
    <2>4. e = c /\ committed' = token[c]
      BY <1>3, <2>1, <2>3 DEF CommitCommand, TypeOK
    <2> QED BY <2>1, <2>4 DEF OwnsRow
  <1>4. IInv /\ [Next]_vars =>
          [\A c \in Candidates :
             /\ pc[c] = "command" /\ pc'[c] = "committing" =>
                  \A d \in Candidates : offset[d] <= remaining
             /\ pc[c] = "committing" => row' = row /\ remaining' <= remaining
             /\ pc[c] = "committing" /\ pc'[c] = "leading" =>
                  OwnsRow(c) /\ committed' = row.epoch]_vars
    BY <1>1, <1>2, <1>3
  <1> QED BY <1>4, Invariant, PTL DEF Spec, CommitsAsVerified

\* The outcome that an epoch got is not rewritten by its successor.
THEOREM LeaseOutcomeStable == Spec => OutcomeStable
  <1>1. IInv /\ [Next]_vars =>
          [\A c \in Candidates : final[c] # "none" => final'[c] = final[c]]_vars
    <2> SUFFICES ASSUME IInv, Next, NEW c \in Candidates, final[c] # "none"
                 PROVE  final'[c] = final[c]
        OBVIOUS
    <2>1. TypeOK /\ LeaderHasNoOutcome
      BY DEF IInv
    <2>2. ASSUME NEW d \in Candidates, Acquire(d) PROVE final'[c] = final[c]
      BY <2>1, <2>2 DEF Acquire, Outcome, TypeOK
    <2>3. ASSUME NEW d \in Candidates, NEW from, NEW state, Resign(d, from, state)
          PROVE  final'[c] = final[c]
      <3>1. CASE UNCHANGED final
        BY <3>1
      <3>2. CASE Safe(d) /\ final' = [final EXCEPT ![d] = state]
        <4>1. d # c
          BY <2>1, <3>2 DEF Safe, OwnsRow, LeaderHasNoOutcome
        <4> QED BY <2>1, <3>2, <4>1 DEF TypeOK
      <3> QED BY <2>3, <3>1, <3>2 DEF Resign
    <2> QED BY <2>2, <2>3
            DEF Next, Tick, Candidate, GiveUp, Open, BeginCommand, QuitCommand,
                VerifyCommand, CommitCommand, NoticeRenewer, Finish, Release, Fail, Crash,
                Renew, RenewalFails
  <1> QED BY <1>1, Invariant, PTL DEF Spec, OutcomeStable

-----------------------------------------------------------------------------
(* The lease implements the sequence of epochs.                            *)

\* Every step of the lease grants an epoch, gives it back, commits under it,
\* or leaves the abstract state as it is.
LEMMA StepRefines == IInv /\ [Next]_vars => [LE!Next]_(LE!evars)
  <1> SUFFICES ASSUME IInv, [Next]_vars PROVE [LE!Next]_(LE!evars)
      OBVIOUS
  <1>0. TypeOK
      BY DEF IInv
  <1>1. CASE UNCHANGED vars
      BY <1>1 DEF vars, LE!evars
  <1>2. CASE Tick
      BY <1>2 DEF Tick, LE!evars
  <1>3. ASSUME NEW c \in Candidates, Candidate(c) PROVE [LE!Next]_(LE!evars)
    <2>1. CASE Acquire(c)
      <3>1. row.owner # c /\ c # NoOne
        BY <2>1, NoOneAssumption DEF Acquire, IInv, WaitingIsFresh
      <3>2. LE!Grant(c)
        BY <2>1, <3>1 DEF Acquire, LE!Grant
      <3> QED BY <3>2 DEF LE!Next
    <2>2. CASE CommitCommand(c)
      <3>1. CASE committed' = token[c]
        <4>1. row.state = "active" /\ row.owner = c /\ row.epoch = token[c]
          BY <2>2 DEF CommitCommand, IInv, StillVerified, OwnsRow
        <4>2. LE!Commit
          BY <2>2, <3>1, <4>1, NoOneAssumption DEF CommitCommand, LE!Commit
        <4> QED BY <4>2 DEF LE!Next
      <3>2. CASE UNCHANGED committed
        BY <2>2, <3>2 DEF CommitCommand, LE!evars
      <3> QED BY <2>2, <3>1, <3>2 DEF CommitCommand
    <2>3. ASSUME NEW from, NEW state, Resign(c, from, state)
          PROVE  [LE!Next]_(LE!evars)
      <3>1. CASE UNCHANGED row
        BY <2>3, <3>1 DEF Resign, LE!evars
      <3>2. CASE Safe(c) /\ row' = [row EXCEPT !.state = "released"]
        <4>1. row.state = "active" /\ row.owner = c
          BY <3>2 DEF Safe, OwnsRow
        <4>2. row'.state = "released" /\ row'.epoch = row.epoch
          BY <1>0, <3>2 DEF TypeOK
        <4>3. LE!Resign
          BY <2>3, <4>1, <4>2, NoOneAssumption DEF Resign, LE!Resign
        <4> QED BY <4>3 DEF LE!Next
      <3> QED BY <2>3, <3>1, <3>2 DEF Resign
    <2>4. CASE UNCHANGED <<row, committed>>
      BY <2>4 DEF LE!evars
    <2> QED BY <1>3, <2>1, <2>2, <2>3, <2>4
            DEF Candidate, GiveUp, Open, BeginCommand, QuitCommand, VerifyCommand,
                NoticeRenewer, Finish, Release, Fail, Crash, Renew, RenewalFails
  <1> QED BY <1>1, <1>2, <1>3 DEF Next

\* The detailed lease, with its clocks, renewers and interrupted processes,
\* implements LeaderEpoch.
THEOREM LeaseImplementsLeaderEpoch == Spec => ImplementsLeaderEpoch
  <1>1. Init => LE!Init
    BY DEF Init, LE!Init
  <1> QED BY <1>1, Invariant, StepRefines, PTL
          DEF Spec, ImplementsLeaderEpoch, LE!Spec
=============================================================================
