---------------------------- MODULE LearnerProofs ----------------------------
(***************************************************************************)
(* What learners and candidates make of the commands through files, for    *)
(* any number of learners, attempts, candidates and cycles.                *)
(***************************************************************************)
EXTENDS LearnerProps, SyncerProofs

-----------------------------------------------------------------------------
(* What commands do to a contributor's binding, count and fence.           *)

\* Bindings end, at most.
Ends ==
    /\ UNCHANGED <<progress, receipt>>
    /\ \A l \in Learners :
         /\ binding'[l].gen = binding[l].gen
         /\ binding'[l].status = "active" => binding[l].status = "active"

\* Before the freeze, the next attempt of l is bound.
Binds(l) ==
    /\ UNCHANGED <<progress, receipt, frozen>>
    /\ ctl.state \in {"open", "preclosing"}
    /\ binding' = [binding EXCEPT ![l] = [gen |-> binding[l].gen + 1,
                                          status |-> "active"]]

\* The next cycle of l is taken in.
Takes(l) ==
    /\ UNCHANGED <<binding, frozen>>
    /\ progress[l] < MaxCycle
    /\ binding[l].status = "active"
    /\ progress' = [progress EXCEPT ![l] = progress[l] + 1]
    /\ \E expected \in BOOLEAN :
         receipt' = [receipt EXCEPT ![<<l, progress[l] + 1>>] =
                       [gen |-> binding[l].gen, expected |-> expected]]

\* Every command does one of the three.
LEMMA CommandKinds ==
  ASSUME TypeOK, [Next]_vars
  PROVE  Ends \/ (\E l \in Learners : Binds(l)) \/ (\E l \in Learners : Takes(l))
  <1>0. RestType
    BY TypeParts
  <1>1. CASE UNCHANGED <<binding, progress, receipt>>
    BY <1>1 DEF Ends
  <1>2. ASSUME NEW l \in Learners, BindAttempt(l) PROVE Binds(l)
    BY <1>2 DEF BindAttempt, Binds, closeVars
  <1>3. ASSUME NEW l \in Learners, MarkTerminal(l) PROVE Ends
    BY <1>0, <1>3 DEF MarkTerminal, Ends, RestType
  <1>4. ASSUME NEW l \in Learners, NEW expected \in BOOLEAN, IngestReceipt(l, expected)
        PROVE  Takes(l)
    BY <1>4 DEF IngestReceipt, Takes, closeVars
  <1>5. ASSUME UNCHANGED <<progress, receipt>>, NEW L, binding' = Ended(L) PROVE Ends
    BY <1>0, <1>5 DEF Ended, Ends, RestType
  <1>6. ASSUME NEW l \in Learners, HardCrash(l) PROVE Ends
    <2>1. UNCHANGED <<progress, receipt>> /\ binding' = Ended({l})
      BY <1>6 DEF HardCrash
    <2> QED BY <1>5, <2>1
  <1>7. ASSUME NEW error \in BOOLEAN, FinalizeTerminal(error) PROVE Ends
    <2>1. UNCHANGED <<progress, receipt>>
          /\ binding' = Ended({l \in Learners : frozen[l].state = "acked"})
      BY <1>7 DEF FinalizeTerminal
    <2> QED BY <1>5, <2>1
  <1>8. CASE \/ AcquireLeader \/ Merging \/ (\E u \in Slots : IngestProposal(u))
             \/ BeginPreclose \/ BeginClose \/ (\E l \in Learners : Acknowledge(l))
             \/ UNCHANGED vars
    <2>1. UNCHANGED <<binding, progress, receipt>>
      BY <1>8
         DEF AcquireLeader, Merging, IngestProposal, TrySelectBatch, PrepareGenesis,
             CommitGenesis, AbandonGenesis, PreparePublication, CommitMerge,
             AbandonPublication, ReconcilePublications, BeginPreclose, BeginClose,
             Acknowledge, vars
    <2> QED BY <1>1, <2>1
  <1>9. CASE Membership
    BY <1>2, <1>3, <1>4, <1>9 DEF Membership
  <1>10. CASE Terminating
    BY <1>6, <1>7, <1>8, <1>10 DEF Terminating
  <1> QED BY <1>8, <1>9, <1>10 DEF Next

\* A fence is frozen for the attempt that is bound, and leaves its wait for an
\* acknowledgement once.
FenceMoves(l) ==
    \/ frozen'[l] = frozen[l]
    \/ frozen'[l].gen = binding[l].gen /\ frozen'[l].state = "awaiting_ack"
    \/ frozen'[l].gen = frozen[l].gen /\ frozen[l].state = "awaiting_ack"

\* Every command moves fences like this.
LEMMA FenceKinds ==
  ASSUME TypeOK, [Next]_vars, NEW l \in Learners
  PROVE  FenceMoves(l)
  <1>0. RestType
    BY TypeParts
  <1>1. CASE UNCHANGED frozen
    BY <1>1 DEF FenceMoves
  <1>2. CASE BeginClose
    BY <1>0, <1>2 DEF BeginClose, FenceMoves, RestType
  <1>3. ASSUME NEW k \in Learners, HardCrash(k) \/ Acknowledge(k) PROVE FenceMoves(l)
    <2>1. \E row \in [state : {"acked", "hard_crash"}, final : Nat] :
            /\ frozen[k].state = "awaiting_ack"
            /\ frozen' = [frozen EXCEPT ![k].state = row.state]
                 \/ frozen' = [frozen EXCEPT ![k].state = row.state, ![k].final = row.final]
      <3>1. CASE HardCrash(k)
        <4>1. /\ frozen[k].state = "awaiting_ack"
              /\ frozen' = [frozen EXCEPT ![k].state = "hard_crash"]
          BY <3>1 DEF HardCrash, Awaits
        <4>2. [state |-> "hard_crash", final |-> 0]
                \in [state : {"acked", "hard_crash"}, final : Nat]
          OBVIOUS
        <4> QED BY <4>1, <4>2
      <3>2. CASE Acknowledge(k)
        <4>1. PICK n \in Nat :
                /\ frozen[k].state = "awaiting_ack"
                /\ frozen' = [frozen EXCEPT ![k].state = "acked", ![k].final = n]
          <5>1. progress[k] \in Nat /\ 0 \in Nat
            BY <1>0 DEF RestType
          <5> QED BY <3>2, <5>1 DEF Acknowledge, Awaits
        <4>2. [state |-> "acked", final |-> n]
                \in [state : {"acked", "hard_crash"}, final : Nat]
          OBVIOUS
        <4> QED BY <4>1, <4>2
      <3> QED BY <1>3, <3>1, <3>2
    <2> QED BY <1>0, <2>1 DEF FenceMoves, RestType
  <1>4. CASE \/ AcquireLeader \/ Membership \/ Merging \/ BeginPreclose
             \/ (\E u \in Slots : IngestProposal(u))
             \/ (\E error \in BOOLEAN : FinalizeTerminal(error)) \/ UNCHANGED vars
    <2>1. UNCHANGED frozen
      BY <1>4
         DEF AcquireLeader, Membership, BindAttempt, MarkTerminal, IngestReceipt, Merging,
             IngestProposal, TrySelectBatch, PrepareGenesis, CommitGenesis, AbandonGenesis,
             PreparePublication, CommitMerge, AbandonPublication, ReconcilePublications,
             BeginPreclose, FinalizeTerminal, closeVars, vars
    <2> QED BY <1>1, <2>1
  <1> QED BY <1>2, <1>3, <1>4 DEF Next, Terminating

-----------------------------------------------------------------------------
(* What is invariant.                                                      *)

AttemptPlaces == {"absent", "waiting", "start", "top", "train", "propose",
            "barrier", "reading", "leaving", "ended"}
Between == {"start", "top", "train"}            \* before a cycle's receipt
Inside  == {"propose", "barrier", "reading"}    \* after it

\* Types of the files and of what the candidates hold.
FilesTyped ==
    /\ posted \subseteq Attempts \X Cycles \X BOOLEAN
    /\ proposed \subseteq Attempts \X Cycles
    /\ beats \subseteq Epochs
    /\ response \in [Epochs \X Learners -> [gen : 0 .. MaxGen, next : 0 .. MaxCycle + 1]]
    /\ answering \in [Epochs -> SUBSET Slots]
    /\ acked \subseteq Epochs \X Slots

\* Types of the attempts, and what their place says of the cycle.
AttemptsTyped ==
    /\ lpc \in [Attempts -> AttemptPlaces]
    /\ cyc \in [Attempts -> 0 .. MaxCycle + 1]
    /\ seen \in [Attempts -> 0 .. MaxEpoch]
    /\ declared \in [Attempts -> -1 .. MaxCycle]
    /\ \A a \in Attempts :
         /\ lpc[a] \in Between \cup Inside => cyc[a] >= 1
         /\ lpc[a] \in Inside => cyc[a] <= MaxCycle
         /\ lpc[a] = "leaving" => declared[a] # -1
         /\ declared[a] # -1 => lpc[a] \in {"leaving", "ended"}

\* An attempt that was not bound yet is not there.
NoneAhead == \A a \in Attempts : a[2] > binding[a[1]].gen => lpc[a] = "absent"

\* What an attempt has published by now.
PostsMade ==
    \A a \in Attempts, c \in Cycles : Posted(a, c) =>
        /\ lpc[a] \notin {"absent", "waiting", "start"}
        /\ lpc[a] \in Between => c < cyc[a]
        /\ lpc[a] \in Inside => c <= cyc[a]
        /\ declared[a] # -1 => c <= declared[a]

\* InStep, by attempt.
Abreast ==
    \A a \in Attempts : IsBound(a) =>
        /\ lpc[a] \in Between => cyc[a] = progress[a[1]] + 1
        /\ lpc[a] \in Inside => progress[a[1]] \in {cyc[a] - 1, cyc[a]}
        /\ lpc[a] = "leaving" => progress[a[1]] \in {declared[a] - 1, declared[a]}

\* A response that a waiting attempt finds is right.
ResponsesRight ==
    \A e \in Epochs, l \in Learners :
        /\ response[<<e, l>>].gen <= binding[l].gen
        /\ response[<<e, l>>].gen # 0 => response[<<e, l>>].next >= 1
        /\ \A a \in Attempts :
             a[1] = l /\ IsBound(a) /\ lpc[a] = "waiting" /\ response[<<e, l>>].gen = a[2]
               => response[<<e, l>>].next = progress[l] + 1

\* What is acknowledged, or about to be, is on record.
AnswersRight ==
    \A e \in Epochs, u \in Slots :
        u \in answering[e] \/ <<e, u>> \in acked => Cycle(u) <= progress[Key(u)]

\* A fence names the attempt that is bound or was bound last.
FencesNamed ==
    \A l \in Learners : frozen[l].state # "none" => frozen[l].gen = binding[l].gen

\* The cycle that an acknowledged attempt declared has been taken in.
NothingMissed ==
    \A a \in Attempts :
        frozen[a[1]].state = "acked" /\ frozen[a[1]].gen = a[2] =>
            declared[a] # -1 /\ declared[a] <= progress[a[1]]

LearnerInv ==
    /\ FilesTyped /\ AttemptsTyped /\ NoneAhead /\ PostsMade /\ Abreast
    /\ ResponsesRight /\ AnswersRight /\ FencesNamed /\ NothingMissed

\* An attempt is the pair of its learner and its generation.
LEMMA AttemptParts ==
  ASSUME NEW a \in Attempts
  PROVE  a[1] \in Learners /\ a[2] \in 1 .. MaxGen /\ a = <<a[1], a[2]>>
  BY DEF Attempts

\* Nothing is there at first.
LEMMA LearnerBegins == LearnerInit => LearnerInv
  <1> SUFFICES ASSUME LearnerInit PROVE LearnerInv
    OBVIOUS
  <1>0. /\ MaxCycle \in Nat /\ MaxGen \in Nat /\ MaxEpoch \in Nat
        /\ \A l \in Learners : binding[l] = [gen |-> 0, status |-> "none"]
        /\ \A l \in Learners : frozen[l].state = "none"
    BY AuthorityAssumption DEF LearnerInit, SyncerInit, Init
  <1>1. FilesTyped
    BY <1>0 DEF LearnerInit, FilesTyped, NoResponse
  <1>2. AttemptsTyped
    BY <1>0 DEF LearnerInit, AttemptsTyped, AttemptPlaces, Between, Inside
  <1>3. \A a \in Attempts : a[1] \in Learners /\ ~IsBound(a)
    BY <1>0, AttemptParts DEF IsBound, FenceCurrent
  <1>4. NoneAhead /\ PostsMade /\ Abreast
    BY <1>3 DEF LearnerInit, NoneAhead, PostsMade, Posted, Abreast
  <1>5. ResponsesRight
    BY <1>0, <1>3 DEF LearnerInit, ResponsesRight, NoResponse
  <1>6. AnswersRight
    BY DEF LearnerInit, AnswersRight
  <1>7. FencesNamed /\ NothingMissed
    BY <1>0, <1>3 DEF FencesNamed, NothingMissed
  <1> QED BY <1>1, <1>2, <1>4, <1>5, <1>6, <1>7 DEF LearnerInv

-----------------------------------------------------------------------------
(* A command of a candidate.                                               *)

\* What it does to the attempts.
Newly(a) == binding'[a[1]].gen = a[2] /\ binding[a[1]].gen # a[2]

\* A newly bound attempt was not there.
LEMMA NewlyAbsent ==
  ASSUME TypeOK, [Next]_vars, NoneAhead, NEW a \in Attempts, Newly(a)
  PROVE  lpc[a] = "absent"
  <1>1. a[1] \in Learners /\ a[2] \in Nat
    BY AttemptParts
  <1>2. binding[a[1]].gen <= binding'[a[1]].gen /\ binding[a[1]].gen \in Nat
    BY <1>1, BindingStep
  <1> QED BY <1>1, <1>2 DEF Newly, NoneAhead

\* A cycle is taken in from the attempt that is bound, at its receipt.
LEMMA TakenCycle ==
  ASSUME AuthorityInv, LearnerInv, FromFiles, NEW l \in Learners, Takes(l),
         NEW a \in Attempts, a[1] = l, IsBound(a)
  PROVE  /\ lpc[a] \notin {"absent", "waiting"} \cup Between
         /\ lpc[a] \in Inside => progress[l] + 1 = cyc[a]
         /\ lpc[a] = "leaving" => progress[l] + 1 = declared[a]
  <1> DEFINE c == progress[l] + 1
             u == <<l, c>>
  <1>0. RestType /\ RowsAgree /\ BindingsMade
    BY TypeParts DEF AuthorityInv, LedgerInv, LiveInv
  <1>1. progress[l] \in Nat /\ progress[l] < MaxCycle /\ MaxCycle \in Nat
    BY <1>0, AuthorityAssumption DEF RestType, Takes
  <1>2. c \in Cycles /\ u \in Slots /\ Key(u) = l /\ Cycle(u) = c
    BY <1>1 DEF Cycles, Slots, Key, Cycle
  <1>3. a = Bound(l) /\ binding[l].gen # 0
    BY <1>0, AttemptParts DEF IsBound, FenceCurrent, Bound, BindingsMade
  <1>4. PICK expected \in BOOLEAN :
          receipt' = [receipt EXCEPT ![u] = [gen |-> binding[l].gen, expected |-> expected]]
    BY DEF Takes
  <1>5. receipt'[u].gen = binding[l].gen /\ receipt'[u].expected \in BOOLEAN
    BY <1>0, <1>2, <1>4 DEF RestType
  <1>6. receipt[u].gen = 0
    BY <1>0, <1>1, <1>2 DEF RowsAgree, RowAgrees
  <1>7. Posted(a, c)
    BY <1>2, <1>3, <1>5, <1>6 DEF FromFiles, Posted
  <1>8. /\ lpc[a] \notin {"absent", "waiting", "start"}
        /\ lpc[a] \in Between => c < cyc[a]
        /\ lpc[a] \in Inside => c <= cyc[a]
        /\ declared[a] # -1 => c <= declared[a]
    BY <1>2, <1>7 DEF LearnerInv, PostsMade
  <1>9. /\ cyc[a] \in Int /\ declared[a] \in Int
        /\ lpc[a] = "leaving" => declared[a] # -1
    BY DEF LearnerInv, AttemptsTyped
  <1>10. /\ lpc[a] \in Between => cyc[a] = c
         /\ lpc[a] \in Inside => progress[l] \in {cyc[a] - 1, cyc[a]}
         /\ lpc[a] = "leaving" => progress[l] \in {declared[a] - 1, declared[a]}
    BY DEF LearnerInv, Abreast
  <1> QED BY <1>1, <1>8, <1>9, <1>10

\* Who is bound after a command was bound before, with the same count, or is
\* new, or has had its cycle taken in.
LEMMA BoundBefore ==
  ASSUME AuthorityInv, LearnerInv, [Next]_vars, NEW a \in Attempts, IsBound(a)'
  PROVE  \/ Newly(a)
         \/ IsBound(a) /\ progress'[a[1]] = progress[a[1]]
         \/ IsBound(a) /\ Takes(a[1]) /\ progress'[a[1]] = progress[a[1]] + 1
  <1>0. RestType /\ TypeOK
    BY TypeParts DEF AuthorityInv
  <1>1. a[1] \in Learners /\ a[2] \in Nat
    BY AttemptParts
  <1>2. binding'[a[1]].status = "active" /\ binding'[a[1]].gen = a[2]
    BY DEF IsBound, FenceCurrent
  <1>3. CASE Ends
    BY <1>1, <1>2, <1>3 DEF Ends, IsBound, FenceCurrent
  <1>4. ASSUME NEW l \in Learners, Binds(l) PROVE Newly(a) \/ (IsBound(a) /\ UNCHANGED progress)
    <2>1. CASE a[1] = l
      <3>1. binding'[l].gen = binding[l].gen + 1 /\ binding[l].gen \in Nat
        BY <1>0, <1>4 DEF Binds, RestType
      <3> QED BY <1>2, <2>1, <3>1 DEF Newly
    <2>2. CASE a[1] # l
      BY <1>0, <1>1, <1>2, <1>4, <2>2 DEF Binds, RestType, IsBound, FenceCurrent
    <2> QED BY <2>1, <2>2
  <1>5. ASSUME NEW l \in Learners, Takes(l)
        PROVE  \/ IsBound(a) /\ progress'[a[1]] = progress[a[1]]
               \/ IsBound(a) /\ Takes(a[1]) /\ progress'[a[1]] = progress[a[1]] + 1
    <2>1. IsBound(a)
      BY <1>2, <1>5 DEF Takes, IsBound, FenceCurrent
    <2> QED BY <1>0, <1>1, <1>5, <2>1 DEF Takes, RestType
  <1> QED BY <1>0, <1>3, <1>4, <1>5, CommandKinds

\* A command, of a candidate that finds what it takes in and announces what
\* it did, keeps everything right.
LEMMA CommandKeeps ==
  ASSUME AuthorityInv, LearnerInv, [Next]_vars, FromFiles, Announced
  PROVE  LearnerInv'
  <1>0. /\ RestType /\ TypeOK /\ Unfrozen
        /\ FilesTyped /\ AttemptsTyped /\ NoneAhead /\ PostsMade /\ Abreast
        /\ ResponsesRight /\ AnswersRight /\ FencesNamed /\ NothingMissed
    BY TypeParts DEF AuthorityInv, CloseInv, LearnerInv
  <1>1. UNCHANGED <<cyc, seen, posted, proposed, declared, beats, response, acked>>
    BY DEF Announced, inputVars
  <1>2. ASSUME NEW a \in Attempts
        PROVE  \/ Newly(a) /\ lpc[a] = "absent" /\ lpc'[a] = "waiting"
               \/ ~Newly(a) /\ lpc'[a] = lpc[a]
    BY <1>0, NewlyAbsent DEF Announced, Newly
  <1>3. ASSUME NEW l \in Learners
        PROVE  /\ binding[l].gen \in Nat /\ binding'[l].gen \in Nat
               /\ binding[l].gen <= binding'[l].gen
               /\ progress[l] \in Nat /\ progress'[l] \in Nat /\ progress[l] <= progress'[l]
    BY <1>0, BindingStep
  <1>4. ASSUME NEW a \in Attempts
        PROVE  a[1] \in Learners /\ a[2] \in 1 .. MaxGen
    BY AttemptParts
  <1>5. FilesTyped'
    <2>1. answering' \in [Epochs -> SUBSET Slots]
      BY <1>0 DEF Announced, FilesTyped
    <2> QED BY <1>0, <1>1, <2>1 DEF FilesTyped
  <1>6. AttemptsTyped'
    <2>1. lpc' \in [Attempts -> AttemptPlaces]
      BY <1>0 DEF Announced, AttemptsTyped, AttemptPlaces
    <2> QED BY <1>0, <1>1, <1>2, <2>1 DEF AttemptsTyped, Between, Inside
  <1>7. NoneAhead'
    <2> SUFFICES ASSUME NEW a \in Attempts, a[2] > binding'[a[1]].gen
                 PROVE  lpc'[a] = "absent"
      BY DEF NoneAhead
    <2>1. a[2] > binding[a[1]].gen /\ ~Newly(a)
      BY <1>3, <1>4 DEF Newly
    <2> QED BY <1>0, <1>2, <2>1 DEF NoneAhead
  <1>8. PostsMade'
    BY <1>0, <1>1, <1>2 DEF PostsMade, Posted, Between, Inside
  <1>9. Abreast'
    <2> SUFFICES ASSUME NEW a \in Attempts, IsBound(a)'
                 PROVE  /\ lpc'[a] \in Between => cyc[a] = progress'[a[1]] + 1
                        /\ lpc'[a] \in Inside => progress'[a[1]] \in {cyc[a] - 1, cyc[a]}
                        /\ lpc'[a] = "leaving" =>
                             progress'[a[1]] \in {declared[a] - 1, declared[a]}
      BY <1>1 DEF Abreast
    <2>1. CASE Newly(a)
      BY <1>2, <2>1 DEF Between, Inside
    <2>2. CASE ~Newly(a) /\ IsBound(a) /\ progress'[a[1]] = progress[a[1]]
      BY <1>0, <1>2, <2>2 DEF Abreast
    <2>3. CASE /\ ~Newly(a) /\ IsBound(a) /\ Takes(a[1])
               /\ progress'[a[1]] = progress[a[1]] + 1
      BY <1>2, <1>4, <2>3, TakenCycle
    <2> QED BY <2>1, <2>2, <2>3, BoundBefore
  <1>10. ResponsesRight'
    <2> SUFFICES ASSUME NEW e \in Epochs, NEW l \in Learners
                 PROVE  /\ response[<<e, l>>].gen <= binding'[l].gen
                        /\ response[<<e, l>>].gen # 0 => response[<<e, l>>].next >= 1
                        /\ \A a \in Attempts :
                             /\ a[1] = l /\ IsBound(a)' /\ lpc'[a] = "waiting"
                             /\ response[<<e, l>>].gen = a[2]
                             => response[<<e, l>>].next = progress'[l] + 1
      BY <1>1 DEF ResponsesRight
    <2>1. /\ response[<<e, l>>].gen \in Nat /\ response[<<e, l>>].gen <= binding[l].gen
          /\ response[<<e, l>>].gen # 0 => response[<<e, l>>].next >= 1
      BY <1>0 DEF FilesTyped, ResponsesRight
    <2>2. ASSUME NEW a \in Attempts, a[1] = l, IsBound(a)', lpc'[a] = "waiting",
                 response[<<e, l>>].gen = a[2]
          PROVE  response[<<e, l>>].next = progress'[l] + 1
      <3>1. ~Newly(a)
        <4>1. CASE Newly(a)
          <5>1. a[2] <= binding[l].gen /\ binding'[l].gen = a[2] /\ binding[l].gen # a[2]
            BY <2>1, <2>2, <4>1 DEF Newly
          <5> QED BY <1>3, <5>1
        <4> QED BY <4>1
      <3>2. lpc[a] = "waiting"
        BY <1>2, <2>2, <3>1
      <3>3. IsBound(a) /\ progress'[l] = progress[l]
        <4>1. ~(IsBound(a) /\ Takes(l))
          BY <2>2, <3>2, TakenCycle
        <4> QED BY <2>2, <3>1, <4>1, BoundBefore
      <3> QED BY <1>0, <2>2, <3>2, <3>3 DEF ResponsesRight
    <2> QED BY <1>3, <2>1, <2>2
  <1>11. AnswersRight'
    <2> SUFFICES ASSUME NEW e \in Epochs, NEW u \in Slots,
                        u \in answering'[e] \/ <<e, u>> \in acked
                 PROVE  Cycle(u) <= progress'[Key(u)]
      BY <1>1 DEF AnswersRight
    <2>1. Key(u) \in Learners /\ Cycle(u) \in Nat /\ u = <<Key(u), Cycle(u)>>
      BY SlotParts DEF Cycles
    <2>2. CASE u \in answering[e] \/ <<e, u>> \in acked
      BY <1>0, <1>3, <2>1, <2>2 DEF AnswersRight
    <2>3. CASE receipt'[u] # receipt[u]
      <3>1. PICK l \in Learners : Takes(l)
        BY <1>0, <2>3, CommandKinds DEF Ends, Binds
      <3>2. u = <<l, progress[l] + 1>>
        BY <1>0, <2>3, <3>1 DEF Takes, RestType
      <3>3. progress'[l] = progress[l] + 1
        BY <1>0, <3>1 DEF Takes, RestType
      <3> QED BY <1>3, <3>2, <3>3 DEF Key, Cycle
    <2>4. u \in answering'[e] => u \in answering[e] \/ receipt'[u] # receipt[u]
      BY DEF Announced
    <2> QED BY <2>2, <2>3, <2>4
  <1>12. ASSUME NEW l \in Learners
         PROVE  /\ FenceMoves(l)
                /\ \/ binding'[l].gen = binding[l].gen
                   \/ frozen[l].state = "none" /\ frozen'[l] = frozen[l]
    <2>1. FenceMoves(l)
      BY <1>0, FenceKinds
    <2>2. CASE Ends
      BY <2>1, <2>2 DEF Ends
    <2>3. ASSUME NEW k \in Learners, Binds(k)
          PROVE  frozen[l].state = "none" /\ frozen'[l] = frozen[l]
      BY <1>0, <2>3 DEF Binds, Unfrozen
    <2>4. ASSUME NEW k \in Learners, Takes(k) PROVE binding'[l].gen = binding[l].gen
      BY <2>4 DEF Takes
    <2> QED BY <1>0, <2>1, <2>2, <2>3, <2>4, CommandKinds
  <1>13. FencesNamed'
    BY <1>0, <1>12 DEF FencesNamed, FenceMoves
  <1>14. NothingMissed'
    <2> SUFFICES ASSUME NEW a \in Attempts, frozen'[a[1]].state = "acked",
                        frozen'[a[1]].gen = a[2]
                 PROVE  declared[a] # -1 /\ declared[a] <= progress'[a[1]]
      BY <1>1 DEF NothingMissed
    <2>1. a[1] \in Learners /\ declared[a] \in Int /\ a = <<a[1], a[2]>>
      BY <1>0, AttemptParts DEF AttemptsTyped
    <2>2. CASE frozen[a[1]].state = "acked"
      <3>1. frozen[a[1]].gen = a[2]
        BY <1>12, <2>1, <2>2 DEF FenceMoves
      <3> QED BY <1>0, <1>3, <2>1, <2>2, <3>1 DEF NothingMissed
    <2>3. CASE frozen[a[1]].state # "acked"
      <3>1. frozen[a[1]].state = "awaiting_ack" /\ frozen[a[1]].gen = a[2]
        BY <1>12, <2>1, <2>3 DEF FenceMoves
      <3>2. a = Bound(a[1])
        BY <1>0, <2>1, <3>1 DEF FencesNamed, Bound
      <3>3. declared[a] = progress[a[1]]
        BY <2>1, <2>3, <3>2 DEF FromFiles, Declared
      <3> QED BY <1>3, <2>1, <3>3
    <2> QED BY <2>2, <2>3
  <1> QED BY <1>5, <1>6, <1>7, <1>8, <1>9, <1>10, <1>11, <1>13, <1>14 DEF LearnerInv

-----------------------------------------------------------------------------
(* The other steps.                                                        *)

\* Responses and acknowledgements say what is on record.
LEMMA ServingKeeps ==
  ASSUME AuthorityInv, LearnerInv, UNCHANGED <<allVars, attemptVars, inputVars>>,
         NEW e \in Epochs,
         \/ Heartbeat(e) \/ Answer(e)
         \/ \E l \in Learners : Respond(e, l) \/ Replay(e, l)
  PROVE  LearnerInv'
  <1>0. /\ RestType /\ RowsAgree /\ BindingsMade
        /\ FilesTyped /\ AttemptsTyped /\ NoneAhead /\ PostsMade /\ Abreast
        /\ ResponsesRight /\ AnswersRight /\ FencesNamed /\ NothingMissed
    BY TypeParts DEF AuthorityInv, LedgerInv, LiveInv, LearnerInv
  <1>1. UNCHANGED <<binding, progress, frozen, lpc, cyc, seen, posted, proposed, declared>>
    BY DEF allVars, vars, closeVars, attemptVars, inputVars
  <1>2. /\ AttemptsTyped' /\ NoneAhead' /\ PostsMade' /\ Abreast' /\ FencesNamed'
        /\ NothingMissed'
    BY <1>0, <1>1
       DEF AttemptsTyped, NoneAhead, PostsMade, Posted, Abreast, IsBound, FenceCurrent,
           FencesNamed, NothingMissed
  <1>3. CASE Heartbeat(e)
    <2>1. FilesTyped' /\ ResponsesRight' /\ AnswersRight'
      BY <1>0, <1>1, <1>3
         DEF Heartbeat, FilesTyped, ResponsesRight, AnswersRight, IsBound, FenceCurrent
    <2> QED BY <1>2, <2>1 DEF LearnerInv
  <1>4. CASE Answer(e)
    <2>1. /\ acked' = acked \cup ({e} \X answering[e])
          /\ answering' = [answering EXCEPT ![e] = {}]
          /\ UNCHANGED <<beats, response>>
      BY <1>4 DEF Answer
    <2>2. FilesTyped' /\ ResponsesRight' /\ AnswersRight'
      BY <1>0, <1>1, <2>1
         DEF FilesTyped, ResponsesRight, AnswersRight, IsBound, FenceCurrent
    <2> QED BY <1>2, <2>2 DEF LearnerInv
  <1>5. ASSUME NEW l \in Learners, Respond(e, l) PROVE LearnerInv'
    <2> DEFINE row == [gen |-> binding[l].gen, next |-> progress[l] + 1]
    <2>1. /\ response' = [response EXCEPT ![<<e, l>>] = row]
          /\ UNCHANGED <<beats, answering, acked>>
      BY <1>5 DEF Respond
    <2>2. MaxCycle \in Nat /\ progress[l] \in 0 .. MaxCycle /\ binding[l].gen \in 0 .. MaxGen
      BY <1>0, AuthorityAssumption DEF RestType
    <2>3. row \in [gen : 0 .. MaxGen, next : 0 .. MaxCycle + 1]
      BY <2>2
    <2>4. FilesTyped' /\ AnswersRight'
      BY <1>0, <1>1, <2>1, <2>3 DEF FilesTyped, AnswersRight
    <2>5. ResponsesRight'
      <3> SUFFICES ASSUME NEW f \in Epochs, NEW k \in Learners
                   PROVE  /\ response'[<<f, k>>].gen <= binding[k].gen
                          /\ response'[<<f, k>>].gen # 0 => response'[<<f, k>>].next >= 1
                          /\ \A a \in Attempts :
                               /\ a[1] = k /\ IsBound(a) /\ lpc[a] = "waiting"
                               /\ response'[<<f, k>>].gen = a[2]
                               => response'[<<f, k>>].next = progress[k] + 1
        BY <1>1 DEF ResponsesRight, IsBound, FenceCurrent
      <3>1. CASE f = e /\ k = l
        <4>1. response'[<<f, k>>] = row
          BY <1>0, <2>1, <3>1 DEF FilesTyped
        <4> QED BY <2>2, <3>1, <4>1
      <3>2. CASE ~(f = e /\ k = l)
        <4>1. response'[<<f, k>>] = response[<<f, k>>]
          BY <1>0, <2>1, <3>2 DEF FilesTyped
        <4> QED BY <1>0, <4>1 DEF ResponsesRight
      <3> QED BY <3>1, <3>2
    <2> QED BY <1>2, <2>4, <2>5 DEF LearnerInv
  <1>6. ASSUME NEW l \in Learners, Replay(e, l) PROVE LearnerInv'
    <2>1. PICK c \in Scanned(l) \cap Cycles :
            /\ Known(<<l, c>>) /\ binding[l].status = "active"
            /\ answering' = [answering EXCEPT ![e] = {<<l, c>>}]
            /\ UNCHANGED <<beats, response, acked>>
      BY <1>6 DEF Replay
    <2>2. <<l, c>> \in Slots /\ Key(<<l, c>>) = l /\ Cycle(<<l, c>>) = c
      BY <2>1 DEF Slots, Key, Cycle
    <2>3. c <= progress[l]
      BY <1>0, <2>1, <2>2 DEF Known, RowsAgree, RowAgrees, BindingsMade
    <2>4. FilesTyped' /\ ResponsesRight'
      BY <1>0, <1>1, <2>1, <2>2 DEF FilesTyped, ResponsesRight, IsBound, FenceCurrent
    <2>5. AnswersRight'
      <3> SUFFICES ASSUME NEW f \in Epochs, NEW u \in Slots,
                          u \in answering'[f] \/ <<f, u>> \in acked
                   PROVE  Cycle(u) <= progress[Key(u)]
        BY <1>1, <2>1 DEF AnswersRight
      <3>1. u \in answering[f] \/ <<f, u>> \in acked \/ u = <<l, c>>
        BY <1>0, <2>1 DEF FilesTyped
      <3> QED BY <1>0, <2>2, <2>3, <3>1 DEF AnswersRight
    <2> QED BY <1>2, <2>4, <2>5 DEF LearnerInv
  <1> QED BY <1>3, <1>4, <1>5, <1>6

\* Attempt a goes to another place, with cycle c and declaration d.
Goes(a, to, c, d) ==
    /\ UNCHANGED <<binding, progress, frozen, answerVars>>
    /\ lpc' = [lpc EXCEPT ![a] = to]
    /\ cyc' = [cyc EXCEPT ![a] = c]
    /\ declared' = [declared EXCEPT ![a] = d]

\* What it may have published then.
Publishes(a, to, c, d) ==
    /\ \A b \in Attempts, k \in Cycles : Posted(b, k)' => b = a \/ Posted(b, k)
    /\ \A k \in Cycles : Posted(a, k)' =>
         /\ to # "start"
         /\ to \in Between => k < c
         /\ to \in Inside => k <= c
         /\ d # -1 => k <= d

\* Whether it is in step then.
StaysAbreast(a, to, c, d) ==
    IsBound(a) =>
        /\ to \in Between => c = progress[a[1]] + 1
        /\ to \in Inside => progress[a[1]] \in {c - 1, c}
        /\ to = "leaving" => progress[a[1]] \in {d - 1, d}

\* What keeps everything right when an attempt goes on.
LEMMA AttemptKeeps ==
  ASSUME LearnerInv, NEW a \in Attempts, NEW to \in AttemptPlaces \ {"absent", "waiting"},
         NEW c \in 0 .. MaxCycle + 1, NEW d \in -1 .. MaxCycle,
         Goes(a, to, c, d), Publishes(a, to, c, d), StaysAbreast(a, to, c, d),
         seen' \in [Attempts -> 0 .. MaxEpoch],
         posted' \subseteq Attempts \X Cycles \X BOOLEAN, proposed' \subseteq Attempts \X Cycles,
         lpc[a] # "absent",
         to \in Between \cup Inside => c >= 1,
         to \in Inside => c <= MaxCycle,
         to = "leaving" => d # -1,
         d # -1 => to \in {"leaving", "ended"},
         declared[a] # -1 => d = declared[a]
  PROVE  LearnerInv'
  <1>0. /\ FilesTyped /\ AttemptsTyped /\ NoneAhead /\ PostsMade /\ Abreast
        /\ ResponsesRight /\ AnswersRight /\ FencesNamed /\ NothingMissed
    BY DEF LearnerInv
  <1>1. UNCHANGED <<binding, progress, frozen, beats, response, answering, acked>>
    BY DEF Goes, answerVars
  <1>2. /\ lpc'[a] = to /\ cyc'[a] = c /\ declared'[a] = d
        /\ \A b \in Attempts : b # a =>
             lpc'[b] = lpc[b] /\ cyc'[b] = cyc[b] /\ declared'[b] = declared[b]
    BY <1>0 DEF AttemptsTyped, Goes
  <1>3. FilesTyped' /\ AnswersRight' /\ FencesNamed'
    BY <1>0, <1>1 DEF FilesTyped, AnswersRight, FencesNamed
  <1>4. AttemptsTyped'
    <2>1. /\ lpc' \in [Attempts -> AttemptPlaces] /\ cyc' \in [Attempts -> 0 .. MaxCycle + 1]
          /\ declared' \in [Attempts -> -1 .. MaxCycle]
      BY <1>0 DEF AttemptsTyped, Goes
    <2>2. ASSUME NEW b \in Attempts
          PROVE  /\ lpc'[b] \in Between \cup Inside => cyc'[b] >= 1
                 /\ lpc'[b] \in Inside => cyc'[b] <= MaxCycle
                 /\ lpc'[b] = "leaving" => declared'[b] # -1
                 /\ declared'[b] # -1 => lpc'[b] \in {"leaving", "ended"}
      BY <1>0, <1>2 DEF AttemptsTyped
    <2> QED BY <2>1, <2>2 DEF AttemptsTyped
  <1>5. NoneAhead'
    BY <1>0, <1>1, <1>2 DEF NoneAhead
  <1>6. PostsMade'
    <2> SUFFICES ASSUME NEW b \in Attempts, NEW k \in Cycles, Posted(b, k)'
                 PROVE  /\ lpc'[b] \notin {"absent", "waiting", "start"}
                        /\ lpc'[b] \in Between => k < cyc'[b]
                        /\ lpc'[b] \in Inside => k <= cyc'[b]
                        /\ declared'[b] # -1 => k <= declared'[b]
      BY DEF PostsMade
    <2>1. CASE b = a
      BY <1>2, <2>1 DEF Publishes, Between, Inside, AttemptPlaces
    <2>2. CASE b # a
      BY <1>0, <1>2, <2>2 DEF PostsMade, Publishes
    <2> QED BY <2>1, <2>2
  <1>7. Abreast'
    <2> SUFFICES ASSUME NEW b \in Attempts, IsBound(b)
                 PROVE  /\ lpc'[b] \in Between => cyc'[b] = progress[b[1]] + 1
                        /\ lpc'[b] \in Inside => progress[b[1]] \in {cyc'[b] - 1, cyc'[b]}
                        /\ lpc'[b] = "leaving" =>
                             progress[b[1]] \in {declared'[b] - 1, declared'[b]}
      BY <1>1 DEF Abreast, IsBound, FenceCurrent
    <2>1. CASE b = a
      BY <1>2, <2>1 DEF StaysAbreast
    <2>2. CASE b # a
      BY <1>0, <1>2, <2>2 DEF Abreast
    <2> QED BY <2>1, <2>2
  <1>8. ResponsesRight'
    <2>1. \A b \in Attempts : lpc'[b] = "waiting" => lpc[b] = "waiting"
      BY <1>2
    <2> QED BY <1>0, <1>1, <2>1 DEF ResponsesRight, IsBound, FenceCurrent
  <1>9. NothingMissed'
    <2>1. \A b \in Attempts : declared[b] # -1 => declared'[b] = declared[b]
      BY <1>2
    <2> QED BY <1>0, <1>1, <2>1 DEF NothingMissed
  <1> QED BY <1>3, <1>4, <1>5, <1>6, <1>7, <1>8, <1>9 DEF LearnerInv

\* Learners keep everything right.
LEMMA LearningKeeps ==
  ASSUME AuthorityInv, LearnerInv, NEW a \in Attempts, Learn(a) \/ Vanish(a)
  PROVE  LearnerInv'
  <1> DEFINE l == a[1]
             same == /\ UNCHANGED <<allVars, answerVars>>
                     /\ seen' \in [Attempts -> 0 .. MaxEpoch]
             files == UNCHANGED <<posted, proposed>>
  <1>0. /\ RestType /\ FilesTyped /\ AttemptsTyped /\ PostsMade /\ Abreast
        /\ ResponsesRight /\ AnswersRight /\ MaxCycle \in Nat
    BY TypeParts, AuthorityAssumption DEF AuthorityInv, LearnerInv
  <1>1. /\ l \in Learners /\ a[2] \in 1 .. MaxGen /\ a = <<l, a[2]>>
        /\ progress[l] \in 0 .. MaxCycle
    BY <1>0, AttemptParts DEF RestType
  <1>2. /\ lpc[a] \in AttemptPlaces /\ cyc[a] \in 0 .. MaxCycle + 1 /\ declared[a] \in -1 .. MaxCycle
        /\ lpc[a] \in Between \cup Inside => cyc[a] >= 1
        /\ lpc[a] \in Inside => cyc[a] <= MaxCycle
        /\ lpc[a] = "leaving" => declared[a] # -1
        /\ declared[a] # -1 => lpc[a] \in {"leaving", "ended"}
        /\ cyc = [cyc EXCEPT ![a] = cyc[a]] /\ declared = [declared EXCEPT ![a] = declared[a]]
        /\ seen \in [Attempts -> 0 .. MaxEpoch]
    BY <1>0 DEF AttemptsTyped
  <1>3. ASSUME NEW k \in Cycles, Posted(a, k)
        PROVE  /\ k \in Int /\ lpc[a] \notin {"absent", "waiting", "start"}
               /\ lpc[a] \in Between => k < cyc[a]
               /\ lpc[a] \in Inside => k <= cyc[a]
               /\ declared[a] # -1 => k <= declared[a]
    BY <1>0, <1>3 DEF PostsMade, Cycles
  <1>4. /\ IsBound(a) /\ lpc[a] \in Between => cyc[a] = progress[l] + 1
        /\ IsBound(a) /\ lpc[a] \in Inside => progress[l] \in {cyc[a] - 1, cyc[a]}
        /\ IsBound(a) /\ lpc[a] = "leaving" => progress[l] \in {declared[a] - 1, declared[a]}
    BY <1>0 DEF Abreast
  <1>5. ASSUME NEW to \in AttemptPlaces \ {"absent", "waiting"},
               NEW c \in 0 .. MaxCycle + 1, NEW d \in -1 .. MaxCycle,
               same, files, lpc' = [lpc EXCEPT ![a] = to], cyc' = [cyc EXCEPT ![a] = c],
               declared' = [declared EXCEPT ![a] = d], lpc[a] # "absent",
               to \in Between \cup Inside => c >= 1,
               to \in Inside => c <= MaxCycle,
               to = "leaving" => d # -1,
               d # -1 => to \in {"leaving", "ended"},
               declared[a] # -1 => d = declared[a],
               StaysAbreast(a, to, c, d),
               \A k \in Cycles : Posted(a, k) =>
                 /\ to # "start"
                 /\ to \in Between => k < c
                 /\ to \in Inside => k <= c
                 /\ d # -1 => k <= d
        PROVE  LearnerInv'
    <2>1. Goes(a, to, c, d)
      BY <1>5 DEF Goes, allVars, vars, closeVars
    <2>2. Publishes(a, to, c, d)
      BY <1>5 DEF Publishes, Posted
    <2>3. /\ posted' \subseteq Attempts \X Cycles \X BOOLEAN
          /\ proposed' \subseteq Attempts \X Cycles
      BY <1>0, <1>5 DEF FilesTyped
    <2> QED BY <1>5, <2>1, <2>2, <2>3, AttemptKeeps
  <1> USE DEF Between, Inside, AttemptPlaces
  <1>6. ASSUME NEW e \in Epochs, ReadResponse(a, e) PROVE LearnerInv'
    <2>1. /\ lpc[a] = "waiting" /\ same /\ files /\ UNCHANGED declared
          /\ \/ lpc' = [lpc EXCEPT ![a] = "ended"] /\ UNCHANGED cyc
             \/ /\ response[<<e, l>>].gen = a[2]
                /\ lpc' = [lpc EXCEPT ![a] = "start"]
                /\ cyc' = [cyc EXCEPT ![a] = response[<<e, l>>].next]
      BY <1>2, <1>6 DEF ReadResponse, Turn
    <2>2. declared[a] = -1 /\ \A k \in Cycles : ~Posted(a, k)
      BY <1>2, <1>3, <2>1
    <2>3. CASE lpc' = [lpc EXCEPT ![a] = "ended"] /\ UNCHANGED cyc
      <3>1. StaysAbreast(a, "ended", cyc[a], -1)
        BY DEF StaysAbreast
      <3>2. /\ cyc' = [cyc EXCEPT ![a] = cyc[a]] /\ cyc[a] \in 0 .. MaxCycle + 1
            /\ declared' = [declared EXCEPT ![a] = -1] /\ -1 \in -1 .. MaxCycle
        BY <1>0, <1>2, <2>1, <2>2, <2>3
      <3> QED BY <1>5, <2>1, <2>2, <2>3, <3>1, <3>2
    <2>4. CASE /\ response[<<e, l>>].gen = a[2]
               /\ lpc' = [lpc EXCEPT ![a] = "start"]
               /\ cyc' = [cyc EXCEPT ![a] = response[<<e, l>>].next]
      <3> DEFINE c == response[<<e, l>>].next
      <3>1. c \in 0 .. MaxCycle + 1 /\ c >= 1
        BY <1>0, <1>1, <2>4 DEF FilesTyped, ResponsesRight
      <3>2. StaysAbreast(a, "start", c, -1)
        BY <1>0, <1>1, <2>1, <2>4 DEF StaysAbreast, ResponsesRight
      <3> QED BY <1>2, <1>5, <2>1, <2>2, <2>4, <3>1, <3>2
    <2> QED BY <2>1, <2>3, <2>4
  <1>7. ASSUME NEW to \in {"top", "train", "ended", "barrier", "reading"},
               same, files, UNCHANGED <<cyc, declared>>, lpc' = [lpc EXCEPT ![a] = to],
               \/ lpc[a] \in {"start", "top"} /\ to \in {"top", "train", "ended"}
               \/ lpc[a] \in Inside /\ to \in {"barrier", "reading", "ended"}
               \/ lpc[a] = "leaving" /\ to = "ended"
        PROVE  LearnerInv'
    <2>1. StaysAbreast(a, to, cyc[a], declared[a])
      BY <1>4, <1>7 DEF StaysAbreast
    <2>2. \A k \in Cycles : Posted(a, k) =>
             /\ to # "start"
             /\ to \in Between => k < cyc[a]
             /\ to \in Inside => k <= cyc[a]
             /\ declared[a] # -1 => k <= declared[a]
      BY <1>3, <1>7
    <2> QED BY <1>2, <1>5, <1>7, <2>1, <2>2
  <1>8. ASSUME NEW e \in Epochs, NEW last, Leave(a, e, last), files,
               UNCHANGED <<allVars, answerVars>>,
               \/ lpc[a] = "top" /\ last = cyc[a] - 1
               \/ lpc[a] = "barrier" /\ last = cyc[a]
        PROVE  LearnerInv'
    <2>1. CASE lpc' = [lpc EXCEPT ![a] = "ended"] /\ UNCHANGED <<cyc, seen, declared>>
      BY <1>2, <1>7, <1>8, <2>1
    <2>2. CASE /\ lpc' = [lpc EXCEPT ![a] = "leaving"] /\ UNCHANGED <<cyc, seen>>
               /\ declared' = [declared EXCEPT ![a] = last]
      <3>1. last \in 0 .. MaxCycle
        BY <1>0, <1>2, <1>8
      <3>2. declared[a] = -1
        BY <1>2, <1>8
      <3>3. StaysAbreast(a, "leaving", cyc[a], last)
        BY <1>1, <1>2, <1>4, <1>8 DEF StaysAbreast
      <3>4. \A k \in Cycles : Posted(a, k) => k <= last
        BY <1>2, <1>3, <1>8
      <3>5. cyc' = [cyc EXCEPT ![a] = cyc[a]] /\ cyc[a] \in 0 .. MaxCycle + 1 /\ same
        BY <1>2, <1>8, <2>2
      <3>6. last \in -1 .. MaxCycle /\ last # -1 /\ lpc[a] # "absent"
        BY <1>0, <1>8, <3>1
      <3>7. \A k \in Cycles : Posted(a, k) =>
              /\ "leaving" # "start"
              /\ "leaving" \in Between => k < cyc[a]
              /\ "leaving" \in Inside => k <= cyc[a]
              /\ last # -1 => k <= last
        BY <3>4
      <3>8. files /\ lpc' = [lpc EXCEPT ![a] = "leaving"]
            /\ declared' = [declared EXCEPT ![a] = last]
        BY <1>8, <2>2
      <3> HIDE DEF same, files
      <3> QED BY <1>5, <3>2, <3>3, <3>5, <3>6, <3>7, <3>8
    <2> QED BY <1>8, <2>1, <2>2 DEF Leave, Turn
  <1>9. ASSUME NEW e \in Epochs, LoadLatest(a, e) PROVE LearnerInv'
    BY <1>2, <1>7, <1>9 DEF LoadLatest, Turn
  <1>10. ASSUME NEW e \in Epochs, LoopTop(a, e) PROVE LearnerInv'
    <2>1. CASE Leave(a, e, cyc[a] - 1)
      BY <1>8, <1>10, <2>1 DEF LoopTop, Leave, Turn
    <2>2. CASE Turn(a, "train") /\ UNCHANGED <<cyc, seen, declared>>
      BY <1>2, <1>7, <1>10, <2>2 DEF LoopTop, Turn
    <2> QED BY <1>10, <2>1, <2>2 DEF LoopTop
  <1>11. ASSUME NEW e \in Epochs, Barrier(a, e) PROVE LearnerInv'
    <2>1. CASE Leave(a, e, cyc[a])
      BY <1>8, <1>11, <2>1 DEF Barrier, Leave, Turn
    <2>2. CASE /\ Turn(a, "reading") /\ seen' = [seen EXCEPT ![a] = e]
               /\ UNCHANGED <<cyc, declared>>
      <3>1. seen' \in [Attempts -> 0 .. MaxEpoch]
        BY <1>2, <2>2 DEF Epochs
      <3> QED BY <1>7, <1>11, <2>2, <3>1 DEF Barrier, Turn
    <2> QED BY <1>11, <2>1, <2>2 DEF Barrier
  <1>12. ASSUME NEW e \in Epochs, AwaitTerminal(a, e) PROVE LearnerInv'
    BY <1>2, <1>7, <1>12 DEF AwaitTerminal, Turn
  <1>13. CASE Vanish(a)
    BY <1>2, <1>7, <1>13 DEF Vanish, Turn
  <1>14. CASE ReadAck(a)
    <2>1. /\ lpc[a] = "reading" /\ UNCHANGED declared
          /\ UNCHANGED <<allVars, answerVars>> /\ files /\ seen' = [seen EXCEPT ![a] = 0]
          /\ \/ /\ <<seen[a], <<l, cyc[a]>>>> \in acked
                /\ lpc' = [lpc EXCEPT ![a] = "top"] /\ cyc' = [cyc EXCEPT ![a] = cyc[a] + 1]
             \/ lpc' = [lpc EXCEPT ![a] = "barrier"] /\ UNCHANGED cyc
      BY <1>2, <1>14 DEF ReadAck, Turn
    <2>2. same
      <3>1. 0 \in 0 .. MaxEpoch
        BY AuthorityAssumption
      <3> QED BY <1>2, <2>1, <3>1
    <2>3. CASE lpc' = [lpc EXCEPT ![a] = "barrier"] /\ UNCHANGED cyc
      BY <1>7, <2>1, <2>2, <2>3
    <2>4. CASE /\ <<seen[a], <<l, cyc[a]>>>> \in acked
               /\ lpc' = [lpc EXCEPT ![a] = "top"] /\ cyc' = [cyc EXCEPT ![a] = cyc[a] + 1]
      <3>1. cyc[a] <= progress[l]
        <4>1. seen[a] \in Epochs /\ <<l, cyc[a]>> \in Slots
          BY <1>0, <2>4 DEF FilesTyped
        <4> QED BY <1>0, <2>4, <4>1 DEF AnswersRight, Key, Cycle
      <3>2. StaysAbreast(a, "top", cyc[a] + 1, -1)
        BY <1>1, <1>2, <1>4, <2>1, <3>1 DEF StaysAbreast
      <3>3. declared[a] = -1 /\ \A k \in Cycles : Posted(a, k) => k < cyc[a] + 1
        BY <1>2, <1>3, <2>1
      <3>4. cyc[a] + 1 \in 0 .. MaxCycle + 1 /\ cyc[a] + 1 >= 1
        BY <1>0, <1>2, <2>1
      <3>5. declared' = [declared EXCEPT ![a] = -1] /\ -1 \in -1 .. MaxCycle
        BY <1>0, <1>2, <2>1, <3>3
      <3>6. \A k \in Cycles : Posted(a, k) =>
              /\ "top" # "start"
              /\ "top" \in Between => k < cyc[a] + 1
              /\ "top" \in Inside => k <= cyc[a] + 1
              /\ -1 # -1 => k <= -1
        BY <3>3
      <3>7. /\ files /\ lpc' = [lpc EXCEPT ![a] = "top"]
            /\ cyc' = [cyc EXCEPT ![a] = cyc[a] + 1] /\ lpc[a] # "absent"
        BY <2>1, <2>4
      <3> HIDE DEF same, files
      <3> QED BY <1>5, <2>2, <3>2, <3>3, <3>4, <3>5, <3>6, <3>7
    <2> QED BY <2>1, <2>3, <2>4
  <1>15. CASE PublishReceipt(a)
    <2> DEFINE c == cyc[a]
    <2>1. PICK expected \in BOOLEAN :
            /\ posted' = posted \cup {<<a, c, expected>>}
            /\ lpc' = [lpc EXCEPT ![a] = IF expected THEN "propose" ELSE "barrier"]
      BY <1>15 DEF PublishReceipt
    <2>2. /\ lpc[a] = "train" /\ c \in Cycles /\ declared[a] = -1
          /\ UNCHANGED <<allVars, cyc, seen, proposed, declared, answerVars>>
      BY <1>2, <1>15 DEF PublishReceipt, Cycles
    <2> DEFINE to == IF expected THEN "propose" ELSE "barrier"
    <2>3. Goes(a, to, c, -1)
      BY <1>2, <2>1, <2>2 DEF Goes, allVars, vars, closeVars
    <2>4. \A b \in Attempts, k \in Cycles : Posted(b, k)' => (b = a /\ k = c) \/ Posted(b, k)
      BY <2>1 DEF Posted
    <2>5. \A k \in Cycles : Posted(a, k)' => k <= c
      BY <1>2, <1>3, <2>2, <2>4
    <2>6. Publishes(a, to, c, -1)
      BY <2>4, <2>5 DEF Publishes
    <2>7. StaysAbreast(a, to, c, -1)
      BY <1>1, <1>2, <1>4, <2>2 DEF StaysAbreast
    <2>8. /\ posted' \subseteq Attempts \X Cycles \X BOOLEAN
          /\ proposed' \subseteq Attempts \X Cycles
      BY <1>0, <2>1, <2>2 DEF FilesTyped
    <2>9. seen' \in [Attempts -> 0 .. MaxEpoch]
      BY <1>2, <2>2
    <2>10. to \in Inside
      OBVIOUS
    <2>11. c \in 1 .. MaxCycle
      BY <2>2 DEF Cycles
    <2> HIDE DEF to, c
    <2> QED BY <1>0, <2>2, <2>3, <2>6, <2>7, <2>8, <2>9, <2>10, <2>11, AttemptKeeps
  <1>16. CASE PublishProposal(a)
    <2> DEFINE c == cyc[a]
    <2>1. /\ proposed' = proposed \cup {<<a, c>>} /\ lpc' = [lpc EXCEPT ![a] = "barrier"]
          /\ lpc[a] = "propose" /\ c \in Cycles /\ declared[a] = -1
          /\ UNCHANGED <<allVars, cyc, seen, posted, declared, answerVars>>
      BY <1>2, <1>16 DEF PublishProposal, Cycles
    <2>2. Goes(a, "barrier", c, -1)
      BY <1>2, <2>1 DEF Goes, allVars, vars, closeVars
    <2>3. Publishes(a, "barrier", c, -1)
      BY <1>3, <2>1 DEF Publishes, Posted
    <2>4. StaysAbreast(a, "barrier", c, -1)
      BY <1>4, <2>1 DEF StaysAbreast
    <2>5. /\ posted' \subseteq Attempts \X Cycles \X BOOLEAN
          /\ proposed' \subseteq Attempts \X Cycles /\ seen' \in [Attempts -> 0 .. MaxEpoch]
      BY <1>0, <1>2, <2>1 DEF FilesTyped
    <2>6. c \in 1 .. MaxCycle
      BY <2>1 DEF Cycles
    <2> HIDE DEF c
    <2> QED BY <1>0, <2>1, <2>2, <2>3, <2>4, <2>5, <2>6, AttemptKeeps
  <1> QED
    BY <1>6, <1>9, <1>10, <1>11, <1>12, <1>13, <1>14, <1>15, <1>16 DEF Learn, Poll

\* What a candidate does apart from serving is a step of Syncer, on what it
\* finds in files.
LEMMA CommandsAnnounced ==
  ASSUME Interrupted \/ \E e \in Epochs : CandidateStep(e)
  PROVE  SyncerNext /\ FromFiles /\ Announced
  <1>1. CASE Interrupted
    <2>1. SyncerNext /\ Announced
      BY <1>1 DEF Interrupted, SyncerNext
    <2>2. UNCHANGED <<receipt, update, frozen>>
      BY <1>1 DEF Interrupted, Takeover, WantClose, Crash, AcquireLeader, vars, workVars, closeVars
    <2> QED BY <2>1, <2>2 DEF FromFiles
  <1>2. CASE \E e \in Epochs : CandidateStep(e)
    BY <1>2 DEF CandidateStep, SyncerNext
  <1> QED BY <1>1, <1>2

\* Every step of the system is a step of Syncer's or leaves that alone.
LEMMA SystemIsSyncer == [LearnerNext]_system => [SyncerNext]_allVars
  <1>1. ASSUME NEW e \in Epochs, NEW l \in Learners, Respond(e, l) \/ Replay(e, l)
        PROVE  UNCHANGED allVars
    BY <1>1 DEF Respond, Replay
  <1>2. ASSUME NEW e \in Epochs, Heartbeat(e) \/ Answer(e) PROVE UNCHANGED allVars
    BY <1>2 DEF Heartbeat, Answer
  <1>3. ASSUME NEW a \in Attempts, Learn(a) \/ Vanish(a) PROVE UNCHANGED allVars
    BY <1>3
       DEF Learn, Poll, Vanish, ReadResponse, LoadLatest, LoopTop, Leave, PublishReceipt,
           PublishProposal, Barrier, ReadAck, AwaitTerminal, Turn
  <1>4. CASE UNCHANGED system
    BY <1>4 DEF system
  <1> QED BY <1>1, <1>2, <1>3, <1>4, CommandsAnnounced DEF LearnerNext, Serve

\* Every step keeps everything right.
LEMMA LearnerStep ==
  ASSUME AuthorityInv, SyncerInv, LearnerInv, [LearnerNext]_system
  PROVE  LearnerInv'
  <1>1. CASE Interrupted \/ \E e \in Epochs : CandidateStep(e)
    <2>1. [Next]_vars
      BY <1>1, CommandsAnnounced, StepIsCommand DEF SyncerInv
    <2> QED BY <1>1, <2>1, CommandsAnnounced, CommandKeeps
  <1>2. ASSUME NEW e \in Epochs,
               \/ Heartbeat(e) \/ Answer(e)
               \/ \E l \in Learners : Respond(e, l) \/ Replay(e, l)
        PROVE  LearnerInv'
    <2>1. UNCHANGED <<allVars, attemptVars, inputVars>>
      BY <1>2 DEF Heartbeat, Answer, Respond, Replay
    <2> QED BY <1>2, <2>1, ServingKeeps
  <1>3. ASSUME NEW a \in Attempts, Learn(a) \/ Vanish(a) PROVE LearnerInv'
    BY <1>3, LearningKeeps
  <1>4. CASE UNCHANGED system
    <2>1. UNCHANGED <<binding, progress, frozen, lpc, cyc, seen, posted, proposed, declared,
                      beats, response, answering, acked>>
      BY <1>4 DEF system, allVars, vars, closeVars, learnerVars, attemptVars, inputVars,
                  answerVars
    <2> QED
      BY <2>1
         DEF LearnerInv, FilesTyped, AttemptsTyped, NoneAhead, PostsMade, Posted, Abreast,
             IsBound, FenceCurrent, ResponsesRight, AnswersRight, FencesNamed, NothingMissed
  <1> QED BY <1>1, <1>2, <1>3, <1>4 DEF LearnerNext, Serve

-----------------------------------------------------------------------------
(* Results.                                                                *)

\* What learners and files add changes nothing in what candidates do.
THEOREM LearnerImplementsSyncer == LearnerSpec => SyncerSpec
  <1>1. LearnerInit => SyncerInit
    BY DEF LearnerInit
  <1> QED BY <1>1, SystemIsSyncer, PTL DEF LearnerSpec, SyncerSpec

\* What is right of learners and files is an invariant.
LEMMA LearnerInvariant == LearnerSpec => [](AuthorityInv /\ LearnerInv)
  <1>1. AuthorityInv /\ SyncerInv /\ LearnerInv /\ [LearnerNext]_system => LearnerInv'
    BY LearnerStep
  <1> QED BY <1>1, LearnerBegins, LearnerImplementsSyncer, SyncerInvariant, PTL DEF LearnerSpec

\* Attempts, files and acknowledgements keep their types.
THEOREM LearnerTypeCorrect == LearnerSpec => []LearnerTypeOK
  <1>1. LearnerInv => LearnerTypeOK
    BY DEF LearnerInv, FilesTyped, AttemptsTyped, LearnerTypeOK, AttemptPlaces
  <1> QED BY <1>1, LearnerInvariant, PTL

\* A learner and the authority never lose count of one another.
THEOREM LearnerInStep == LearnerSpec => []InStep
  <1>1. AuthorityInv /\ LearnerInv => InStep
    <2> SUFFICES ASSUME AuthorityInv, LearnerInv, NEW l \in Learners,
                        binding[l].status = "active"
                 PROVE  CASE lpc[Bound(l)] \in {"start", "top", "train"} ->
                               cyc[Bound(l)] = progress[l] + 1
                          [] lpc[Bound(l)] \in {"propose", "barrier", "reading"} ->
                               progress[l] \in {cyc[Bound(l)] - 1, cyc[Bound(l)]}
                          [] lpc[Bound(l)] = "leaving" ->
                               progress[l] \in {declared[Bound(l)] - 1, declared[Bound(l)]}
                          [] OTHER -> TRUE
      BY DEF InStep
    <2> DEFINE a == Bound(l)
    <2>1. a \in Attempts /\ IsBound(a) /\ a[1] = l
      <3>1. binding[l].gen \in 1 .. MaxGen
        BY TypeParts, AuthorityAssumption DEF AuthorityInv, LiveInv, BindingsMade, RestType
      <3> QED BY <3>1 DEF Bound, Attempts, IsBound, FenceCurrent
    <2>2. /\ lpc[a] \in Between => cyc[a] = progress[l] + 1
          /\ lpc[a] \in Inside => progress[l] \in {cyc[a] - 1, cyc[a]}
          /\ lpc[a] = "leaving" => progress[l] \in {declared[a] - 1, declared[a]}
      BY <2>1 DEF LearnerInv, Abreast
    <2> HIDE DEF a
    <2> QED BY <2>2 DEF Between, Inside, a
  <1> QED BY <1>1, LearnerInvariant, PTL

\* A contributor whose acknowledgement was accepted has no cycle cut off.
THEOREM LearnerNothingCutOff == LearnerSpec => []NothingCutOff
  <1>1. AuthorityInv /\ LearnerInv => NothingCutOff
    <2> SUFFICES ASSUME AuthorityInv, LearnerInv, NEW l \in Learners, frozen[l].state = "acked",
                        NEW r \in posted, r[1] = <<l, frozen[l].gen>>
                 PROVE  r[2] <= progress[l]
      BY DEF NothingCutOff
    <2>1. r[1] \in Attempts /\ r[2] \in Cycles /\ r[3] \in BOOLEAN /\ r = <<r[1], r[2], r[3]>>
      BY DEF LearnerInv, FilesTyped
    <2>2. declared[r[1]] # -1 /\ declared[r[1]] <= progress[l]
      BY <2>1 DEF LearnerInv, NothingMissed
    <2>3. Posted(r[1], r[2])
      BY <2>1 DEF Posted
    <2>4. r[2] <= declared[r[1]] /\ declared[r[1]] \in Int
      BY <2>1, <2>2, <2>3 DEF LearnerInv, PostsMade, AttemptsTyped
    <2>5. progress[l] \in Int /\ r[2] \in Int
      BY <2>1, TypeParts DEF AuthorityInv, RestType, Cycles
    <2> QED BY <2>1, <2>2, <2>4, <2>5
  <1> QED BY <1>1, LearnerInvariant, PTL

\* The learners, the files and the candidates together implement the ledger
\* that a contributor relies on, whoever dies, is replaced or takes over.
THEOREM LearnerImplementsLedger == LearnerSpec => ImplementsLedger
  BY LearnerImplementsSyncer, SyncerImplementsAuthority, AuthorityImplementsLedger, PTL
=============================================================================
