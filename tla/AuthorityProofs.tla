---------------------------- MODULE AuthorityProofs ----------------------------
(***************************************************************************)
(* What the commands of Authority keep true for any number of contributors *)
(* and any bound on cycles, generations, epochs and batches.               *)
(***************************************************************************)
EXTENDS AuthorityProps, FiniteSetTheorems, TLAPS

-----------------------------------------------------------------------------
(* Sets of slots are finite, so that they can be counted.                  *)

\* There are finitely many slots.
LEMMA SlotsFinite == IsFiniteSet(Slots)
  <1>1. IsFiniteSet(Cycles)
    BY AuthorityAssumption, FS_Interval DEF Cycles
  <1> QED BY <1>1, AuthorityAssumption, FS_Product DEF Slots

\* Counting slots gives a natural number.
LEMMA SlotsCount ==
  ASSUME NEW S \in SUBSET Slots
  PROVE  IsFiniteSet(S) /\ Cardinality(S) \in Nat
  BY SlotsFinite, FS_Subset, FS_CardinalityType

\* A slot is the pair of its key and its cycle.
LEMMA SlotParts ==
  ASSUME NEW u \in Slots
  PROVE  Key(u) \in Learners /\ Cycle(u) \in Cycles /\ u = <<Key(u), Cycle(u)>>
  BY DEF Slots, Key, Cycle

-----------------------------------------------------------------------------
(* Type correctness.  WorkType is the part about the contributors' work,   *)
(* which most commands change through the same few operators.              *)

Updates == [status : Active \cup {"none", "applied", "dropped"},
            batch : 0 .. MaxBatch, applied : Nat \cup {-1}]
BatchRows == [state : Live \cup {"none", "committed", "abandoned"},
              epoch : 0 .. MaxEpoch, target : Nat, members : SUBSET Slots]
IntentRows == [state : {"none", "prepared", "committed", "abandoned"},
               epoch : 0 .. MaxEpoch]

WorkType ==
    /\ fate \in [Slots -> Fates \cup {"none"}]
    /\ rollup \in [Fates -> Int]
    /\ update \in [Slots -> Updates]
    /\ batch \in [Batches -> BatchRows]
    /\ intent \in [Batches -> IntentRows]

RestType ==
    /\ leader \in 0 .. MaxEpoch
    /\ version \in Nat \cup {-1}
    /\ genesis \in [Epochs -> {"none", "prepared", "committed", "abandoned"}]
    /\ binding \in [Learners -> [gen : 0 .. MaxGen,
                                 status : {"none", "active", "terminal"}]]
    /\ progress \in [Learners -> 0 .. MaxCycle]
    /\ receipt \in [Slots -> [gen : 0 .. MaxGen, expected : BOOLEAN]]
    /\ service \in [Learners -> [credit : Nat, last : Nat \cup {-1}]]
    /\ ctl \in [state : {"open", "preclosing"} \cup Closing \cup Closed,
                merges : 0 .. TerminalMergeLimit]
    /\ frozen \in [Learners -> [state : {"none", "awaiting_ack", "acked", "hard_crash"},
                                gen : 0 .. MaxGen, close : 0 .. MaxCycle,
                                final : 0 .. MaxCycle]]
    /\ terminal \in Nat \cup {-1}

\* The type invariant is the conjunction of the two parts.
LEMMA TypeParts == TypeOK <=> WorkType /\ RestType
  BY DEF TypeOK, WorkType, RestType, Updates, BatchRows, IntentRows

\* The initial state is well typed.
LEMMA InitType == Init => TypeOK
  BY AuthorityAssumption
     DEF Init, TypeOK, Fates, Active, Live, Closing, Closed, Epochs, Batches, Slots

\* Moving tokens between the columns of the rollup keeps them integers.
LEMMA MoveType ==
  ASSUME WorkType, NEW S \in SUBSET Slots, NEW f \in Fates, MoveTokens(S, f)
  PROVE  rollup' \in [Fates -> Int]
  <1>1. \A g : {u \in Moved(S, f) : fate[u] = g} \in SUBSET Slots
    BY DEF Moved
  <1>2. \A g : Cardinality({u \in Moved(S, f) : fate[u] = g}) \in Nat
    BY <1>1, SlotsCount
  <1>3. Moved(S, f) \in SUBSET Slots
    BY DEF Moved
  <1>4. Cardinality(Moved(S, f)) \in Nat
    BY <1>3, SlotsCount
  <1>5. ASSUME NEW g \in Fates
        PROVE  rollup[g] - Cardinality({u \in Moved(S, f) : fate[u] = g})
                 + (IF g = f THEN Cardinality(Moved(S, f)) ELSE 0) \in Int
    <2>1. rollup[g] \in Int
      BY DEF WorkType
    <2>2. Cardinality({u \in Moved(S, f) : fate[u] = g}) \in Nat
      BY <1>2
    <2> QED BY <1>4, <2>1, <2>2
  <1> QED BY <1>5 DEF MoveTokens

\* A new fate for some slots is a fate.
LEMMA FateType ==
  ASSUME WorkType, NEW S, NEW f \in Fates, SetFate(S, f)
  PROVE  fate' \in [Slots -> Fates \cup {"none"}]
  BY DEF WorkType, SetFate

\* Settled updates are updates.
LEMMA SettleType ==
  ASSUME WorkType, NEW D, NEW back, SettleUpdates(D, back)
  PROVE  update' \in [Slots -> Updates]
  <1>1. 0 \in 0 .. MaxBatch
    BY AuthorityAssumption
  <1>2. ASSUME NEW u \in Slots
        PROVE  /\ update[u] \in Updates
               /\ [update[u] EXCEPT !.status = "dropped", !.batch = 0] \in Updates
               /\ [update[u] EXCEPT !.status = "pending", !.batch = 0] \in Updates
    BY <1>1 DEF WorkType, Updates, Active
  <1> QED BY <1>2 DEF SettleUpdates

\* Abandoned batches and intents are batches and intents.
LEMMA AbandonType ==
  ASSUME WorkType, NEW B, AbandonBatches(B)
  PROVE  batch' \in [Batches -> BatchRows] /\ intent' \in [Batches -> IntentRows]
  BY DEF WorkType, AbandonBatches, AbandonIntents, BatchRows, IntentRows

\* The members of batches are slots.
LEMMA MembersAreSlots ==
  ASSUME WorkType, NEW B \in SUBSET Batches
  PROVE  Members(B) \in SUBSET Slots
  BY DEF WorkType, Members, BatchRows

\* The batches that contain fenced work are batches.
LEMMA AffectedBatchesAreBatches ==
  ASSUME WorkType, NEW L, NEW P
  PROVE  AffectedBatches(L, P) \in SUBSET Batches
  BY AuthorityAssumption
     DEF WorkType, AffectedBatches, Affected, FenceSlots, Updates, Batches

\* What a fence drops is slots.
LEMMA DroppedAreSlots ==
  ASSUME WorkType, NEW L, NEW P
  PROVE  /\ Dropped(L, P) \in SUBSET Slots
         /\ OrphanReceipts(L, P) \in SUBSET Slots
  <1>1. Rejected(AffectedBatches(L, P), Affected(L, P)) \in SUBSET Slots
    BY AffectedBatchesAreBatches, MembersAreSlots DEF Rejected
  <1> QED BY <1>1 DEF Dropped, OrphanReceipts, Affected, FenceSlots

\* Reconciling batches keeps the work well typed.
LEMMA ReconcileType ==
  ASSUME WorkType, NEW B \in SUBSET Batches, NEW invalid, ReconcileBatches(B, invalid)
  PROVE  WorkType'
  <1>1. Rejected(B, invalid) \in SUBSET Slots
    BY MembersAreSlots DEF Rejected
  <1> QED BY <1>1, MoveType, FateType, SettleType, AbandonType
          DEF ReconcileBatches, WorkType, Fates

\* Terminalizing the work of a fence keeps it well typed.
LEMMA TerminalizeType ==
  ASSUME WorkType, NEW L, NEW P, Terminalize(L, P)
  PROVE  WorkType'
  <1>1. Dropped(L, P) \cup OrphanReceipts(L, P) \in SUBSET Slots
    BY DroppedAreSlots
  <1> QED BY <1>1, MoveType, FateType, SettleType, AbandonType
          DEF Terminalize, WorkType, Fates

\* Applying a batch keeps the work and the service state well typed.
LEMMA ApplyType ==
  ASSUME TypeOK, NEW b \in Batches, ApplyBatch(b), TargetsNext(b)
  PROVE  /\ WorkType'
         /\ version' \in Nat
         /\ service' \in [Learners -> [credit : Nat, last : Nat \cup {-1}]]
  <1>1. WorkType /\ RestType
    BY TypeParts
  <1>2. batch[b].target \in Nat /\ batch[b].members \in SUBSET Slots
    BY <1>1 DEF WorkType, BatchRows
  <1>3. fate' \in [Slots -> Fates \cup {"none"}] /\ rollup' \in [Fates -> Int]
    BY <1>1, <1>2, FateType, MoveType DEF ApplyBatch, Fates
  <1>4. update' \in [Slots -> Updates]
    <2>1. ASSUME NEW u \in Slots
          PROVE  [update[u] EXCEPT !.status = "applied",
                                   !.applied = batch[b].target] \in Updates
      BY <1>1, <1>2 DEF WorkType, Updates
    <2>2. \A u \in Slots : update[u] \in Updates
      BY <1>1 DEF WorkType
    <2> QED BY <2>1, <2>2 DEF ApplyBatch
  <1>5. /\ batch' \in [Batches -> BatchRows]
        /\ intent' \in [Batches -> IntentRows]
    BY <1>1 DEF ApplyBatch, WorkType, BatchRows, IntentRows
  <1>6. service' \in [Learners -> [credit : Nat, last : Nat \cup {-1}]]
    <2>1. service \in [Learners -> [credit : Nat, last : Nat \cup {-1}]]
      BY <1>1 DEF RestType
    <2>2. \A l \in Learners :
            Served(l, batch[b].target) \in [credit : Nat, last : Nat \cup {-1}]
      BY <1>2, <2>1 DEF Served
    <2> QED BY <2>1, <2>2 DEF ApplyBatch
  <1> QED BY <1>2, <1>3, <1>4, <1>5, <1>6 DEF ApplyBatch, WorkType

\* Every command keeps every variable in its range.
LEMMA TypeStep == TypeOK /\ [Next]_vars => TypeOK'
  <1> SUFFICES ASSUME TypeOK, [Next]_vars PROVE TypeOK'
      OBVIOUS
  <1>0. WorkType /\ RestType
      BY TypeParts
  <1>p. WorkType' /\ RestType' => TypeOK'
      BY DEF TypeOK, WorkType, RestType, Updates, BatchRows, IntentRows
  <1>w. UNCHANGED workVars => WorkType'
      BY <1>0 DEF workVars, WorkType
  <1>1. CASE UNCHANGED vars
    BY <1>0, <1>1, <1>p, <1>w DEF vars, workVars, RestType
  <1>2. CASE AcquireLeader
    BY <1>0, <1>2, <1>p, <1>w, AuthorityAssumption
       DEF AcquireLeader, closeVars, RestType
  <1>3. ASSUME NEW l \in Learners, BindAttempt(l) PROVE TypeOK'
    <2>1. WorkType'
      BY <1>0, <1>3, <1>w, TerminalizeType DEF BindAttempt
    <2>2. RestType'
      BY <1>0, <1>3, AuthorityAssumption DEF BindAttempt, closeVars, RestType
    <2> QED BY <1>p, <2>1, <2>2
  <1>4. ASSUME NEW l \in Learners, MarkTerminal(l) PROVE TypeOK'
    <2>1. WorkType'
      BY <1>0, <1>4, TerminalizeType DEF MarkTerminal
    <2>2. RestType'
      BY <1>0, <1>4 DEF MarkTerminal, closeVars, RestType
    <2> QED BY <1>p, <2>1, <2>2
  <1>5. ASSUME NEW l \in Learners, NEW expected \in BOOLEAN, IngestReceipt(l, expected)
        PROVE  TypeOK'
    <2>1. progress[l] + 1 \in 0 .. MaxCycle
      BY <1>0, <1>5, AuthorityAssumption DEF IngestReceipt, RestType
    <2>2. WorkType'
      <3>1. PICK f \in Fates :
              /\ fate' = [fate EXCEPT ![<<l, progress[l] + 1>>] = f]
              /\ rollup' = [rollup EXCEPT ![f] = @ + 1]
        BY <1>5 DEF IngestReceipt, Fates
      <3>2. fate \in [Slots -> Fates \cup {"none"}] /\ rollup \in [Fates -> Int]
        BY <1>0 DEF WorkType
      <3>3. fate' \in [Slots -> Fates \cup {"none"}] /\ rollup' \in [Fates -> Int]
        <4>1. rollup[f] + 1 \in Int
          BY <3>1, <3>2
        <4> QED BY <3>1, <3>2, <4>1
      <3> QED BY <1>0, <1>5, <3>3 DEF IngestReceipt, WorkType
    <2>3. RestType'
      BY <1>0, <1>5, <2>1 DEF IngestReceipt, closeVars, RestType
    <2> QED BY <1>p, <2>2, <2>3
  <1>6. ASSUME NEW u \in Slots, IngestProposal(u) PROVE TypeOK'
    <2> DEFINE older == {v \in Others(u) : Pending(v) /\ Cycle(v) < Cycle(u)}
               newer == {v \in Others(u) : Pending(v) /\ Cycle(v) > Cycle(u)}
               D == older \cup IF newer # {} THEN {u} ELSE {}
    <2>1. SettleUpdates(D, {u}) /\ SetFate(D, "dropped") /\ MoveTokens(D, "dropped")
      BY <1>6 DEF IngestProposal
    <2>2. D \in SUBSET Slots
      BY DEF Others
    <2>3. WorkType'
      <3> HIDE DEF D
      <3> QED BY <1>0, <1>6, <2>1, <2>2, SettleType, FateType, MoveType
              DEF IngestProposal, WorkType, Fates
    <2>4. RestType'
      BY <1>0, <1>6 DEF IngestProposal, closeVars, RestType
    <2> QED BY <1>p, <2>3, <2>4
  <1>7. ASSUME NEW quorum, TrySelectBatch(quorum) PROVE TypeOK'
    <2> DEFINE stale == Candidates \ Eligible
               picked == IF Quorate(quorum) THEN Chosen ELSE {}
    <2>1. stale \in SUBSET Slots /\ picked \in SUBSET Slots
      BY DEF Candidates, Eligible, Chosen
    <2>2. SetFate(stale, "dropped") /\ MoveTokens(stale, "dropped")
      BY <1>7 DEF TrySelectBatch
    <2>3. PICK b \in Batches :
            /\ batch' = IF picked = {} THEN batch
                        ELSE [batch EXCEPT ![b] =
                                [state |-> "selected", epoch |-> leader,
                                 target |-> version + 1, members |-> picked]]
            /\ update' = [u \in Slots |->
                            IF u \in picked
                              THEN [update[u] EXCEPT !.status = "selected", !.batch = b]
                            ELSE IF u \in stale
                              THEN [update[u] EXCEPT !.status = "dropped", !.batch = 0]
                            ELSE update[u]]
      BY <1>7 DEF TrySelectBatch
    <2> HIDE DEF stale, picked
    <2>4. fate' \in [Slots -> Fates \cup {"none"}] /\ rollup' \in [Fates -> Int]
      BY <1>0, <2>1, <2>2, FateType, MoveType DEF Fates
    <2>5. b \in 0 .. MaxBatch /\ 0 \in 0 .. MaxBatch
      BY AuthorityAssumption DEF Batches
    <2>6. update' \in [Slots -> Updates]
      <3>1. ASSUME NEW u \in Slots
            PROVE  /\ update[u] \in Updates
                   /\ [update[u] EXCEPT !.status = "selected", !.batch = b] \in Updates
                   /\ [update[u] EXCEPT !.status = "dropped", !.batch = 0] \in Updates
        BY <1>0, <2>5 DEF WorkType, Updates, Active
      <3> QED BY <2>3, <3>1
    <2>7. batch' \in [Batches -> BatchRows]
      <3>1. version + 1 \in Nat /\ leader \in 0 .. MaxEpoch
        <4>1. version >= 0
          BY <1>7 DEF TrySelectBatch
        <4>2. version \in Nat \cup {-1} /\ leader \in 0 .. MaxEpoch
          BY <1>0 DEF RestType
        <4> QED BY <4>1, <4>2
      <3>2. [state |-> "selected", epoch |-> leader, target |-> version + 1,
             members |-> picked] \in BatchRows
        BY <2>1, <3>1 DEF BatchRows, Live
      <3>3. batch \in [Batches -> BatchRows]
        BY <1>0 DEF WorkType
      <3> QED BY <2>3, <3>2, <3>3
    <2>8. WorkType'
      BY <1>0, <1>7, <2>4, <2>6, <2>7 DEF TrySelectBatch, WorkType
    <2>9. RestType'
      BY <1>0, <1>7 DEF TrySelectBatch, closeVars, RestType
    <2> QED BY <1>p, <2>8, <2>9
  <1>8. CASE PrepareGenesis
    BY <1>0, <1>8, <1>p, <1>w DEF PrepareGenesis, closeVars, RestType
  <1>9. ASSUME NEW e \in Epochs, CommitGenesis(e) PROVE TypeOK'
    BY <1>0, <1>9, <1>p, <1>w DEF CommitGenesis, closeVars, RestType
  <1>10. ASSUME NEW e \in Epochs, AbandonGenesis(e) PROVE TypeOK'
    BY <1>0, <1>10, <1>p, <1>w DEF AbandonGenesis, closeVars, RestType
  <1>11. ASSUME NEW b \in Batches, PreparePublication(b) PROVE TypeOK'
    <2>1. WorkType'
      <3>1. leader \in 0 .. MaxEpoch
        BY <1>0 DEF RestType
      <3>2. [state |-> "prepared", epoch |-> leader] \in IntentRows
        BY <3>1 DEF IntentRows
      <3>3. [batch[b] EXCEPT !.state = "prepared"] \in BatchRows
        BY <1>0 DEF WorkType, BatchRows, Live
      <3> QED BY <1>0, <1>11, <3>2, <3>3 DEF PreparePublication, WorkType
    <2>2. RestType'
      BY <1>0, <1>11 DEF PreparePublication, closeVars, RestType
    <2> QED BY <1>p, <2>1, <2>2
  <1>12. ASSUME NEW b \in Batches, AbandonPublication(b) PROVE TypeOK'
    <2>1. WorkType'
      BY <1>0, <1>12, ReconcileType DEF AbandonPublication
    <2>2. RestType'
      BY <1>0, <1>12 DEF AbandonPublication, closeVars, RestType
    <2> QED BY <1>p, <2>1, <2>2
  <1>13. ASSUME NEW b \in Batches, NEW isTerminal \in BOOLEAN, CommitMerge(b, isTerminal)
         PROVE  TypeOK'
    <2>1. CASE Invalid(b) = {}
      <3>1. /\ WorkType'
            /\ version' \in Nat
            /\ service' \in [Learners -> [credit : Nat, last : Nat \cup {-1}]]
        BY <1>13, <2>1, ApplyType DEF CommitMerge
      <3>2. ctl' \in [state : {"open", "preclosing"} \cup Closing \cup Closed,
                      merges : 0 .. TerminalMergeLimit]
        BY <1>0, <1>13, <2>1, AuthorityAssumption
           DEF CommitMerge, CommitAllowed, RestType
      <3>3. RestType'
        BY <1>0, <1>13, <3>1, <3>2 DEF CommitMerge, RestType
      <3> QED BY <1>p, <3>1, <3>3
    <2>2. CASE Invalid(b) # {}
      <3>1. WorkType'
        BY <1>0, <1>13, <2>2, ReconcileType DEF CommitMerge
      <3>2. RestType'
        BY <1>0, <1>13, <2>2 DEF CommitMerge, RestType
      <3> QED BY <1>p, <3>1, <3>2
    <2> QED BY <2>1, <2>2
  <1>14. CASE ReconcilePublications
    <2>1. WorkType'
      BY <1>0, <1>14, ReconcileType DEF ReconcilePublications, Predecessors
    <2>2. RestType'
      BY <1>0, <1>14 DEF ReconcilePublications, closeVars, RestType
    <2> QED BY <1>p, <2>1, <2>2
  <1>15. CASE BeginPreclose
    BY <1>0, <1>15, <1>p, <1>w, AuthorityAssumption DEF BeginPreclose, RestType
  <1>16. CASE BeginClose
    <2>1. 0 \in 0 .. MaxCycle /\ 0 \in 0 .. TerminalMergeLimit
      BY AuthorityAssumption
    <2>2. RestType'
      BY <1>0, <1>16, <2>1 DEF BeginClose, RestType, Closing
    <2> QED BY <1>16, <1>p, <1>w, <2>2 DEF BeginClose
  <1>17. ASSUME NEW l \in Learners, HardCrash(l) PROVE TypeOK'
    <2>1. WorkType'
      BY <1>0, <1>17, TerminalizeType DEF HardCrash
    <2>2. RestType'
      <3>1. binding' \in [Learners -> [gen : 0 .. MaxGen,
                                      status : {"none", "active", "terminal"}]]
        <4>1. \A k \in Learners :
                /\ binding[k] \in [gen : 0 .. MaxGen,
                                   status : {"none", "active", "terminal"}]
                /\ [binding[k] EXCEPT !.status = "terminal"]
                     \in [gen : 0 .. MaxGen, status : {"none", "active", "terminal"}]
          BY <1>0 DEF RestType
        <4> QED BY <1>17, <4>1 DEF HardCrash, Ended
      <3>2. ctl' \in [state : {"open", "preclosing"} \cup Closing \cup Closed,
                      merges : 0 .. TerminalMergeLimit]
        BY <1>0, <1>17 DEF HardCrash, RestType, Closing
      <3>3. frozen' = [frozen EXCEPT ![l].state = "hard_crash"]
        BY <1>17 DEF HardCrash
      <3>4. frozen' \in [Learners -> [state : {"none", "awaiting_ack", "acked",
                                              "hard_crash"},
                                     gen : 0 .. MaxGen, close : 0 .. MaxCycle,
                                     final : 0 .. MaxCycle]]
        BY <1>0, <3>3 DEF RestType
      <3> QED BY <1>0, <1>17, <3>1, <3>2, <3>4 DEF HardCrash, RestType
    <2> QED BY <1>p, <2>1, <2>2
  <1>18. ASSUME NEW l \in Learners, Acknowledge(l) PROVE TypeOK'
    <2>1. WorkType'
      BY <1>0, <1>18, TerminalizeType DEF Acknowledge
    <2>2. RestType'
      <3>1. progress[l] \in 0 .. MaxCycle /\ 0 \in 0 .. MaxCycle
        BY <1>0, AuthorityAssumption DEF RestType
      <3>2. frozen' \in [Learners -> [state : {"none", "awaiting_ack", "acked",
                                              "hard_crash"},
                                     gen : 0 .. MaxGen, close : 0 .. MaxCycle,
                                     final : 0 .. MaxCycle]]
        <4> DEFINE Frozen == [state : {"none", "awaiting_ack", "acked", "hard_crash"},
                              gen : 0 .. MaxGen, close : 0 .. MaxCycle,
                              final : 0 .. MaxCycle]
        <4>1. frozen \in [Learners -> Frozen]
          BY <1>0 DEF RestType
        <4>2. ASSUME NEW n \in 0 .. MaxCycle,
                     frozen' = [frozen EXCEPT ![l].state = "acked", ![l].final = n]
              PROVE  frozen' \in [Learners -> Frozen]
          BY <4>1, <4>2
        <4>3. \E n \in 0 .. MaxCycle :
                frozen' = [frozen EXCEPT ![l].state = "acked", ![l].final = n]
          BY <1>18, <3>1 DEF Acknowledge
        <4> QED BY <4>2, <4>3
      <3> QED BY <1>0, <1>18, <3>2 DEF Acknowledge, RestType, Closing
    <2> QED BY <1>p, <2>1, <2>2
  <1>19. ASSUME NEW error \in BOOLEAN, FinalizeTerminal(error) PROVE TypeOK'
    <2>1. WorkType'
      BY <1>0, <1>19, TerminalizeType DEF FinalizeTerminal
    <2>2. RestType'
      BY <1>0, <1>19 DEF FinalizeTerminal, Ended, RestType, Closed
    <2> QED BY <1>p, <2>1, <2>2
  <1> QED
    BY <1>1, <1>2, <1>3, <1>4, <1>5, <1>6, <1>7, <1>8, <1>9, <1>10, <1>11, <1>12,
       <1>13, <1>14, <1>15, <1>16, <1>17, <1>18, <1>19
       DEF Next, Membership, Merging, Terminating

\* Type correctness: every counter stays in its bound, the terminal merges
\* in their budget, and every reference names a batch, a slot or an epoch.
THEOREM AuthorityTypeOK == Spec => []TypeOK
  BY InitType, TypeStep, PTL DEF Spec
-----------------------------------------------------------------------------
(* The agreement of updates, batches and intents.                          *)

\* An update has a batch on its row only from its selection on.
PendingUnassigned == \A u \in Slots : Pending(u) => update[u].batch = 0

\* What every command keeps of the three tables together.
WorkAgrees ==
    SingleInFlight /\ BatchAgreement /\ IntentAgreement /\ PendingUnassigned

\* What settling does to the row of one slot.
LEMMA SettledRow ==
  ASSUME WorkType, NEW D, NEW back, SettleUpdates(D, back), NEW u \in Slots
  PROVE  /\ u \in D => update'[u].status = "dropped" /\ update'[u].batch = 0
         /\ u \notin D /\ u \in back =>
              update'[u].status = "pending" /\ update'[u].batch = 0
         /\ u \notin D /\ u \notin back => update'[u] = update[u]
  BY DEF WorkType, SettleUpdates, Updates

\* What abandoning does to the row of one batch.
LEMMA AbandonedRow ==
  ASSUME WorkType, NEW B, AbandonBatches(B), NEW b \in Batches
  PROVE  /\ batch'[b].members = batch[b].members
         /\ b \notin B => batch'[b] = batch[b] /\ intent'[b] = intent[b]
         /\ b \in B /\ batch[b].state \in Live => batch'[b].state = "abandoned"
         /\ b \in B /\ intent[b].state = "prepared" => intent'[b].state = "abandoned"
         /\ b \in B /\ intent[b].state # "prepared" => intent'[b] = intent[b]
  BY DEF WorkType, AbandonBatches, AbandonIntents, BatchRows, IntentRows

\* The members of live batches are selected, each in its batch.
LEMMA LiveMembers ==
  ASSUME BatchAgreement, NEW B \in SUBSET Batches,
         \A b \in B : batch[b].state \in Live
  PROVE  \A u \in Members(B) :
            update[u].status = "selected" /\ update[u].batch \in B
  BY DEF Members, BatchAgreement

\* Settling live batches, in whatever way the remaining work is split into
\* what is dropped and what goes back, keeps the work in agreement and
\* revives nothing.
LEMMA Settling ==
  ASSUME WorkType, WorkAgrees,
         NEW B \in SUBSET Batches, \A b \in B : batch[b].state \in Live,
         NEW A, NEW D \in SUBSET Slots,
         AbandonBatches(B), SettleUpdates(D, Returned(B, A)),
         Rejected(B, A) \subseteq D,
         \A u \in D : update[u].status = "selected" => u \in Members(B)
  PROVE  /\ WorkAgrees'
         /\ \A u \in Slots : update'[u].status \in Active =>
              update[u].status \in Active /\ u \notin D
  <1>1. \A u \in Members(B) : update[u].status = "selected" /\ update[u].batch \in B
    BY LiveMembers DEF WorkAgrees
  <1>2. \A u \in Members(B) : u \in D \/ u \in Returned(B, A)
    BY <1>1 DEF Rejected, Active
  <1>3. \A u \in Returned(B, A) :
          /\ u \in Members(B) /\ update[u].status = "selected"
          /\ \A v \in Others(u) : ~Pending(v)
    BY DEF Returned
  <1>4. \A u \in Slots : update'[u].status = "selected" =>
          update'[u] = update[u] /\ u \notin Members(B)
    BY <1>2, SettledRow
  <1>5. \A u \in Slots : update'[u].status = "pending" =>
          \/ update'[u] = update[u] /\ update[u].status = "pending"
          \/ u \in Returned(B, A) /\ update'[u].batch = 0
    BY SettledRow
  <1>6. SingleInFlight'
    <2> SUFFICES ASSUME NEW u \in Slots, NEW v \in Others(u),
                        update'[u].status \in Active,
                        update'[u].status = update'[v].status
                 PROVE  FALSE
        BY DEF SingleInFlight, Others
    <2>1. v \in Slots /\ u \in Others(v)
      BY DEF Others
    <2>2. \A w \in Slots : \A x \in Others(w) :
            update[w].status \in Active => update[w].status # update[x].status
      BY DEF WorkAgrees, SingleInFlight
    <2>3. CASE update'[u].status = "selected"
      BY <1>4, <2>1, <2>2, <2>3 DEF Active
    <2>4. CASE update'[u].status = "pending"
      BY <1>3, <1>5, <2>1, <2>2, <2>4 DEF Active, Pending
    <2> QED BY <2>3, <2>4 DEF Active
  <1>7. BatchAgreement'
    <2>1. ASSUME NEW u \in Slots, update'[u].status = "selected"
          PROVE  /\ update'[u].batch \in Batches
                 /\ batch'[update'[u].batch].state \in Live
                 /\ u \in batch'[update'[u].batch].members
      <3>1. update'[u] = update[u] /\ u \notin Members(B)
        BY <1>4, <2>1
      <3>2. /\ update[u].batch \in Batches
            /\ batch[update[u].batch].state \in Live
            /\ u \in batch[update[u].batch].members
        BY <2>1, <3>1 DEF WorkAgrees, BatchAgreement
      <3>3. update[u].batch \notin B
        BY <3>1, <3>2 DEF Members
      <3> QED BY <3>1, <3>2, <3>3, AbandonedRow
    <2>2. ASSUME NEW b \in Batches, batch'[b].state \in Live
          PROVE  /\ batch'[b].members # {}
                 /\ \A u \in batch'[b].members :
                      update'[u].status = "selected" /\ update'[u].batch = b
      <3>1. b \notin B /\ batch'[b] = batch[b]
        BY <2>2, AbandonedRow DEF Live
      <3>2. /\ batch[b].members # {}
            /\ \A u \in batch[b].members :
                 update[u].status = "selected" /\ update[u].batch = b
        BY <2>2, <3>1 DEF WorkAgrees, BatchAgreement
      <3>3. ASSUME NEW u \in batch[b].members PROVE update'[u] = update[u]
        <4>1. u \in Slots
          BY DEF WorkType, BatchRows
        <4>2. u \notin Members(B)
          BY <1>1, <3>1, <3>2
        <4>3. u \notin D /\ u \notin Returned(B, A)
          BY <1>3, <3>2, <4>2
        <4> QED BY <4>1, <4>3, SettledRow
      <3> QED BY <3>1, <3>2, <3>3
    <2> QED BY <2>1, <2>2 DEF BatchAgreement
  <1>8. IntentAgreement'
    <2> SUFFICES ASSUME NEW b \in Batches
                 PROVE  /\ batch'[b].state = "prepared" <=> intent'[b].state = "prepared"
                        /\ batch'[b].state = "committed" <=> intent'[b].state = "committed"
                        /\ intent'[b].state = "abandoned" => batch'[b].state = "abandoned"
        BY DEF IntentAgreement
    <2>1. /\ batch[b].state = "prepared" <=> intent[b].state = "prepared"
          /\ batch[b].state = "committed" <=> intent[b].state = "committed"
          /\ intent[b].state = "abandoned" => batch[b].state = "abandoned"
      BY DEF WorkAgrees, IntentAgreement
    <2>2. CASE b \notin B
      BY <2>1, <2>2, AbandonedRow
    <2>3. CASE b \in B
      <3>1. batch[b].state \in Live
        BY <2>3
      <3>2. batch'[b].state = "abandoned"
        BY <2>3, <3>1, AbandonedRow
      <3>3. intent'[b].state # "prepared" /\ intent'[b].state # "committed"
        BY <2>1, <2>3, <3>1, AbandonedRow DEF Live
      <3> QED BY <3>2, <3>3
    <2> QED BY <2>2, <2>3
  <1>9. PendingUnassigned'
    BY <1>5 DEF WorkAgrees, PendingUnassigned, Pending
  <1>10. ASSUME NEW u \in Slots, update'[u].status \in Active
         PROVE  update[u].status \in Active /\ u \notin D
    BY <1>3, <1>10, SettledRow DEF Active
  <1> QED BY <1>6, <1>7, <1>8, <1>9, <1>10 DEF WorkAgrees

\* _reconcile_invalid_batch, for live batches.
LEMMA Reconciling ==
  ASSUME WorkType, WorkAgrees,
         NEW B \in SUBSET Batches, \A b \in B : batch[b].state \in Live,
         NEW invalid, ReconcileBatches(B, invalid)
  PROVE  /\ WorkAgrees'
         /\ \A u \in Slots : update'[u].status \in Active => update[u].status \in Active
  <1>1. Rejected(B, invalid) \in SUBSET Slots
    BY MembersAreSlots DEF Rejected
  <1>2. \A u \in Rejected(B, invalid) : u \in Members(B)
    BY DEF Rejected
  <1> QED BY <1>1, <1>2, Settling DEF ReconcileBatches

\* _terminalize_fenced_updates: what it drops is settled together with the
\* batches it was selected in.
LEMMA Terminalizing ==
  ASSUME WorkType, WorkAgrees, NEW L, NEW P, Terminalize(L, P)
  PROVE  /\ WorkAgrees'
         /\ \A u \in Slots : update'[u].status \in Active =>
              update[u].status \in Active /\ u \notin Affected(L, P)
  <1> DEFINE B == AffectedBatches(L, P)
             A == Affected(L, P)
             D == Dropped(L, P)
  <1>1. B \in SUBSET Batches
    BY AffectedBatchesAreBatches
  <1>2. \A u \in A : update[u].status = "selected" =>
          /\ update[u].batch \in B
          /\ u \in batch[update[u].batch].members
    <2> SUFFICES ASSUME NEW u \in A, update[u].status = "selected"
                 PROVE  update[u].batch \in B /\ u \in batch[update[u].batch].members
        OBVIOUS
    <2>1. u \in Slots
      BY DEF Affected, FenceSlots
    <2>2. update[u].batch \in Batches /\ u \in batch[update[u].batch].members
      BY <2>1 DEF WorkAgrees, BatchAgreement
    <2>3. update[u].batch # 0
      BY <2>2 DEF Batches
    <2> QED BY <2>2, <2>3 DEF AffectedBatches
  <1>3. ASSUME NEW b \in B PROVE batch[b].state \in Live
    <2>1. PICK u \in A : update[u].batch = b /\ b # 0
      BY DEF AffectedBatches
    <2>2. u \in Slots /\ update[u].status \in Active
      BY DEF Affected, FenceSlots
    <2>3. update[u].status = "selected"
      BY <2>1, <2>2 DEF WorkAgrees, PendingUnassigned, Pending, Active
    <2> QED BY <2>1, <2>2, <2>3 DEF WorkAgrees, BatchAgreement
  <1>4. D \in SUBSET Slots /\ Rejected(B, A) \subseteq D /\ A \subseteq D
    BY DroppedAreSlots DEF Dropped
  <1>5. \A u \in D : update[u].status = "selected" => u \in Members(B)
    BY <1>2 DEF Dropped, Rejected, Members
  <1>6. AbandonBatches(B) /\ SettleUpdates(D, Returned(B, A))
    BY DEF Terminalize
  <1> HIDE DEF A, B, D
  <1>7. /\ WorkAgrees'
        /\ \A u \in Slots : update'[u].status \in Active =>
             update[u].status \in Active /\ u \notin D
    BY <1>1, <1>3, <1>4, <1>5, <1>6, Settling
  <1> QED BY <1>4, <1>7 DEF A
\* Where an update comes from that is not settled after a step.
NothingRevived ==
    \A u \in Slots : update'[u].status \in Active =>
        update[u].status \in Active \/ Current(u)

\* A proposal that arrives supersedes or is superseded.
LEMMA IngestAgrees ==
  ASSUME TypeOK, WorkAgrees, NEW u \in Slots, IngestProposal(u)
  PROVE  WorkAgrees' /\ NothingRevived
  <1> DEFINE older == {v \in Others(u) : Pending(v) /\ Cycle(v) < Cycle(u)}
             newer == {v \in Others(u) : Pending(v) /\ Cycle(v) > Cycle(u)}
             D == older \cup IF newer # {} THEN {u} ELSE {}
  <1>0. WorkType
    BY TypeParts
  <1>1. /\ SettleUpdates(D, {u}) /\ UNCHANGED <<batch, intent>>
        /\ Current(u) /\ update[u].status = "none"
    BY DEF IngestProposal, Unseen
  <1>2. /\ D \in SUBSET Slots
        /\ \A v \in D : v = u \/ (Pending(v) /\ v # u)
        /\ \A v \in Others(u) : Pending(v) /\ v \notin D =>
             Cycle(v) > Cycle(u) \/ ~(Cycle(v) < Cycle(u))
        /\ u \notin D => \A v \in Others(u) : Pending(v) => ~(Cycle(v) > Cycle(u))
    BY DEF Others
  <1>3. \A v \in Others(u) : Cycle(v) < Cycle(u) \/ Cycle(v) > Cycle(u)
    <2> SUFFICES ASSUME NEW v \in Others(u), ~(Cycle(v) < Cycle(u)),
                        ~(Cycle(v) > Cycle(u))
                 PROVE  FALSE
        OBVIOUS
    <2>1. v \in Slots /\ Key(v) = Key(u) /\ v # u
      BY DEF Others
    <2>2. Cycle(u) \in Int /\ Cycle(v) \in Int
      BY <2>1, SlotParts DEF Cycles
    <2>3. Cycle(v) = Cycle(u)
      BY <2>2
    <2> QED BY <2>1, <2>3, SlotParts
  <1>4. u \notin D => \A v \in Others(u) : Pending(v) => v \in D
    BY <1>2, <1>3
  <1> HIDE DEF D
  <1>5. \A v \in Slots : update'[v].status = "selected" =>
          update'[v] = update[v] /\ v # u
    BY <1>0, <1>1, SettledRow
  <1>6. \A v \in Slots : update[v].status = "selected" => update'[v] = update[v]
    BY <1>0, <1>1, <1>2, SettledRow DEF Pending
  <1>7. \A v \in Slots : update'[v].status = "pending" =>
          /\ v \notin D
          /\ \/ v = u /\ update'[v].batch = 0
             \/ v # u /\ update'[v] = update[v]
    BY <1>0, <1>1, SettledRow
  <1>8. SingleInFlight'
    <2> SUFFICES ASSUME NEW v \in Slots, NEW w \in Others(v),
                        update'[v].status \in Active,
                        update'[v].status = update'[w].status
                 PROVE  FALSE
        BY DEF SingleInFlight, Others
    <2>1. w \in Slots /\ v \in Others(w) /\ v # w
      BY DEF Others
    <2>2. update[v].status \in Active => update[v].status # update[w].status
      BY DEF WorkAgrees, SingleInFlight
    <2>3. CASE update'[v].status = "selected"
      BY <1>5, <2>1, <2>2, <2>3 DEF Active
    <2>4. CASE update'[v].status = "pending"
      <3>1. v \notin D /\ w \notin D
        BY <1>7, <2>1, <2>4
      <3>2. CASE v = u
        <4>1. Pending(w)
          BY <1>7, <2>1, <2>4, <3>2 DEF Pending
        <4> QED BY <1>4, <3>1, <3>2, <4>1
      <3>3. CASE w = u
        <4>1. Pending(v)
          BY <1>7, <2>1, <2>4, <3>3 DEF Pending
        <4> QED BY <1>4, <2>1, <3>1, <3>3, <4>1
      <3>4. CASE v # u /\ w # u
        BY <1>7, <2>1, <2>2, <2>4, <3>4 DEF Active
      <3> QED BY <3>2, <3>3, <3>4
    <2> QED BY <2>3, <2>4 DEF Active
  <1>9. BatchAgreement'
    <2>1. \A b \in Batches : batch[b].members \subseteq Slots
      BY <1>0 DEF WorkType, BatchRows
    <2> QED BY <1>1, <1>5, <1>6, <2>1 DEF WorkAgrees, BatchAgreement
  <1>10. IntentAgreement' /\ PendingUnassigned'
    BY <1>1, <1>7 DEF WorkAgrees, IntentAgreement, PendingUnassigned, Pending
  <1>11. NothingRevived
    BY <1>1, <1>5, <1>7 DEF NothingRevived, Active
  <1> QED BY <1>8, <1>9, <1>10, <1>11 DEF WorkAgrees

\* A selection takes at most one update of each contributor, and none of a
\* contributor that has one selected already.
LEMMA SelectAgrees ==
  ASSUME TypeOK, WorkAgrees, NEW quorum, TrySelectBatch(quorum)
  PROVE  WorkAgrees' /\ NothingRevived
  <1> DEFINE stale == Candidates \ Eligible
             picked == IF Quorate(quorum) THEN Chosen ELSE {}
  <1>0. WorkType
    BY TypeParts
  <1>1. PICK b \in Batches :
          /\ batch[b].state = "none"
          /\ batch' = IF picked = {} THEN batch
                      ELSE [batch EXCEPT ![b] =
                              [state |-> "selected", epoch |-> leader,
                               target |-> version + 1, members |-> picked]]
          /\ update' = [u \in Slots |->
                          IF u \in picked
                            THEN [update[u] EXCEPT !.status = "selected", !.batch = b]
                          ELSE IF u \in stale
                            THEN [update[u] EXCEPT !.status = "dropped", !.batch = 0]
                          ELSE update[u]]
    BY DEF TrySelectBatch
  <1>2. UNCHANGED intent
    BY DEF TrySelectBatch
  <1>3. \A u \in picked \cup stale : u \in Slots /\ Pending(u)
    BY DEF Candidates, Eligible, Chosen
  <1>4. \A u \in picked : \A v \in Others(u) :
          update[v].status # "selected" /\ v \notin picked
    <2> SUFFICES ASSUME NEW u \in picked, NEW v \in Others(u)
                 PROVE  update[v].status # "selected" /\ v \notin picked
        OBVIOUS
    <2>1. update[v].status # "selected"
      BY DEF TrySelectBatch, SelectionConflict
    <2>2. CASE v \in picked
      <3>1. u \in Candidates /\ v \in Candidates /\ u \in Others(v)
        BY <1>3, <2>2 DEF Chosen, Eligible, Others
      <3>2. Cycle(u) < Cycle(v) /\ Cycle(v) < Cycle(u)
        BY <3>1 DEF Candidates
      <3>3. Cycle(u) \in Int /\ Cycle(v) \in Int
        BY <3>1, SlotParts DEF Candidates, Cycles
      <3> QED BY <3>2, <3>3
    <2> QED BY <2>1, <2>2
  <1> HIDE DEF stale, picked
  <1>5. \A u \in Slots :
          /\ u \in picked => update'[u].status = "selected" /\ update'[u].batch = b
          /\ u \notin picked /\ u \in stale => update'[u].status = "dropped"
          /\ u \notin picked /\ u \notin stale => update'[u] = update[u]
    BY <1>0, <1>1 DEF WorkType, Updates
  <1>6. \A u \in Slots : update[u].status = "selected" =>
          update'[u] = update[u] /\ update[u].batch # b
    <2> SUFFICES ASSUME NEW u \in Slots, update[u].status = "selected"
                 PROVE  update'[u] = update[u] /\ update[u].batch # b
        OBVIOUS
    <2>1. batch[update[u].batch].state \in Live
      BY DEF WorkAgrees, BatchAgreement
    <2> QED BY <1>1, <1>3, <1>5, <2>1 DEF Pending, Live
  <1>7. SingleInFlight'
    <2> SUFFICES ASSUME NEW u \in Slots, NEW v \in Others(u),
                        update'[u].status \in Active,
                        update'[u].status = update'[v].status
                 PROVE  FALSE
        BY DEF SingleInFlight, Others
    <2>1. v \in Slots /\ u \in Others(v)
      BY DEF Others
    <2>2. update[u].status \in Active => update[u].status # update[v].status
      BY DEF WorkAgrees, SingleInFlight
    <2>3. CASE update'[u].status = "selected"
      BY <1>4, <1>5, <2>1, <2>2, <2>3 DEF Active
    <2>4. CASE update'[u].status = "pending"
      BY <1>5, <2>1, <2>2, <2>4 DEF Active
    <2> QED BY <2>3, <2>4 DEF Active
  <1>8. \A c \in Batches : c # b => batch'[c] = batch[c]
    BY <1>0, <1>1 DEF WorkType
  <1>9. picked = {} => batch' = batch
    BY <1>1
  <1>10. picked # {} => batch'[b].state = "selected" /\ batch'[b].members = picked
    BY <1>0, <1>1 DEF WorkType
  <1>11. BatchAgreement'
    <2>1. ASSUME NEW u \in Slots, update'[u].status = "selected"
          PROVE  /\ update'[u].batch \in Batches
                 /\ batch'[update'[u].batch].state \in Live
                 /\ u \in batch'[update'[u].batch].members
      <3>1. CASE u \in picked
        BY <1>5, <1>10, <3>1 DEF Live
      <3>2. CASE u \notin picked
        BY <1>5, <1>6, <1>8, <2>1, <3>2 DEF WorkAgrees, BatchAgreement
      <3> QED BY <3>1, <3>2
    <2>2. ASSUME NEW c \in Batches, batch'[c].state \in Live
          PROVE  /\ batch'[c].members # {}
                 /\ \A u \in batch'[c].members :
                      update'[u].status = "selected" /\ update'[u].batch = c
      <3>1. CASE batch'[c] = batch[c]
        <4>1. batch[c].members \subseteq Slots
          BY <1>0 DEF WorkType, BatchRows
        <4> QED BY <1>6, <2>2, <3>1, <4>1 DEF WorkAgrees, BatchAgreement
      <3>2. CASE c = b /\ picked # {}
        BY <1>3, <1>5, <1>10, <3>2
      <3> QED BY <1>8, <1>9, <3>1, <3>2
    <2> QED BY <2>1, <2>2 DEF BatchAgreement
  <1>12. IntentAgreement'
    <2>1. intent[b].state \notin {"prepared", "committed", "abandoned"}
      BY <1>1 DEF WorkAgrees, IntentAgreement
    <2>2. \A c \in Batches : (c = b /\ picked # {}) \/ batch'[c] = batch[c]
      BY <1>8, <1>9
    <2> QED BY <1>2, <1>10, <2>1, <2>2 DEF WorkAgrees, IntentAgreement
  <1>13. PendingUnassigned' /\ NothingRevived
    BY <1>3, <1>5 DEF WorkAgrees, PendingUnassigned, NothingRevived, Pending, Active
  <1> QED BY <1>7, <1>11, <1>12, <1>13 DEF WorkAgrees

\* A batch that is committed takes its members with it.
LEMMA ApplyAgrees ==
  ASSUME TypeOK, WorkAgrees, NEW b \in Batches, batch[b].state = "prepared",
         ApplyBatch(b)
  PROVE  WorkAgrees' /\ NothingRevived
  <1>0. WorkType
    BY TypeParts
  <1>1. \A u \in batch[b].members :
          u \in Slots /\ update[u].status = "selected" /\ update[u].batch = b
    BY <1>0 DEF WorkType, BatchRows, WorkAgrees, BatchAgreement, Live
  <1>2. \A u \in Slots :
          /\ u \in batch[b].members => update'[u].status = "applied"
          /\ u \notin batch[b].members => update'[u] = update[u]
    BY <1>0 DEF ApplyBatch, WorkType, Updates
  <1>3. /\ batch'[b].state = "committed" /\ intent'[b].state = "committed"
        /\ \A c \in Batches : c # b => batch'[c] = batch[c] /\ intent'[c] = intent[c]
    BY <1>0 DEF ApplyBatch, WorkType, BatchRows, IntentRows
  <1>4. \A u \in Slots : update'[u].status \in Active => update'[u] = update[u]
    BY <1>2 DEF Active
  <1>5. SingleInFlight'
    <2> SUFFICES ASSUME NEW u \in Slots, NEW v \in Others(u),
                        update'[u].status \in Active,
                        update'[u].status = update'[v].status
                 PROVE  FALSE
        BY DEF SingleInFlight, Others
    <2>1. v \in Slots
      BY DEF Others
    <2> QED BY <1>4, <2>1 DEF WorkAgrees, SingleInFlight
  <1>6. BatchAgreement'
    <2>1. ASSUME NEW u \in Slots, update'[u].status = "selected"
          PROVE  /\ update'[u].batch \in Batches
                 /\ batch'[update'[u].batch].state \in Live
                 /\ u \in batch'[update'[u].batch].members
      <3>1. update'[u] = update[u] /\ u \notin batch[b].members
        BY <1>2, <1>4, <2>1 DEF Active
      <3>2. /\ update[u].batch \in Batches
            /\ batch[update[u].batch].state \in Live
            /\ u \in batch[update[u].batch].members
        BY <2>1, <3>1 DEF WorkAgrees, BatchAgreement
      <3>3. update[u].batch # b
        BY <3>1, <3>2
      <3> QED BY <1>3, <3>1, <3>2, <3>3
    <2>2. ASSUME NEW c \in Batches, batch'[c].state \in Live
          PROVE  /\ batch'[c].members # {}
                 /\ \A u \in batch'[c].members :
                      update'[u].status = "selected" /\ update'[u].batch = c
      <3>1. c # b /\ batch'[c] = batch[c]
        BY <1>3, <2>2 DEF Live
      <3>2. /\ batch[c].members # {} /\ batch[c].members \subseteq Slots
            /\ \A u \in batch[c].members :
                 update[u].status = "selected" /\ update[u].batch = c
        BY <1>0, <2>2, <3>1 DEF WorkType, BatchRows, WorkAgrees, BatchAgreement
      <3> QED BY <1>1, <1>2, <3>1, <3>2
    <2> QED BY <2>1, <2>2 DEF BatchAgreement
  <1>7. IntentAgreement' /\ PendingUnassigned' /\ NothingRevived
    BY <1>2, <1>3, <1>4
       DEF WorkAgrees, IntentAgreement, PendingUnassigned, Pending, NothingRevived, Active
  <1> QED BY <1>5, <1>6, <1>7 DEF WorkAgrees

\* A batch that is prepared stays what it was otherwise.
LEMMA PrepareAgrees ==
  ASSUME TypeOK, WorkAgrees, NEW b \in Batches, PreparePublication(b)
  PROVE  WorkAgrees' /\ NothingRevived
  <1>0. WorkType
    BY TypeParts
  <1>1. /\ batch[b].state = "selected" /\ UNCHANGED update
        /\ batch'[b].state = "prepared" /\ batch'[b].members = batch[b].members
        /\ intent'[b].state = "prepared"
        /\ \A c \in Batches : c # b => batch'[c] = batch[c] /\ intent'[c] = intent[c]
    BY <1>0 DEF PreparePublication, WorkType, BatchRows, IntentRows
  <1>2. SingleInFlight' /\ PendingUnassigned' /\ NothingRevived
    BY <1>1 DEF WorkAgrees, SingleInFlight, PendingUnassigned, Pending, Others,
                NothingRevived
  <1>3. BatchAgreement'
    BY <1>1 DEF WorkAgrees, BatchAgreement, Live
  <1>4. IntentAgreement'
    BY <1>1 DEF WorkAgrees, IntentAgreement
  <1> QED BY <1>2, <1>3, <1>4 DEF WorkAgrees
\* Every command keeps the agreement, and what is not settled after it either
\* was not settled before it or has just come in from the current attempt.
LEMMA WorkStep ==
  ASSUME TypeOK, WorkAgrees, [Next]_vars
  PROVE  WorkAgrees' /\ NothingRevived
  <1>0. WorkType
    BY TypeParts
  <1>u. UNCHANGED <<update, batch, intent>> => WorkAgrees' /\ NothingRevived
    BY DEF WorkAgrees, SingleInFlight, BatchAgreement, IntentAgreement,
           PendingUnassigned, Pending, Others, NothingRevived
  <1>t. ASSUME NEW L, NEW P, Terminalize(L, P) PROVE WorkAgrees' /\ NothingRevived
    BY <1>0, <1>t, Terminalizing DEF NothingRevived
  <1>r. ASSUME NEW B \in SUBSET Batches, NEW invalid, ReconcileBatches(B, invalid),
               \A b \in B : intent[b].state = "prepared"
        PROVE  WorkAgrees' /\ NothingRevived
    <2>1. \A b \in B : batch[b].state \in Live
      BY <1>r DEF WorkAgrees, IntentAgreement, Live
    <2> QED BY <1>0, <1>r, <2>1, Reconciling DEF NothingRevived
  <1>1. CASE UNCHANGED vars
    BY <1>1, <1>u DEF vars
  <1>2. CASE AcquireLeader
    BY <1>2, <1>u DEF AcquireLeader, workVars
  <1>3. ASSUME NEW l \in Learners, BindAttempt(l) PROVE WorkAgrees' /\ NothingRevived
    BY <1>3, <1>t, <1>u DEF BindAttempt, workVars
  <1>4. ASSUME NEW l \in Learners, MarkTerminal(l) PROVE WorkAgrees' /\ NothingRevived
    BY <1>4, <1>t DEF MarkTerminal
  <1>5. ASSUME NEW l \in Learners, NEW expected \in BOOLEAN, IngestReceipt(l, expected)
        PROVE  WorkAgrees' /\ NothingRevived
    BY <1>5, <1>u DEF IngestReceipt
  <1>6. ASSUME NEW u \in Slots, IngestProposal(u) PROVE WorkAgrees' /\ NothingRevived
    BY <1>6, IngestAgrees
  <1>7. ASSUME NEW quorum, TrySelectBatch(quorum) PROVE WorkAgrees' /\ NothingRevived
    BY <1>7, SelectAgrees
  <1>8. CASE PrepareGenesis
    BY <1>8, <1>u DEF PrepareGenesis, workVars
  <1>9. ASSUME NEW e \in Epochs, CommitGenesis(e) PROVE WorkAgrees' /\ NothingRevived
    BY <1>9, <1>u DEF CommitGenesis, workVars
  <1>10. ASSUME NEW e \in Epochs, AbandonGenesis(e) PROVE WorkAgrees' /\ NothingRevived
    BY <1>10, <1>u DEF AbandonGenesis, workVars
  <1>11. ASSUME NEW b \in Batches, PreparePublication(b)
         PROVE  WorkAgrees' /\ NothingRevived
    BY <1>11, PrepareAgrees
  <1>12. ASSUME NEW b \in Batches, AbandonPublication(b)
         PROVE  WorkAgrees' /\ NothingRevived
    BY <1>12, <1>r DEF AbandonPublication
  <1>13. ASSUME NEW b \in Batches, NEW isTerminal \in BOOLEAN, CommitMerge(b, isTerminal)
         PROVE  WorkAgrees' /\ NothingRevived
    <2>1. CASE Invalid(b) = {}
      BY <1>13, <2>1, ApplyAgrees DEF CommitMerge
    <2>2. CASE Invalid(b) # {}
      BY <1>13, <2>2, <1>r DEF CommitMerge
    <2> QED BY <2>1, <2>2
  <1>14. CASE ReconcilePublications
    BY <1>14, <1>r DEF ReconcilePublications, Predecessors
  <1>15. CASE BeginPreclose
    BY <1>15, <1>u DEF BeginPreclose, workVars
  <1>16. CASE BeginClose
    BY <1>16, <1>u DEF BeginClose, workVars
  <1>17. ASSUME NEW l \in Learners, HardCrash(l) PROVE WorkAgrees' /\ NothingRevived
    BY <1>17, <1>t DEF HardCrash
  <1>18. ASSUME NEW l \in Learners, Acknowledge(l) PROVE WorkAgrees' /\ NothingRevived
    BY <1>18, <1>t DEF Acknowledge
  <1>19. ASSUME NEW error \in BOOLEAN, FinalizeTerminal(error)
         PROVE  WorkAgrees' /\ NothingRevived
    BY <1>19, <1>t DEF FinalizeTerminal
  <1> QED
    BY <1>1, <1>2, <1>3, <1>4, <1>5, <1>6, <1>7, <1>8, <1>9, <1>10, <1>11, <1>12,
       <1>13, <1>14, <1>15, <1>16, <1>17, <1>18, <1>19
       DEF Next, Membership, Merging, Terminating

\* Nothing is selected, batched or intended at first.
LEMMA WorkInit == Init => WorkAgrees
  BY DEF Init, WorkAgrees, SingleInFlight, BatchAgreement, IntentAgreement,
         PendingUnassigned, Pending, Others, Active, Live

\* The agreement is an invariant.
LEMMA WorkInvariant == Spec => [](TypeOK /\ WorkAgrees)
  <1>1. Init => TypeOK /\ WorkAgrees
    BY InitType, WorkInit
  <1>2. TypeOK /\ WorkAgrees /\ [Next]_vars => (TypeOK /\ WorkAgrees)'
    BY TypeStep, WorkStep
  <1> QED BY <1>1, <1>2, PTL DEF Spec

\* At most one update of a contributor is pending and at most one selected,
\* whatever is replaced, superseded, reconciled or closed in between.
THEOREM AuthoritySingleInFlight == Spec => []SingleInFlight
  <1>1. WorkAgrees => SingleInFlight
    BY DEF WorkAgrees
  <1> QED BY <1>1, WorkInvariant, PTL

\* Selected updates and live batches agree.
THEOREM AuthorityBatchAgreement == Spec => []BatchAgreement
  <1>1. WorkAgrees => BatchAgreement
    BY DEF WorkAgrees
  <1> QED BY <1>1, WorkInvariant, PTL

\* Batches and publication intents agree.
THEOREM AuthorityIntentAgreement == Spec => []IntentAgreement
  <1>1. WorkAgrees => IntentAgreement
    BY DEF WorkAgrees
  <1> QED BY <1>1, WorkInvariant, PTL

-----------------------------------------------------------------------------
(* Work that is not settled is the current attempt's.                      *)

\* An active binding has been made.
BindingsMade == \A l \in Learners : binding[l].status = "active" => binding[l].gen # 0

LiveInv == LiveWorkIsCurrent /\ BindingsMade

\* Every way an attempt loses its binding settles its work.
LEMMA LiveStep ==
  ASSUME TypeOK, WorkAgrees, LiveInv, [Next]_vars
  PROVE  LiveInv'
  <1>0. WorkType /\ RestType
    BY TypeParts
  <1>n. NothingRevived
    BY WorkStep
  <1>c. \A u \in Slots : update'[u].status \in Active =>
          /\ Key(u) \in Learners
          /\ binding[Key(u)].status = "active"
          /\ binding[Key(u)].gen = receipt[u].gen /\ receipt[u].gen # 0
    BY <1>n, SlotParts
       DEF NothingRevived, LiveInv, LiveWorkIsCurrent, BindingsMade, Current, FenceCurrent
  <1>u. UNCHANGED <<binding, receipt>> => LiveInv'
    BY <1>c DEF LiveInv, LiveWorkIsCurrent, BindingsMade, Current, FenceCurrent, Key
  \* The fences of the learners in L end, and with them their bindings.
  <1>e. ASSUME NEW L, NEW P, Terminalize(L, P), P = {}, UNCHANGED receipt,
               BindingsMade', \A l \in Learners : l \notin L => binding'[l] = binding[l]
        PROVE  LiveInv'
    <2>1. \A u \in Slots : update'[u].status \in Active =>
            update[u].status \in Active /\ u \notin Affected(L, P)
      BY <1>0, <1>e, Terminalizing
    <2>2. \A u \in Slots : update'[u].status \in Active => Key(u) \notin L
      BY <1>c, <1>e, <2>1 DEF Affected, FenceSlots
    <2> QED BY <1>c, <1>e, <2>2
            DEF LiveInv, LiveWorkIsCurrent, Current, FenceCurrent, Key
  <1>1. CASE UNCHANGED vars
    BY <1>1, <1>u DEF vars
  <1>2. ASSUME NEW l \in Learners, BindAttempt(l) PROVE LiveInv'
    <2>1. /\ binding' = [binding EXCEPT ![l] = [gen |-> binding[l].gen + 1,
                                               status |-> "active"]]
          /\ UNCHANGED receipt
      BY <1>2 DEF BindAttempt
    <2>2. BindingsMade'
      <3>1. binding[l].gen \in Nat
        BY <1>0 DEF RestType
      <3>2. binding[l].gen + 1 # 0
        BY <3>1
      <3> QED BY <1>0, <2>1, <3>2 DEF LiveInv, BindingsMade, RestType
    <2>3. \A k \in Learners : k # l => binding'[k] = binding[k]
      BY <1>0, <2>1 DEF RestType
    <2>4. CASE binding[l].status = "active"
      <3>1. Terminalize({l}, {})
        BY <1>2, <2>4 DEF BindAttempt
      <3> QED BY <1>e, <2>1, <2>2, <2>3, <3>1
    <2>5. CASE binding[l].status # "active"
      <3>1. UNCHANGED update
        BY <1>2, <2>5 DEF BindAttempt, workVars
      <3> QED BY <1>c, <2>1, <2>2, <2>3, <2>5, <3>1
              DEF LiveInv, LiveWorkIsCurrent, Current, FenceCurrent, Key
    <2> QED BY <2>4, <2>5
  <1>3. ASSUME NEW l \in Learners, MarkTerminal(l) PROVE LiveInv'
    <2>1. /\ Terminalize({l}, {}) /\ UNCHANGED receipt
          /\ binding' = [binding EXCEPT ![l].status = "terminal"]
      BY <1>3 DEF MarkTerminal
    <2>2. BindingsMade' /\ \A k \in Learners : k # l => binding'[k] = binding[k]
      BY <1>0, <2>1 DEF RestType, LiveInv, BindingsMade
    <2> QED BY <1>e, <2>1, <2>2
  <1>4. ASSUME NEW L, Terminalize(L, {}), UNCHANGED receipt, binding' = Ended(L)
        PROVE  LiveInv'
    <2>1. BindingsMade' /\ \A l \in Learners : l \notin L => binding'[l] = binding[l]
      BY <1>0, <1>4 DEF Ended, RestType, LiveInv, BindingsMade
    <2> QED BY <1>e, <1>4, <2>1
  <1>5. ASSUME NEW l \in Learners, HardCrash(l) PROVE LiveInv'
    BY <1>4, <1>5 DEF HardCrash
  <1>6. ASSUME NEW error \in BOOLEAN, FinalizeTerminal(error) PROVE LiveInv'
    BY <1>4, <1>6 DEF FinalizeTerminal
  <1>7. ASSUME NEW l \in Learners, NEW expected \in BOOLEAN, IngestReceipt(l, expected)
        PROVE  LiveInv'
    <2> DEFINE u == <<l, progress[l] + 1>>
    <2>1. /\ receipt' = [receipt EXCEPT ![u] = [gen |-> binding[l].gen,
                                               expected |-> expected]]
          /\ binding[l].status = "active" /\ UNCHANGED binding
      BY <1>7 DEF IngestReceipt
    <2>2. ASSUME NEW v \in Slots, update'[v].status \in Active
          PROVE  Current(v)'
      <3>1. CASE v = u
        BY <1>0, <2>1, <2>2, <3>1 DEF Current, FenceCurrent, Key, RestType
      <3>2. CASE v # u
        BY <1>0, <1>c, <2>1, <2>2, <3>2 DEF Current, FenceCurrent, Key, RestType
      <3> QED BY <3>1, <3>2
    <2> QED BY <2>1, <2>2 DEF LiveInv, LiveWorkIsCurrent, BindingsMade
  <1>8. CASE UNCHANGED <<binding, receipt>>
    BY <1>8, <1>u
  <1> QED
    BY <1>1, <1>2, <1>3, <1>5, <1>6, <1>7, <1>8
       DEF Next, Membership, Merging, Terminating, AcquireLeader, IngestProposal,
           TrySelectBatch, PrepareGenesis, CommitGenesis, AbandonGenesis,
           PreparePublication, CommitMerge, AbandonPublication,
           ReconcilePublications, BeginPreclose, BeginClose, Acknowledge

\* Nothing an attempt left behind can be selected or merged: whenever a
\* binding ends or is replaced, its unsettled updates are settled with it.
THEOREM AuthorityLiveWorkIsCurrent == Spec => []LiveWorkIsCurrent
  <1>1. Init => LiveInv
    BY DEF Init, LiveInv, LiveWorkIsCurrent, BindingsMade, Active
  <1>2. TypeOK /\ WorkAgrees /\ LiveInv /\ [Next]_vars => LiveInv'
    BY LiveStep
  <1>3. LiveInv => LiveWorkIsCurrent
    BY DEF LiveInv
  <1> QED BY <1>1, <1>2, <1>3, WorkInvariant, PTL DEF Spec

-----------------------------------------------------------------------------
(* What the commands of the terminal close keep true: the freeze bounds     *)
(* what may still come, an acknowledgement is final, and so is a finished   *)
(* run.                                                                     *)

\* Nobody is frozen before the close.
Unfrozen ==
    ctl.state \in {"open", "preclosing"} =>
        \A l \in Learners : frozen[l].state = "none"

\* While it lasts, whoever is bound was bound at the freeze.
FrozenBindings ==
    ctl.state \in Closing =>
        \A l \in Learners : binding[l].status = "active" =>
            /\ frozen[l].state \in {"awaiting_ack", "acked"}
            /\ frozen[l].gen = binding[l].gen

\* Nothing is left open when it is over.
NothingOpen ==
    ctl.state \in Closed =>
        /\ version >= 0
        /\ \A l \in Learners : binding[l].status # "active"
        /\ \A u \in Slots : update[u].status \notin Active
        /\ \A e \in Epochs : genesis[e] # "prepared"

\* The final cycle that was acknowledged has been reached.
FinalReached ==
    \A l \in Learners : frozen[l].state = "acked" => frozen[l].final <= progress[l]

CloseInv == Unfrozen /\ FrozenBindings /\ NothingOpen /\ FinalReached /\ FrozenBound

-----------------------------------------------------------------------------
\* Who is bound after the fences of L have ended.
LEMMA EndedBindings ==
  ASSUME RestType, NEW L
  PROVE  \A l \in Learners :
           /\ Ended(L)[l].gen = binding[l].gen
           /\ l \notin L => Ended(L)[l] = binding[l]
           /\ Ended(L)[l].status = "active" =>
                binding[l].status = "active" /\ ~(l \in L /\ FenceCurrent(l, frozen[l].gen))
  BY DEF RestType, Ended, FenceCurrent

\* Settling work leaves none open that was not, in a run that is over.
LEMMA NothingReopened ==
  ASSUME TypeOK, WorkAgrees, NothingOpen, [Next]_vars, ctl.state \in Closed
  PROVE  \A u \in Slots : update'[u].status \notin Active
  <1>1. NothingRevived
    BY WorkStep
  <1>2. \A u \in Slots : ~Current(u) /\ update[u].status \notin Active
    BY SlotParts DEF NothingOpen, Current, FenceCurrent
  <1> QED BY <1>1, <1>2 DEF NothingRevived

\* The genesis of a run is prepared before its first version.
LEMMA GenesisStep ==
  ASSUME TypeOK, [Next]_vars, version >= 0
  PROVE  /\ version' >= 0
         /\ \A e \in Epochs : genesis[e] # "prepared" => genesis'[e] # "prepared"
  <1>0. WorkType /\ RestType
    BY TypeParts
  <1>1. ASSUME NEW b \in Batches, ApplyBatch(b) PROVE version' >= 0
    <2>1. batch[b].target \in Nat
      BY <1>0 DEF WorkType, BatchRows
    <2>2. version' = batch[b].target
      BY <1>1 DEF ApplyBatch
    <2> QED BY <2>1, <2>2
  <1>2. ASSUME NEW b \in Batches, NEW isTerminal \in BOOLEAN, CommitMerge(b, isTerminal)
        PROVE  version' >= 0 /\ UNCHANGED genesis
    <2>1. UNCHANGED genesis
      BY <1>2 DEF CommitMerge
    <2>2. CASE Invalid(b) = {}
      <3>1. ApplyBatch(b)
        BY <1>2, <2>2 DEF CommitMerge
      <3> QED BY <1>1, <2>1, <3>1
    <2>3. CASE Invalid(b) # {}
      <3>1. UNCHANGED version
        BY <1>2, <2>3 DEF CommitMerge
      <3> QED BY <2>1, <3>1
    <2> QED BY <2>2, <2>3
  <1>3. ASSUME NEW e \in Epochs, AbandonGenesis(e)
        PROVE  /\ version' >= 0
               /\ \A d \in Epochs : genesis[d] # "prepared" => genesis'[d] # "prepared"
    BY <1>0, <1>3 DEF AbandonGenesis, RestType
  <1>4. CASE ReconcilePublications
    BY <1>0, <1>4 DEF ReconcilePublications, RestType
  <1>5. version # -1
    BY <1>0 DEF RestType
  <1>6. CASE UNCHANGED <<version, genesis>>
    BY <1>6
  <1> QED
    BY <1>2, <1>3, <1>4, <1>5, <1>6
       DEF Next, Membership, Merging, Terminating, AcquireLeader, BindAttempt,
           MarkTerminal, IngestReceipt, IngestProposal, TrySelectBatch, PrepareGenesis,
           CommitGenesis, PreparePublication, AbandonPublication,
           BeginPreclose, BeginClose, HardCrash, Acknowledge, FinalizeTerminal, vars

\* Every command of the protocol keeps what the close relies on.
LEMMA CloseStep ==
  ASSUME TypeOK, WorkAgrees, CloseInv, [Next]_vars
  PROVE  CloseInv'
  <1> USE DEF CloseInv
  <1>0. WorkType /\ RestType
    BY TypeParts
  <1>f. /\ frozen \in [Learners -> [state : {"none", "awaiting_ack", "acked", "hard_crash"},
                                    gen : 0 .. MaxGen, close : 0 .. MaxCycle,
                                    final : 0 .. MaxCycle]]
        /\ progress \in [Learners -> 0 .. MaxCycle]
    BY <1>0 DEF RestType
  <1>d. {"open", "preclosing"} \cap (Closing \cup Closed) = {} /\ Closing \cap Closed = {}
    BY DEF Closing, Closed
  <1>n. ctl'.state = ctl.state /\ binding' = binding => NothingOpen'
    BY NothingReopened, GenesisStep DEF NothingOpen
  <1>q. ctl'.state = ctl.state /\ UNCHANGED <<binding, progress, frozen>> => CloseInv'
    BY <1>n DEF Unfrozen, FrozenBindings, FinalReached, FrozenBound
  <1>1. ASSUME NEW l \in Learners, BindAttempt(l) PROVE CloseInv'
    BY <1>1, <1>d
       DEF BindAttempt, closeVars, Unfrozen, FrozenBindings, NothingOpen, FinalReached,
           FrozenBound
  <1>2. ASSUME NEW l \in Learners, MarkTerminal(l) PROVE CloseInv'
    <2>1. /\ binding' = [binding EXCEPT ![l].status = "terminal"]
          /\ UNCHANGED <<ctl, frozen, progress>>
      BY <1>2 DEF MarkTerminal, closeVars
    <2>2. \A k \in Learners : binding'[k].status = "active" => binding'[k] = binding[k]
      BY <1>0, <2>1 DEF RestType
    <2>3. NothingOpen'
      BY <2>1, <2>2, NothingReopened, GenesisStep DEF NothingOpen
    <2> QED BY <2>1, <2>2, <2>3 DEF Unfrozen, FrozenBindings, FinalReached, FrozenBound
  <1>3. ASSUME NEW l \in Learners, NEW expected \in BOOLEAN, IngestReceipt(l, expected)
        PROVE  CloseInv'
    <2>1. /\ progress' = [progress EXCEPT ![l] = progress[l] + 1]
          /\ InputAllowed(<<l, progress[l] + 1>>, expected)
          /\ UNCHANGED <<ctl, frozen, binding>>
      BY <1>3 DEF IngestReceipt, closeVars
    <2>2. \A k \in Learners : progress[k] <= progress'[k] /\ (k # l => progress'[k] = progress[k])
      BY <1>f, <2>1
    <2>3. frozen[l].state # "none" => progress'[l] \in {frozen[l].close, frozen[l].close + 1}
      BY <1>f, <2>1 DEF InputAllowed, Unfrozen, Key, Cycle
    <2>4. FrozenBound'
      BY <2>1, <2>2, <2>3 DEF FrozenBound
    <2>5. FinalReached'
      <3>1. ASSUME NEW k \in Learners, frozen[k].state = "acked"
            PROVE  frozen[k].final <= progress'[k]
        BY <1>f, <2>1, <2>2, <3>1 DEF FinalReached
      <3> QED BY <2>1, <3>1 DEF FinalReached
    <2> QED BY <1>n, <2>1, <2>4, <2>5 DEF Unfrozen, FrozenBindings
  <1>4. CASE BeginPreclose
    BY <1>4, <1>d
       DEF BeginPreclose, Unfrozen, FrozenBindings, NothingOpen, FinalReached, FrozenBound
  <1>5. CASE BeginClose
    <2>1. /\ ctl.state \in {"open", "preclosing"} /\ ctl'.state = "closing"
          /\ frozen' = [l \in Learners |->
                          IF binding[l].status = "active"
                            THEN [state |-> "awaiting_ack", gen |-> binding[l].gen,
                                  close |-> progress[l], final |-> 0]
                            ELSE frozen[l]]
          /\ UNCHANGED <<binding, progress>>
      BY <1>5 DEF BeginClose
    <2>2. \A l \in Learners : frozen[l].state = "none"
      BY <2>1 DEF Unfrozen
    <2>3. \A l \in Learners :
            /\ frozen'[l].state # "none" => frozen'[l].close = progress[l]
            /\ frozen'[l].state # "acked"
            /\ binding[l].status = "active" =>
                 frozen'[l].state = "awaiting_ack" /\ frozen'[l].gen = binding[l].gen
      BY <2>1, <2>2
    <2> QED BY <2>1, <2>3
            DEF Unfrozen, FrozenBindings, NothingOpen, FinalReached, FrozenBound, Closing,
                Closed
  <1>6. ASSUME NEW l \in Learners, HardCrash(l) PROVE CloseInv'
    <2>1. /\ ctl.state \in Closing /\ frozen[l].state = "awaiting_ack"
          /\ binding' = Ended({l}) /\ ctl'.state = "draining"
          /\ frozen' = [frozen EXCEPT ![l].state = "hard_crash"] /\ UNCHANGED progress
      BY <1>0, <1>6 DEF HardCrash, Awaits, RestType
    <2>2. \A k \in Learners :
            /\ frozen'[k].gen = frozen[k].gen /\ frozen'[k].close = frozen[k].close
            /\ frozen'[k].final = frozen[k].final
            /\ k # l => frozen'[k] = frozen[k]
            /\ frozen'[k].state = "none" <=> frozen[k].state = "none"
            /\ frozen'[k].state = "acked" => frozen[k].state = "acked"
      BY <1>f, <2>1
    <2>3. \A k \in Learners : binding'[k].status = "active" =>
            k # l /\ binding'[k] = binding[k]
      BY <1>0, <2>1, EndedBindings DEF FrozenBindings, FenceCurrent
    <2>4. ctl'.state \notin {"open", "preclosing"} /\ ctl'.state \notin Closed
      BY <2>1 DEF Closed
    <2>5. ASSUME NEW k \in Learners, binding'[k].status = "active"
          PROVE  /\ frozen'[k].state \in {"awaiting_ack", "acked"}
                 /\ frozen'[k].gen = binding'[k].gen
      <3>1. frozen'[k] = frozen[k] /\ binding'[k] = binding[k]
        BY <2>2, <2>3, <2>5
      <3> QED BY <2>1, <2>5, <3>1 DEF FrozenBindings
    <2>6. FrozenBound' /\ FinalReached'
      BY <2>1, <2>2 DEF FrozenBound, FinalReached
    <2> QED BY <2>4, <2>5, <2>6 DEF Unfrozen, NothingOpen, FrozenBindings
  <1>7. ASSUME NEW l \in Learners, Acknowledge(l) PROVE CloseInv'
    <2>1. PICK n \in {0, progress[l]} :
            frozen' = [frozen EXCEPT ![l].state = "acked", ![l].final = n]
      BY <1>7 DEF Acknowledge
    <2>2. /\ ctl.state \in Closing /\ frozen[l].state = "awaiting_ack"
          /\ ctl'.state = "draining" /\ UNCHANGED <<binding, progress>>
      BY <1>0, <1>7 DEF Acknowledge, Awaits, RestType
    <2>3. \A k \in Learners :
            /\ frozen'[k].gen = frozen[k].gen /\ frozen'[k].close = frozen[k].close
            /\ k # l => frozen'[k] = frozen[k]
            /\ frozen'[k].state = "none" <=> frozen[k].state = "none"
      BY <1>f, <2>1, <2>2
    <2>4. frozen'[l].state = "acked" /\ frozen'[l].final <= progress[l]
      BY <1>f, <2>1
    <2> QED BY <2>2, <2>3, <2>4
            DEF Unfrozen, FrozenBindings, NothingOpen, FinalReached, FrozenBound, Closing,
                Closed
  <1>8. ASSUME NEW error \in BOOLEAN, FinalizeTerminal(error) PROVE CloseInv'
    <2>0. ctl'.state \in Closed
      <3>1. CASE error = TRUE
        BY <1>0, <1>8, <3>1 DEF FinalizeTerminal, RestType, Closed
      <3>2. CASE error = FALSE
        BY <1>0, <1>8, <3>2 DEF FinalizeTerminal, RestType, Closed
      <3> QED BY <3>1, <3>2
    <2>1. /\ ctl.state \in Closing
          /\ version >= 0 /\ UNCHANGED <<version, genesis, frozen, progress>>
          /\ \A u \in Slots : update'[u].status \notin Active
          /\ \A e \in Epochs : genesis[e] # "prepared"
          /\ \A l \in Learners : frozen[l].state # "awaiting_ack"
          /\ binding' = Ended({l \in Learners : frozen[l].state = "acked"})
      BY <1>8 DEF FinalizeTerminal
    <2>2. \A l \in Learners : binding'[l].status # "active"
      BY <1>0, <2>1, EndedBindings DEF FrozenBindings, FenceCurrent
    <2> QED BY <1>d, <2>0, <2>1, <2>2
            DEF Unfrozen, FrozenBindings, NothingOpen, FinalReached, FrozenBound
  <1>9. ASSUME NEW b \in Batches, NEW isTerminal \in BOOLEAN, CommitMerge(b, isTerminal)
        PROVE  CloseInv'
    <2>1. ctl'.state = ctl.state /\ UNCHANGED <<binding, progress, frozen>>
      BY <1>0, <1>9 DEF CommitMerge, RestType
    <2> QED BY <1>q, <2>1
  <1>10. CASE UNCHANGED <<ctl, binding, progress, frozen>>
    BY <1>10, <1>q
  <1> QED
    BY <1>1, <1>2, <1>3, <1>4, <1>5, <1>6, <1>7, <1>8, <1>9, <1>10
       DEF Next, Membership, Merging, Terminating, AcquireLeader, IngestProposal,
           TrySelectBatch, PrepareGenesis, CommitGenesis, AbandonGenesis,
           PreparePublication, AbandonPublication, ReconcilePublications, closeVars, vars

\* The run begins open and unfrozen.
LEMMA CloseInit == Init => CloseInv
  BY DEF Init, CloseInv, Unfrozen, FrozenBindings, NothingOpen, FinalReached, FrozenBound,
         Closing, Closed

\* What the close relies on is an invariant.
LEMMA CloseInvariant == Spec => [](TypeOK /\ WorkAgrees /\ CloseInv)
  <1>1. TypeOK /\ WorkAgrees /\ CloseInv /\ [Next]_vars => CloseInv'
    BY CloseStep
  <1> QED BY <1>1, CloseInit, WorkInvariant, PTL DEF Spec

\* After the freeze a contributor adds at most the cycle that was in flight.
THEOREM AuthorityFrozenBound == Spec => []FrozenBound
  <1>1. CloseInv => FrozenBound
    BY DEF CloseInv
  <1> QED BY <1>1, CloseInvariant, PTL

-----------------------------------------------------------------------------
(* What an acknowledgement and a finished run exclude.                     *)

\* No receipt follows an acknowledgement, and no update but the declared one.
LEMMA AckStep ==
  ASSUME TypeOK, CloseInv, [Next]_vars, NEW l \in Learners,
         frozen[l].state \in {"acked", "hard_crash"}
  PROVE  /\ progress'[l] = progress[l]
         /\ \A u \in Slots :
              Key(u) = l /\ update[u].status = "none" /\ update'[u].status # "none"
                => Cycle(u) = frozen[l].final
  <1>0. WorkType /\ RestType
    BY TypeParts
  <1>1. ctl.state \notin {"open", "preclosing"}
    BY DEF CloseInv, Unfrozen
  <1>2. \A u, names : Key(u) = l /\ InputAllowed(u, names) =>
          frozen[l].state = "acked" /\ names /\ frozen[l].final = Cycle(u)
    BY <1>1 DEF InputAllowed
  <1>3. ASSUME NEW k \in Learners, NEW expected \in BOOLEAN, IngestReceipt(k, expected)
        PROVE  progress'[l] = progress[l] /\ UNCHANGED update
    <2>1. /\ InputAllowed(<<k, progress[k] + 1>>, expected) /\ UNCHANGED update
          /\ progress' = [progress EXCEPT ![k] = progress[k] + 1]
      BY <1>3 DEF IngestReceipt
    <2>2. CASE k = l
      <3>1. frozen[l].state = "acked" /\ frozen[l].final = progress[l] + 1
        BY <1>2, <2>1, <2>2 DEF Key, Cycle
      <3>2. frozen[l].final <= progress[l] /\ progress[l] \in Nat
        BY <1>0, <3>1 DEF CloseInv, FinalReached, RestType
      <3> QED BY <3>1, <3>2
    <2>3. CASE k # l
      BY <1>0, <2>1, <2>3 DEF RestType
    <2> QED BY <2>2, <2>3
  <1>s. ASSUME NEW D, NEW back, SettleUpdates(D, back), NEW u \in Slots,
               update[u].status = "none", update'[u].status # "none"
        PROVE  u \in D \cup back
    BY <1>0, <1>s, SettledRow
  <1>4. ASSUME NEW v \in Slots, IngestProposal(v), NEW u \in Slots, Key(u) = l,
               update[u].status = "none", update'[u].status # "none"
        PROVE  Cycle(u) = frozen[l].final
    <2>1. u = v
      BY <1>4, <1>s DEF IngestProposal, Others, Pending
    <2> QED BY <1>2, <1>4, <2>1 DEF IngestProposal
  <1>a. \A B, A : \A u \in Rejected(B, A) \cup Returned(B, A) : update[u].status # "none"
    BY DEF Rejected, Returned, Active
  <1>5. ASSUME NEW u \in Slots, update[u].status = "none", update'[u].status # "none"
        PROVE  \/ \E v \in Slots : IngestProposal(v)
    <2>1. ASSUME NEW L, NEW P, Terminalize(L, P) PROVE FALSE
      <3>1. \A v \in Dropped(L, P) : update[v].status # "none"
        BY <1>a DEF Dropped, Affected, Active
      <3> QED BY <1>5, <1>a, <1>s, <2>1, <3>1 DEF Terminalize
    <2>2. ASSUME NEW B, NEW A, ReconcileBatches(B, A) PROVE FALSE
      BY <1>5, <1>a, <1>s, <2>2 DEF ReconcileBatches
    <2>3. ASSUME NEW quorum, TrySelectBatch(quorum) PROVE FALSE
      <3>1. u \notin Candidates
        BY <1>5 DEF Candidates, Pending
      <3>2. u \notin (IF Quorate(quorum) THEN Chosen ELSE {}) /\ u \notin Candidates \ Eligible
        BY <3>1 DEF Chosen, Eligible
      <3>3. update'[u] = update[u]
        BY <2>3, <3>2 DEF TrySelectBatch
      <3> QED BY <1>5, <3>3
    <2>4. ASSUME NEW b \in Batches, batch[b].state = "prepared", ApplyBatch(b),
                 \A v \in batch[b].members : update[v].status = "selected"
          PROVE  FALSE
      BY <1>5, <2>4 DEF ApplyBatch
    <2>5. ASSUME NEW b \in Batches, NEW isTerminal \in BOOLEAN, CommitMerge(b, isTerminal)
          PROVE  FALSE
      BY <2>2, <2>4, <2>5 DEF CommitMerge, Invalid
    <2>6. ~UNCHANGED update
      BY <1>5
    <2> QED
      BY <2>1, <2>2, <2>3, <2>5, <2>6
         DEF Next, Membership, Merging, Terminating, AcquireLeader, BindAttempt,
             MarkTerminal, IngestReceipt, PrepareGenesis, CommitGenesis, AbandonGenesis,
             PreparePublication, AbandonPublication, ReconcilePublications, BeginPreclose,
             BeginClose, HardCrash, Acknowledge, FinalizeTerminal, workVars, vars
  <1>6. CASE UNCHANGED progress
    BY <1>4, <1>5, <1>6
  <1>7. CASE ~UNCHANGED progress
    <2>1. \E k \in Learners, expected \in BOOLEAN : IngestReceipt(k, expected)
      BY <1>7
         DEF Next, Membership, Merging, Terminating, AcquireLeader, BindAttempt,
             MarkTerminal, IngestProposal, TrySelectBatch, PrepareGenesis, CommitGenesis,
             AbandonGenesis, PreparePublication, CommitMerge, AbandonPublication,
             ReconcilePublications, BeginPreclose, BeginClose, HardCrash, Acknowledge,
             FinalizeTerminal, vars
    <2> QED BY <1>3, <2>1
  <1> QED BY <1>6, <1>7

\* An acknowledgement is final: whatever files are still found, and whoever
\* leads, the contributor's count of cycles stands.
THEOREM AuthorityAckIsFinal == Spec => AckIsFinal
  <1>1. TypeOK /\ WorkAgrees /\ CloseInv /\ [Next]_vars =>
          [\A l \in Learners : frozen[l].state \in {"acked", "hard_crash"} =>
             /\ progress'[l] = progress[l]
             /\ \A u \in Slots :
                  Key(u) = l /\ update[u].status = "none" /\ update'[u].status # "none"
                    => Cycle(u) = frozen[l].final]_vars
    BY AckStep
  <1> QED BY <1>1, CloseInvariant, PTL DEF Spec, AckIsFinal

\* Versions of a run that closes come out of its merge budget only: a normal
\* commit is refused, and a terminal one counts itself.
THEOREM AuthorityMergeBudget == Spec => MergeBudget
  <1>1. ASSUME TypeOK, [Next]_vars,
               ctl.state \in Closing, version' # version, version >= 0
        PROVE  ctl'.merges = ctl.merges + 1
    <2>0. RestType
      BY <1>1, TypeParts
    <2>2. PICK b \in Batches, isTerminal \in BOOLEAN : CommitMerge(b, isTerminal)
      <3>1. version # -1
        BY <1>1, <2>0 DEF RestType
      <3> QED
        BY <1>1, <3>1
           DEF Next, Membership, Merging, Terminating, AcquireLeader, BindAttempt,
               MarkTerminal, IngestReceipt, IngestProposal, TrySelectBatch,
               PrepareGenesis, CommitGenesis, AbandonGenesis, PreparePublication,
               AbandonPublication, ReconcilePublications, BeginPreclose, BeginClose,
               HardCrash, Acknowledge, FinalizeTerminal, vars
    <2>3. isTerminal = TRUE
      BY <1>1, <2>2 DEF CommitMerge, CommitAllowed, Closing
    <2>4. Invalid(b) = {}
      BY <1>1, <2>2 DEF CommitMerge
    <2>5. ctl' = [ctl EXCEPT !.merges = ctl.merges + 1]
      BY <2>2, <2>3, <2>4 DEF CommitMerge
    <2> QED BY <2>0, <2>5 DEF RestType
  <1>2. TypeOK /\ [Next]_vars =>
          [ctl.state \in Closing /\ version' # version /\ version >= 0
             => ctl'.merges = ctl.merges + 1]_vars
    BY <1>1
  <1> QED BY <1>2, AuthorityTypeOK, PTL DEF Spec, MergeBudget

\* Moving no tokens leaves the rollup as it is.
LEMMA NoTokensMoved ==
  ASSUME WorkType, NEW f, SetFate({}, f), MoveTokens({}, f)
  PROVE  UNCHANGED <<fate, rollup>>
  <1>1. Moved({}, f) = {}
    BY DEF Moved
  <1>2. \A g : {u \in Moved({}, f) : fate[u] = g} = {}
    BY <1>1
  <1>3. Cardinality({}) = 0
    BY FS_EmptySet
  <1>4. \A g \in Fates : rollup'[g] = rollup[g]
    <2> SUFFICES ASSUME NEW g \in Fates
                 PROVE  rollup'[g] = rollup[g]
        OBVIOUS
    <2>1. rollup'[g] = rollup[g] - 0 + IF g = f THEN 0 ELSE 0
      BY <1>1, <1>2, <1>3 DEF MoveTokens
    <2> QED BY <2>1 DEF WorkType
  <1>5. rollup' = rollup
    BY <1>4 DEF MoveTokens, WorkType
  <1> QED BY <1>5 DEF SetFate, WorkType

\* What holds when the run is over: no command but an election, and the end
\* of a genesis publication, finds anything to do.
LEMMA FinishedStep ==
  ASSUME TypeOK, WorkAgrees, CloseInv, [Next]_vars, ctl.state \in Closed
  PROVE  /\ UNCHANGED <<version, binding, progress, receipt, service>>
         /\ UNCHANGED workVars /\ UNCHANGED closeVars
  <1> DEFINE Kept == /\ UNCHANGED <<version, binding, progress, receipt, service>>
                     /\ UNCHANGED workVars /\ UNCHANGED closeVars
  <1>0. WorkType /\ RestType
    BY TypeParts
  <1>1. /\ version >= 0 /\ version # -1
        /\ \A l \in Learners : binding[l].status # "active"
        /\ \A u \in Slots : update[u].status \notin Active
    BY <1>0 DEF CloseInv, NothingOpen, RestType
  <1>2. ctl.state \notin {"open", "preclosing"} /\ ctl.state \notin Closing
    BY DEF Closed, Closing
  <1>3. \A b \in Batches : batch[b].state \notin Live
    <2> SUFFICES ASSUME NEW b \in Batches, batch[b].state \in Live
                 PROVE  FALSE
        OBVIOUS
    <2>1. PICK u \in batch[b].members : update[u].status = "selected"
      BY DEF WorkAgrees, BatchAgreement
    <2>2. u \in Slots
      BY <1>0 DEF WorkType, BatchRows
    <2> QED BY <1>1, <2>1, <2>2 DEF Active
  <1>4. \A b \in Batches : intent[b].state # "prepared"
    BY <1>3 DEF WorkAgrees, IntentAgreement, Live
  <1>5. ASSUME NEW quorum \in {1, QuorumMin}, TrySelectBatch(quorum) PROVE Kept
    <2>1. Candidates = {}
      BY <1>1 DEF Candidates, Pending, Active
    <2>2. Eligible = {} /\ Chosen = {}
      BY <2>1 DEF Eligible, Chosen
    <2>3. ~Quorate(quorum)
      <3>1. Cardinality({}) = 0
        BY FS_EmptySet
      <3> QED BY <2>2, <3>1, AuthorityAssumption DEF Quorate
    <2>4. /\ SetFate({}, "dropped") /\ MoveTokens({}, "dropped")
          /\ UNCHANGED <<batch, intent>> /\ UNCHANGED closeVars
          /\ UNCHANGED <<version, binding, progress, receipt, service>>
          /\ update' = [u \in Slots |-> update[u]]
      BY <1>5, <2>1, <2>2, <2>3 DEF TrySelectBatch
    <2>5. update' = update
      BY <1>0, <2>4 DEF WorkType
    <2> QED BY <1>0, <2>4, <2>5, NoTokensMoved DEF workVars
  <1>6. CASE ReconcilePublications
    <2>1. Predecessors = {}
      BY <1>4 DEF Predecessors
    <2>2. Members({}) = {} /\ Rejected({}, {}) = {} /\ Returned({}, {}) = {}
      BY DEF Members, Rejected, Returned
    <2>3. /\ AbandonBatches({}) /\ SettleUpdates({}, {})
          /\ SetFate({}, "dropped") /\ MoveTokens({}, "dropped")
      BY <1>6, <2>1, <2>2 DEF ReconcilePublications, ReconcileBatches
    <2>4. UNCHANGED <<update, batch, intent>>
      BY <1>0, <2>3 DEF WorkType, AbandonBatches, AbandonIntents, SettleUpdates
    <2> QED BY <1>0, <1>6, <2>3, <2>4, NoTokensMoved DEF ReconcilePublications, workVars
  <1>7. ASSUME NEW u \in Slots, IngestProposal(u) PROVE FALSE
    BY <1>1, <1>7, SlotParts DEF IngestProposal, Current, FenceCurrent
  <1> QED
    BY <1>1, <1>2, <1>3, <1>4, <1>5, <1>6, <1>7
       DEF Next, Membership, Merging, Terminating, AcquireLeader, BindAttempt,
           MarkTerminal, IngestReceipt, PrepareGenesis, CommitGenesis, AbandonGenesis,
           PreparePublication, CommitMerge, AbandonPublication, BeginPreclose, BeginClose,
           HardCrash, Acknowledge, FinalizeTerminal, Awaits, Live, workVars, closeVars,
           vars

\* A finished run is final, whoever leads and whatever is still found.
THEOREM AuthorityFinishedForEver == Spec => FinishedForEver
  <1>1. TypeOK /\ WorkAgrees /\ CloseInv /\ [Next]_vars =>
          [ctl.state \in Closed =>
             /\ UNCHANGED <<version, binding, progress, receipt, service>>
             /\ UNCHANGED workVars /\ UNCHANGED closeVars]_vars
    BY FinishedStep
  <1> QED BY <1>1, CloseInvariant, PTL DEF Spec, FinishedForEver

-----------------------------------------------------------------------------
(* The token ledger, the chain of versions and the fairness state agree    *)
(* with the contributors' work.  First, how tokens are counted.            *)

WithFate(f) == {u \in Slots : fate[u] = f}

\* The rollup counts the slots of each fate.
Counted == \A f \in Fates : rollup[f] = Cardinality(WithFate(f))

\* Slots that change their fate change the column they are counted in.
LEMMA CountMoved ==
  ASSUME WorkType, Counted, NEW S \in SUBSET Slots, NEW f \in Fates,
         SetFate(S, f), MoveTokens(S, f)
  PROVE  Counted'
  <1> DEFINE M == Moved(S, f)
             From(g) == {u \in M : fate[u] = g}
             After(g) == {u \in Slots : fate'[u] = g}
  <1>1. M \in SUBSET Slots /\ \A u \in M : u \in S /\ fate[u] # f
    BY DEF Moved
  <1>2. \A g : WithFate(g) \in SUBSET Slots /\ From(g) \in SUBSET Slots
    BY <1>1 DEF WithFate
  <1>3. \A u \in Slots : fate'[u] = IF u \in M THEN f ELSE fate[u]
    BY DEF SetFate, Moved
  <1>4. \A g \in Fates : rollup'[g] = rollup[g] - Cardinality(From(g))
                                       + IF g = f THEN Cardinality(M) ELSE 0
    BY DEF MoveTokens
  <1>5. IsFiniteSet(M) /\ Cardinality(M) \in Nat
    BY <1>1, SlotsCount
  <1>6. \A g : /\ IsFiniteSet(WithFate(g)) /\ Cardinality(WithFate(g)) \in Nat
               /\ IsFiniteSet(From(g)) /\ Cardinality(From(g)) \in Nat
    BY <1>2, SlotsCount
  <1> HIDE DEF M, From, After
  <1>7. ASSUME NEW g \in Fates PROVE rollup'[g] = Cardinality(After(g))
    <2>1. rollup[g] = Cardinality(WithFate(g))
      BY DEF Counted
    <2>2. CASE g = f
      <3>1. From(g) = {} /\ WithFate(g) \cap M = {}
        BY <1>1, <2>2 DEF WithFate, From
      <3>2. After(g) = WithFate(g) \cup M
        BY <1>1, <1>3, <2>2 DEF WithFate, After
      <3>3. Cardinality(WithFate(g) \cup M)
              = Cardinality(WithFate(g)) + Cardinality(M) - Cardinality(WithFate(g) \cap M)
        BY <1>5, <1>6, FS_Union
      <3>4. Cardinality(From(g)) = 0 /\ Cardinality(WithFate(g) \cap M) = 0
        BY <3>1, FS_EmptySet
      <3>5. Cardinality(After(g)) = Cardinality(WithFate(g)) + Cardinality(M)
        BY <1>5, <1>6, <3>2, <3>3, <3>4
      <3>6. rollup'[g] = rollup[g] - Cardinality(From(g)) + Cardinality(M)
        BY <1>4, <2>2
      <3> QED BY <1>5, <1>6, <2>1, <3>4, <3>5, <3>6
    <2>3. CASE g # f
      <3>1. After(g) = WithFate(g) \ From(g) /\ WithFate(g) \cap From(g) = From(g)
        BY <1>1, <1>3, <2>3 DEF WithFate, From, After
      <3>2. Cardinality(WithFate(g) \ From(g))
              = Cardinality(WithFate(g)) - Cardinality(WithFate(g) \cap From(g))
        BY <1>6, FS_Difference
      <3>3. Cardinality(After(g)) = Cardinality(WithFate(g)) - Cardinality(From(g))
        BY <3>1, <3>2
      <3>4. rollup'[g] = rollup[g] - Cardinality(From(g)) + 0
        BY <1>4, <2>3
      <3> QED BY <1>6, <2>1, <3>3, <3>4
    <2> QED BY <2>2, <2>3
  <1> QED BY <1>7 DEF Counted, WithFate, After

-----------------------------------------------------------------------------
(* What the row of a slot says.                                            *)

RowAgrees(u) ==
    /\ fate[u] = "none" <=> receipt[u].gen = 0
    /\ fate[u] = "unpublished" <=> receipt[u].gen # 0 /\ ~receipt[u].expected
    /\ fate[u] = "applied" <=> update[u].status = "applied"
    /\ fate[u] = "dropped" => update[u].status \in {"none", "dropped"}
    /\ update[u].status = "dropped" => fate[u] = "dropped"
    /\ update[u].status # "none" => receipt[u].gen # 0 /\ receipt[u].expected
    /\ receipt[u].gen <= binding[Key(u)].gen
    /\ receipt[u].gen # 0 => Cycle(u) <= progress[Key(u)]

RowsAgree == \A u \in Slots : RowAgrees(u)

\* Tokens are outstanding for the current attempt only.
Owed == \A u \in Slots : fate[u] = "outstanding" => Current(u)

\* What the current attempt promised is given up by its acknowledgement only,
\* and then it is not the final update.
GivenUp ==
    \A u \in Slots : fate[u] = "dropped" /\ update[u].status = "none" /\ Current(u) =>
        /\ ctl.state \in Closing
        /\ frozen[Key(u)].state = "acked" /\ frozen[Key(u)].final # Cycle(u)

LedgerInv == Counted /\ RowsAgree /\ Owed /\ GivenUp

\* An update that may still be settled: not settled yet, or expected.
Unsettled(u) ==
    /\ fate[u] = "outstanding" /\ receipt[u].gen # 0 /\ receipt[u].expected
    /\ update[u].status \in Active \cup {"none"}

\* What a command may do to the row of a slot that has no new receipt.
RowStep(u) ==
    \/ update'[u] = update[u] /\ fate'[u] = fate[u]
    \/ /\ Unsettled(u)
       /\ \/ update'[u].status \in Active /\ fate'[u] = fate[u]
          \/ update'[u].status \in {"applied", "dropped"} /\ fate'[u] = update'[u].status
          \/ update[u].status = "none" /\ update'[u] = update[u] /\ fate'[u] = "dropped"

\* A row without a receipt is not touched but by its receipt.
RowsStep == \A u \in Slots : RowStep(u) \/ (fate[u] = "none" /\ update'[u] = update[u])

\* A promised update that has not arrived is still expected.
KeepsPromise(u) == update'[u].status = "none" => fate'[u] = fate[u]

\* Rows that agree tell what is unsettled.
LEMMA UnsettledRows ==
  ASSUME WorkType, RowsAgree, NEW u \in Slots
  PROVE  /\ update[u].status \in Active => Unsettled(u)
         /\ fate[u] = "outstanding" => Unsettled(u)
  <1>1. fate[u] \in Fates \cup {"none"} /\ update[u].status \in Active \cup {"none", "applied", "dropped"}
    BY DEF WorkType, Updates
  <1>2. RowAgrees(u)
    BY DEF RowsAgree
  <1> QED BY <1>1, <1>2 DEF RowAgrees, Unsettled, Fates, Active

\* Settling updates settles the tokens of their receipts with them.
LEMMA SettleRows ==
  ASSUME WorkType, RowsAgree, NEW D, NEW S, NEW back,
         SettleUpdates(D, back), SetFate(S, "dropped"), D \subseteq S,
         \A u \in Slots : u \in D \cup back => Unsettled(u),
         \A u \in Slots : u \in S \ D => fate[u] = "outstanding" /\ update[u].status \notin Active,
         back \cap S \subseteq D
  PROVE  \A u \in Slots :
           /\ RowStep(u)
           /\ u \in S => fate'[u] = "dropped"
           /\ u \notin S => fate'[u] = fate[u]
           /\ u \in D => update'[u].status = "dropped"
  <1> SUFFICES ASSUME NEW u \in Slots
               PROVE  /\ RowStep(u)
                      /\ u \in S => fate'[u] = "dropped"
                      /\ u \notin S => fate'[u] = fate[u]
                      /\ u \in D => update'[u].status = "dropped"
      OBVIOUS
  <1>1. fate'[u] = IF u \in S THEN "dropped" ELSE fate[u]
    BY DEF SetFate
  <1>2. CASE u \in D
    <2>1. update'[u].status = "dropped"
      BY <1>2, SettledRow
    <2> QED BY <1>1, <1>2, <2>1 DEF RowStep
  <1>3. CASE u \notin D /\ u \in back
    <2>1. update'[u].status = "pending" /\ u \notin S
      BY <1>3, SettledRow
    <2> QED BY <1>1, <1>3, <2>1 DEF RowStep, Active
  <1>4. CASE u \notin D /\ u \notin back
    <2>1. update'[u] = update[u]
      BY <1>4, SettledRow
    <2>2. u \in S => Unsettled(u) /\ update[u].status = "none"
      BY <1>4, UnsettledRows DEF Unsettled
    <2>3. RowStep(u)
      <3>1. CASE u \in S
        BY <1>1, <2>1, <2>2, <3>1 DEF RowStep
      <3>2. CASE u \notin S
        BY <1>1, <2>1, <3>2 DEF RowStep
      <3> QED BY <3>1, <3>2
    <2> QED BY <1>1, <1>4, <2>3
  <1> QED BY <1>2, <1>3, <1>4

\* A fence that ends takes with it what its attempt had outstanding.
LEMMA TerminalizeRows ==
  ASSUME WorkType, Counted, RowsAgree, NEW L, NEW P, Terminalize(L, P)
  PROVE  /\ Counted'
         /\ \A u \in Slots :
              /\ RowStep(u)
              /\ u \in FenceSlots(L, P) => fate'[u] # "outstanding"
              /\ update'[u].status = "none" /\ fate'[u] # fate[u] => u \in FenceSlots(L, P)
  <1> DEFINE B == AffectedBatches(L, P)
             A == Affected(L, P)
             D == Dropped(L, P)
             O == OrphanReceipts(L, P)
  <1>1. D \in SUBSET Slots /\ O \in SUBSET Slots
    BY DroppedAreSlots
  <1>2. \A u \in D \cup Returned(B, A) : update[u].status \in Active
    BY DEF Dropped, Affected, Rejected, Returned, Active
  <1>3. \A u \in O : fate[u] = "outstanding" /\ update[u].status \notin Active
    BY DEF OrphanReceipts
  <1>4. \A u \in Slots : u \in FenceSlots(L, P) =>
          u \in D \cup O \/ fate[u] # "outstanding"
    BY DEF Dropped, Affected, OrphanReceipts
  <1>5. /\ SettleUpdates(D, Returned(B, A)) /\ SetFate(D \cup O, "dropped")
        /\ MoveTokens(D \cup O, "dropped")
    BY DEF Terminalize
  <1>6. Returned(B, A) \cap (D \cup O) \subseteq D
    BY <1>2, <1>3
  <1>7. "dropped" \in Fates
    BY DEF Fates
  <1>10. O \subseteq FenceSlots(L, P)
    BY DEF OrphanReceipts
  <1> HIDE DEF B, A, D, O
  <1>8. Counted'
    BY <1>1, <1>5, <1>7, CountMoved
  <1>9. \A u \in Slots :
          /\ RowStep(u)
          /\ u \in D \cup O => fate'[u] = "dropped"
          /\ u \notin D \cup O => fate'[u] = fate[u]
          /\ u \in D => update'[u].status = "dropped"
    BY <1>1, <1>2, <1>3, <1>5, <1>6, SettleRows, UnsettledRows
  <1> QED BY <1>4, <1>8, <1>9, <1>10

\* So do batches that are reconciled.
LEMMA ReconcileRows ==
  ASSUME WorkType, Counted, RowsAgree, NEW B \in SUBSET Batches, NEW invalid,
         ReconcileBatches(B, invalid)
  PROVE  Counted' /\ \A u \in Slots : RowStep(u) /\ KeepsPromise(u)
  <1> DEFINE D == Rejected(B, invalid)
  <1>1. D \in SUBSET Slots
    BY MembersAreSlots DEF Rejected
  <1>2. \A u \in D \cup Returned(B, invalid) : update[u].status \in Active
    BY DEF Rejected, Returned, Active
  <1>3. Returned(B, invalid) \cap D \subseteq D
    OBVIOUS
  <1>4. /\ SettleUpdates(D, Returned(B, invalid)) /\ SetFate(D, "dropped")
        /\ MoveTokens(D, "dropped")
    BY DEF ReconcileBatches
  <1>5. "dropped" \in Fates
    BY DEF Fates
  <1> HIDE DEF D
  <1>6. Counted'
    BY <1>1, <1>4, <1>5, CountMoved
  <1>7. \A u \in Slots :
          /\ RowStep(u)
          /\ u \notin D => fate'[u] = fate[u]
          /\ u \in D => update'[u].status = "dropped"
    BY <1>1, <1>2, <1>3, <1>4, SettleRows, UnsettledRows
  <1> QED BY <1>6, <1>7 DEF KeepsPromise

\* A proposal is of an update that is still expected.
LEMMA ProposalRows ==
  ASSUME TypeOK, LiveInv, LedgerInv, NEW u \in Slots, IngestProposal(u)
  PROVE  Counted' /\ \A v \in Slots : RowStep(v) /\ KeepsPromise(v)
  <1> DEFINE older == {v \in Others(u) : Pending(v) /\ Cycle(v) < Cycle(u)}
             newer == {v \in Others(u) : Pending(v) /\ Cycle(v) > Cycle(u)}
             D == older \cup IF newer # {} THEN {u} ELSE {}
  <1>0. WorkType /\ RowsAgree
    BY TypeParts DEF LedgerInv
  <1>1. D \in SUBSET Slots /\ \A v \in D : v = u \/ update[v].status \in Active
    BY DEF Others, Pending, Active
  <1>2. /\ SettleUpdates(D, {u}) /\ SetFate(D, "dropped") /\ MoveTokens(D, "dropped")
    BY DEF IngestProposal
  <1>3. Unsettled(u)
    <2>1. /\ receipt[u].expected /\ Current(u) /\ InputAllowed(u, TRUE)
          /\ update[u].status = "none"
      BY DEF IngestProposal, Unseen
    <2>2. receipt[u].gen # 0
      BY <2>1, SlotParts DEF LiveInv, BindingsMade, Current, FenceCurrent
    <2>3. fate[u] # "dropped"
      BY <2>1 DEF LedgerInv, GivenUp, InputAllowed, Closing
    <2>4. RowAgrees(u) /\ fate[u] \in Fates \cup {"none"}
      BY <1>0 DEF RowsAgree, WorkType
    <2> QED BY <2>1, <2>2, <2>3, <2>4 DEF RowAgrees, Unsettled, Fates
  <1>4. "dropped" \in Fates
    BY DEF Fates
  <1> HIDE DEF D
  <1>5. Counted'
    BY <1>0, <1>1, <1>2, <1>4, CountMoved DEF LedgerInv
  <1>6. \A v \in Slots : v \in D \cup {u} => Unsettled(v)
    BY <1>0, <1>1, <1>3, UnsettledRows
  <1>7. {u} \cap D \subseteq D
    OBVIOUS
  <1>8. \A v \in Slots :
          /\ RowStep(v)
          /\ v \notin D => fate'[v] = fate[v]
          /\ v \in D => update'[v].status = "dropped"
    BY <1>0, <1>2, <1>6, <1>7, SettleRows
  <1> QED BY <1>5, <1>8 DEF KeepsPromise

\* Selection drops stale candidates with their tokens.
LEMMA SelectRows ==
  ASSUME TypeOK, LedgerInv, NEW quorum, TrySelectBatch(quorum)
  PROVE  Counted' /\ \A u \in Slots : RowStep(u) /\ KeepsPromise(u)
  <1> DEFINE stale == Candidates \ Eligible
             picked == IF Quorate(quorum) THEN Chosen ELSE {}
  <1>0. WorkType /\ RowsAgree
    BY TypeParts DEF LedgerInv
  <1>1. /\ stale \in SUBSET Slots /\ picked \cap stale = {}
        /\ \A u \in picked \cup stale : update[u].status \in Active
    BY DEF Candidates, Eligible, Chosen, Pending, Active
  <1>2. SetFate(stale, "dropped") /\ MoveTokens(stale, "dropped")
    BY DEF TrySelectBatch
  <1>3. PICK b \in Batches :
          update' = [u \in Slots |->
                       IF u \in picked
                         THEN [update[u] EXCEPT !.status = "selected", !.batch = b]
                       ELSE IF u \in stale
                         THEN [update[u] EXCEPT !.status = "dropped", !.batch = 0]
                       ELSE update[u]]
    BY DEF TrySelectBatch
  <1>4. "dropped" \in Fates
    BY DEF Fates
  <1> HIDE DEF stale, picked
  <1>5. Counted'
    BY <1>0, <1>1, <1>2, <1>4, CountMoved DEF LedgerInv
  <1>6. \A u \in Slots : fate'[u] = IF u \in stale THEN "dropped" ELSE fate[u]
    BY <1>2 DEF SetFate
  <1>7. \A u \in Slots :
          /\ u \in picked => update'[u].status = "selected"
          /\ u \in stale => update'[u].status = "dropped"
          /\ u \notin picked \cup stale => update'[u] = update[u]
    BY <1>0, <1>1, <1>3 DEF WorkType, Updates
  <1>8. \A u \in Slots : u \in picked \cup stale => Unsettled(u)
    BY <1>0, <1>1, UnsettledRows
  <1> QED BY <1>1, <1>5, <1>6, <1>7, <1>8 DEF RowStep, KeepsPromise, Active

\* A batch that is applied applies the tokens of its members.
LEMMA ApplyRows ==
  ASSUME TypeOK, WorkAgrees, LedgerInv, NEW b \in Batches, batch[b].state \in Live,
         ApplyBatch(b)
  PROVE  Counted' /\ \A u \in Slots : RowStep(u) /\ KeepsPromise(u)
  <1> DEFINE S == batch[b].members
  <1>0. WorkType /\ RowsAgree
    BY TypeParts DEF LedgerInv
  <1>1. S \in SUBSET Slots /\ \A u \in S : update[u].status \in Active
    BY <1>0 DEF WorkType, BatchRows, WorkAgrees, BatchAgreement, Active
  <1>2. /\ SetFate(S, "applied") /\ MoveTokens(S, "applied")
        /\ update' = [u \in Slots |->
                         IF u \in S
                           THEN [update[u] EXCEPT !.status = "applied",
                                                  !.applied = batch[b].target]
                           ELSE update[u]]
    BY DEF ApplyBatch
  <1>3. "applied" \in Fates
    BY DEF Fates
  <1> HIDE DEF S
  <1>4. Counted'
    BY <1>0, <1>1, <1>2, <1>3, CountMoved DEF LedgerInv
  <1>5. \A u \in Slots : fate'[u] = IF u \in S THEN "applied" ELSE fate[u]
    BY <1>2 DEF SetFate
  <1>6. \A u \in Slots : /\ u \in S => update'[u].status = "applied"
                         /\ u \notin S => update'[u] = update[u]
    BY <1>0, <1>2 DEF WorkType, Updates
  <1>7. \A u \in Slots : u \in S => Unsettled(u)
    BY <1>0, <1>1, UnsettledRows
  <1> QED BY <1>4, <1>5, <1>6, <1>7 DEF RowStep, KeepsPromise

\* The receipt of the next cycle starts a row of its own.
LEMMA ReceiptRows ==
  ASSUME TypeOK, LiveInv, LedgerInv, NEW l \in Learners, NEW expected \in BOOLEAN,
         IngestReceipt(l, expected)
  PROVE  LedgerInv' /\ RowsStep
  <1> DEFINE u == <<l, progress[l] + 1>>
             f == IF expected THEN "outstanding" ELSE "unpublished"
  <1>0. WorkType /\ RestType
    BY TypeParts
  <1>1. /\ binding[l].status = "active" /\ progress[l] < MaxCycle
        /\ receipt' = [receipt EXCEPT ![u] = [gen |-> binding[l].gen,
                                             expected |-> expected]]
        /\ progress' = [progress EXCEPT ![l] = progress[l] + 1]
        /\ fate' = [fate EXCEPT ![u] = f]
        /\ rollup' = [rollup EXCEPT ![f] = rollup[f] + 1]
        /\ UNCHANGED <<binding, update, ctl, frozen>>
    BY DEF IngestReceipt, closeVars
  <1>2. /\ u \in Slots /\ Key(u) = l /\ Cycle(u) = progress[l] + 1
        /\ progress[l] \in Nat /\ binding[l].gen # 0 /\ f \in Fates
    <2>1. progress[l] \in 0 .. MaxCycle /\ MaxCycle \in Nat
      BY <1>0, AuthorityAssumption DEF RestType
    <2>2. progress[l] \in Nat /\ progress[l] + 1 \in Cycles
      BY <1>1, <2>1 DEF Cycles
    <2>3. u \in Slots
      BY <2>2 DEF Slots
    <2>4. binding[l].gen # 0
      BY <1>1 DEF LiveInv, BindingsMade
    <2> QED BY <2>2, <2>3, <2>4 DEF Key, Cycle, Fates
  <1>3. receipt[u].gen = 0 /\ fate[u] = "none" /\ update[u].status = "none"
    BY <1>2 DEF LedgerInv, RowsAgree, RowAgrees
  <1>4. /\ receipt'[u].gen = binding[l].gen /\ receipt'[u].expected = expected
        /\ fate'[u] = f
        /\ \A v \in Slots : v # u => receipt'[v] = receipt[v] /\ fate'[v] = fate[v]
        /\ progress'[l] = progress[l] + 1
        /\ \A k \in Learners : progress[k] <= progress'[k]
    BY <1>0, <1>1, <1>2 DEF WorkType, RestType
  <1>5. SetFate({u}, f)
    <2>1. fate' = [v \in Slots |-> IF v = u THEN f ELSE fate[v]]
      BY <1>0, <1>1, <1>2 DEF WorkType
    <2> QED BY <2>1 DEF SetFate
  <1> HIDE DEF u
  <1>6. MoveTokens({u}, f)
    <2>1. Moved({u}, f) = {u}
      BY <1>2, <1>3 DEF Moved, Fates
    <2>2. ASSUME NEW g \in Fates
          PROVE  rollup'[g] = rollup[g] - Cardinality({v \in Moved({u}, f) : fate[v] = g})
                                + IF g = f THEN Cardinality(Moved({u}, f)) ELSE 0
      <3>1. {v \in Moved({u}, f) : fate[v] = g} = {}
        BY <1>3, <2>1 DEF Fates
      <3>2. /\ Cardinality({v \in Moved({u}, f) : fate[v] = g}) = 0
            /\ Cardinality(Moved({u}, f)) = 1
        BY <2>1, <3>1, FS_EmptySet, FS_Singleton
      <3>3. rollup'[g] = IF g = f THEN rollup[g] + 1 ELSE rollup[g]
        BY <1>0, <1>1, <1>2 DEF WorkType
      <3>4. rollup[g] \in Int
        BY <1>0 DEF WorkType
      <3> QED BY <3>2, <3>3, <3>4
    <2>3. DOMAIN rollup' = Fates
      BY <1>0, <1>1 DEF WorkType
    <2>4. rollup' = [g \in Fates |-> rollup'[g]]
      BY <1>0, <1>1 DEF WorkType
    <2> QED BY <2>2, <2>4 DEF MoveTokens
  <1>7. Counted'
    BY <1>0, <1>2, <1>5, <1>6, CountMoved DEF LedgerInv
  <1>8. ASSUME NEW v \in Slots PROVE RowAgrees(v)'
    <2>1. RowAgrees(v) /\ Key(v) \in Learners /\ Cycle(v) \in Nat
      BY SlotParts DEF LedgerInv, RowsAgree, Cycles
    <2>2. progress[Key(v)] \in Nat /\ progress'[Key(v)] \in Nat
      BY <1>0, <1>1, <1>2, <2>1 DEF RestType
    <2>3. CASE v = u
      <3>1. binding[l].gen \in Nat
        BY <1>0 DEF RestType
      <3> QED BY <1>1, <1>2, <1>3, <1>4, <2>3, <3>1 DEF RowAgrees, Key, Cycle
    <2>4. CASE v # u
      <3>1. /\ receipt'[v] = receipt[v] /\ fate'[v] = fate[v] /\ update'[v] = update[v]
            /\ binding'[Key(v)] = binding[Key(v)] /\ progress[Key(v)] <= progress'[Key(v)]
        BY <1>1, <1>4, <2>1, <2>4
      <3> QED BY <2>1, <2>2, <3>1 DEF RowAgrees, Key, Cycle
    <2> QED BY <2>3, <2>4
  <1>9. ASSUME NEW v \in Slots
        PROVE  /\ fate'[v] = "outstanding" => Current(v)'
               /\ fate'[v] = "dropped" /\ update'[v].status = "none" /\ Current(v)' =>
                    /\ ctl'.state \in Closing
                    /\ frozen'[Key(v)].state = "acked" /\ frozen'[Key(v)].final # Cycle(v)
    <2>1. CASE v = u
      BY <1>1, <1>2, <1>4, <2>1 DEF Current, FenceCurrent, Key
    <2>2. CASE v # u
      <3>1. receipt'[v] = receipt[v] /\ fate'[v] = fate[v]
        BY <1>4, <2>2
      <3> QED BY <1>1, <3>1 DEF LedgerInv, Owed, GivenUp, Current, FenceCurrent, Key, Cycle
    <2> QED BY <2>1, <2>2
  <1>10. RowsStep
    BY <1>1, <1>3, <1>4 DEF RowsStep, RowStep
  <1> QED BY <1>7, <1>8, <1>9, <1>10 DEF LedgerInv, RowsAgree, Owed, GivenUp, Key, Cycle

\* What the binding and the count of a contributor may do in one command.
LEMMA BindingStep ==
  ASSUME TypeOK, [Next]_vars, NEW l \in Learners
  PROVE  /\ binding[l].gen \in Nat /\ binding'[l].gen \in Nat
         /\ binding[l].gen <= binding'[l].gen
         /\ binding'[l].status = "active" =>
              binding'[l] = binding[l] \/ binding'[l].gen = binding[l].gen + 1
         /\ progress[l] \in Nat /\ progress'[l] \in Nat /\ progress[l] <= progress'[l]
  <1>0. RestType
    BY TypeParts
  <1>1. binding[l].gen \in Nat /\ progress[l] \in Nat
    BY <1>0 DEF RestType
  <1>2. ASSUME NEW L, binding' = Ended(L)
        PROVE  /\ binding'[l].gen = binding[l].gen
               /\ binding'[l].status = "active" => binding'[l] = binding[l]
    BY <1>0, <1>2 DEF Ended, RestType
  <1>3. ASSUME NEW k \in Learners, BindAttempt(k)
        PROVE  /\ binding'[l] = binding[l] \/ binding'[l].gen = binding[l].gen + 1
               /\ UNCHANGED progress
    BY <1>0, <1>3 DEF BindAttempt, RestType
  <1>4. ASSUME NEW k \in Learners, MarkTerminal(k)
        PROVE  /\ binding'[l].gen = binding[l].gen
               /\ binding'[l].status = "active" => binding'[l] = binding[l]
               /\ UNCHANGED progress
    BY <1>0, <1>4 DEF MarkTerminal, RestType
  <1>5. ASSUME NEW k \in Learners, NEW expected \in BOOLEAN, IngestReceipt(k, expected)
        PROVE  UNCHANGED binding /\ progress'[l] \in {progress[l], progress[l] + 1}
    BY <1>0, <1>5 DEF IngestReceipt, RestType
  <1>6. CASE UNCHANGED progress /\ \E L : binding' = Ended(L)
    BY <1>1, <1>2, <1>6
  <1>7. CASE UNCHANGED <<binding, progress>>
    BY <1>1, <1>7
  <1>8. ASSUME NEW error \in BOOLEAN, FinalizeTerminal(error)
        PROVE  UNCHANGED progress /\ \E L : binding' = Ended(L)
    <2>1. UNCHANGED progress
      BY <1>8 DEF FinalizeTerminal
    <2> QED BY <1>8, <2>1 DEF FinalizeTerminal
  <1>9. ASSUME NEW k \in Learners, HardCrash(k)
        PROVE  UNCHANGED progress /\ \E L : binding' = Ended(L)
    BY <1>9 DEF HardCrash
  <1>10. CASE UNCHANGED vars
    BY <1>7, <1>10 DEF vars
  <1>11. CASE AcquireLeader \/ Merging \/ (\E u \in Slots : IngestProposal(u))
    <2>1. UNCHANGED <<binding, progress>>
      BY <1>11
         DEF AcquireLeader, Merging, IngestProposal, TrySelectBatch, PrepareGenesis,
             CommitGenesis, AbandonGenesis, PreparePublication, CommitMerge,
             AbandonPublication, ReconcilePublications
    <2> QED BY <1>7, <2>1
  <1>12. CASE Membership
    <2>1. ASSUME NEW k \in Learners, BindAttempt(k) \/ MarkTerminal(k)
          PROVE  /\ binding[l].gen <= binding'[l].gen /\ binding'[l].gen \in Nat
                 /\ binding'[l].status = "active" =>
                      binding'[l] = binding[l] \/ binding'[l].gen = binding[l].gen + 1
                 /\ UNCHANGED progress
      BY <1>1, <1>3, <1>4, <2>1
    <2> QED BY <1>1, <1>5, <1>12, <2>1 DEF Membership
  <1>13. CASE Terminating
    <2>1. CASE BeginPreclose \/ BeginClose \/ \E k \in Learners : Acknowledge(k)
      <3>1. UNCHANGED <<binding, progress>>
        BY <2>1 DEF BeginPreclose, BeginClose, Acknowledge
      <3> QED BY <1>7, <3>1
    <2> QED BY <1>6, <1>8, <1>9, <1>13, <2>1 DEF Terminating
  <1> QED BY <1>10, <1>11, <1>12, <1>13 DEF Next

\* Rows keep agreeing when their receipts stay, and no row comes to belong to
\* the current attempt or to be owed.
LEMMA RowsKept ==
  ASSUME TypeOK, RowsAgree, [Next]_vars, UNCHANGED receipt, \A u \in Slots : RowStep(u)
  PROVE  /\ RowsAgree'
         /\ \A u \in Slots :
              /\ Current(u)' => Current(u) /\ binding'[Key(u)] = binding[Key(u)]
              /\ fate'[u] = "outstanding" =>
                   fate[u] = "outstanding" /\ receipt[u].gen # 0
  <1> SUFFICES ASSUME NEW u \in Slots
               PROVE  /\ RowAgrees(u)'
                      /\ Current(u)' => Current(u) /\ binding'[Key(u)] = binding[Key(u)]
                      /\ fate'[u] = "outstanding" =>
                           fate[u] = "outstanding" /\ receipt[u].gen # 0
      BY DEF RowsAgree
  <1>1. RowAgrees(u) /\ RowStep(u) /\ Key(u) \in Learners /\ Cycle(u) \in Nat
    BY SlotParts DEF RowsAgree, Cycles
  <1>2. WorkType' /\ receipt[u].gen \in Nat
    BY TypeParts, TypeStep DEF RestType, WorkType, TypeOK, Updates, BatchRows, IntentRows
  <1>3. /\ receipt'[u].gen <= binding'[Key(u)].gen
        /\ receipt'[u].gen # 0 => Cycle(u) <= progress'[Key(u)]
    BY <1>1, <1>2, BindingStep DEF RowAgrees
  <1>4. Current(u)' => Current(u) /\ binding'[Key(u)] = binding[Key(u)]
    <2>1. Current(u)' =>
            binding'[Key(u)].status = "active" /\ binding'[Key(u)].gen = receipt[u].gen
      BY DEF Current, FenceCurrent, Key
    <2> QED BY <1>1, <1>2, <2>1, BindingStep DEF RowAgrees, Current, FenceCurrent
  <1>5. fate'[u] = "outstanding" => fate[u] = "outstanding" /\ receipt[u].gen # 0
    BY <1>1, <1>2 DEF RowStep, RowAgrees, Unsettled
  <1>6. RowAgrees(u)'
    <2>1. CASE update'[u] = update[u] /\ fate'[u] = fate[u]
      BY <1>1, <1>3, <2>1 DEF RowAgrees, Key, Cycle
    <2>2. CASE Unsettled(u) /\ update'[u].status \in Active /\ fate'[u] = fate[u]
      BY <1>1, <1>3, <2>2 DEF RowAgrees, Unsettled, Active, Key, Cycle
    <2>3. CASE /\ Unsettled(u)
               /\ update'[u].status \in {"applied", "dropped"} /\ fate'[u] = update'[u].status
      BY <1>1, <1>3, <2>3 DEF RowAgrees, Unsettled, Key, Cycle
    <2>4. CASE /\ Unsettled(u)
               /\ update[u].status = "none" /\ update'[u] = update[u] /\ fate'[u] = "dropped"
      BY <1>1, <1>3, <2>4 DEF RowAgrees, Unsettled, Key, Cycle
    <2> QED BY <1>1, <2>1, <2>2, <2>3, <2>4 DEF RowStep
  <1> QED BY <1>4, <1>5, <1>6

\* Every command keeps the ledger in agreement with the work, and does to the
\* rows of old receipts what RowStep says.
LEMMA LedgerStep ==
  ASSUME TypeOK, WorkAgrees, CloseInv, LiveInv, LedgerInv, [Next]_vars
  PROVE  LedgerInv' /\ RowsStep
  <1>0. WorkType /\ RestType /\ Counted /\ RowsAgree
    BY TypeParts DEF LedgerInv
  <1>u. UNCHANGED workVars => Counted' /\ \A u \in Slots : RowStep(u) /\ KeepsPromise(u)
    BY <1>0 DEF workVars, Counted, WithFate, RowStep, KeepsPromise
  \* Commands that leave every contributor's standing as it is.
  <1>c. ASSUME Counted', \A u \in Slots : RowStep(u) /\ KeepsPromise(u),
               UNCHANGED receipt, \A u \in Slots : Current(u) => Current(u)',
               \A l \in Learners : ctl.state \in Closing /\ frozen[l].state = "acked" =>
                 ctl'.state \in Closing /\ frozen'[l] = frozen[l]
        PROVE  LedgerInv' /\ RowsStep
    <2>1. RowsAgree'
      BY <1>0, <1>c, RowsKept
    <2>2. Owed'
      BY <1>0, <1>c, RowsKept DEF LedgerInv, Owed
    <2>3. ASSUME NEW u \in Slots,
                 fate'[u] = "dropped", update'[u].status = "none", Current(u)'
          PROVE  /\ ctl'.state \in Closing
                 /\ frozen'[Key(u)].state = "acked" /\ frozen'[Key(u)].final # Cycle(u)
      <3>1. Current(u) /\ fate[u] = "dropped" /\ update[u].status = "none"
        BY <1>0, <1>c, <2>3, RowsKept DEF KeepsPromise, RowStep, Unsettled
      <3> QED BY <1>c, <3>1, SlotParts DEF LedgerInv, GivenUp
    <2> QED BY <1>c, <2>1, <2>2, <2>3 DEF LedgerInv, GivenUp, RowsStep, Key, Cycle
  \* The fences of the learners in L end, and with them their bindings.
  <1>e. ASSUME NEW L, Terminalize(L, {}), UNCHANGED receipt,
               \A l \in Learners : l \notin L => binding'[l] = binding[l],
               \A l \in Learners : l \in L => binding'[l] # binding[l] \/ binding'[l].status # "active",
               \A l \in Learners :
                 /\ l \notin L /\ ctl.state \in Closing /\ frozen[l].state = "acked"
                 /\ binding[l].status = "active"
                 => ctl'.state \in Closing /\ frozen'[l] = frozen[l]
        PROVE  LedgerInv' /\ RowsStep
    <2>1. /\ Counted'
          /\ \A u \in Slots :
               /\ RowStep(u)
               /\ u \in FenceSlots(L, {}) => fate'[u] # "outstanding"
               /\ update'[u].status = "none" /\ fate'[u] # fate[u] => u \in FenceSlots(L, {})
      BY <1>0, <1>e, TerminalizeRows
    <2>2. /\ RowsAgree'
          /\ \A u \in Slots :
               /\ Current(u)' => Current(u) /\ binding'[Key(u)] = binding[Key(u)]
               /\ fate'[u] = "outstanding" => fate[u] = "outstanding" /\ receipt[u].gen # 0
      BY <1>0, <1>e, <2>1, RowsKept
    <2>3. ASSUME NEW u \in Slots, fate'[u] = "outstanding" PROVE Current(u)'
      <3>1. Current(u) /\ receipt[u].gen # 0 /\ Key(u) \in Learners
        BY <2>2, <2>3, SlotParts DEF LedgerInv, Owed
      <3>2. Key(u) \notin L
        BY <2>1, <2>3, <3>1 DEF FenceSlots, Current, FenceCurrent
      <3>3. binding'[Key(u)] = binding[Key(u)]
        BY <1>e, <3>1, <3>2
      <3> QED BY <1>e, <3>1, <3>3 DEF Current, FenceCurrent, Key
    <2>4. ASSUME NEW u \in Slots,
                 fate'[u] = "dropped", update'[u].status = "none", Current(u)'
          PROVE  /\ ctl'.state \in Closing
                 /\ frozen'[Key(u)].state = "acked" /\ frozen'[Key(u)].final # Cycle(u)
      <3>1. /\ Current(u) /\ binding'[Key(u)] = binding[Key(u)]
            /\ Key(u) \in Learners /\ binding'[Key(u)].status = "active"
        BY <2>2, <2>4, SlotParts DEF Current, FenceCurrent, Key
      <3>2. Key(u) \notin L
        BY <1>e, <3>1
      <3>3. fate[u] = "dropped"
        BY <2>1, <2>4, <3>2 DEF FenceSlots
      <3>4. update[u].status = "none"
        BY <2>1, <2>4, <3>3 DEF RowStep, Unsettled
      <3>5. /\ ctl.state \in Closing
            /\ frozen[Key(u)].state = "acked" /\ frozen[Key(u)].final # Cycle(u)
        BY <3>1, <3>3, <3>4 DEF LedgerInv, GivenUp
      <3> QED BY <1>e, <3>1, <3>2, <3>5
    <2> QED BY <2>1, <2>2, <2>3, <2>4 DEF LedgerInv, Owed, GivenUp, RowsStep, Key, Cycle
  \* The same commands while the close does not go on.
  <1>s. UNCHANGED <<receipt, binding, ctl, frozen>> =>
          /\ UNCHANGED receipt /\ \A u \in Slots : Current(u) => Current(u)'
          /\ \A l \in Learners : ctl.state \in Closing /\ frozen[l].state = "acked" =>
                ctl'.state \in Closing /\ frozen'[l] = frozen[l]
    BY DEF Current, FenceCurrent, Key
  <1>1. CASE UNCHANGED vars
    BY <1>1, <1>u, <1>s, <1>c DEF vars, workVars
  <1>2. CASE AcquireLeader
    BY <1>2, <1>u, <1>s, <1>c DEF AcquireLeader, closeVars
  <1>3. ASSUME NEW l \in Learners, BindAttempt(l) PROVE LedgerInv' /\ RowsStep
    <2>1. /\ binding' = [binding EXCEPT ![l] = [gen |-> binding[l].gen + 1,
                                               status |-> "active"]]
          /\ UNCHANGED <<receipt, ctl, frozen>>
      BY <1>3 DEF BindAttempt, closeVars
    <2>2. /\ binding'[l].gen = binding[l].gen + 1 /\ binding[l].gen \in Nat
          /\ \A k \in Learners : k # l => binding'[k] = binding[k]
      BY <1>0, <2>1 DEF RestType
    <2>3. binding'[l] # binding[l]
      BY <2>2
    <2>4. CASE binding[l].status = "active"
      <3>1. Terminalize({l}, {})
        BY <1>3, <2>4 DEF BindAttempt
      <3> QED BY <1>e, <2>1, <2>2, <2>3, <3>1
    <2>5. CASE binding[l].status # "active"
      <3>1. UNCHANGED workVars
        BY <1>3, <2>5 DEF BindAttempt
      <3>2. \A u \in Slots : Current(u) => Current(u)'
        BY <2>1, <2>2, <2>5, SlotParts DEF Current, FenceCurrent, Key
      <3> QED BY <1>u, <1>c, <2>1, <3>1, <3>2
    <2> QED BY <2>4, <2>5
  <1>4. ASSUME NEW l \in Learners, MarkTerminal(l) PROVE LedgerInv' /\ RowsStep
    <2>1. /\ Terminalize({l}, {}) /\ UNCHANGED <<receipt, ctl, frozen>>
          /\ binding' = [binding EXCEPT ![l].status = "terminal"]
      BY <1>4 DEF MarkTerminal, closeVars
    <2>2. /\ binding'[l].status # "active"
          /\ \A k \in Learners : k # l => binding'[k] = binding[k]
      BY <1>0, <2>1 DEF RestType
    <2> QED BY <1>e, <2>1, <2>2
  <1>5. ASSUME NEW l \in Learners, NEW expected \in BOOLEAN, IngestReceipt(l, expected)
        PROVE  LedgerInv' /\ RowsStep
    BY <1>5, ReceiptRows
  <1>6. ASSUME NEW u \in Slots, IngestProposal(u) PROVE LedgerInv' /\ RowsStep
    <2>1. Counted' /\ \A v \in Slots : RowStep(v) /\ KeepsPromise(v)
      BY <1>6, ProposalRows
    <2>2. UNCHANGED <<receipt, binding, ctl, frozen>>
      BY <1>6 DEF IngestProposal, closeVars
    <2> QED BY <1>s, <1>c, <2>1, <2>2
  <1>7. ASSUME NEW quorum, TrySelectBatch(quorum) PROVE LedgerInv' /\ RowsStep
    <2>1. Counted' /\ \A v \in Slots : RowStep(v) /\ KeepsPromise(v)
      BY <1>7, SelectRows
    <2>2. UNCHANGED <<receipt, binding, ctl, frozen>>
      BY <1>7 DEF TrySelectBatch, closeVars
    <2> QED BY <1>s, <1>c, <2>1, <2>2
  <1>8. CASE PrepareGenesis \/ \E e \in Epochs : CommitGenesis(e) \/ AbandonGenesis(e)
    <2>1. UNCHANGED workVars /\ UNCHANGED <<receipt, binding, ctl, frozen>>
      BY <1>8 DEF PrepareGenesis, CommitGenesis, AbandonGenesis, closeVars
    <2> QED BY <1>u, <1>s, <1>c, <2>1
  <1>9. ASSUME NEW b \in Batches, PreparePublication(b) PROVE LedgerInv' /\ RowsStep
    <2>1. UNCHANGED <<fate, rollup, update>> /\ UNCHANGED <<receipt, binding, ctl, frozen>>
      BY <1>9 DEF PreparePublication, closeVars
    <2>2. Counted' /\ \A u \in Slots : RowStep(u) /\ KeepsPromise(u)
      BY <1>0, <2>1 DEF Counted, WithFate, RowStep, KeepsPromise
    <2> QED BY <1>s, <1>c, <2>1, <2>2
  <1>10. ASSUME NEW B \in SUBSET Batches, NEW invalid, ReconcileBatches(B, invalid),
                UNCHANGED <<receipt, binding, ctl, frozen>>
         PROVE  LedgerInv' /\ RowsStep
    BY <1>0, <1>s, <1>c, <1>10, ReconcileRows
  <1>11. ASSUME NEW b \in Batches, AbandonPublication(b) PROVE LedgerInv' /\ RowsStep
    BY <1>10, <1>11 DEF AbandonPublication, closeVars
  <1>12. CASE ReconcilePublications
    BY <1>10, <1>12 DEF ReconcilePublications, Predecessors, closeVars
  <1>13. ASSUME NEW b \in Batches, NEW isTerminal \in BOOLEAN, CommitMerge(b, isTerminal)
         PROVE  LedgerInv' /\ RowsStep
    <2>1. batch[b].state \in Live /\ UNCHANGED <<receipt, binding, frozen>>
      BY <1>13 DEF CommitMerge, Live
    <2>2. CASE Invalid(b) = {}
      <3>1. ApplyBatch(b) /\ ctl'.state = ctl.state
        BY <1>0, <1>13, <2>2 DEF CommitMerge, RestType
      <3>2. Counted' /\ \A v \in Slots : RowStep(v) /\ KeepsPromise(v)
        BY <2>1, <3>1, ApplyRows
      <3>3. \A u \in Slots : Current(u) => Current(u)'
        BY <2>1 DEF Current, FenceCurrent, Key
      <3> QED BY <1>c, <2>1, <3>1, <3>2, <3>3
    <2>3. CASE Invalid(b) # {}
      BY <1>10, <1>13, <2>3 DEF CommitMerge
    <2> QED BY <2>2, <2>3
  <1>14. CASE BeginPreclose \/ BeginClose
    <2>1. /\ UNCHANGED workVars /\ UNCHANGED <<receipt, binding>>
          /\ ctl.state \notin Closing
      BY <1>14 DEF BeginPreclose, BeginClose, Closing
    <2>2. \A u \in Slots : Current(u) => Current(u)'
      BY <2>1 DEF Current, FenceCurrent, Key
    <2> QED BY <1>u, <1>c, <2>1, <2>2
  <1>15. ASSUME NEW l \in Learners, HardCrash(l) PROVE LedgerInv' /\ RowsStep
    <2>1. /\ Terminalize({l}, {}) /\ UNCHANGED receipt /\ binding' = Ended({l})
          /\ ctl.state \in Closing /\ ctl'.state \in Closing
          /\ frozen' = [frozen EXCEPT ![l].state = "hard_crash"]
      BY <1>0, <1>15 DEF HardCrash, Awaits, RestType, Closing
    <2>2. /\ \A k \in Learners : k # l => binding'[k] = binding[k] /\ frozen'[k] = frozen[k]
          /\ binding'[l].status # "active"
      BY <1>0, <2>1, EndedBindings DEF RestType, CloseInv, FrozenBindings, FenceCurrent
    <2> QED BY <1>e, <2>1, <2>2
  <1>16. ASSUME NEW error \in BOOLEAN, FinalizeTerminal(error) PROVE LedgerInv' /\ RowsStep
    <2> DEFINE acked == {l \in Learners : frozen[l].state = "acked"}
    <2>1. /\ Terminalize(acked, {}) /\ UNCHANGED receipt /\ binding' = Ended(acked)
          /\ ctl.state \in Closing
      BY <1>16 DEF FinalizeTerminal
    <2>2. \A l \in Learners : l \notin acked => binding'[l] = binding[l]
      BY <1>0, <2>1, EndedBindings
    <2>3. \A l \in Learners : l \in acked => binding'[l].status # "active"
      BY <1>0, <2>1, EndedBindings DEF CloseInv, FrozenBindings, FenceCurrent
    <2>4. \A l \in Learners : l \notin acked => frozen[l].state # "acked"
      OBVIOUS
    <2> HIDE DEF acked
    <2> QED BY <1>e, <2>1, <2>2, <2>3, <2>4
  <1>17. ASSUME NEW l \in Learners, Acknowledge(l) PROVE LedgerInv' /\ RowsStep
    <2> DEFINE last == progress[l]
               declares == last > 0 /\ receipt[<<l, last>>].expected
               P == IF declares THEN {<<l, last>>} ELSE {}
               n == IF declares THEN last ELSE 0
    <2>1. /\ Terminalize({l}, P) /\ UNCHANGED <<receipt, binding>>
          /\ ctl.state \in Closing /\ ctl'.state \in Closing
          /\ frozen[l].state = "awaiting_ack"
          /\ frozen' = [frozen EXCEPT ![l].state = "acked", ![l].final = n]
      BY <1>0, <1>17 DEF Acknowledge, Awaits, RestType, Closing
    <2>2. \A u \in Slots : Key(u) = l /\ u \notin P => Cycle(u) # n
      BY SlotParts DEF Cycles
    <2> HIDE DEF P, n
    <2>3. /\ frozen'[l].state = "acked" /\ frozen'[l].final = n
          /\ \A k \in Learners : k # l => frozen'[k] = frozen[k]
      BY <1>0, <2>1 DEF RestType
    <2>4. /\ Counted'
          /\ \A u \in Slots :
               /\ RowStep(u)
               /\ update'[u].status = "none" /\ fate'[u] # fate[u] => u \in FenceSlots({l}, P)
      BY <1>0, <2>1, TerminalizeRows
    <2>5. /\ RowsAgree'
          /\ \A u \in Slots : fate'[u] = "outstanding" => fate[u] = "outstanding"
      BY <1>0, <2>1, <2>4, RowsKept
    <2>6. \A u \in Slots : Current(u)' <=> Current(u)
      BY <2>1 DEF Current, FenceCurrent, Key
    <2>7. ASSUME NEW u \in Slots,
                 fate'[u] = "dropped", update'[u].status = "none", Current(u)'
          PROVE  frozen'[Key(u)].state = "acked" /\ frozen'[Key(u)].final # Cycle(u)
      <3>1. CASE fate[u] = fate'[u]
        <4>1. update[u].status = "none"
          BY <2>4, <2>7, <3>1 DEF RowStep, Unsettled
        <4>2. frozen[Key(u)].state = "acked" /\ frozen[Key(u)].final # Cycle(u)
          BY <2>6, <2>7, <3>1, <4>1 DEF LedgerInv, GivenUp
        <4> QED BY <2>1, <2>3, <4>2, SlotParts
      <3>2. CASE fate[u] # fate'[u]
        <4>1. Key(u) = l /\ u \notin P
          BY <2>4, <2>7, <3>2 DEF FenceSlots
        <4> QED BY <2>2, <2>3, <4>1
      <3> QED BY <3>1, <3>2
    <2> QED BY <2>1, <2>4, <2>5, <2>6, <2>7 DEF LedgerInv, Owed, GivenUp, RowsStep, Key, Cycle
  <1> QED
    BY <1>1, <1>2, <1>3, <1>4, <1>5, <1>6, <1>7, <1>8, <1>9, <1>11, <1>12, <1>13,
       <1>14, <1>15, <1>16, <1>17
       DEF Next, Membership, Merging, Terminating

\* Nothing is counted, promised or owed at first.
LEMMA LedgerInit == Init => LedgerInv
  <1> SUFFICES ASSUME Init PROVE LedgerInv
      OBVIOUS
  <1>1. \A f \in Fates : WithFate(f) = {} /\ rollup[f] = 0
    BY DEF Init, WithFate, Fates
  <1>2. Counted
    BY <1>1, FS_EmptySet DEF Counted
  <1>3. ASSUME NEW u \in Slots PROVE RowAgrees(u) /\ fate[u] = "none"
    <2>1. Key(u) \in Learners
      BY SlotParts
    <2> QED BY <2>1 DEF Init, RowAgrees
  <1> QED BY <1>2, <1>3 DEF LedgerInv, RowsAgree, Owed, GivenUp

\* No work and no binding at first.
LEMMA LiveInit == Init => LiveInv
  BY DEF Init, LiveInv, LiveWorkIsCurrent, BindingsMade, Active

\* What the work, the close and the ledger keep together.
AuthorityInv == TypeOK /\ WorkAgrees /\ LiveInv /\ CloseInv /\ LedgerInv

\* It is an invariant.
LEMMA AuthorityInvariant == Spec => []AuthorityInv
  <1>1. Init => AuthorityInv
    BY InitType, WorkInit, LiveInit, CloseInit, LedgerInit DEF AuthorityInv
  <1>2. AuthorityInv /\ [Next]_vars => AuthorityInv'
    BY TypeStep, WorkStep, LiveStep, CloseStep, LedgerStep DEF AuthorityInv
  <1> QED BY <1>1, <1>2, PTL DEF Spec

\* The token ledger counts every receipt once, under the fate of its update,
\* and keeps nothing outstanding that no current attempt owes.
THEOREM AuthorityTokensConserved == Spec => []TokensConserved
  <1>1. ASSUME AuthorityInv PROVE TokensConserved
    <2>1. \A f \in Fates : rollup[f] = Cardinality({u \in Slots : fate[u] = f})
      BY <1>1 DEF AuthorityInv, LedgerInv, Counted, WithFate
    <2>2. ASSUME NEW u \in Slots
          PROVE  /\ fate[u] = "none" <=> receipt[u].gen = 0
                 /\ fate[u] = "unpublished" <=> receipt[u].gen > 0 /\ ~receipt[u].expected
                 /\ fate[u] = "applied" <=> update[u].status = "applied"
                 /\ fate[u] = "dropped" => update[u].status \in {"none", "dropped"}
                 /\ update[u].status = "dropped" => fate[u] = "dropped"
                 /\ fate[u] = "outstanding" => Current(u)
      <3>1. receipt[u].gen \in Nat
        BY <1>1, TypeParts DEF AuthorityInv, RestType
      <3>2. RowAgrees(u) /\ (fate[u] = "outstanding" => Current(u))
        BY <1>1 DEF AuthorityInv, LedgerInv, RowsAgree, Owed
      <3> QED BY <3>1, <3>2 DEF RowAgrees
    <2> QED BY <2>1, <2>2 DEF TokensConserved
  <1> QED BY <1>1, AuthorityInvariant, PTL

\* When nobody is awaited, only acknowledged contributors have anything left,
\* which the finalization settles.
THEOREM AuthorityCloseCanFinish == Spec => []CloseCanFinish
  <1>1. ASSUME AuthorityInv, ctl.state \in Closing,
               \A l \in Learners : frozen[l].state # "awaiting_ack"
        PROVE  /\ \A u \in Slots :
                    update[u].status \in Active \/ fate[u] = "outstanding"
                      => frozen[Key(u)].state = "acked" /\ Current(u)
               /\ \A b \in Batches : intent[b].state = "prepared" =>
                    \E u \in batch[b].members : frozen[Key(u)].state = "acked"
    <2>1. ASSUME NEW u \in Slots, update[u].status \in Active \/ fate[u] = "outstanding"
          PROVE  frozen[Key(u)].state = "acked" /\ Current(u)
      <3>1. Current(u)
        BY <1>1, <2>1
           DEF AuthorityInv, LiveInv, LiveWorkIsCurrent, LedgerInv, Owed
      <3> QED BY <1>1, <3>1, SlotParts
              DEF AuthorityInv, CloseInv, FrozenBindings, Current, FenceCurrent
    <2>2. ASSUME NEW b \in Batches, intent[b].state = "prepared"
          PROVE  \E u \in batch[b].members : frozen[Key(u)].state = "acked"
      <3>1. PICK u \in batch[b].members : update[u].status = "selected"
        BY <1>1, <2>2
           DEF AuthorityInv, WorkAgrees, IntentAgreement, BatchAgreement, Live
      <3>2. u \in Slots
        BY <1>1, TypeParts DEF AuthorityInv, WorkType, BatchRows
      <3> QED BY <2>1, <3>1, <3>2 DEF Active
    <2> QED BY <2>1, <2>2
  <1>2. AuthorityInv => CloseCanFinish
    BY <1>1 DEF CloseCanFinish
  <1> QED BY <1>2, AuthorityInvariant, PTL

-----------------------------------------------------------------------------
(* What commits a version, and what does not.                              *)

\* The command commits no version and settles no update as applied.
Quiet ==
    /\ UNCHANGED <<version, service>>
    /\ \A e \in Epochs : genesis'[e] = "committed" <=> genesis[e] = "committed"
    /\ \A b \in Batches : batch'[b].state = "committed" => batch[b].state = "committed"
    /\ \A u \in Slots : update'[u].status = "applied" => update[u].status = "applied"

GenesisCommitted ==
    /\ version = -1 /\ version' = 0 /\ UNCHANGED <<batch, update, service>>
    /\ \E e \in Epochs : genesis' = [genesis EXCEPT ![e] = "committed"]

BatchCommitted(b) ==
    /\ batch[b].state = "prepared" /\ TargetsNext(b) /\ Invalid(b) = {}
    /\ ApplyBatch(b) /\ UNCHANGED genesis

BatchesSettled ==
    \A b \in Batches :
        /\ batch[b].state \in {"committed", "abandoned"} => batch'[b] = batch[b]
        /\ batch'[b].state = "prepared" => batch'[b] = batch[b] \/ PreparePublication(b)

\* A version is committed by the genesis, or by one batch; and a batch that
\* is settled is never touched again, and none but its publication prepares it.
LEMMA VersionStep ==
  ASSUME TypeOK, [Next]_vars
  PROVE  /\ Quiet \/ GenesisCommitted \/ \E b \in Batches : BatchCommitted(b)
         /\ BatchesSettled
  <1> DEFINE Goal == /\ Quiet \/ GenesisCommitted \/ \E b \in Batches : BatchCommitted(b)
                     /\ BatchesSettled
  <1>0. WorkType /\ RestType
    BY TypeParts
  <1>s. ASSUME NEW D, NEW back, SettleUpdates(D, back)
        PROVE  \A u \in Slots : update'[u].status = "applied" => update[u].status = "applied"
    BY <1>0, <1>s, SettledRow
  <1>a. ASSUME NEW B, AbandonBatches(B)
        PROVE  /\ \A b \in Batches :
                    batch'[b].state = "committed" => batch[b].state = "committed"
               /\ BatchesSettled
    <2>1. ASSUME NEW b \in Batches
          PROVE  /\ batch'[b].state = "committed" => batch[b].state = "committed"
                 /\ batch[b].state \in {"committed", "abandoned"} => batch'[b] = batch[b]
                 /\ batch'[b].state = "prepared" => batch'[b] = batch[b]
      BY <1>0, <1>a DEF AbandonBatches, WorkType, BatchRows, Live
    <2> QED BY <2>1 DEF BatchesSettled
  <1>t. ASSUME NEW L, NEW P, Terminalize(L, P), UNCHANGED <<version, service, genesis>>
        PROVE  Goal
    BY <1>s, <1>a, <1>t DEF Terminalize, Quiet
  <1>r. ASSUME NEW B, NEW invalid, ReconcileBatches(B, invalid),
               UNCHANGED <<version, service>>,
               \A e \in Epochs : genesis'[e] = "committed" <=> genesis[e] = "committed"
        PROVE  Goal
    BY <1>s, <1>a, <1>r DEF ReconcileBatches, Quiet
  <1>u. UNCHANGED <<version, service, genesis, batch, update>> => Goal
    BY DEF Quiet, BatchesSettled
  <1>1. ASSUME NEW l \in Learners, BindAttempt(l) PROVE Goal
    BY <1>1, <1>t, <1>u DEF BindAttempt, workVars
  <1>2. ASSUME NEW l \in Learners,
               MarkTerminal(l) \/ HardCrash(l) \/ Acknowledge(l)
        PROVE  Goal
    BY <1>2, <1>t DEF MarkTerminal, HardCrash, Acknowledge
  <1>3. ASSUME NEW error \in BOOLEAN, FinalizeTerminal(error) PROVE Goal
    BY <1>3, <1>t DEF FinalizeTerminal
  <1>4. ASSUME NEW u \in Slots, IngestProposal(u) PROVE Goal
    <2>1. UNCHANGED <<version, service, genesis, batch>>
      BY <1>4 DEF IngestProposal
    <2>2. \A v \in Slots : update'[v].status = "applied" => update[v].status = "applied"
      BY <1>4, <1>s DEF IngestProposal
    <2> QED BY <2>1, <2>2 DEF Quiet, BatchesSettled
  <1>5. ASSUME NEW quorum, TrySelectBatch(quorum) PROVE Goal
    <2>1. UNCHANGED <<version, service, genesis>>
      BY <1>5 DEF TrySelectBatch
    <2>2. \A u \in Slots : update'[u].status = "applied" => update[u].status = "applied"
      <3> DEFINE stale == Candidates \ Eligible
                 picked == IF Quorate(quorum) THEN Chosen ELSE {}
      <3>1. PICK b \in Batches :
              update' = [u \in Slots |->
                           IF u \in picked
                             THEN [update[u] EXCEPT !.status = "selected", !.batch = b]
                           ELSE IF u \in stale
                             THEN [update[u] EXCEPT !.status = "dropped", !.batch = 0]
                           ELSE update[u]]
        BY <1>5 DEF TrySelectBatch
      <3> HIDE DEF stale, picked
      <3>2. ASSUME NEW u \in Slots, update'[u].status = "applied"
            PROVE  update[u].status = "applied"
        <4>1. update[u] \in Updates
          BY <1>0 DEF WorkType
        <4>2. [update[u] EXCEPT !.status = "selected", !.batch = b].status = "selected"
          BY <4>1 DEF Updates
        <4>3. [update[u] EXCEPT !.status = "dropped", !.batch = 0].status = "dropped"
          BY <4>1 DEF Updates
        <4> QED BY <3>1, <3>2, <4>2, <4>3
      <3> QED BY <3>2
    <2>3. PICK b \in Batches :
            /\ batch[b].state = "none"
            /\ \/ batch' = batch
               \/ \E m : batch' = [batch EXCEPT ![b] =
                                     [state |-> "selected", epoch |-> leader,
                                      target |-> version + 1, members |-> m]]
      BY <1>5 DEF TrySelectBatch
    <2>4. \A c \in Batches : batch'[c] = batch[c] \/ (c = b /\ batch'[c].state = "selected")
      BY <1>0, <2>3 DEF WorkType
    <2> QED BY <2>1, <2>2, <2>3, <2>4 DEF Quiet, BatchesSettled
  <1>6. CASE PrepareGenesis
    <2>1. UNCHANGED <<version, service, batch, update>>
      BY <1>6 DEF PrepareGenesis, workVars
    <2>2. \A e \in Epochs : genesis'[e] = "committed" <=> genesis[e] = "committed"
      BY <1>0, <1>6 DEF PrepareGenesis, RestType
    <2> QED BY <2>1, <2>2 DEF Quiet, BatchesSettled
  <1>7. ASSUME NEW e \in Epochs, CommitGenesis(e) PROVE Goal
    BY <1>7 DEF CommitGenesis, GenesisCommitted, BatchesSettled, workVars
  <1>8. ASSUME NEW e \in Epochs, AbandonGenesis(e) PROVE Goal
    <2>1. UNCHANGED <<version, service, batch, update>>
      BY <1>8 DEF AbandonGenesis, workVars
    <2>2. \A d \in Epochs : genesis'[d] = "committed" <=> genesis[d] = "committed"
      BY <1>0, <1>8 DEF AbandonGenesis, RestType
    <2> QED BY <2>1, <2>2 DEF Quiet, BatchesSettled
  <1>9. ASSUME NEW b \in Batches, PreparePublication(b) PROVE Goal
    <2>1. UNCHANGED <<version, service, genesis, update>>
      BY <1>9 DEF PreparePublication
    <2>2. batch[b].state = "selected" /\ batch'[b].state = "prepared"
      BY <1>0, <1>9 DEF PreparePublication, WorkType, BatchRows
    <2>3. \A c \in Batches : c # b => batch'[c] = batch[c]
      BY <1>0, <1>9 DEF PreparePublication, WorkType
    <2> QED BY <1>9, <2>1, <2>2, <2>3 DEF Quiet, BatchesSettled
  <1>10. ASSUME NEW b \in Batches, AbandonPublication(b) PROVE Goal
    BY <1>10, <1>r DEF AbandonPublication
  <1>11. CASE ReconcilePublications
    <2>1. /\ ReconcileBatches(Predecessors, {}) /\ UNCHANGED <<version, service>>
          /\ \A e \in Epochs : genesis'[e] = "committed" <=> genesis[e] = "committed"
      BY <1>0, <1>11 DEF ReconcilePublications, RestType
    <2> QED BY <1>r, <2>1
  <1>12. ASSUME NEW b \in Batches, NEW isTerminal \in BOOLEAN, CommitMerge(b, isTerminal)
         PROVE  Goal
    <2>1. CASE Invalid(b) = {}
      <3>1. BatchCommitted(b)
        BY <1>12, <2>1 DEF CommitMerge, BatchCommitted
      <3>2. /\ batch'[b].state = "committed"
            /\ \A c \in Batches : c # b => batch'[c] = batch[c]
        BY <1>0, <3>1 DEF BatchCommitted, ApplyBatch, WorkType, BatchRows
      <3>3. BatchesSettled
        BY <3>1, <3>2 DEF BatchesSettled, BatchCommitted
      <3> QED BY <3>1, <3>3
    <2>2. CASE Invalid(b) # {}
      BY <1>12, <1>r, <2>2 DEF CommitMerge
    <2> QED BY <2>1, <2>2
  <1>13. CASE UNCHANGED <<version, service, genesis, batch, update>>
    BY <1>13, <1>u
  <1> QED
    BY <1>1, <1>2, <1>3, <1>4, <1>5, <1>6, <1>7, <1>8, <1>9, <1>10, <1>11, <1>12, <1>13
       DEF Next, Membership, Merging, Terminating, AcquireLeader, IngestReceipt,
           BeginPreclose, BeginClose, workVars, vars

\* What is settled stays settled, whatever is ingested, reconciled or closed
\* later and whoever leads.
THEOREM AuthoritySettledForEver == Spec => SettledForEver
  <1>1. ASSUME AuthorityInv, [Next]_vars
        PROVE  /\ \A u \in Slots :
                    update[u].status \in {"applied", "dropped"}
                      => update'[u] = update[u] /\ fate'[u] = fate[u]
               /\ \A u \in Slots : fate[u] \notin {"none", "outstanding"} => fate'[u] = fate[u]
               /\ \A b \in Batches :
                    batch[b].state \in {"committed", "abandoned"} => batch'[b] = batch[b]
    <2>1. RowsStep /\ RowsAgree
      BY <1>1, LedgerStep DEF AuthorityInv, LedgerInv
    <2>2. BatchesSettled
      BY <1>1, VersionStep DEF AuthorityInv
    <2>3. ASSUME NEW u \in Slots, fate[u] \notin {"none", "outstanding"}
          PROVE  update'[u] = update[u] /\ fate'[u] = fate[u]
      BY <2>1, <2>3 DEF RowsStep, RowStep, Unsettled
    <2>4. ASSUME NEW u \in Slots, update[u].status \in {"applied", "dropped"}
          PROVE  fate[u] \notin {"none", "outstanding"}
      BY <2>1, <2>4 DEF RowsAgree, RowAgrees
    <2> QED BY <2>2, <2>3, <2>4 DEF BatchesSettled
  <1>2. AuthorityInv /\ [Next]_vars =>
          [/\ \A u \in Slots :
               update[u].status \in {"applied", "dropped"}
                 => update'[u] = update[u] /\ fate'[u] = fate[u]
           /\ \A u \in Slots : fate[u] \notin {"none", "outstanding"} => fate'[u] = fate[u]
           /\ \A b \in Batches :
               batch[b].state \in {"committed", "abandoned"} => batch'[b] = batch[b]]_vars
    BY <1>1
  <1> QED BY <1>2, AuthorityInvariant, PTL DEF Spec, SettledForEver

-----------------------------------------------------------------------------
(* The chain of versions and the fairness state.                           *)

\* An update is applied by a version that is there.
AppliedBy == \A u \in Slots : update[u].status = "applied" => update[u].applied \in 1 .. version

CommittedAs(v) == {b \in Batches : batch[b].state = "committed" /\ batch[b].target = v}

\* VersionChain, with the one batch of each version named.
ChainInv ==
    /\ \A v \in 1 .. version : \E b \in Batches : CommittedAs(v) = {b}
    /\ \A b \in Batches : batch[b].state = "committed" =>
         /\ batch[b].target \in 1 .. version
         /\ \A u \in batch[b].members :
              update[u].status = "applied" /\ update[u].applied = batch[b].target
    /\ version >= 0 <=> \E e \in Epochs : genesis[e] = "committed"

AppliedOf(l) == {u \in Slots : Key(u) = l /\ update[u].status = "applied"}

HistoryInv == AppliedBy /\ ChainInv /\ CreditAgrees

\* Settled updates do not change.
LEMMA AppliedKept ==
  ASSUME AuthorityInv, [Next]_vars
  PROVE  \A u \in Slots : update[u].status = "applied" => update'[u] = update[u]
  <1>1. RowsStep /\ RowsAgree
    BY LedgerStep DEF AuthorityInv, LedgerInv
  <1> QED BY <1>1 DEF RowsStep, RowStep, Unsettled, RowsAgree, RowAgrees

\* What a committed batch does to the rows of its members and to their
\* contributors.
LEMMA CommittedRows ==
  ASSUME AuthorityInv, NEW b \in Batches, BatchCommitted(b)
  PROVE  /\ version \in Nat /\ version' = version + 1 /\ batch[b].target = version + 1
         /\ batch[b].members \in SUBSET Slots
         /\ \A u \in batch[b].members :
              /\ update[u].status = "selected"
              /\ update'[u].status = "applied" /\ update'[u].applied = version + 1
         /\ \A u \in Slots : u \notin batch[b].members => update'[u] = update[u]
         /\ batch'[b].state = "committed" /\ batch'[b].target = batch[b].target
         /\ batch'[b].members = batch[b].members
         /\ \A c \in Batches : c # b => batch'[c] = batch[c]
  <1>0. WorkType /\ RestType
    BY TypeParts DEF AuthorityInv
  <1>1. version \in Nat /\ batch[b].target = version + 1
    BY <1>0 DEF BatchCommitted, TargetsNext, RestType
  <1>2. version' = version + 1
    BY <1>1 DEF BatchCommitted, ApplyBatch
  <1>3. batch[b].members \in SUBSET Slots
    BY <1>0 DEF WorkType, BatchRows
  <1>4. ASSUME NEW u \in Slots
        PROVE  /\ u \in batch[b].members =>
                    /\ update[u].status = "selected"
                    /\ update'[u].status = "applied" /\ update'[u].applied = version + 1
               /\ u \notin batch[b].members => update'[u] = update[u]
    <2>1. update' = [v \in Slots |->
                       IF v \in batch[b].members
                         THEN [update[v] EXCEPT !.status = "applied",
                                                !.applied = batch[b].target]
                         ELSE update[v]]
      BY DEF BatchCommitted, ApplyBatch
    <2>2. update[u] \in Updates
      BY <1>0 DEF WorkType
    <2>3. u \in batch[b].members => update[u].status = "selected"
      BY DEF BatchCommitted, Invalid
    <2> QED BY <1>1, <2>1, <2>2, <2>3 DEF Updates
  <1>5. /\ batch'[b].state = "committed" /\ batch'[b].target = batch[b].target
        /\ batch'[b].members = batch[b].members
        /\ \A c \in Batches : c # b => batch'[c] = batch[c]
    BY <1>0 DEF BatchCommitted, ApplyBatch, WorkType, BatchRows
  <1> QED BY <1>1, <1>2, <1>3, <1>4, <1>5

\* The committed batches stay a chain of versions.
LEMMA ChainStep ==
  ASSUME AuthorityInv, AppliedBy, ChainInv, [Next]_vars
  PROVE  AppliedBy' /\ ChainInv'
  <1>0. WorkType /\ RestType
    BY TypeParts DEF AuthorityInv
  <1>1. /\ Quiet \/ GenesisCommitted \/ \E b \in Batches : BatchCommitted(b)
        /\ BatchesSettled
    BY VersionStep DEF AuthorityInv
  <1>2. \A u \in Slots : update[u].status = "applied" => update'[u] = update[u]
    BY AppliedKept
  <1>3. \A b \in Batches : batch[b].members \in SUBSET Slots
    BY <1>0 DEF WorkType, BatchRows
  <1>q. ASSUME \A b \in Batches : batch'[b].state = "committed" => batch[b].state = "committed",
               \A u \in Slots : update'[u].status = "applied" => update[u].status = "applied",
               version' = version \/ (version = -1 /\ version' = 0),
               version' >= 0 <=> \E e \in Epochs : genesis'[e] = "committed"
        PROVE  AppliedBy' /\ ChainInv'
    <2>0. 1 .. version' = 1 .. version
      BY <1>0, <1>q DEF RestType
    <2>1. \A b \in Batches : batch'[b].state = "committed" <=> batch[b].state = "committed"
      BY <1>1, <1>q DEF BatchesSettled
    <2>2. \A b \in Batches : batch[b].state = "committed" => batch'[b] = batch[b]
      BY <1>1 DEF BatchesSettled
    <2>3. \A v : CommittedAs(v)' = CommittedAs(v)
      BY <2>1, <2>2 DEF CommittedAs
    <2>4. AppliedBy'
      BY <1>2, <1>q, <2>0 DEF AppliedBy
    <2> QED BY <1>2, <1>3, <1>q, <2>0, <2>1, <2>2, <2>3, <2>4 DEF ChainInv
  <1>4. CASE Quiet
    <2>1. /\ version' = version
          /\ (\E e \in Epochs : genesis'[e] = "committed")
               <=> (\E e \in Epochs : genesis[e] = "committed")
      BY <1>4 DEF Quiet
    <2>2. version' >= 0 <=> \E e \in Epochs : genesis'[e] = "committed"
      BY <2>1 DEF ChainInv
    <2> QED BY <1>4, <1>q, <2>1, <2>2 DEF Quiet
  <1>5. CASE GenesisCommitted
    <2>1. \E e \in Epochs : genesis'[e] = "committed"
      BY <1>0, <1>5 DEF GenesisCommitted, RestType
    <2> QED BY <1>5, <1>q, <2>1 DEF GenesisCommitted
  <1>6. ASSUME NEW b \in Batches, BatchCommitted(b) PROVE AppliedBy' /\ ChainInv'
    <2>1. /\ version \in Nat /\ version' = version + 1 /\ batch[b].target = version + 1
          /\ batch[b].members \in SUBSET Slots
          /\ \A u \in batch[b].members :
               update'[u].status = "applied" /\ update'[u].applied = version + 1
          /\ \A u \in Slots : u \notin batch[b].members => update'[u] = update[u]
          /\ batch'[b].state = "committed" /\ batch'[b].target = batch[b].target
          /\ batch'[b].members = batch[b].members
          /\ \A c \in Batches : c # b => batch'[c] = batch[c]
      BY <1>6, CommittedRows
    <2>2. AppliedBy'
      BY <2>1 DEF AppliedBy
    <2>3. batch[b].state # "committed"
      BY <1>6 DEF BatchCommitted
    <2>4. ASSUME NEW v \in 1 .. version' PROVE \E c \in Batches : CommittedAs(v)' = {c}
      <3>1. CASE v = version + 1
        <4>1. \A c \in Batches : batch[c].state = "committed" => batch[c].target # v
          BY <2>1, <3>1 DEF ChainInv
        <4>2. CommittedAs(v)' = {b}
          BY <2>1, <3>1, <4>1 DEF CommittedAs
        <4> QED BY <4>2
      <3>2. CASE v # version + 1
        <4>1. v \in 1 .. version /\ v # batch[b].target
          BY <2>1, <3>2
        <4>2. CommittedAs(v)' = CommittedAs(v)
          BY <2>1, <2>3, <4>1 DEF CommittedAs
        <4> QED BY <4>1, <4>2 DEF ChainInv
      <3> QED BY <3>1, <3>2
    <2>5. ASSUME NEW c \in Batches, batch'[c].state = "committed"
          PROVE  /\ batch'[c].target \in 1 .. version'
                 /\ \A u \in batch'[c].members :
                      update'[u].status = "applied" /\ update'[u].applied = batch'[c].target
      <3>1. CASE c = b
        BY <2>1, <3>1
      <3>2. CASE c # b
        <4>1. /\ batch'[c] = batch[c] /\ batch[c].target \in 1 .. version
              /\ \A u \in batch[c].members :
                   update[u].status = "applied" /\ update[u].applied = batch[c].target
          BY <2>1, <2>5, <3>2 DEF ChainInv
        <4> QED BY <1>2, <1>3, <2>1, <4>1
      <3> QED BY <3>1, <3>2
    <2>6. version' >= 0 <=> \E e \in Epochs : genesis'[e] = "committed"
      BY <1>6, <2>1 DEF BatchCommitted, ChainInv
    <2> QED BY <2>2, <2>4, <2>5, <2>6 DEF ChainInv
  <1> QED BY <1>1, <1>4, <1>5, <1>6

\* A contributor's credit stays the number of its applied updates.
LEMMA CreditStep ==
  ASSUME AuthorityInv, AppliedBy, CreditAgrees, [Next]_vars
  PROVE  CreditAgrees'
  <1>0. WorkType /\ RestType
    BY TypeParts DEF AuthorityInv
  <1>1. Quiet \/ GenesisCommitted \/ \E b \in Batches : BatchCommitted(b)
    BY VersionStep DEF AuthorityInv
  <1>2. \A u \in Slots : update[u].status = "applied" => update'[u] = update[u]
    BY AppliedKept
  <1>3. \A l \in Learners :
          /\ service[l].credit = Cardinality(AppliedOf(l))
          /\ \A u \in AppliedOf(l) : update[u].applied <= service[l].last
          /\ AppliedOf(l) # {} => \E u \in AppliedOf(l) : update[u].applied = service[l].last
          /\ AppliedOf(l) = {} => service[l].last = -1
    BY DEF CreditAgrees, AppliedOf
  <1>k. ASSUME NEW l \in Learners, service'[l] = service[l], AppliedOf(l)' = AppliedOf(l)
        PROVE  /\ service'[l].credit = Cardinality(AppliedOf(l)')
               /\ \A u \in AppliedOf(l)' : update'[u].applied <= service'[l].last
               /\ AppliedOf(l)' # {} =>
                    \E u \in AppliedOf(l)' : update'[u].applied = service'[l].last
               /\ AppliedOf(l)' = {} => service'[l].last = -1
    <2>1. \A u \in AppliedOf(l) : update'[u] = update[u]
      BY <1>2 DEF AppliedOf
    <2> QED BY <1>3, <1>k, <2>1
  <1>q. ASSUME UNCHANGED service,
               \A u \in Slots : update'[u].status = "applied" => update[u].status = "applied"
        PROVE  CreditAgrees'
    <2>1. \A l \in Learners : AppliedOf(l)' = AppliedOf(l)
      BY <1>2, <1>q DEF AppliedOf, Key
    <2>2. ASSUME NEW l \in Learners
          PROVE  /\ service'[l].credit = Cardinality(AppliedOf(l)')
                 /\ \A u \in AppliedOf(l)' : update'[u].applied <= service'[l].last
                 /\ AppliedOf(l)' # {} =>
                      \E u \in AppliedOf(l)' : update'[u].applied = service'[l].last
                 /\ AppliedOf(l)' = {} => service'[l].last = -1
      BY <1>k, <1>q, <2>1
    <2> QED BY <2>2 DEF CreditAgrees, AppliedOf, Key
  <1>4. CASE Quiet
    BY <1>4, <1>q DEF Quiet
  <1>5. CASE GenesisCommitted
    BY <1>5, <1>q DEF GenesisCommitted
  <1>6. ASSUME NEW b \in Batches, BatchCommitted(b) PROVE CreditAgrees'
    <2> DEFINE S == batch[b].members
    <2>1. /\ version \in Nat /\ batch[b].target = version + 1
          /\ S \in SUBSET Slots
          /\ \A u \in S :
               /\ update[u].status = "selected"
               /\ update'[u].status = "applied" /\ update'[u].applied = version + 1
          /\ \A u \in Slots : u \notin S => update'[u] = update[u]
      BY <1>6, CommittedRows
    <2>2. ASSUME NEW l \in Learners
          PROVE  /\ service'[l] = IF \E u \in S : Key(u) = l
                                    THEN [credit |-> service[l].credit + 1, last |-> version + 1]
                                    ELSE service[l]
                 /\ service[l].credit \in Nat /\ service[l].last \in Nat \cup {-1}
      <3>1. service' = [k \in Learners |->
                          IF k \in {Key(u) : u \in S} THEN Served(k, version + 1)
                          ELSE service[k]]
        BY <1>6, <2>1 DEF BatchCommitted, ApplyBatch
      <3> QED BY <1>0, <3>1 DEF Served, RestType
    <2>3. ASSUME NEW l \in Learners
          PROVE  /\ service'[l].credit = Cardinality(AppliedOf(l)')
                 /\ \A u \in AppliedOf(l)' : update'[u].applied <= service'[l].last
                 /\ AppliedOf(l)' # {} =>
                      \E u \in AppliedOf(l)' : update'[u].applied = service'[l].last
                 /\ AppliedOf(l)' = {} => service'[l].last = -1
      <3>1. CASE ~\E u \in S : Key(u) = l
        <4>1. AppliedOf(l)' = AppliedOf(l)
          BY <2>1, <3>1 DEF AppliedOf, Key
        <4>2. service'[l] = service[l]
          BY <2>2, <3>1
        <4> QED BY <1>k, <4>1, <4>2
      <3>2. ASSUME NEW u \in S, Key(u) = l
            PROVE  /\ service'[l].credit = Cardinality(AppliedOf(l)')
                   /\ \A v \in AppliedOf(l)' : update'[v].applied <= service'[l].last
                   /\ AppliedOf(l)' # {} =>
                        \E v \in AppliedOf(l)' : update'[v].applied = service'[l].last
                   /\ AppliedOf(l)' = {} => service'[l].last = -1
        <4>1. \A v \in S : Key(v) = l => v = u
          BY <2>1, <3>2 DEF AuthorityInv, WorkAgrees, SingleInFlight, Others, Active
        <4>2. AppliedOf(l)' = AppliedOf(l) \cup {u} /\ u \notin AppliedOf(l) /\ u \in Slots
          BY <2>1, <3>2, <4>1 DEF AppliedOf, Key
        <4>3. AppliedOf(l) \in SUBSET Slots
          BY DEF AppliedOf
        <4>4. IsFiniteSet(AppliedOf(l)) /\ Cardinality(AppliedOf(l)) \in Nat
          BY <4>3, SlotsCount
        <4>5. Cardinality(AppliedOf(l) \cup {u}) = Cardinality(AppliedOf(l)) + 1
          BY <4>2, <4>4, FS_AddElement
        <4>6. /\ service'[l].credit = service[l].credit + 1
              /\ service'[l].last = version + 1
          <5>1. service'[l] = [credit |-> service[l].credit + 1, last |-> version + 1]
            BY <2>2, <3>2
          <5> QED BY <5>1
        <4>7. service'[l].credit = Cardinality(AppliedOf(l)')
          BY <1>3, <4>2, <4>5, <4>6
        <4>8. \A v \in AppliedOf(l) : update'[v] = update[v] /\ update[v].applied \in 1 .. version
          BY <1>2 DEF AppliedOf, AppliedBy
        <4>9. u \in AppliedOf(l)' /\ update'[u].applied = service'[l].last
          BY <2>1, <4>2, <4>6
        <4>10. \A v \in AppliedOf(l)' : update'[v].applied <= service'[l].last
          BY <2>1, <4>2, <4>6, <4>8
        <4> QED BY <4>7, <4>9, <4>10
      <3> QED BY <3>1, <3>2
    <2> QED BY <2>3 DEF CreditAgrees, AppliedOf, Key
  <1> QED BY <1>1, <1>4, <1>5, <1>6

\* The history of a run is empty at first.
LEMMA HistoryInit == Init => HistoryInv
  <1> SUFFICES ASSUME Init PROVE HistoryInv
      OBVIOUS
  <1>1. version = -1 /\ 1 .. version = {}
    BY DEF Init
  <1>2. AppliedBy
    BY DEF Init, AppliedBy
  <1>3. ChainInv
    BY <1>1 DEF Init, ChainInv
  <1>4. ASSUME NEW l \in Learners
        PROVE  /\ service[l].credit = 0 /\ service[l].last = -1
               /\ {u \in Slots : Key(u) = l /\ update[u].status = "applied"} = {}
    BY DEF Init
  <1>5. CreditAgrees
    BY <1>4, FS_EmptySet DEF CreditAgrees
  <1> QED BY <1>2, <1>3, <1>5 DEF HistoryInv

\* The history is an invariant.
LEMMA HistoryInvariant == Spec => [](AuthorityInv /\ HistoryInv)
  <1>1. AuthorityInv /\ HistoryInv /\ [Next]_vars => HistoryInv'
    BY ChainStep, CreditStep DEF HistoryInv
  <1> QED BY <1>1, HistoryInit, AuthorityInvariant, PTL DEF Spec

\* The committed batches are the versions after the genesis, each once, and
\* they are what applied their members.
THEOREM AuthorityVersionChain == Spec => []VersionChain
  <1>1. ASSUME AuthorityInv, HistoryInv PROVE VersionChain
    <2>1. ASSUME NEW v \in 1 .. version
          PROVE  Cardinality({b \in Batches : batch[b].state = "committed"
                                              /\ batch[b].target = v}) = 1
      <3>1. PICK b \in Batches : CommittedAs(v) = {b}
        BY <1>1 DEF HistoryInv, ChainInv
      <3>2. Cardinality(CommittedAs(v)) = 1
        BY <3>1, FS_Singleton
      <3> QED BY <3>2 DEF CommittedAs
    <2> QED BY <1>1, <2>1 DEF VersionChain, HistoryInv, ChainInv
  <1> QED BY <1>1, HistoryInvariant, PTL

\* A contributor's credit and service version are what the commits of its
\* updates made them.
THEOREM AuthorityCreditAgrees == Spec => []CreditAgrees
  <1>1. HistoryInv => CreditAgrees
    BY DEF HistoryInv
  <1> QED BY <1>1, HistoryInvariant, PTL

-----------------------------------------------------------------------------
(* Refinement: the commands implement TrainingLedger.                      *)

Bounds == [l \in Learners |-> LastAllowed(l)]

AppliedVersions == [u \in Slots |-> AppliedAs(u)]

\* The ledger's reports are the slots.
LEMMA ReportsAreSlots == Ledger!Reports = Slots
BY DEF Ledger!Reports, Slots, Cycles

\* Without a new receipt, only what is outstanding changes its fate.
LEMMA FateStep ==
  ASSUME AuthorityInv, AuthorityInv', [Next]_vars, UNCHANGED receipt, NEW u \in Slots
  PROVE  \/ fate'[u] = fate[u]
         \/ fate[u] = "outstanding" /\ fate'[u] \in {"applied", "dropped"}
<1>1. RowAgrees(u) /\ RowAgrees(u)'
  BY DEF AuthorityInv, LedgerInv, RowsAgree
<1>2. RowStep(u) \/ (fate[u] = "none" /\ update'[u] = update[u])
  BY LedgerStep DEF AuthorityInv, RowsStep
<1>3. CASE fate[u] = "none"
  BY <1>1, <1>3 DEF RowAgrees
<1>4. CASE RowStep(u)
  BY <1>4 DEF RowStep, Unsettled
<1>5. QED
  BY <1>2, <1>3, <1>4

\* What was applied before is all that is, with its version, unless a batch
\* is committed.
LEMMA QuietVersions ==
  ASSUME AuthorityInv, AuthorityInv', [Next]_vars, Quiet
  PROVE  AppliedVersions' = AppliedVersions
<1>1. ASSUME NEW u \in Slots PROVE AppliedAs(u)' = AppliedAs(u)
  <2>1. RowAgrees(u) /\ RowAgrees(u)'
    BY DEF AuthorityInv, LedgerInv, RowsAgree
  <2>2. update[u].status = "applied" => update'[u] = update[u]
    BY AppliedKept
  <2>3. update'[u].status = "applied" => update[u].status = "applied"
    BY DEF Quiet
  <2>4. QED
    BY <2>1, <2>2, <2>3 DEF RowAgrees, AppliedAs
<1>2. QED
  BY <1>1 DEF AppliedVersions

\* A step that takes in no receipt and commits nothing drops some work, and
\* lets the contributors in L come to their end.
LEMMA DropMapped ==
  ASSUME AuthorityInv, AuthorityInv', [Next]_vars,
         UNCHANGED <<version, receipt, progress, terminal>>,
         Phase' = Phase, ctl'.merges = ctl.merges,
         NEW L \in SUBSET Learners, L # {} => Phase = "closing",
         Bounds' = [l \in Learners |-> IF l \in L THEN progress[l] ELSE Bounds[l]]
  PROVE  Ledger!LedgerNext
<1> DEFINE S == {u \in Slots : fate'[u] # fate[u]}
<1>1. Quiet
  <2>1. version \in Nat \cup {-1}
    BY DEF AuthorityInv, TypeOK
  <2>2. ~GenesisCommitted /\ \A b \in Batches : ~BatchCommitted(b)
    BY <2>1, CommittedRows DEF GenesisCommitted
  <2>3. QED
    BY <2>2, VersionStep DEF AuthorityInv
<1>2. \A u \in Slots : u \in S => fate[u] = "outstanding" /\ fate'[u] = "dropped"
  <2> SUFFICES ASSUME NEW u \in Slots, u \in S
               PROVE  fate[u] = "outstanding" /\ fate'[u] = "dropped"
    OBVIOUS
  <2>1. fate[u] = "outstanding" /\ fate'[u] \in {"applied", "dropped"}
    BY FateStep
  <2>2. fate'[u] # "applied"
    <3>1. RowAgrees(u) /\ RowAgrees(u)'
      BY DEF AuthorityInv, LedgerInv, RowsAgree
    <3>2. update'[u].status = "applied" => update[u].status = "applied"
      BY <1>1 DEF Quiet
    <3>3. QED
      BY <2>1, <3>1, <3>2 DEF RowAgrees
  <2>3. QED
    BY <2>1, <2>2
<1>3. fate' = [u \in Slots |-> IF u \in S THEN "dropped" ELSE fate[u]]
  <2>1. fate' \in [Slots -> Fates \cup {"none"}]
    BY DEF AuthorityInv, TypeOK
  <2>2. QED
    BY <1>2, <2>1
<1>4. S \in SUBSET Slots /\ S \subseteq Ledger!Outstanding
  BY <1>2, ReportsAreSlots DEF Ledger!Outstanding
<1>5. AppliedVersions' = AppliedVersions
  BY <1>1, QuietVersions
<1> HIDE DEF S
<1>6. Ledger!Drop(S, L)
  BY <1>3, <1>4, <1>5, ReportsAreSlots DEF Ledger!Drop, AppliedVersions, Bounds
<1>7. QED
  BY <1>4, <1>6, ReportsAreSlots DEF Ledger!LedgerNext

\* Commands that are not about receipts, versions or the close.
LEMMA StaysMapped ==
  ASSUME AuthorityInv, AuthorityInv', [Next]_vars,
         UNCHANGED <<version, receipt, progress, ctl, frozen, terminal>>
  PROVE  Ledger!LedgerNext
<1>1. Phase' = Phase
  BY DEF Phase
<1>2. Bounds' = [l \in Learners |-> IF l \in {} THEN progress[l] ELSE Bounds[l]]
  BY <1>1 DEF Bounds, LastAllowed
<1>3. {} \in SUBSET Learners /\ ctl'.merges = ctl.merges
  OBVIOUS
<1>4. QED
  BY <1>1, <1>2, <1>3, DropMapped

\* What a receipt may be of, once the run closes.
LEMMA ReceiptAllowed ==
  ASSUME AuthorityInv, NEW l \in Learners, NEW expected,
         InputAllowed(<<l, progress[l] + 1>>, expected), progress[l] < MaxCycle
  PROVE  Phase # "closed" /\ progress[l] < LastAllowed(l)
<1>1. progress[l] \in Nat
  BY DEF AuthorityInv, TypeOK
<1>2. CASE ctl.state \in {"open", "preclosing"}
  BY <1>2 DEF Phase, LastAllowed, Closing, Closed
<1>3. CASE ctl.state \notin {"open", "preclosing"}
  <2>1. /\ ctl.state \in Closing /\ frozen[l].state # "none"
        /\ \/ frozen[l].state = "awaiting_ack"
           \/ frozen[l].state = "acked" /\ frozen[l].final = progress[l] + 1
        /\ progress[l] + 1 \in {frozen[l].close, frozen[l].close + 1}
    BY <1>3 DEF InputAllowed, Key, Cycle
  <2>2. frozen[l].close \in Nat /\ frozen[l].final \in Nat
    BY AuthorityAssumption DEF AuthorityInv, TypeOK
  <2>3. progress[l] \in {frozen[l].close, frozen[l].close + 1}
    BY <2>1 DEF AuthorityInv, CloseInv, FrozenBound
  <2>4. frozen[l].state = "awaiting_ack"
    BY <1>1, <2>1, <2>2 DEF AuthorityInv, CloseInv, FinalReached
  <2>5. Phase = "closing"
    BY <2>1 DEF Phase
  <2>6. QED
    BY <1>1, <2>1, <2>2, <2>3, <2>4, <2>5 DEF LastAllowed
<1>4. QED
  BY <1>2, <1>3

\* A receipt is a report.
LEMMA ReportMapped ==
  ASSUME AuthorityInv, AuthorityInv', [Next]_vars,
         NEW l \in Learners, NEW expected \in BOOLEAN, IngestReceipt(l, expected)
  PROVE  Ledger!Report(l)
<1> DEFINE u == <<l, progress[l] + 1>>
           f == IF expected THEN "outstanding" ELSE "unpublished"
<1>1. /\ progress[l] < MaxCycle /\ InputAllowed(u, expected)
      /\ progress' = [progress EXCEPT ![l] = progress[l] + 1]
      /\ fate' = [fate EXCEPT ![u] = f]
      /\ UNCHANGED <<version, update, ctl, frozen, terminal>>
  BY DEF IngestReceipt, closeVars
<1>2. Phase # "closed" /\ progress[l] < LastAllowed(l)
  BY <1>1, ReceiptAllowed
<1>3. progress \in [Learners -> 0 .. MaxCycle]
  BY DEF AuthorityInv, TypeOK
<1>4. Phase' = Phase
  BY <1>1 DEF Phase
<1>5. ASSUME NEW k \in Learners PROVE LastAllowed(k)' = LastAllowed(k)
  <2>1. CASE k # l
    BY <1>1, <1>3, <1>4, <2>1 DEF LastAllowed
  <2>2. CASE k = l /\ (Phase \in {"open", "preclosing"} \/ frozen[l].state = "awaiting_ack")
    BY <1>1, <1>4, <2>2 DEF LastAllowed
  <2>3. CASE k = l /\ Phase \notin {"open", "preclosing"} /\ frozen[l].state # "awaiting_ack"
    BY <1>2, <1>3, <2>3 DEF LastAllowed
  <2>4. QED
    BY <2>1, <2>2, <2>3
<1>6. Bounds' = Bounds
  BY <1>5 DEF Bounds
<1>7. u \in Slots
  BY <1>1, <1>3, AuthorityAssumption DEF Slots, Cycles
<1>8. fate[u] # "applied" /\ f # "applied"
  <2>1. \A v \in Slots : update[v].status = "applied" <=> fate[v] = "applied"
    BY DEF AuthorityInv, LedgerInv, RowsAgree, RowAgrees
  <2>2. \A v \in Slots : update'[v].status = "applied" <=> fate'[v] = "applied"
    BY DEF AuthorityInv, LedgerInv, RowsAgree, RowAgrees
  <2>3. fate'[u] = f /\ f # "applied"
    BY <1>1, <1>7 DEF AuthorityInv, TypeOK
  <2>4. QED
    BY <1>1, <1>7, <2>1, <2>2, <2>3
<1>9. AppliedVersions' = AppliedVersions
  <2>1. ASSUME NEW v \in Slots PROVE AppliedAs(v)' = AppliedAs(v)
    <3>1. fate'[v] = IF v = u THEN f ELSE fate[v]
      BY <1>1, <1>7 DEF AuthorityInv, TypeOK
    <3>2. QED
      BY <1>1, <1>8, <3>1 DEF AppliedAs
  <2>2. QED
    BY <2>1 DEF AppliedVersions
<1>10. f \in {"outstanding", "unpublished"}
  OBVIOUS
<1> HIDE DEF f
<1>11. QED
  BY <1>1, <1>2, <1>4, <1>6, <1>9, <1>10 DEF Ledger!Report, Bounds, AppliedVersions

\* A commit merges the members of its batch.
LEMMA MergeMapped ==
  ASSUME AuthorityInv, AuthorityInv', [Next]_vars,
         NEW b \in Batches, NEW isTerminal \in BOOLEAN, CommitMerge(b, isTerminal),
         Invalid(b) = {}
  PROVE  Ledger!Merge(batch[b].members) /\ batch[b].members \in SUBSET Slots
<1> DEFINE S == batch[b].members
<1>1. /\ TargetsNext(b) /\ CommitAllowed(isTerminal) /\ batch[b].state = "prepared"
      /\ ApplyBatch(b)
      /\ ctl' = IF isTerminal THEN [ctl EXCEPT !.merges = ctl.merges + 1] ELSE ctl
      /\ UNCHANGED <<genesis, progress, frozen, terminal>>
  BY DEF CommitMerge
<1>2. BatchCommitted(b)
  BY <1>1 DEF BatchCommitted
<1>3. /\ version \in Nat /\ version' = version + 1 /\ S \in SUBSET Slots
      /\ \A u \in S : /\ update[u].status = "selected"
                      /\ update'[u].status = "applied" /\ update'[u].applied = version + 1
      /\ \A u \in Slots : u \notin S => update'[u] = update[u]
  BY <1>2, CommittedRows
<1>4. S # {}
  BY <1>1 DEF AuthorityInv, WorkAgrees, BatchAgreement, Live
<1>5. fate' = [u \in Slots |-> IF u \in S THEN "applied" ELSE fate[u]]
  BY <1>1 DEF ApplyBatch, SetFate
<1>6. \A u \in S : fate[u] = "outstanding"
  BY <1>3, UnsettledRows DEF AuthorityInv, TypeOK, WorkType, Updates, BatchRows, IntentRows, LedgerInv, Unsettled, Active
<1>7. S \subseteq Ledger!Outstanding
  BY <1>3, <1>6, ReportsAreSlots DEF Ledger!Outstanding
<1>8. \A u \in S : \A v \in S : u[1] = v[1] => u = v
  <2> SUFFICES ASSUME NEW u \in S, NEW v \in S, u[1] = v[1], u # v PROVE FALSE
    OBVIOUS
  <2>1. v \in Others(u) /\ u \in Slots
    BY <1>3 DEF Others, Key
  <2>2. update[u].status \in Active /\ update[u].status = update[v].status
    BY <1>3 DEF Active
  <2>3. QED
    BY <2>1, <2>2 DEF AuthorityInv, WorkAgrees, SingleInFlight
<1>9. AppliedVersions' = [u \in Slots |-> IF u \in S THEN version + 1 ELSE AppliedVersions[u]]
  <2>1. ASSUME NEW u \in Slots
        PROVE  AppliedAs(u)' = IF u \in S THEN version + 1 ELSE AppliedAs(u)
    BY <1>3, <1>5 DEF AppliedAs
  <2>2. QED
    BY <2>1 DEF AppliedVersions
<1>10. /\ Phase' = Phase
       /\ \/ Phase = "open" /\ ctl'.merges = ctl.merges
          \/ Phase = "closing" /\ ctl.merges < TerminalMergeLimit /\ ctl'.merges = ctl.merges + 1
  <2>1. ctl \in [state : {"open", "preclosing"} \cup Closing \cup Closed,
                 merges : 0 .. TerminalMergeLimit]
    BY DEF AuthorityInv, TypeOK
  <2>2. CASE isTerminal
    BY <1>1, <2>1, <2>2 DEF CommitAllowed, Phase
  <2>3. CASE ~isTerminal
    BY <1>1, <2>3 DEF CommitAllowed, Phase, Closing, Closed
  <2>4. QED
    BY <2>2, <2>3
<1>11. Bounds' = Bounds
  BY <1>1, <1>10 DEF Bounds, LastAllowed
<1> HIDE DEF S
<1>12. version >= 0
  BY <1>3
<1>13. Ledger!Merge(S)
  BY <1>1, <1>3, <1>4, <1>5, <1>7, <1>8, <1>9, <1>10, <1>11, <1>12, ReportsAreSlots
     DEF Ledger!Merge, Bounds, AppliedVersions
<1>14. QED
  BY <1>3, <1>13 DEF S

\* The freeze leaves each active contributor the cycle that it is in.
LEMMA CloseMapped ==
  ASSUME AuthorityInv, AuthorityInv', [Next]_vars, BeginClose
  PROVE  Ledger!LedgerNext
<1> DEFINE L == {l \in Learners : binding[l].status = "active"}
<1>1. /\ ctl.state \in {"open", "preclosing"}
      /\ ctl' = [state |-> "closing", merges |-> 0]
      /\ frozen' = [l \in Learners |->
                      IF binding[l].status = "active"
                        THEN [state |-> "awaiting_ack", gen |-> binding[l].gen,
                              close |-> progress[l], final |-> 0]
                        ELSE frozen[l]]
      /\ UNCHANGED <<version, progress, terminal, fate, update>>
  BY DEF BeginClose, workVars
<1>2. Phase \in {"open", "preclosing"} /\ Phase' = "closing"
  BY <1>1 DEF Phase, Closing, Closed
<1>3. ASSUME NEW l \in Learners
      PROVE  LastAllowed(l)' = progress[l] + IF l \in L THEN 1 ELSE 0
  <2>1. progress[l] \in Nat
    BY DEF AuthorityInv, TypeOK
  <2>2. CASE l \in L
    BY <1>1, <1>2, <2>2 DEF LastAllowed
  <2>3. CASE l \notin L
    <3>1. frozen'[l] = frozen[l] /\ frozen[l].state = "none"
      BY <1>1, <2>3 DEF AuthorityInv, CloseInv, Unfrozen
    <3>2. QED
      BY <1>1, <1>2, <2>1, <2>3, <3>1 DEF LastAllowed
  <2>4. QED
    BY <2>2, <2>3
<1>4. Bounds' = [l \in Learners |-> progress[l] + IF l \in L THEN 1 ELSE 0]
  BY <1>3 DEF Bounds
<1>5. AppliedVersions' = AppliedVersions
  BY <1>1 DEF AppliedVersions, AppliedAs
<1>6. L \in SUBSET Learners
  OBVIOUS
<1> HIDE DEF L
<1>7. ctl'.merges = 0
  BY <1>1
<1>8. Ledger!Close(L)
  BY <1>1, <1>2, <1>4, <1>5, <1>7 DEF Ledger!Close, Bounds, AppliedVersions
<1>9. QED
  BY <1>6, <1>8 DEF Ledger!LedgerNext

\* With its answer, or without one, a contributor has come to its end.
LEMMA AnswerMapped ==
  ASSUME AuthorityInv, AuthorityInv', [Next]_vars, NEW l \in Learners,
         HardCrash(l) \/ Acknowledge(l)
  PROVE  Ledger!LedgerNext
<1>1. /\ ctl.state \in Closing /\ ctl' = [ctl EXCEPT !.state = "draining"]
      /\ UNCHANGED <<version, receipt, progress, terminal>>
  BY DEF HardCrash, Acknowledge, Awaits
<1>2. /\ \A k \in Learners \ {l} : frozen'[k] = frozen[k]
      /\ frozen'[l].state \in {"acked", "hard_crash"}
  <2>1. frozen \in [Learners -> [state : {"none", "awaiting_ack", "acked", "hard_crash"},
                                 gen : 0 .. MaxGen, close : 0 .. MaxCycle,
                                 final : 0 .. MaxCycle]]
    BY DEF AuthorityInv, TypeOK
  <2>2. CASE HardCrash(l)
    BY <2>1, <2>2 DEF HardCrash
  <2>3. CASE Acknowledge(l)
    BY <2>1, <2>3 DEF Acknowledge
  <2>4. QED
    BY <2>2, <2>3
<1>3. Phase = "closing" /\ Phase' = "closing" /\ ctl'.merges = ctl.merges
  <2>1. ctl \in [state : {"open", "preclosing"} \cup Closing \cup Closed,
                 merges : 0 .. TerminalMergeLimit]
    BY DEF AuthorityInv, TypeOK
  <2>2. QED
    BY <1>1, <2>1 DEF Phase, Closing
<1>4. \A k \in Learners : LastAllowed(k)' = IF k \in {l} THEN progress[k] ELSE LastAllowed(k)
  BY <1>1, <1>2, <1>3 DEF LastAllowed
<1>5. Bounds' = [k \in Learners |-> IF k \in {l} THEN progress[k] ELSE Bounds[k]]
  BY <1>4 DEF Bounds
<1>6. QED
  BY <1>1, <1>3, <1>5, DropMapped

\* The finalization leaves nothing outstanding.
LEMMA FinishMapped ==
  ASSUME AuthorityInv, AuthorityInv', [Next]_vars,
         NEW error \in BOOLEAN, FinalizeTerminal(error)
  PROVE  Ledger!Finish
<1>1. /\ ctl.state \in Closing /\ version >= 0 /\ terminal' = version
      /\ \A l \in Learners : frozen[l].state # "awaiting_ack"
      /\ rollup'["outstanding"] = 0
      /\ ctl' = [ctl EXCEPT !.state = IF error THEN "error" ELSE "finalized"]
      /\ UNCHANGED <<version, genesis, progress, receipt, service, frozen>>
  BY DEF FinalizeTerminal
<1>2. Phase = "closing" /\ Phase' = "closed" /\ ctl'.merges = ctl.merges
  <2>1. ctl \in [state : {"open", "preclosing"} \cup Closing \cup Closed,
                 merges : 0 .. TerminalMergeLimit]
    BY DEF AuthorityInv, TypeOK
  <2>2. ctl'.state \in Closed /\ ctl'.merges = ctl.merges
    BY <1>1, <2>1 DEF Closed
  <2>3. QED
    BY <1>1, <2>2 DEF Phase, Closing, Closed
<1>3. \A l \in Learners : LastAllowed(l) = progress[l] /\ LastAllowed(l)' = LastAllowed(l)
  BY <1>1, <1>2 DEF LastAllowed
<1>4. Bounds' = Bounds /\ \A l \in Learners : progress[l] = Bounds[l]
  BY <1>3 DEF Bounds
<1>5. Quiet
  <2>1. version \in Nat \cup {-1}
    BY DEF AuthorityInv, TypeOK
  <2>2. ~GenesisCommitted /\ \A b \in Batches : ~BatchCommitted(b)
    BY <1>1, <2>1, CommittedRows DEF GenesisCommitted
  <2>3. QED
    BY <2>2, VersionStep DEF AuthorityInv
<1>6. \A u \in Slots : fate'[u] # "outstanding"
  <2>1. Cardinality(WithFate("outstanding")') = 0
    <3>1. Counted'
      BY DEF AuthorityInv, LedgerInv
    <3>2. rollup'["outstanding"] = Cardinality(WithFate("outstanding")')
      BY <3>1 DEF Counted, Fates
    <3>3. QED
      BY <1>1, <3>2
  <2>2. WithFate("outstanding")' \in SUBSET Slots
    BY DEF WithFate
  <2>3. WithFate("outstanding")' = {}
    BY <2>1, <2>2, SlotsCount, FS_EmptySet
  <2>4. QED
    BY <2>3 DEF WithFate
<1>7. fate' = [u \in Slots |-> IF u \in Ledger!Outstanding THEN "dropped" ELSE fate[u]]
  <2>1. fate' \in [Slots -> Fates \cup {"none"}]
    BY DEF AuthorityInv, TypeOK
  <2>2. ASSUME NEW u \in Slots
        PROVE  fate'[u] = IF u \in Ledger!Outstanding THEN "dropped" ELSE fate[u]
    <3>1. \/ fate'[u] = fate[u]
          \/ fate[u] = "outstanding" /\ fate'[u] \in {"applied", "dropped"}
      BY <1>1, FateStep
    <3>2. fate'[u] = "applied" => fate[u] = "applied"
      <4>1. RowAgrees(u) /\ RowAgrees(u)'
        BY DEF AuthorityInv, LedgerInv, RowsAgree
      <4>2. QED
        BY <1>5, <4>1 DEF RowAgrees, Quiet
    <3>3. u \in Ledger!Outstanding <=> fate[u] = "outstanding"
      BY ReportsAreSlots DEF Ledger!Outstanding
    <3>4. QED
      BY <1>6, <3>1, <3>2, <3>3
  <2>3. QED
    BY <2>1, <2>2
<1>8. AppliedVersions' = AppliedVersions
  BY <1>5, QuietVersions
<1>9. QED
  BY <1>1, <1>2, <1>4, <1>7, <1>8, ReportsAreSlots
     DEF Ledger!Finish, Bounds, AppliedVersions

\* Every command is a step of the ledger, or none.
LEMMA LedgerMapped ==
  ASSUME AuthorityInv, AuthorityInv', [Next]_vars
  PROVE  [Ledger!LedgerNext]_(Ledger!ledgerVars)
<1>1. CASE UNCHANGED <<version, receipt, progress, ctl, frozen, terminal>>
  BY <1>1, StaysMapped
<1>2. ASSUME NEW l \in Learners, NEW expected \in BOOLEAN, IngestReceipt(l, expected)
      PROVE  Ledger!LedgerNext
  BY <1>2, ReportMapped DEF Ledger!LedgerNext
<1>3. ASSUME NEW e \in Epochs, CommitGenesis(e) PROVE Ledger!LedgerNext
  <2>1. /\ version = -1 /\ version' = 0
        /\ UNCHANGED <<progress, fate, update, ctl, frozen, terminal>>
    BY <1>3 DEF CommitGenesis, workVars, closeVars
  <2>2. Phase' = Phase
    BY <2>1 DEF Phase
  <2>3. Bounds' = Bounds /\ AppliedVersions' = AppliedVersions
    BY <2>1, <2>2 DEF Bounds, LastAllowed, AppliedVersions, AppliedAs
  <2>4. Ledger!Begin
    BY <2>1, <2>2, <2>3 DEF Ledger!Begin, Bounds, AppliedVersions
  <2>5. QED
    BY <2>4 DEF Ledger!LedgerNext
<1>4. ASSUME NEW b \in Batches, NEW isTerminal \in BOOLEAN, CommitMerge(b, isTerminal)
      PROVE  Ledger!LedgerNext
  <2>1. CASE Invalid(b) = {}
    BY <1>4, <2>1, MergeMapped, ReportsAreSlots DEF Ledger!LedgerNext
  <2>2. CASE Invalid(b) # {}
    <3>1. UNCHANGED <<version, receipt, progress, ctl, frozen, terminal>>
      BY <1>4, <2>2 DEF CommitMerge
    <3>2. QED
      BY <3>1, StaysMapped
  <2>3. QED
    BY <2>1, <2>2
<1>5. CASE BeginPreclose
  <2>1. /\ ctl.state = "open" /\ ctl' = [state |-> "preclosing", merges |-> 0]
        /\ UNCHANGED <<version, progress, fate, update, frozen, terminal>>
    BY <1>5 DEF BeginPreclose, workVars
  <2>2. Phase = "open" /\ Phase' = "preclosing" /\ ctl'.merges = 0
    BY <2>1 DEF Phase, Closing, Closed
  <2>3. Bounds' = Bounds /\ AppliedVersions' = AppliedVersions
    BY <2>1, <2>2 DEF Bounds, LastAllowed, AppliedVersions, AppliedAs
  <2>4. Ledger!CutOff
    BY <2>1, <2>2, <2>3 DEF Ledger!CutOff, Bounds, AppliedVersions
  <2>5. QED
    BY <2>4 DEF Ledger!LedgerNext
<1>6. CASE BeginClose
  BY <1>6, CloseMapped
<1>7. ASSUME NEW l \in Learners, HardCrash(l) \/ Acknowledge(l) PROVE Ledger!LedgerNext
  BY <1>7, AnswerMapped
<1>8. ASSUME NEW error \in BOOLEAN, FinalizeTerminal(error) PROVE Ledger!LedgerNext
  BY <1>8, FinishMapped DEF Ledger!LedgerNext
<1>9. QED
  BY <1>1, <1>2, <1>3, <1>4, <1>5, <1>6, <1>7, <1>8
     DEF Next, Membership, Merging, Terminating, AcquireLeader, BindAttempt, MarkTerminal,
         IngestProposal, TrySelectBatch, PrepareGenesis, AbandonGenesis,
         PreparePublication, AbandonPublication, ReconcilePublications, closeVars, vars

\* The authority implements TrainingLedger, for any contributors, cycles,
\* batches and leaders: whoever trains can rely on the ledger alone.
THEOREM AuthorityImplementsLedger == Spec => ImplementsLedger
<1>1. Init => Ledger!LedgerInit
  <2> SUFFICES ASSUME Init PROVE Ledger!LedgerInit
    OBVIOUS
  <2>1. Phase = "open" /\ ctl.merges = 0
    BY DEF Init, Phase, Closing, Closed
  <2>2. Bounds = [l \in Learners |-> MaxCycle]
    BY <2>1 DEF Bounds, LastAllowed
  <2>3. AppliedVersions = [u \in Slots |-> -1]
    BY DEF AppliedVersions, AppliedAs, Init
  <2>4. QED
    BY <2>1, <2>2, <2>3, ReportsAreSlots DEF Init, Ledger!LedgerInit, Bounds, AppliedVersions
<1>2. AuthorityInv /\ AuthorityInv' /\ [Next]_vars
        => [Ledger!LedgerNext]_(Ledger!ledgerVars)
  BY LedgerMapped
<1>3. QED
  BY <1>1, <1>2, AuthorityInvariant, PTL DEF Spec, ImplementsLedger, Ledger!LedgerSpec
=============================================================================
