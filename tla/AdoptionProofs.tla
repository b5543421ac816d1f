---------------------------- MODULE AdoptionProofs ----------------------------
(***************************************************************************)
(* That a proposal says of its payload what is so, for every strategy, any *)
(* number of steps to a cycle, of cycles and of versions.                  *)
(***************************************************************************)
EXTENDS AdoptionProps, TLAPS

Globals(t) == t \cap ({"global"} \X Versions)

InCycle == pc \in {"train", "poll", "cycle_end", "publish"}

\* Where the loop is goes with how far the cycle has come.
LoopInv ==
    /\ first <= step
    /\ InCycle => first < MaxLocalSteps /\ step <= first + InnerSteps
    /\ pc = "train" => step < first + InnerSteps
    /\ pc \in {"poll", "cycle_end", "publish"} => first < step

\* What the model is made of.
ModelInv ==
    /\ Globals(theta) = Loaded(base)
    /\ Stray \notin theta
    /\ Predicted \in theta => predicting \/ over
    /\ \A k \in StepsOf(theta) : k <= step
    /\ since = StepsOf(theta)
    /\ cached = base /\ base <= latest

\* What there is when there is a reference.  Between cycles it is the model
\* itself; none is left when a proposal is out.
ReferenceInv ==
    /\ predicting => config.strategy = "predict" /\ Predicted \in reference
    /\ reference # {} =>
         /\ config.strategy = "rebase" \/ predicting
         /\ reference \subseteq theta /\ Loaded(base) \subseteq reference
         /\ carried = StepsOf(theta \ reference)
    /\ pc = "top" /\ reference # {} => reference = theta
    /\ pc \in {"barrier", "after"} => reference = {}
    /\ pc = "publish" => ~predicting
    /\ pc = "poll" /\ config.strategy # "replace" => reference # {}

\* The accumulator and the model count the same steps.
AccountInv ==
    InCycle =>
        /\ acc.base = base
        /\ first <= acc.start /\ acc.start <= step
        /\ acc.effective = acc.start + 1 .. step
        /\ acc.effective = {k \in StepsOf(theta) : k > first}
        /\ acc.discarded = first + 1 .. acc.start
        /\ reference # {} => acc.start = first /\ StepsOf(theta \ reference) = acc.effective

\* No step that was published comes after the cycle's start, and one that is
\* still in the model is there on the version it was published on.
PublishedInv ==
    \A r \in published :
        /\ StepsOf(r.payload) \cap StepsOf(theta) # {} => r.base = base
        /\ \A k \in StepsOf(r.payload) : k <= IF InCycle THEN first ELSE step

ReportsInv == PayloadAccounted /\ PredictionNotMerged /\ PublishedWorkStays

StateInv == AdoptionTypeOK /\ LoopInv /\ ModelInv /\ ReferenceInv /\ AccountInv
IInv == StateInv /\ PublishedInv /\ ReportsInv /\ NoCheckFails

-----------------------------------------------------------------------------
(* Parts.                                                                  *)

\* What a loaded version is made of, with and without a prediction on top.
LEMMA LoadedParts ==
    ASSUME NEW v \in Versions
    PROVE  /\ Loaded(v) \subseteq Parts /\ {Predicted} \subseteq Parts
           /\ Globals(Loaded(v)) = Loaded(v) /\ Globals(Loaded(v) \cup {Predicted}) = Loaded(v)
           /\ StepsOf(Loaded(v)) = {} /\ StepsOf(Loaded(v) \cup {Predicted}) = {}
           /\ Predicted \notin Loaded(v)
           /\ Stray \notin Loaded(v) \cup {Predicted}
  BY DEF Parts, Globals, Loaded, StepsOf, Predicted, Stray

\* A step adds itself to the parts and to nothing else.
LEMMA StepAdded ==
    ASSUME NEW t, NEW k \in Steps
    PROVE  /\ {<<"step", k>>} \subseteq Parts
           /\ StepsOf(t \cup {<<"step", k>>}) = StepsOf(t) \cup {k}
           /\ Globals(t \cup {<<"step", k>>}) = Globals(t)
           /\ Predicted \in t \cup {<<"step", k>>} => Predicted \in t
           /\ Stray \in t \cup {<<"step", k>>} => Stray \in t
<1>1. {<<"step", k>>} \subseteq Parts
  BY DEF Parts
<1>2. \A j : <<"step", j>> = <<"step", k>> => j = k
  OBVIOUS
<1>3. StepsOf(t \cup {<<"step", k>>}) = StepsOf(t) \cup {k}
  BY <1>2 DEF StepsOf
<1>4. <<"step", k>> \notin {"global"} \X Versions
  OBVIOUS
<1>5. Globals(t \cup {<<"step", k>>}) = Globals(t)
  BY <1>4 DEF Globals
<1>6. Predicted # <<"step", k>> /\ Stray # <<"step", k>>
  BY DEF Predicted, Stray
<1>7. QED
  BY <1>1, <1>3, <1>5, <1>6

\* What is left of a model without its reference, on top of another version.
LEMMA CarriedOver ==
    ASSUME NEW t, NEW r, NEW v \in Versions, Globals(t) \subseteq r
    PROVE  /\ Globals((t \ r) \cup Loaded(v)) = Loaded(v)
           /\ StepsOf((t \ r) \cup Loaded(v)) = StepsOf(t \ r)
           /\ Predicted \in (t \ r) \cup Loaded(v) => Predicted \in t /\ Predicted \notin r
           /\ Stray \in (t \ r) \cup Loaded(v) => Stray \in t
<1>1. Globals(t \ r) = {}
  BY DEF Globals
<1>2. Globals((t \ r) \cup Loaded(v)) = Globals(t \ r) \cup Loaded(v)
  BY DEF Globals, Loaded
<1>3. QED
  BY <1>1, <1>2 DEF StepsOf, Loaded, Predicted, Stray


-----------------------------------------------------------------------------
(* Types.                                                                  *)

\* A step comes after the cycle's start and within its length.
LEMMA StepTyped ==
    ASSUME AdoptionTypeOK, LoopInv
    PROVE  /\ step \in Nat /\ first \in Nat
           /\ pc = "train" => step + 1 \in Steps
           /\ pc \in {"poll", "cycle_end", "publish"} => step \in Steps
  BY AdoptionAssumption DEF AdoptionTypeOK, LoopInv, InCycle, Steps

\* Accounts and models as the steps make them.
LEMMA AccountTyped ==
    ASSUME AdoptionTypeOK
    PROVE  /\ FreshAccount(base, step) \in Accounts
           /\ \A k \in Steps : Recorded(k) \in Accounts
           /\ Discarded \in Accounts /\ Retained \in Accounts
<1>1. acc \in Accounts /\ base \in Versions /\ latest \in Versions /\ step \in Steps \cup {0}
  BY DEF AdoptionTypeOK
<1>2. /\ acc.base \in Versions /\ acc.start \in Steps \cup {0} /\ acc.effective \in SUBSET Steps
      /\ acc.discarded \in SUBSET Steps /\ acc.retained \in SUBSET Steps
  BY <1>1 DEF Accounts
<1>3. FreshAccount(base, step) \in Accounts /\ Discarded \in Accounts
  BY <1>1, <1>2 DEF Accounts, FreshAccount, Discarded
<1>4. \A k \in Steps : Recorded(k) \in Accounts
  BY <1>1, <1>2 DEF Accounts, Recorded
<1>5. Retained \in Accounts
  BY <1>1, <1>2 DEF Accounts, Retained
<1>6. QED
  BY <1>3, <1>4, <1>5

\* Models as the steps make them.
LEMMA ModelTyped ==
    ASSUME AdoptionTypeOK
    PROVE  /\ Loaded(latest) \in SUBSET Parts /\ Rebased(latest) \in SUBSET Parts
           /\ Loaded(cached) \cup {Predicted} \in SUBSET Parts
<1>1. latest \in Versions /\ cached \in Versions /\ theta \in SUBSET Parts
  BY DEF AdoptionTypeOK
<1>2. Loaded(latest) \subseteq Parts /\ Loaded(cached) \subseteq Parts /\ {Predicted} \subseteq Parts
  BY <1>1, LoadedParts
<1>3. Stray \in Parts
  BY DEF Parts
<1>4. QED
  BY <1>1, <1>2, <1>3 DEF Rebased

\* Every step keeps the types.
LEMMA TypePreserved ==
    ASSUME StateInv, AdoptionNext
    PROVE  AdoptionTypeOK'
<1> USE DEF Go, environment, strategy, learner, Checked, NoReference, Apply
<1>t. AdoptionTypeOK /\ LoopInv
  BY DEF StateInv
<1>s. step \in Nat /\ first \in Nat
  BY <1>t, StepTyped
<1>1. CASE NewVersion
  <2>1. latest' \in Versions
    BY <1>1, <1>t, AdoptionAssumption DEF NewVersion, AdoptionTypeOK, Versions
  <2>2. QED
    BY <1>1, <1>t, <2>1 DEF NewVersion, AdoptionTypeOK
<1>2. CASE Terminal
  BY <1>2, <1>t DEF Terminal, AdoptionTypeOK
<1>3. CASE Leave
  BY <1>3, <1>t DEF Leave, AdoptionTypeOK
<1>4. CASE BeginCycle
  BY <1>4, <1>t, AccountTyped DEF BeginCycle, AdoptionTypeOK
<1>5. CASE TrainStep
  <2>1. step' \in Steps
    BY <1>5, <1>t, StepTyped DEF TrainStep
  <2>2. acc' \in Accounts
    BY <1>5, <1>t, <2>1, AccountTyped DEF TrainStep
  <2>3. theta' \in SUBSET Parts
    BY <1>5, <1>t, <2>1, StepAdded DEF TrainStep, AdoptionTypeOK
  <2>4. since' \in SUBSET Steps /\ carried' \in SUBSET Steps
    BY <1>5, <1>t, <2>1 DEF TrainStep, AdoptionTypeOK
  <2>5. pc' \in {"poll", "train", "cycle_end"}
    BY <1>5 DEF TrainStep, Onward
  <2>6. QED
    BY <1>5, <1>t, <2>1, <2>2, <2>3, <2>4, <2>5 DEF TrainStep, AdoptionTypeOK
<1>6. CASE PollNewer
  <2>1. acc' \in Accounts /\ theta' \in SUBSET Parts
    BY <1>6, <1>t, AccountTyped, ModelTyped DEF PollNewer, AdoptDirectly, Rebase
  <2>2. /\ base' \in Versions /\ cached' \in Versions /\ since' \in SUBSET Steps
        /\ reference' \in SUBSET Parts /\ predicting' \in BOOLEAN /\ carried' \in SUBSET Steps
    BY <1>6, <1>t DEF PollNewer, AdoptDirectly, Rebase, AdoptionTypeOK
  <2>3. pc' \in {"train", "cycle_end", "failed"}
    BY <1>6 DEF PollNewer, Onward
  <2>4. QED
    BY <1>6, <1>t, <2>1, <2>2, <2>3 DEF PollNewer, AdoptionTypeOK
<1>7. CASE PollNothing
  BY <1>7, <1>t DEF PollNothing, Onward, AdoptionTypeOK
<1>8. CASE CycleEnd
  BY <1>8, <1>t DEF CycleEnd, AdoptionTypeOK
<1>9. CASE Reconcile
  <2>1. acc' \in Accounts /\ theta' \in SUBSET Parts
    BY <1>9, <1>t, AccountTyped, ModelTyped DEF Reconcile, Rebase
  <2>2. QED
    BY <1>9, <1>t, <2>1 DEF Reconcile, Rebase, AdoptionTypeOK
<1>10. CASE AbandonPrediction
  BY <1>10, <1>t DEF AbandonPrediction, AdoptionTypeOK
<1>11. CASE ReconcileTimeout
  BY <1>11, <1>t DEF ReconcileTimeout, AdoptionTypeOK
<1>12. CASE PublishProposal
  <2>1. Receipt(theta) \in Receipts
    BY <1>12, <1>t, StepTyped DEF PublishProposal, Receipt, Receipts, AdoptionTypeOK
  <2>2. QED
    BY <1>12, <1>t, <2>1 DEF PublishProposal, AdoptionTypeOK
<1>13. CASE PublishReceipt
  <2>1. Receipt({}) \in Receipts
    BY <1>13, <1>t, StepTyped DEF PublishReceipt, Receipt, Receipts, AdoptionTypeOK
  <2>2. QED
    BY <1>13, <1>t, <2>1 DEF PublishReceipt, AdoptionTypeOK
<1>14. CASE Acknowledged
  BY <1>14, <1>t DEF Acknowledged, AdoptionTypeOK
<1>15. CASE AfterPublishNewer
  BY <1>15, <1>t, ModelTyped DEF AfterPublishNewer, AdoptDirectly, AdoptionTypeOK
<1>16. CASE AfterPublishNothing
  BY <1>16, <1>t DEF AfterPublishNothing, AdoptionTypeOK
<1>17. CASE SaveAnchor
  BY <1>17, <1>t DEF SaveAnchor, AdoptionTypeOK
<1>18. CASE StartPrediction
  <2>1. theta' \in SUBSET Parts
    BY <1>18, <1>t, ModelTyped DEF StartPrediction
  <2>2. QED
    BY <1>18, <1>t, <2>1 DEF StartPrediction, AdoptionTypeOK
<1>19. QED
  BY <1>1, <1>2, <1>3, <1>4, <1>5, <1>6, <1>7, <1>8, <1>9, <1>10, <1>11, <1>12, <1>13,
     <1>14, <1>15, <1>16, <1>17, <1>18 DEF AdoptionNext

-----------------------------------------------------------------------------
(* The model, its reference and the account.                               *)

\* What a rebase makes of the model.
LEMMA RebasedParts ==
    ASSUME StateInv, reference # {}
    PROVE  /\ Globals(Rebased(latest)) = Loaded(latest)
           /\ StepsOf(Rebased(latest)) = carried /\ carried = StepsOf(theta \ reference)
           /\ \A k \in carried : k <= step
           /\ Stray \notin Rebased(latest)
           /\ Predicted \in Rebased(latest) => over
<1>1. /\ latest \in Versions /\ Globals(theta) = Loaded(base) /\ Stray \notin theta
      /\ reference \subseteq theta /\ Loaded(base) \subseteq reference
      /\ carried = StepsOf(theta \ reference)
      /\ \A k \in StepsOf(theta) : k <= step
  BY DEF StateInv, AdoptionTypeOK, ModelInv, ReferenceInv
<1>2. Rebased(latest) = (theta \ reference) \cup Loaded(latest)
  BY <1>1 DEF Rebased
<1>3. Predicted \in theta /\ Predicted \notin reference => over
  BY DEF StateInv, ModelInv, ReferenceInv
<1>4. /\ Globals(Rebased(latest)) = Loaded(latest)
      /\ StepsOf(Rebased(latest)) = StepsOf(theta \ reference)
      /\ Predicted \in Rebased(latest) => Predicted \in theta /\ Predicted \notin reference
      /\ Stray \in Rebased(latest) => Stray \in theta
  <2>1. Globals(theta) \subseteq reference
    BY <1>1
  <2>2. /\ Globals((theta \ reference) \cup Loaded(latest)) = Loaded(latest)
        /\ StepsOf((theta \ reference) \cup Loaded(latest)) = StepsOf(theta \ reference)
        /\ Predicted \in (theta \ reference) \cup Loaded(latest)
             => Predicted \in theta /\ Predicted \notin reference
        /\ Stray \in (theta \ reference) \cup Loaded(latest) => Stray \in theta
    BY <1>1, <2>1, CarriedOver
  <2>3. QED
    BY <1>2, <2>2
<1>5. \A k \in StepsOf(theta \ reference) : k <= step
  BY <1>1 DEF StepsOf
<1>6. QED
  BY <1>1, <1>3, <1>4, <1>5

\* The loop is where its place says.
LEMMA LoopPreserved ==
    ASSUME StateInv, AdoptionNext
    PROVE  LoopInv'
<1> USE DEF Go, environment, strategy, learner, Checked, NoReference, Apply
<1>t. StateInv /\ AdoptionTypeOK /\ LoopInv /\ ModelInv /\ ReferenceInv /\ AccountInv
  BY DEF StateInv
<1>s. step \in Nat /\ first \in Nat /\ base \in Nat /\ latest \in Nat
  BY <1>t, StepTyped DEF AdoptionTypeOK, Versions
<1>1. CASE NewVersion
  BY <1>1, <1>t, <1>s DEF NewVersion, LoopInv, InCycle
<1>2. CASE Terminal
  BY <1>2, <1>t, <1>s DEF Terminal, LoopInv, InCycle
<1>3. CASE Leave
  BY <1>3, <1>t, <1>s DEF Leave, LoopInv, InCycle
<1>4. CASE BeginCycle
  BY <1>4, <1>t, <1>s, StepTyped, AdoptionAssumption DEF BeginCycle,
     LoopInv, InCycle, FreshAccount
<1>5. CASE TrainStep
  BY <1>5, <1>t, <1>s, StepTyped, AdoptionAssumption DEF TrainStep, LoopInv,
     InCycle, Onward
<1>6. CASE PollNewer
  BY <1>6, <1>t, <1>s DEF PollNewer, LoopInv, InCycle, AdoptDirectly,
     Rebase, Discarded, Retained, Onward
<1>7. CASE PollNothing
  BY <1>7, <1>t, <1>s DEF PollNothing, LoopInv, InCycle, Onward
<1>8. CASE CycleEnd
  BY <1>8, <1>t, <1>s DEF CycleEnd, LoopInv, InCycle
<1>9. CASE Reconcile
  BY <1>9, <1>t, <1>s DEF Reconcile, LoopInv, InCycle, Rebase, Retained
<1>10. CASE AbandonPrediction
  BY <1>10, <1>t, <1>s DEF AbandonPrediction, LoopInv, InCycle
<1>11. CASE ReconcileTimeout
  BY <1>11, <1>t, <1>s DEF ReconcileTimeout, LoopInv, InCycle
<1>12. CASE PublishProposal
  BY <1>12, <1>t, <1>s DEF PublishProposal, LoopInv, InCycle
<1>13. CASE PublishReceipt
  BY <1>13, <1>t, <1>s DEF PublishReceipt, LoopInv, InCycle
<1>14. CASE Acknowledged
  BY <1>14, <1>t, <1>s DEF Acknowledged, LoopInv, InCycle
<1>15. CASE AfterPublishNewer
  BY <1>15, <1>t, <1>s DEF AfterPublishNewer, LoopInv, InCycle, AdoptDirectly
<1>16. CASE AfterPublishNothing
  BY <1>16, <1>t, <1>s DEF AfterPublishNothing, LoopInv, InCycle
<1>17. CASE SaveAnchor
  BY <1>17, <1>t, <1>s DEF SaveAnchor, LoopInv, InCycle
<1>18. CASE StartPrediction
  BY <1>18, <1>t, <1>s DEF StartPrediction, LoopInv, InCycle
<1>19. QED
  BY <1>1, <1>2, <1>3, <1>4, <1>5, <1>6, <1>7, <1>8, <1>9, <1>10, <1>11,
     <1>12, <1>13, <1>14, <1>15, <1>16, <1>17, <1>18 DEF AdoptionNext

\* The model is a version with steps on top.
LEMMA ModelPreserved ==
    ASSUME StateInv, AdoptionNext
    PROVE  ModelInv'
<1> USE DEF Go, environment, strategy, learner, Checked, NoReference, Apply
<1>t. StateInv /\ AdoptionTypeOK /\ LoopInv /\ ModelInv /\ ReferenceInv /\ AccountInv
  BY DEF StateInv
<1>s. step \in Nat /\ first \in Nat /\ base \in Nat /\ latest \in Nat
  BY <1>t, StepTyped DEF AdoptionTypeOK, Versions
<1>d. /\ Globals(Loaded(latest)) = Loaded(latest) /\ StepsOf(Loaded(latest)) = {}
      /\ Predicted \notin Loaded(latest) /\ Stray \notin Loaded(latest)
  BY <1>t, LoadedParts DEF AdoptionTypeOK
<1>1. CASE NewVersion
  BY <1>1, <1>t, <1>s DEF NewVersion, ModelInv
<1>2. CASE Terminal
  BY <1>2, <1>t, <1>s DEF Terminal, ModelInv
<1>3. CASE Leave
  BY <1>3, <1>t, <1>s DEF Leave, ModelInv
<1>4. CASE BeginCycle
  BY <1>4, <1>t, <1>s DEF BeginCycle, ModelInv, FreshAccount
<1>5. CASE TrainStep
  <2>1. step + 1 \in Steps
    BY <1>5, <1>t, StepTyped DEF TrainStep
  <2>2. /\ StepsOf(theta') = StepsOf(theta) \cup {step + 1}
        /\ Globals(theta') = Globals(theta)
        /\ Predicted \in theta' => Predicted \in theta
        /\ Stray \in theta' => Stray \in theta
    BY <1>5, <2>1, StepAdded DEF TrainStep
  <2>3. \A k \in StepsOf(theta') : k <= step'
    BY <1>5, <1>t, <1>s, <2>2 DEF TrainStep, ModelInv, StepsOf, Steps
  <2>4. since' = StepsOf(theta')
    BY <1>5, <1>t, <2>2 DEF TrainStep, ModelInv
  <2>5. QED
    BY <1>5, <1>t, <2>2, <2>3, <2>4 DEF TrainStep, ModelInv
<1>6. CASE PollNewer
  <2>1. CASE config.strategy = "replace"
    BY <1>6, <1>t, <1>s, <1>d, <2>1 DEF PollNewer, AdoptDirectly, ModelInv
  <2>2. CASE config.strategy # "replace"
    BY <1>6, <1>t, <1>s, <2>2, RebasedParts DEF PollNewer, Rebase,
       ModelInv, ReferenceInv
  <2>3. QED
    BY <2>1, <2>2
<1>7. CASE PollNothing
  BY <1>7, <1>t, <1>s DEF PollNothing, ModelInv, Onward
<1>8. CASE CycleEnd
  BY <1>8, <1>t, <1>s DEF CycleEnd, ModelInv
<1>9. CASE Reconcile
  BY <1>9, <1>t, <1>s, RebasedParts DEF Reconcile, Rebase, ModelInv,
     ReferenceInv
<1>10. CASE AbandonPrediction
  BY <1>10, <1>t, <1>s DEF AbandonPrediction, ModelInv
<1>11. CASE ReconcileTimeout
  BY <1>11, <1>t, <1>s DEF ReconcileTimeout, ModelInv
<1>12. CASE PublishProposal
  BY <1>12, <1>t, <1>s DEF PublishProposal, ModelInv, ReferenceInv
<1>13. CASE PublishReceipt
  BY <1>13, <1>t, <1>s DEF PublishReceipt, ModelInv
<1>14. CASE Acknowledged
  BY <1>14, <1>t, <1>s DEF Acknowledged, ModelInv
<1>15. CASE AfterPublishNewer
  BY <1>15, <1>t, <1>s, <1>d DEF AfterPublishNewer, AdoptDirectly, ModelInv
<1>16. CASE AfterPublishNothing
  BY <1>16, <1>t, <1>s DEF AfterPublishNothing, ModelInv
<1>17. CASE SaveAnchor
  BY <1>17, <1>t, <1>s DEF SaveAnchor, ModelInv
<1>18. CASE StartPrediction
  BY <1>18, <1>t, <1>s, LoadedParts DEF StartPrediction, ModelInv,
     AdoptionTypeOK
<1>19. QED
  BY <1>1, <1>2, <1>3, <1>4, <1>5, <1>6, <1>7, <1>8, <1>9, <1>10, <1>11,
     <1>12, <1>13, <1>14, <1>15, <1>16, <1>17, <1>18 DEF AdoptionNext

\* The reference is in the model, and gone when a proposal is out.
LEMMA ReferencePreserved ==
    ASSUME StateInv, AdoptionNext
    PROVE  ReferenceInv'
<1> USE DEF Go, environment, strategy, learner, Checked, NoReference, Apply
<1>t. StateInv /\ AdoptionTypeOK /\ LoopInv /\ ModelInv /\ ReferenceInv /\ AccountInv
  BY DEF StateInv
<1>s. step \in Nat /\ first \in Nat /\ base \in Nat /\ latest \in Nat
  BY <1>t, StepTyped DEF AdoptionTypeOK, Versions
<1>1. CASE NewVersion
  BY <1>1, <1>t, <1>s DEF NewVersion, ReferenceInv
<1>2. CASE Terminal
  BY <1>2, <1>t, <1>s DEF Terminal, ReferenceInv
<1>3. CASE Leave
  BY <1>3, <1>t, <1>s DEF Leave, ReferenceInv
<1>4. CASE BeginCycle
  BY <1>4, <1>t, <1>s DEF BeginCycle, ReferenceInv, FreshAccount
<1>5. CASE TrainStep
  <2>1. step + 1 \in Steps
    BY <1>5, <1>t, StepTyped DEF TrainStep
  <2>2. reference # {} => <<"step", step + 1>> \notin reference
    BY <1>t, <1>s, <2>1 DEF ReferenceInv, ModelInv, StepsOf
  <2>3. reference # {} => theta' \ reference = (theta \ reference) \cup {<<"step", step + 1>>}
    BY <1>5, <2>2 DEF TrainStep
  <2>4. StepsOf((theta \ reference) \cup {<<"step", step + 1>>})
          = StepsOf(theta \ reference) \cup {step + 1}
    BY <2>1, StepAdded
  <2>5. reference # {} => carried' = StepsOf(theta' \ reference)
    BY <1>5, <1>t, <2>3, <2>4 DEF TrainStep, ReferenceInv
  <2>6. pc' \in {"poll", "train", "cycle_end"}
    BY <1>5 DEF TrainStep, Onward
  <2>7. pc' = "poll" => config.strategy = "replace" \/ reference # {}
    BY <1>5 DEF TrainStep, Onward, WantsInnerPoll
  <2>8. QED
    BY <1>5, <1>t, <2>5, <2>6, <2>7 DEF TrainStep, ReferenceInv
<1>6. CASE PollNewer
  BY <1>6, <1>t, <1>s DEF PollNewer, ReferenceInv, AdoptDirectly, Rebase,
     Discarded, Retained, Onward, AdoptionTypeOK
<1>7. CASE PollNothing
  BY <1>7, <1>t, <1>s DEF PollNothing, ReferenceInv, Onward
<1>8. CASE CycleEnd
  BY <1>8, <1>t, <1>s DEF CycleEnd, ReferenceInv
<1>9. CASE Reconcile
  BY <1>9, <1>t, <1>s DEF Reconcile, ReferenceInv, Rebase, Retained
<1>10. CASE AbandonPrediction
  BY <1>10, <1>t, <1>s DEF AbandonPrediction, ReferenceInv
<1>11. CASE ReconcileTimeout
  BY <1>11, <1>t, <1>s DEF ReconcileTimeout, ReferenceInv
<1>12. CASE PublishProposal
  <2>1. reference' = {} /\ ~predicting' /\ pc' = "barrier"
    BY <1>12, <1>t DEF PublishProposal, ReferenceInv
  <2>2. QED
    BY <2>1 DEF ReferenceInv
<1>13. CASE PublishReceipt
  <2>1. first + 1 \in first + 1 .. step
    BY <1>13, <1>t, <1>s DEF PublishReceipt, LoopInv
  <2>2. reference = {}
    BY <1>13, <1>t, <2>1 DEF PublishReceipt, ProposalExpected, AccountInv,
       InCycle
  <2>3. QED
    BY <1>13, <1>t, <2>2 DEF PublishReceipt, ReferenceInv
<1>14. CASE Acknowledged
  BY <1>14, <1>t, <1>s DEF Acknowledged, ReferenceInv
<1>15. CASE AfterPublishNewer
  BY <1>15, <1>t, <1>s DEF AfterPublishNewer, ReferenceInv, AdoptDirectly,
     ModelInv
<1>16. CASE AfterPublishNothing
  BY <1>16, <1>t, <1>s DEF AfterPublishNothing, ReferenceInv
<1>17. CASE SaveAnchor
  <2>1. Loaded(base) \subseteq theta
    BY <1>t DEF ModelInv, Globals
  <2>2. StepsOf(theta \ theta) = {}
    BY DEF StepsOf
  <2>3. QED
    BY <1>17, <1>t, <2>1, <2>2 DEF SaveAnchor, ReferenceInv
<1>18. CASE StartPrediction
  <2>1. theta' = Loaded(base) \cup {Predicted} /\ reference' = theta' /\ predicting' /\ carried' = {}
    BY <1>18, <1>t DEF StartPrediction, ModelInv
  <2>2. StepsOf(theta' \ reference') = {}
    BY <2>1 DEF StepsOf
  <2>3. QED
    BY <1>18, <1>t, <2>1, <2>2 DEF StartPrediction, ReferenceInv, ModelInv
<1>19. QED
  BY <1>1, <1>2, <1>3, <1>4, <1>5, <1>6, <1>7, <1>8, <1>9, <1>10, <1>11,
     <1>12, <1>13, <1>14, <1>15, <1>16, <1>17, <1>18 DEF AdoptionNext

\* The account and the model count the same steps.
LEMMA AccountPreserved ==
    ASSUME StateInv, AdoptionNext
    PROVE  AccountInv'
<1> USE DEF Go, environment, strategy, learner, Checked, NoReference, Apply
<1>t. StateInv /\ AdoptionTypeOK /\ LoopInv /\ ModelInv /\ ReferenceInv /\ AccountInv
  BY DEF StateInv
<1>s. step \in Nat /\ first \in Nat /\ base \in Nat /\ latest \in Nat
  BY <1>t, StepTyped DEF AdoptionTypeOK, Versions
<1>1. CASE NewVersion
  BY <1>1, <1>t, <1>s DEF NewVersion, AccountInv, InCycle
<1>2. CASE Terminal
  BY <1>2, <1>t, <1>s DEF Terminal, AccountInv, InCycle
<1>3. CASE Leave
  BY <1>3, <1>t, <1>s DEF Leave, AccountInv, InCycle
<1>4. CASE BeginCycle
  <2>1. step + 1 .. step = {} /\ \A k \in StepsOf(theta) : ~(k > step)
    BY <1>t, <1>s DEF ModelInv, AdoptionTypeOK, StepsOf, Steps
  <2>2. reference # {} => StepsOf(theta \ reference) = {}
    BY <1>4, <1>t DEF BeginCycle, ReferenceInv, StepsOf
  <2>3. /\ first' = step /\ step' = step /\ base' = base /\ theta' = theta
        /\ reference' = reference
        /\ acc'.base = base /\ acc'.start = step /\ acc'.effective = {} /\ acc'.discarded = {}
    BY <1>4 DEF BeginCycle, FreshAccount
  <2>4. acc'.effective = {k \in StepsOf(theta') : k > first'}
    BY <2>1, <2>3
  <2>5. /\ acc'.effective = acc'.start + 1 .. step' /\ acc'.discarded = first' + 1 .. acc'.start
        /\ first' <= acc'.start /\ acc'.start <= step'
    BY <1>s, <2>1, <2>3
  <2>6. QED
    BY <2>2, <2>3, <2>4, <2>5 DEF AccountInv
<1>5. CASE TrainStep
  <2>1. step + 1 \in Steps /\ InCycle
    BY <1>5, <1>t, StepTyped DEF TrainStep, InCycle
  <2>2. StepsOf(theta') = StepsOf(theta) \cup {step + 1}
    BY <1>5, <2>1, StepAdded DEF TrainStep
  <2>3. /\ step' = step + 1 /\ first' = first /\ base' = base /\ reference' = reference
        /\ acc'.base = acc.base /\ acc'.start = acc.start
        /\ acc'.effective = acc.effective \cup {step + 1} /\ acc'.discarded = acc.discarded
    BY <1>5, <1>t DEF TrainStep, Recorded, AdoptionTypeOK, Accounts
  <2>4. /\ acc.base = base /\ first <= acc.start /\ acc.start <= step /\ acc.start \in Nat
        /\ acc.effective = acc.start + 1 .. step
        /\ acc.effective = {k \in StepsOf(theta) : k > first}
        /\ acc.discarded = first + 1 .. acc.start
        /\ reference # {} => acc.start = first /\ StepsOf(theta \ reference) = acc.effective
    BY <1>t, <2>1 DEF AccountInv, AdoptionTypeOK, Accounts, Steps
  <2>5. acc'.effective = acc'.start + 1 .. step'
    BY <1>s, <2>3, <2>4
  <2>6. acc'.effective = {k \in StepsOf(theta') : k > first'}
    BY <1>s, <2>2, <2>3, <2>4
  <2>7. reference' # {} => acc'.start = first' /\ StepsOf(theta' \ reference') = acc'.effective
    <3>1. SUFFICES ASSUME reference # {} PROVE StepsOf(theta' \ reference) = acc'.effective
      BY <2>3, <2>4
    <3>2. <<"step", step + 1>> \notin reference
      BY <1>t, <1>s, <2>1, <3>1 DEF ReferenceInv, ModelInv, StepsOf
    <3>3. theta' \ reference = (theta \ reference) \cup {<<"step", step + 1>>}
      BY <1>5, <3>2 DEF TrainStep
    <3>4. StepsOf((theta \ reference) \cup {<<"step", step + 1>>})
            = StepsOf(theta \ reference) \cup {step + 1}
      BY <2>1, StepAdded
    <3>5. QED
      BY <2>3, <2>4, <3>1, <3>3, <3>4
  <2>8. /\ acc'.base = base' /\ first' <= acc'.start /\ acc'.start <= step'
        /\ acc'.discarded = first' + 1 .. acc'.start
    BY <1>s, <2>3, <2>4
  <2>9. QED
    BY <2>5, <2>6, <2>7, <2>8 DEF AccountInv
<1>6. CASE PollNewer
  <2>1. InCycle /\ acc.start \in Nat /\ step' = step /\ first' = first
    BY <1>6, <1>t DEF PollNewer, InCycle, AdoptionTypeOK, Accounts, Steps
  <2>2. /\ first <= acc.start /\ acc.start <= step
        /\ acc.effective = acc.start + 1 .. step /\ acc.discarded = first + 1 .. acc.start
        /\ reference # {} => acc.start = first /\ StepsOf(theta \ reference) = acc.effective
    BY <1>t, <2>1 DEF AccountInv
  <2>3. CASE config.strategy = "replace"
    <3>1. reference' = {} /\ base' = latest /\ StepsOf(theta') = {}
      BY <1>6, <1>t, <2>3, LoadedParts DEF PollNewer, AdoptDirectly,
         ReferenceInv, AdoptionTypeOK
    <3>2. /\ acc'.base = latest /\ acc'.start = step /\ acc'.effective = {}
          /\ acc'.discarded = acc.discarded \cup acc.effective
      BY <1>6, <2>3 DEF PollNewer, Discarded
    <3>3. acc'.discarded = first + 1 .. step
      BY <1>s, <2>1, <2>2, <3>2
    <3>4. step + 1 .. step = {}
      BY <1>s
    <3>5. first <= step
      BY <1>s, <2>1, <2>2
    <3>6. QED
      BY <1>s, <2>1, <3>1, <3>2, <3>3, <3>4, <3>5 DEF AccountInv
  <2>4. CASE config.strategy # "replace"
    <3>1. /\ reference # {} /\ reference' = {} /\ base' = latest
          /\ StepsOf(theta') = acc.effective
      BY <1>6, <1>t, <2>2, <2>4, RebasedParts DEF PollNewer, Rebase,
         ReferenceInv
    <3>2. /\ acc'.base = latest /\ acc'.start = acc.start
          /\ acc'.effective = acc.effective /\ acc'.discarded = acc.discarded
      BY <1>6, <1>t, <2>4 DEF PollNewer, Retained, AdoptionTypeOK, Accounts
    <3>3. acc.effective = {k \in acc.effective : k > first}
      BY <1>s, <2>1, <2>2
    <3>4. QED
      BY <2>1, <2>2, <3>1, <3>2, <3>3 DEF AccountInv
  <2>5. QED
    BY <2>3, <2>4
<1>7. CASE PollNothing
  BY <1>7, <1>t, <1>s DEF PollNothing, AccountInv, InCycle, Onward
<1>8. CASE CycleEnd
  BY <1>8, <1>t, <1>s DEF CycleEnd, AccountInv, InCycle
<1>9. CASE Reconcile
  <2>1. /\ InCycle /\ acc.start \in Nat /\ step' = step /\ first' = first /\ reference # {}
        /\ reference' = {} /\ base' = latest
    BY <1>9, <1>t DEF Reconcile, Rebase, InCycle, ReferenceInv,
       AdoptionTypeOK, Accounts, Steps
  <2>2. /\ first <= acc.start /\ acc.start <= step
        /\ acc.effective = acc.start + 1 .. step /\ acc.discarded = first + 1 .. acc.start
        /\ acc.start = first /\ StepsOf(theta \ reference) = acc.effective
    BY <1>t, <2>1 DEF AccountInv
  <2>3. StepsOf(theta') = acc.effective
    BY <1>9, <1>t, <2>1, <2>2, RebasedParts DEF Reconcile, Rebase
  <2>4. /\ acc'.base = latest /\ acc'.start = acc.start
        /\ acc'.effective = acc.effective /\ acc'.discarded = acc.discarded
    BY <1>9, <1>t DEF Reconcile, Retained, AdoptionTypeOK, Accounts
  <2>5. acc.effective = {k \in acc.effective : k > first}
    BY <1>s, <2>2
  <2>6. QED
    BY <2>1, <2>2, <2>3, <2>4, <2>5 DEF AccountInv
<1>10. CASE AbandonPrediction
  BY <1>10, <1>t, <1>s DEF AbandonPrediction, AccountInv, InCycle
<1>11. CASE ReconcileTimeout
  BY <1>11, <1>t, <1>s DEF ReconcileTimeout, AccountInv, InCycle
<1>12. CASE PublishProposal
  BY <1>12, <1>t, <1>s DEF PublishProposal, AccountInv, InCycle, ReferenceInv
<1>13. CASE PublishReceipt
  BY <1>13, <1>t, <1>s DEF PublishReceipt, AccountInv, InCycle
<1>14. CASE Acknowledged
  BY <1>14, <1>t, <1>s DEF Acknowledged, AccountInv, InCycle
<1>15. CASE AfterPublishNewer
  BY <1>15, <1>t, <1>s DEF AfterPublishNewer, AccountInv, InCycle,
     AdoptDirectly
<1>16. CASE AfterPublishNothing
  BY <1>16, <1>t, <1>s DEF AfterPublishNothing, AccountInv, InCycle
<1>17. CASE SaveAnchor
  BY <1>17, <1>t, <1>s DEF SaveAnchor, AccountInv, InCycle
<1>18. CASE StartPrediction
  BY <1>18, <1>t, <1>s DEF StartPrediction, AccountInv, InCycle
<1>19. QED
  BY <1>1, <1>2, <1>3, <1>4, <1>5, <1>6, <1>7, <1>8, <1>9, <1>10, <1>11,
     <1>12, <1>13, <1>14, <1>15, <1>16, <1>17, <1>18 DEF AdoptionNext

\* No check of the code fails.
LEMMA ChecksPass ==
    ASSUME StateInv, NoCheckFails, AdoptionNext
    PROVE  NoCheckFails'
<1> USE DEF Go, Checked
<1>t. ModelInv /\ ReferenceInv /\ AccountInv
  BY DEF StateInv
<1>1. CASE PollNewer \/ Reconcile
  <2>1. acc.base = base /\ latest > base
    BY <1>1, <1>t DEF PollNewer, Reconcile, Newer, AccountInv, InCycle
  <2>2. QED
    BY <1>1, <2>1 DEF PollNewer, Reconcile, Onward, NoCheckFails
<1>2. CASE PublishProposal
  BY <1>2, <1>t DEF PublishProposal, ReferenceInv, NoCheckFails
<1>3. CASE StartPrediction
  BY <1>3, <1>t DEF StartPrediction, ModelInv, NoCheckFails
<1>4. CASE TrainStep \/ PollNothing
  BY <1>4 DEF TrainStep, PollNothing, Onward, NoCheckFails
<1>5. CASE NewVersion \/ Terminal \/ Leave \/ BeginCycle
  BY <1>5 DEF NewVersion, Terminal, Leave, BeginCycle, NoCheckFails, learner
<1>6. CASE CycleEnd \/ AbandonPrediction \/ ReconcileTimeout \/ PublishReceipt
  BY <1>6 DEF CycleEnd, AbandonPrediction, ReconcileTimeout, PublishReceipt, NoCheckFails
<1>7. CASE Acknowledged \/ AfterPublishNewer \/ AfterPublishNothing \/ SaveAnchor
  BY <1>7 DEF Acknowledged, AfterPublishNewer, AfterPublishNothing, SaveAnchor, NoCheckFails
<1>8. QED
  BY <1>1, <1>2, <1>3, <1>4, <1>5, <1>6, <1>7 DEF AdoptionNext

-----------------------------------------------------------------------------
(* What is published.                                                      *)

Report == Receipt(theta)

\* What is published stays, and a receipt without a payload or the report of
\* the cycle comes in.
LEMMA PublishedBy ==
    ASSUME AdoptionNext
    PROVE  \A r \in published' :
             \/ r \in published
             \/ PublishProposal /\ r = Report
             \/ PublishReceipt /\ r.payload = {}
<1> USE DEF Go, environment, strategy, learner
<1>1. CASE PublishProposal
  BY <1>1 DEF PublishProposal, Report
<1>2. CASE PublishReceipt
  BY <1>2 DEF PublishReceipt, Receipt
<1>3. CASE NewVersion \/ Terminal \/ Leave \/ BeginCycle \/ TrainStep \/ PollNewer
  BY <1>3 DEF NewVersion, Terminal, Leave, BeginCycle, TrainStep, PollNewer
<1>4. CASE PollNothing \/ CycleEnd \/ Reconcile \/ AbandonPrediction \/ ReconcileTimeout
  BY <1>4 DEF PollNothing, CycleEnd, Reconcile, AbandonPrediction, ReconcileTimeout
<1>5. CASE Acknowledged \/ AfterPublishNewer \/ AfterPublishNothing \/ SaveAnchor
             \/ StartPrediction
  BY <1>5 DEF Acknowledged, AfterPublishNewer, AfterPublishNothing, SaveAnchor,
              StartPrediction
<1>6. QED
  BY <1>1, <1>2, <1>3, <1>4, <1>5 DEF AdoptionNext

\* The report of a cycle is true, and shares no step with one on another base.
LEMMA ReportIsTrue ==
    ASSUME StateInv, PublishedInv, PublishProposal
    PROVE  /\ Report.payload = theta /\ Report.base = base
           /\ Globals(Report.payload) = Loaded(Report.base)
           /\ Report.account.base = Report.base
           /\ Stray \notin Report.payload
           /\ Report.account.effective = {k \in StepsOf(Report.payload) : k > Report.first}
           /\ Report.account.effective = Report.account.start + 1 .. Report.last
           /\ Report.account.discarded = Report.first + 1 .. Report.account.start
           /\ Predicted \in Report.payload => Report.late
           /\ \A s \in published : StepsOf(theta) \cap StepsOf(s.payload) # {} => s.base = base
<1>1. InCycle /\ ~predicting
  BY DEF PublishProposal, InCycle, StateInv, ReferenceInv
<1>2. /\ Report.payload = theta /\ Report.base = base /\ Report.account = acc
      /\ Report.first = first /\ Report.last = step /\ Report.late = over
  BY DEF Report, Receipt
<1>3. QED
  BY <1>1, <1>2 DEF StateInv, ModelInv, AccountInv, PublishedInv

\* What has been reported stays true, and is joined by what is.
LEMMA ReportsPreserved ==
    ASSUME StateInv, PublishedInv, ReportsInv, AdoptionNext
    PROVE  ReportsInv'
<1>1. /\ PayloadAccounted /\ PredictionNotMerged /\ PublishedWorkStays
      /\ \A t : StepsOf({}) \cap StepsOf(t) = {}
  BY DEF ReportsInv, StepsOf
<1>2. PayloadAccounted'
  BY <1>1, PublishedBy, ReportIsTrue DEF PayloadAccounted, Globals
<1>3. PredictionNotMerged'
  BY <1>1, PublishedBy, ReportIsTrue DEF PredictionNotMerged
<1>4. PublishedWorkStays'
  BY <1>1, PublishedBy, ReportIsTrue DEF PublishedWorkStays
<1>5. QED
  BY <1>2, <1>3, <1>4 DEF ReportsInv

\* What is still in the model was published on its base, if it was.
LEMMA PublishedPreserved ==
    ASSUME StateInv, PublishedInv, AdoptionNext
    PROVE  PublishedInv'
<1> USE DEF Go, environment, strategy, learner
<1> DEFINE Limit == IF InCycle THEN first ELSE step
<1>t. AdoptionTypeOK /\ LoopInv /\ ModelInv /\ ReferenceInv /\ AccountInv
  BY DEF StateInv
<1>s. step \in Nat /\ first \in Nat /\ first <= step /\ \A t : StepsOf(t) \subseteq Nat
  BY <1>t, StepTyped DEF LoopInv, StepsOf, Steps
<1>m. \A k \in StepsOf(theta) : k <= step
  BY <1>t DEF ModelInv
<1>1. Limit \in Nat /\ Limit' \in Nat /\ Limit <= Limit'
  <2>1. ASSUME TrainStep PROVE Limit' = Limit
    BY <2>1 DEF TrainStep, Onward, InCycle
  <2>2. ASSUME BeginCycle PROVE Limit' = step
    BY <2>2 DEF BeginCycle, InCycle
  <2>3. CASE PollNewer \/ PollNothing \/ CycleEnd \/ Reconcile
    BY <1>s, <2>3 DEF PollNewer, PollNothing, CycleEnd, Reconcile, Onward, Checked, InCycle
  <2>4. CASE AbandonPrediction \/ ReconcileTimeout \/ PublishProposal \/ PublishReceipt
    BY <1>s, <2>4 DEF AbandonPrediction, ReconcileTimeout, PublishProposal, PublishReceipt,
                      Checked, InCycle
  <2>5. CASE Acknowledged \/ AfterPublishNewer \/ AfterPublishNothing \/ SaveAnchor
               \/ StartPrediction
    BY <1>s, <2>5 DEF Acknowledged, AfterPublishNewer, AfterPublishNothing, SaveAnchor,
                      StartPrediction, Checked, InCycle
  <2>6. CASE NewVersion \/ Terminal \/ Leave
    BY <1>s, <2>6 DEF NewVersion, Terminal, Leave, InCycle
  <2>7. QED
    BY <1>s, <2>1, <2>2, <2>3, <2>4, <2>5, <2>6 DEF AdoptionNext, InCycle
<1>2. \/ StepsOf(theta') = {}
      \/ base' = base /\ StepsOf(theta') = StepsOf(theta)
      \/ base' = base /\ \E k : k > Limit /\ StepsOf(theta') = StepsOf(theta) \cup {k}
      \/ \A k \in StepsOf(theta') : k > Limit
  <2>1. CASE TrainStep
    <3>1. step + 1 \in Steps
      BY <1>t, <2>1, StepTyped DEF TrainStep
    <3>2. StepsOf(theta') = StepsOf(theta) \cup {step + 1}
      BY <2>1, <3>1, StepAdded DEF TrainStep
    <3>3. base' = base /\ step + 1 > Limit
      BY <1>s, <2>1 DEF TrainStep
    <3>4. QED
      BY <3>2, <3>3
  <2>2. CASE AfterPublishNewer
    BY <1>t, <2>2, LoadedParts DEF AfterPublishNewer, AdoptDirectly, AdoptionTypeOK
  <2>3. CASE StartPrediction
    BY <1>t, <2>3, LoadedParts DEF StartPrediction, AdoptionTypeOK
  <2>4. CASE PollNewer /\ config.strategy = "replace"
    BY <1>t, <2>4, LoadedParts DEF PollNewer, AdoptDirectly, AdoptionTypeOK
  <2>5. CASE Reconcile \/ (PollNewer /\ config.strategy # "replace")
    <3>1. InCycle /\ reference # {} /\ theta' = Rebased(latest)
      BY <1>t, <2>5 DEF Reconcile, PollNewer, Rebase, InCycle, ReferenceInv
    <3>2. StepsOf(theta') = {k \in StepsOf(theta) : k > first}
      BY <1>t, <3>1, RebasedParts DEF AccountInv
    <3>3. QED
      BY <3>1, <3>2
  <2>6. CASE NewVersion \/ Terminal \/ Leave \/ BeginCycle \/ PollNothing \/ CycleEnd
    BY <2>6 DEF NewVersion, Terminal, Leave, BeginCycle, PollNothing, CycleEnd
  <2>7. CASE AbandonPrediction \/ ReconcileTimeout \/ PublishProposal \/ PublishReceipt
    BY <2>7 DEF AbandonPrediction, ReconcileTimeout, PublishProposal, PublishReceipt
  <2>8. CASE Acknowledged \/ AfterPublishNothing \/ SaveAnchor
    BY <2>8 DEF Acknowledged, AfterPublishNothing, SaveAnchor
  <2>9. QED
    BY <2>1, <2>2, <2>3, <2>4, <2>5, <2>6, <2>7, <2>8 DEF AdoptionNext
<1>3. ASSUME NEW r \in published
      PROVE  /\ StepsOf(r.payload) \cap StepsOf(theta') # {} => r.base = base'
             /\ \A k \in StepsOf(r.payload) : k <= Limit'
  <2>1. /\ StepsOf(r.payload) \cap StepsOf(theta) # {} => r.base = base
        /\ \A k \in StepsOf(r.payload) : k <= Limit
        /\ StepsOf(r.payload) \subseteq Nat
    BY <1>s DEF PublishedInv
  <2>2. \A k \in StepsOf(r.payload) : k <= Limit'
    <3>1. TAKE k \in StepsOf(r.payload)
    <3>2. k \in Nat /\ k <= Limit
      BY <2>1, <3>1
    <3>3. QED
      BY <1>1, <3>2
  <2>3. \A k \in StepsOf(r.payload) : ~(k > Limit)
    <3>1. TAKE k \in StepsOf(r.payload)
    <3>2. k \in Nat /\ k <= Limit
      BY <2>1, <3>1
    <3>3. QED
      BY <1>1, <3>2
  <2>4. QED
    BY <1>2, <2>1, <2>2, <2>3
<1>4. ASSUME PublishProposal
      PROVE  theta' = theta /\ base' = base /\ Limit' = step
  BY <1>4 DEF PublishProposal, Checked, InCycle
<1>5. StepsOf({}) = {}
  BY DEF StepsOf
<1>6. ASSUME NEW r \in published'
      PROVE  /\ StepsOf(r.payload) \cap StepsOf(theta') # {} => r.base = base'
             /\ \A k \in StepsOf(r.payload) : k <= Limit'
  <2>1. CASE r \in published
    BY <1>3, <2>1
  <2>2. CASE PublishProposal /\ r = Report
    BY <1>m, <1>4, <2>2, ReportIsTrue
  <2>3. CASE r.payload = {}
    BY <1>5, <2>3
  <2>4. QED
    BY <2>1, <2>2, <2>3, PublishedBy
<1>7. QED
  BY <1>6 DEF PublishedInv

-----------------------------------------------------------------------------
(* The theorems.                                                           *)

\* The learner starts with nothing published, counted or saved.
LEMMA InvHoldsFirst == AdoptionInit => IInv
<1>1. SUFFICES ASSUME AdoptionInit PROVE IInv
  OBVIOUS
<1>2. /\ latest \in Versions /\ latest \in Nat /\ theta = Loaded(latest) /\ reference = {}
      /\ published = {} /\ pc = "top" /\ step = 0 /\ first = 0
      /\ base = latest /\ cached = latest /\ since = {} /\ carried = {} /\ ~predicting
      /\ acc = FreshAccount(latest, 0) /\ over = FALSE /\ config \in Configs
      /\ predicting = FALSE
  BY <1>1 DEF AdoptionInit, Versions
<1>3. /\ Globals(theta) = Loaded(base) /\ StepsOf(theta) = {} /\ theta \in SUBSET Parts
      /\ Predicted \notin theta /\ Stray \notin theta
  BY <1>2, LoadedParts
<1>4. acc \in Accounts
  BY <1>2 DEF FreshAccount, Accounts
<1>5. AdoptionTypeOK
  BY <1>2, <1>3, <1>4 DEF AdoptionTypeOK
<1>6. ModelInv
  BY <1>2, <1>3 DEF ModelInv
<1>7. LoopInv /\ ReferenceInv /\ AccountInv
  BY <1>2 DEF LoopInv, ReferenceInv, AccountInv, InCycle
<1>8. PublishedInv /\ ReportsInv /\ NoCheckFails
  BY <1>2 DEF PublishedInv, ReportsInv, PayloadAccounted, PredictionNotMerged,
              PublishedWorkStays, NoCheckFails
<1>9. QED
  BY <1>5, <1>6, <1>7, <1>8 DEF IInv, StateInv

\* Every step keeps it.
LEMMA InvIsKept == IInv /\ [AdoptionNext]_vars => IInv'
<1>1. ASSUME IInv, AdoptionNext PROVE IInv'
  <2>1. StateInv /\ PublishedInv /\ ReportsInv /\ NoCheckFails
    BY <1>1 DEF IInv
  <2>2. StateInv'
    BY <1>1, <2>1, TypePreserved, LoopPreserved, ModelPreserved, ReferencePreserved,
       AccountPreserved DEF StateInv
  <2>3. PublishedInv' /\ ReportsInv' /\ NoCheckFails'
    BY <1>1, <2>1, PublishedPreserved, ReportsPreserved, ChecksPass
  <2>4. QED
    BY <2>2, <2>3 DEF IInv
<1>2. ASSUME IInv, UNCHANGED vars PROVE IInv'
  BY <1>2 DEF IInv, StateInv, AdoptionTypeOK, LoopInv, ModelInv, ReferenceInv, AccountInv,
     PublishedInv, ReportsInv, PayloadAccounted, PredictionNotMerged, PublishedWorkStays,
     NoCheckFails, InCycle, vars, environment, learner, strategy
<1>3. QED
  BY <1>1, <1>2

\* The learner's variables keep their types.
THEOREM AdoptionTyped == AdoptionSpec => []AdoptionTypeOK
<1>1. IInv => AdoptionTypeOK
  BY DEF IInv, StateInv
<1>2. QED
  BY <1>1, InvHoldsFirst, InvIsKept, PTL DEF AdoptionSpec

\* Whatever a learner adopts, rebases or reconciles, and when, a proposal says
\* of its payload what is so: its base, its steps and what was discarded; no
\* prediction is merged and no work is carried from one base to another; none of
\* the learner's checks fails.
THEOREM AdoptionAccounted == AdoptionSpec => []ProposalsAccounted
<1>1. IInv => ProposalsAccounted
  BY DEF IInv, StateInv, ModelInv, ReferenceInv, ReportsInv, ProposalsAccounted, CountsAgree
<1>2. QED
  BY <1>1, InvHoldsFirst, InvIsKept, PTL DEF AdoptionSpec
=============================================================================
