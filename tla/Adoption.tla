------------------------------- MODULE Adoption -------------------------------
(***************************************************************************)
(* What a learner's model is made of while it trains, adopts global        *)
(* versions and publishes: the training loop of runtime/learner.py with    *)
(* the three strategies of runtime/adoption.py and the accumulator of      *)
(* protocol/token_accounting.py.  Versions appear, and the terminal record *)
(* is published, at any time.                                              *)
(*                                                                         *)
(* With completion_mode global_only max_local_steps is no limit of the      *)
(* code; it is then a bound.                                               *)
(*                                                                         *)
(* Data abstracted: parameters are the set of their parts, that is the     *)
(* global version they started from, the local steps whose work is in them *)
(* and the displacement of a prediction; adding and subtracting parameters *)
(* adds and subtracts parts.  The tokens of a step go with its number, so  *)
(* that each counter of tokens is a set of steps.  A poll sees the newest  *)
(* version or none (no valid heartbeat, or no newer version).              *)
(***************************************************************************)
EXTENDS Integers

CONSTANTS
    InnerSteps,      \* training.inner_steps
    MaxLocalSteps,   \* training.max_local_steps
    MaxVersion       \* bound: versions that are published

ASSUME AdoptionAssumption ==
    InnerSteps \in Nat \ {0} /\ MaxLocalSteps \in Nat /\ MaxVersion \in Nat

VARIABLES
    config,      \* the learner's strategy and its two switches
    latest,      \* the newest version in sight
    over,        \* the terminal record is published
    pc,          \* where the learner is
    step,        \* local_step
    first,       \* cursor_start of the cycle: the steps before it
    theta,       \* the parts of the model
    base,        \* base_version
    cached,      \* the version of latest_metadata
    since,       \* tokens_since_global_load
    reference,   \* reference_flat of the rebase anchor or the prediction, or {}
    predicting,  \* whether the reference is a prediction
    carried,     \* carried_tokens
    acc,         \* the TrainingSegmentAccumulator
    published    \* receipts with the payload of their proposal

environment == <<latest, over>>
strategy    == <<reference, predicting, carried>>
learner     == <<pc, step, first, theta, base, cached, since, strategy, acc, published>>
vars        == <<config, environment, learner>>

Versions == 0 .. MaxVersion
Steps    == 1 .. MaxLocalSteps + InnerSteps

Predicted == <<"predicted", 0>>
Stray     == <<"stray", 0>>
Parts == ({"global"} \X Versions) \cup ({"step"} \X Steps) \cup {Predicted, Stray}

Loaded(v)   == {<<"global", v>>}
StepsOf(t)  == {k \in Steps : <<"step", k>> \in t}

\* The sum of the global version v and the difference between the model and
\* its reference; what the reference has and the model has not goes stray.
Rebased(v) ==
    (theta \ reference) \cup Loaded(v) \cup (IF reference \subseteq theta THEN {} ELSE {Stray})

\* validate_global_adoption_config.
Configs ==
    [strategy : {"replace"}, poll : BOOLEAN, adopt : BOOLEAN]
      \cup [strategy : {"rebase", "predict"}, poll : {TRUE}, adopt : {TRUE}]

Accounts == [base : Versions, start : Steps \cup {0}, effective : SUBSET Steps,
             discarded : SUBSET Steps, retained : SUBSET Steps]

Receipts == [first : Steps \cup {0}, last : Steps, account : Accounts, base : Versions,
             payload : SUBSET Parts, late : BOOLEAN]

AdoptionTypeOK ==
    /\ config \in Configs
    /\ latest \in Versions /\ over \in BOOLEAN
    /\ pc \in {"top", "train", "poll", "cycle_end", "publish", "barrier", "after",
               "ended", "failed"}
    /\ step \in Steps \cup {0} /\ first \in Steps \cup {0}
    /\ theta \in SUBSET Parts /\ reference \in SUBSET Parts
    /\ base \in Versions /\ cached \in Versions
    /\ since \in SUBSET Steps /\ carried \in SUBSET Steps
    /\ predicting \in BOOLEAN
    /\ acc \in Accounts
    /\ published \in SUBSET Receipts

\* A new TrainingSegmentAccumulator.
FreshAccount(v, at) ==
    [base |-> v, start |-> at, effective |-> {}, discarded |-> {}, retained |-> {}]

\* run_admitted_learner starts from the version it finds.
AdoptionInit ==
    /\ config \in Configs
    /\ latest \in Versions /\ over = FALSE
    /\ pc = "top"
    /\ step = 0 /\ first = 0
    /\ theta = Loaded(latest)
    /\ base = latest /\ cached = latest
    /\ since = {}
    /\ reference = {} /\ predicting = FALSE /\ carried = {}
    /\ acc = FreshAccount(latest, 0)
    /\ published = {}

-----------------------------------------------------------------------------
(* The run around the learner.                                             *)

NewVersion ==
    /\ latest < MaxVersion /\ ~over
    /\ latest' = latest + 1
    /\ UNCHANGED <<config, over, learner>>

Terminal ==
    /\ ~over /\ over' = TRUE
    /\ UNCHANGED <<config, latest, learner>>

Newer == latest > base

-----------------------------------------------------------------------------
(* The cycle.                                                              *)

Go(from, to) == pc = from /\ pc' = to

\* A check of the code fails: an exception ends the learner.
Checked(ok, to) == IF ok THEN to ELSE "failed"

\* The learner leaves at a terminal record or at a drain, or has reached its
\* local limit.
Leave ==
    /\ pc \in {"top", "barrier"}
    /\ pc' = "ended"
    /\ UNCHANGED <<config, environment, step, first, theta, base, cached, since, strategy,
                   acc, published>>

BeginCycle ==
    /\ Go("top", "train")
    /\ step < MaxLocalSteps
    /\ first' = step
    /\ acc' = FreshAccount(base, step)
    /\ UNCHANGED <<config, environment, step, theta, base, cached, since, strategy, published>>

\* After a step, or the poll that follows it.
Onward == IF step' < first + InnerSteps THEN "train" ELSE "cycle_end"

\* wants_inner_poll.
WantsInnerPoll ==
    /\ config.poll
    /\ config.strategy = "replace" \/ reference # {}

\* record_step.
Recorded(k) == [acc EXCEPT !.effective = @ \cup {k}]

\* An optimizer step and on_local_tokens.
TrainStep ==
    /\ pc = "train"
    /\ step' = step + 1
    /\ pc' = IF WantsInnerPoll THEN "poll" ELSE Onward
    /\ theta' = theta \cup {<<"step", step'>>}
    /\ since' = since \cup {step'}
    /\ carried' = IF reference # {} THEN carried \cup {step'} ELSE carried
    /\ acc' = Recorded(step')
    /\ UNCHANGED <<config, environment, first, base, cached, reference, predicting, published>>

\* Variant: what was trained before the replacement still counts.
DiscardedNot == [acc EXCEPT !.retained = @ \cup acc.effective, !.base = latest]

\* replace_base, of work that is retained and of work that is discarded.
Retained == [acc EXCEPT !.retained = @ \cup acc.effective, !.base = latest]

Discarded ==
    [base |-> latest, start |-> step, effective |-> {},
     discarded |-> acc.discarded \cup acc.effective, retained |-> {}]

\* _apply_strategy_action, of an adoption that leaves this much work.
Apply(work) == base' = latest /\ cached' = latest /\ since' = work

NoReference == reference' = {} /\ predicting' = FALSE /\ carried' = {}

\* _direct_adoption: the newest version takes the place of the model.
AdoptDirectly ==
    /\ theta' = Loaded(latest)
    /\ Apply({})
    /\ UNCHANGED strategy

\* on_newer_latest of the other two strategies, reconcile_prediction: the work
\* since the reference goes on top of the newest version.
Rebase ==
    /\ theta' = Rebased(latest)
    /\ Apply(carried)
    /\ NoReference

\* The inner poll finds a newer version.
PollNewer ==
    /\ pc = "poll" /\ Newer
    /\ IF config.strategy = "replace"
         THEN AdoptDirectly /\ acc' = Discarded
         ELSE Rebase /\ acc' = Retained
    /\ UNCHANGED step
    /\ pc' = Checked(latest > acc.base, Onward)
    /\ UNCHANGED <<config, environment, first, published>>

PollNothing ==
    /\ pc = "poll"
    /\ UNCHANGED step
    /\ pc' = Onward
    /\ UNCHANGED <<config, environment, first, theta, base, cached, since, strategy, acc,
                   published>>

\* on_cycle_end without a prediction.
CycleEnd ==
    /\ Go("cycle_end", "publish")
    /\ ~predicting
    /\ UNCHANGED <<config, environment, step, first, theta, base, cached, since, strategy,
                   acc, published>>

\* on_cycle_end with one waits for the version that was predicted.
Reconcile ==
    /\ pc = "cycle_end" /\ predicting
    /\ Newer /\ ~over
    /\ pc' = Checked(latest > acc.base, "publish")
    /\ Rebase /\ acc' = Retained
    /\ UNCHANGED <<config, environment, step, first, published>>

\* The terminal record ends the wait: on_stop.
AbandonPrediction ==
    /\ Go("cycle_end", "publish")
    /\ predicting /\ over
    /\ NoReference
    /\ UNCHANGED <<config, environment, step, first, theta, base, cached, since, acc, published>>

\* The timeout ends it, and the learner with it.
ReconcileTimeout ==
    /\ Go("cycle_end", "ended")
    /\ predicting /\ ~over
    /\ UNCHANGED <<config, environment, step, first, theta, base, cached, since, strategy,
                   acc, published>>

ProposalExpected == acc.effective # {}

Receipt(payload) ==
    [first |-> first, last |-> step, account |-> acc, base |-> base, payload |-> payload,
     late |-> over]

\* finalize_cycle, before_publish, the payload, the receipt and the proposal.
\* The anchor of a rebase is given up.
PublishProposal ==
    /\ pc = "publish" /\ ProposalExpected
    /\ pc' = Checked(~predicting, "barrier")
    /\ published' = published \cup {Receipt(theta)}
    /\ IF config.strategy = "rebase" THEN NoReference ELSE UNCHANGED strategy
    /\ UNCHANGED <<config, environment, step, first, theta, base, cached, since, acc>>

PublishReceipt ==
    /\ Go("publish", "barrier")
    /\ ~ProposalExpected
    /\ published' = published \cup {Receipt({})}
    /\ UNCHANGED <<config, environment, step, first, theta, base, cached, since, strategy, acc>>

\* The receipt is acknowledged.
Acknowledged ==
    /\ Go("barrier", IF config.adopt /\ ProposalExpected THEN "after" ELSE "top")
    /\ ~over
    /\ UNCHANGED <<config, environment, step, first, theta, base, cached, since, strategy,
                   acc, published>>

-----------------------------------------------------------------------------
(* on_after_publish.                                                       *)

AfterPublishNewer ==
    /\ Go("after", "top")
    /\ Newer
    /\ AdoptDirectly
    /\ UNCHANGED <<config, environment, step, first, acc, published>>

\* Nothing newer: replace goes on with what it has, and so do the others when
\* the run is over.
AfterPublishNothing ==
    /\ Go("after", "top")
    /\ config.strategy = "replace" \/ over
    /\ UNCHANGED <<config, environment, step, first, theta, base, cached, since, strategy,
                   acc, published>>

\* The model that was published becomes the anchor.
SaveAnchor ==
    /\ Go("after", "top")
    /\ config.strategy = "rebase"
    /\ reference' = theta /\ carried' = {}
    /\ UNCHANGED <<config, environment, step, first, theta, base, cached, since, predicting,
                   acc, published>>

\* prepare_prediction: the model becomes what the next version may be.
StartPrediction ==
    /\ pc = "after" /\ config.strategy = "predict"
    /\ pc' = Checked(cached = base, "top")
    /\ theta' = Loaded(cached) \cup {Predicted}
    /\ reference' = theta' /\ predicting' = TRUE /\ carried' = {}
    /\ since' = {}
    /\ UNCHANGED <<config, environment, step, first, base, cached, acc, published>>

AdoptionNext ==
    \/ NewVersion \/ Terminal
    \/ Leave \/ BeginCycle \/ TrainStep \/ PollNewer \/ PollNothing
    \/ CycleEnd \/ Reconcile \/ AbandonPrediction \/ ReconcileTimeout
    \/ PublishProposal \/ PublishReceipt \/ Acknowledged
    \/ AfterPublishNewer \/ AfterPublishNothing \/ SaveAnchor \/ StartPrediction

AdoptionSpec == AdoptionInit /\ [][AdoptionNext]_vars

=============================================================================
