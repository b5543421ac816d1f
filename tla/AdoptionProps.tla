---------------------------- MODULE AdoptionProps ----------------------------
(***************************************************************************)
(* What a proposal says of the parameters it carries.                      *)
(***************************************************************************)
EXTENDS Adoption

\* What a proposal says of its payload is so: the payload is the version it is
\* based on with local work on top, and of the cycle's steps it holds those
\* that the receipt counts as effective, the segment that the proposal names,
\* and none that it counts as discarded, whatever was adopted, rebased or
\* reconciled in between.
PayloadAccounted ==
    \A r \in published : r.payload # {} =>
        /\ r.payload \cap ({"global"} \X Versions) = Loaded(r.base)
        /\ r.account.base = r.base
        /\ Stray \notin r.payload
        /\ r.account.effective = {k \in StepsOf(r.payload) : k > r.first}
        /\ r.account.effective = r.account.start + 1 .. r.last
        /\ r.account.discarded = r.first + 1 .. r.account.start

\* No guess is merged: a payload with the displacement of a prediction in it is
\* published only after the run has been finalized.
PredictionNotMerged ==
    \A r \in published : Predicted \in r.payload => r.late

\* Work that was published on top of one version is never carried onto another
\* one, where it would be merged again.
PublishedWorkStays ==
    \A r, s \in published :
        StepsOf(r.payload) \cap StepsOf(s.payload) # {} => r.base = s.base

\* The learner's own consistency checks never end it.
NoCheckFails == pc # "failed"

\* tokens_since_global_load counts the work in the model, carried_tokens that
\* since the reference.
CountsAgree ==
    /\ since = StepsOf(theta)
    /\ reference # {} => reference \subseteq theta /\ carried = StepsOf(theta \ reference)

\* What the strategies, the loop and the accumulator, each with state of its
\* own, together promise of every proposal.
ProposalsAccounted ==
    PayloadAccounted /\ PredictionNotMerged /\ PublishedWorkStays /\ NoCheckFails /\ CountsAgree
=============================================================================
