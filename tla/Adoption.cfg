\* A learner of every configuration, three cycles, three versions after the first.
SPECIFICATION AdoptionSpec
CONSTANTS
    InnerSteps = 2
    MaxLocalSteps = 5
    MaxVersion = 3
INVARIANT ProposalsAccounted
\* The learner ends.
CHECK_DEADLOCK FALSE
