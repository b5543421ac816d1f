\* A leader that freezes the run and dies, its successor, and a learner.
SPECIFICATION LearnerSpec
CONSTANTS
    Learners = {1}
    QuorumMin = 1
    QuorumMax = 1
    TerminalMergeLimit = 1
    MaxCycle = 2
    MaxGen = 1
    MaxEpoch = 2
    MaxBatch = 3
    MaxClose = 1
    AllowPreclose = FALSE
INVARIANT FinalCycleInBound
\* The run ends where every candidate and every attempt has ended.
CHECK_DEADLOCK FALSE
