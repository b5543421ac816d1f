\* A learner, a leader that may be interrupted anywhere, its successor, a close.
SPECIFICATION FairLearnerSpec
CONSTANTS
    Learners = {1}
    QuorumMin = 1
    QuorumMax = 1
    TerminalMergeLimit = 1
    MaxCycle = 1
    MaxGen = 1
    MaxEpoch = 2
    MaxBatch = 3
    MaxClose = 1
    AllowPreclose = TRUE
INVARIANT InStep
INVARIANT NothingCutOff
PROPERTY WaitsEnd
PROPERTY CloseCompletes
\* The run ends where every candidate and every attempt has ended.
CHECK_DEADLOCK FALSE
