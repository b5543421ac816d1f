\* Two candidates, of which the first may be interrupted anywhere.
SPECIFICATION SyncerSpec
CONSTANTS
    Learners = {1}
    QuorumMin = 1
    QuorumMax = 1
    TerminalMergeLimit = 1
    MaxCycle = 2
    MaxGen = 1
    MaxEpoch = 2
    MaxBatch = 3
    MaxClose = 0
    AllowPreclose = FALSE
INVARIANT PredecessorsSettled
\* The run ends where every candidate has ended.
CHECK_DEADLOCK FALSE
