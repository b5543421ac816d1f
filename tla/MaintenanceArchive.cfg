\* A leader that dies between preparing and committing, and its successor.
SPECIFICATION MaintenanceSpec
CONSTANTS
    Learners = {1}
    QuorumMin = 1
    QuorumMax = 1
    TerminalMergeLimit = 1
    MaxCycle = 2
    MaxGen = 1
    MaxEpoch = 2
    MaxBatch = 2
    MaxClose = 0
    AllowPreclose = FALSE
    DedupCount = 1
    MaxAudit = 1
INVARIANT ArchiveIsClosed
\* The run ends where every candidate has ended.
CHECK_DEADLOCK FALSE
