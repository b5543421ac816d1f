\* A leader that is interrupted in its passes, its successor, and a close.
SPECIFICATION MaintenanceSpec
CONSTANTS
    Learners = {1}
    QuorumMin = 1
    QuorumMax = 1
    TerminalMergeLimit = 1
    MaxCycle = 2
    MaxGen = 1
    MaxEpoch = 2
    MaxBatch = 2
    MaxClose = 1
    AllowPreclose = FALSE
    DedupCount = 1
    MaxAudit = 2
INVARIANT HeadIsReadable
INVARIANT BuiltOnPredecessor
PROPERTY ViewNeverRetreats
INVARIANT NeededFilesKept
INVARIANT NeededRowsKept
INVARIANT HistoryKept
INVARIANT RescanAnswered
INVARIANT SingleInFlight
INVARIANT BatchAgreement
PROPERTY ImplementsLedger
\* The run ends where every candidate has ended.
CHECK_DEADLOCK FALSE
