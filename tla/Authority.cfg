\* Two contributors whose attempts are replaced, up to the close of their run.
SPECIFICATION Spec
CONSTANTS
    Learners = {1, 2}
    QuorumMin = 1
    QuorumMax = 2
    TerminalMergeLimit = 1
    MaxCycle = 1
    MaxGen = 2
    MaxEpoch = 1
    MaxBatch = 3
    MaxClose = 1
INVARIANT BatchAgreement
INVARIANT VersionChain
INVARIANT CreditAgrees
INVARIANT LiveWorkIsCurrent
INVARIANT TokensConserved
INVARIANT CloseCanFinish
PROPERTY AckIsFinal
PROPERTY ImplementsLedger
\* The run ends where the close has finished.
CHECK_DEADLOCK FALSE
