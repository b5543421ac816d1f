\* One request, two leaders, everything fair.
SPECIFICATION FairCapacitySpec
CONSTANTS
    Streams = {0}
    Instances = {i1}
    Placements = {n1}
    Jobs = {1, 2}
    None = None
    MaxTotal = 1
    MaxPending = 1
    Uncertainty = 1
    Ttl = 1
    MaxEpoch = 2
    Horizon = 1
    BootSlots = {}
    MaxLost = 1
    MaxReruns = 0
    MaxOperator = 1
    MaxRepeats = 1
INVARIANT OneSubmission
INVARIANT LiveJobIsAccounted
PROPERTY OperatorSawIt
PROPERTY UncertaintyResolved
PROPERTY RegistrationAnswered
CHECK_DEADLOCK FALSE
