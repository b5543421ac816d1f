\* One stream, a bootstrap job and two launches; jobs that are started again.
SPECIFICATION CapacitySpec
CONSTANTS
    Streams = {0}
    Instances = {i1, i2, i3}
    Placements = {n1, n2}
    Jobs = {1, 2}
    None = None
    MaxTotal = 2
    MaxPending = 1
    Uncertainty = 1
    Ttl = 1
    MaxEpoch = 1
    Horizon = 1
    BootSlots = {0}
    MaxLost = 0
    MaxReruns = 1
    MaxOperator = 0
    MaxRepeats = 0
SYMMETRY Symmetry
INVARIANT OwnersAgree
INVARIANT ReservationHeld
INVARIANT EpochsGrow
PROPERTY ImplementsFleet
INVARIANT LiveInstanceKept
INVARIANT CloseRetiresAll
CHECK_DEADLOCK FALSE
