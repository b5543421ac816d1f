\* Two candidates (a leader and a successor), clocks up to one unit apart, a lease
\* of three units.
SPECIFICATION FairSpec
CONSTANTS
    Candidates = {c1, c2}
    NoOne = NoOne
    Duration = 3
    Skew = 1
PROPERTY ImplementsLeaderEpoch
PROPERTY DeposedOnlyWhenExpired
PROPERTY CommitsAsVerified
PROPERTY DeadLeaderReplaced
\* Every candidate has exited or crashed: nothing is left to do.
CHECK_DEADLOCK FALSE
