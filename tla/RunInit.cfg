\* Three invocations of two configurations, an identity, an object and the marker.
SPECIFICATION Spec
CONSTANTS
    Initializers = {p1, p2, p3}
    Configs = {c1, c2}
    ObjectCount = 1
    None = None
INVARIANT RootIsOwned
PROPERTY ImplementsPublication
\* The initializers end.
CHECK_DEADLOCK FALSE
