\* The certificate of the mTLS listener in a process that is not restarted.
CONSTANTS
    None = None
    LeafLife = 2
    MaxTime = 4
    MaxStops = 3
    MaxLosses = 1
SPECIFICATION Spec
INVARIANTS ListenerIsValid
CHECK_DEADLOCK FALSE
