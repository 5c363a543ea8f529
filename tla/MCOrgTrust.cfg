\* The organization CA and the certificates over restarts and time.
CONSTANTS
    None = None
    LeafLife = 2
    MaxTime = 4
    MaxStops = 5
    MaxLosses = 1
SPECIFICATION Spec
INVARIANTS IssuedStayCurrent EnrolledAreAccepted EndpointCanSign
PROPERTIES BothComeToServe
CHECK_DEADLOCK FALSE
