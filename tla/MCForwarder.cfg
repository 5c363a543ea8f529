\* The agent's proxy: connections, splices and the shutdown.
CONSTANTS
    Conn = {c1}
    FailClose = FALSE
    Room = 1
    MaxSent = 2
SPECIFICATION ProxySpec
INVARIANTS ReturnedIsQuiet EndedStreamIsDelivered
PROPERTIES ShutdownReturns
CHECK_DEADLOCK FALSE
