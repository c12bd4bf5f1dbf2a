SPECIFICATION ShutdownSpec
CONSTANTS
    Requests = {r1, r2}
INVARIANTS
    NothingInFlightAfterComplete
CHECK_DEADLOCK FALSE
