SPECIFICATION Spec
CONSTANTS
    None = None
    Conns = {c1, c2, c3}
    Fds = {5, 6}
    Listener = 3
    InitialCapacity = 2
    ReplySizes = {2}
    Window = 1
    MaxRequests = 2
    MaxEvents = 4
    Signals = TRUE
INVARIANTS TypeOK TableSound OnlyReuseLoses Roomy RepliesConserved InterestExact ClosesOnce
PROPERTY ServesAll
CHECK_DEADLOCK FALSE
