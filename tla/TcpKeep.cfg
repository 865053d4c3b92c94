\* Two callers, two servers, three connections and two descriptors; one connection can
\* be timed and one is kept in the pool.
CONSTANTS
    Users = {u, v}
    Conns = {a, b, c}
    Dsts = {x, y}
    Fds = {3, 4}
    Daemon = Daemon
    None = None
    KeepTime = 1
    MaxTimers = 1
    MaxFree = 1
    MaxCalls = 3
    MaxFaults = 1
SPECIFICATION FairSpec
INVARIANTS OnePlace TimerIffIdle Descriptors OwnAnswer
PROPERTIES InUseUntouched Ends
\* It stops when MaxCalls calls were made.
CHECK_DEADLOCK FALSE
