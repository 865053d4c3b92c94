\* Two writers, one of which may be killed, and the agent; messages of one or two
\* nodes in a ring of six positions.
CONSTANTS
    Writers = {v, w}
    Readers = {r}
    EleCount = 5
    RESERVE_BLOCK_COUNT = 1
    SQ_MAX_CONFLICT_TRIES = 1
    Needs = {1, 2}
    MaxMsgs = 4
    MaxDeaths = 1
SPECIFICATION FairSpec
INVARIANTS Whole InOrder RingHolds
PROPERTIES Drains
