\* A quota of four threads besides the primordial one, a reserve of two: sub threads
\* come from the reserve and from new objects, and the reserve is trimmed.  No
\* symmetry, as some properties are temporal.
CONSTANTS
    Daemon = d
    Primo = primo
    NULL = null
    Threads = {d, a, b, c}
    MaxNum = 4
    DefaultThreadNum = 2
    MaxTasks = 2
    Delays = {0, 2}
    IdleWait = 1
    MaxLag = 1
SPECIFICATION FairSpec
INVARIANTS FlagsMatchLists OnePlace JoinConsistent PoolCounts StackAlive NoOversleep RootThreadLive
PROPERTIES RunnableRuns WaitersRun ImplementsForkJoin
