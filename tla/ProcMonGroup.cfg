\* Two workers; one that reports an exception and one that hangs.
CONSTANTS
    Pids = {1,2,3,4}
    ProcNum = 2
    Installed <- Both
    Hasty = FALSE
    MaxKilled = 0
    MaxSegvs = 1
    MaxHangs = 1
    MaxSlow = 0
    MaxLate = 0
    MaxReloads = 0
SPECIFICATION FairSpec
INVARIANTS CountMatches NeverTooMany
PROPERTIES NoOrphan Converges
