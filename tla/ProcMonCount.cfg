\* Two workers, one of which reports an exception.
CONSTANTS
    Pids = {1, 2, 3, 4}
    ProcNum = 2
    Installed <- Both
    Hasty = FALSE
    MaxKilled = 0
    MaxSegvs = 1
    MaxHangs = 0
    MaxSlow = 0
    MaxLate = 0
    MaxReloads = 0
SPECIFICATION Spec
INVARIANT CurProcNum
