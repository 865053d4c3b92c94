\* Two workers and one hot reload; a worker that hangs for ever, one that is killed,
\* one late report.
CONSTANTS
    Pids = {1,2,3,4}
    ProcNum = 2
    Installed <- Both
    Hasty = FALSE
    MaxKilled = 1
    MaxSegvs = 0
    MaxHangs = 1
    MaxSlow = 0
    MaxLate = 1
    MaxReloads = 1
SPECIFICATION HangSpec
INVARIANTS ReloadReplacesAll
PROPERTIES KeepsServing ReloadEnds
