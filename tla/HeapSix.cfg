\* Six entries, one more than HeapFive.cfg.
CONSTANTS
    Entries = {a, b, c, d, e, f}
    Max = 6
    Times = {1, 2}
SYMMETRY EntrySymmetry
SPECIFICATION Spec
INVARIANT TopMinimal
