\* Six entries for a heap of five, the most for which HeapDelete keeps it in order.
CONSTANTS
    Entries = {a, b, c, d, e, f}
    Max = 5
    Times = {1, 2, 3}
SPECIFICATION Spec
INVARIANTS IndexCorrect TopMinimal
PROPERTIES KeepsOthers
