SPECIFICATION Spec
CONSTANTS
    Slots = {s1, s2}
    Half = 4
    Delays = {0, 3, 5}
    Reprogram = FALSE
    Start = 5
    MaxTime = 10
    MaxLate = 1
    MaxFreeze = 2
CHECK_DEADLOCK FALSE

SYMMETRY SlotSymmetry
INVARIANTS ListsInOrder
PROPERTIES FiresOnTime
