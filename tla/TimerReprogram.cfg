SPECIFICATION Spec
CONSTANTS
    Slots = {s1, s2}
    Half = 4
    Delays = {0, 3, 5}
    Reprogram = TRUE
    Start = 5
    MaxTime = 11
    MaxLate = 1
    MaxFreeze = 2
PROPERTY
    NothingExpiredLeft
CHECK_DEADLOCK FALSE
SYMMETRY SlotSymmetry
