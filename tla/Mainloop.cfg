SPECIFICATION Spec
CONSTANTS
    Threads = {t1, t2}
    Signals = TRUE
    DozeBound = 1
INVARIANTS NoInterruptLost
PROPERTIES InterruptsServed
