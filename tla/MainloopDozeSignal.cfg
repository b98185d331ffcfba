SPECIFICATION Spec
CONSTANTS
    Threads = {t1}
    Signals = TRUE
    DozeBound = 2
INVARIANT NoSleepThroughInterrupt
