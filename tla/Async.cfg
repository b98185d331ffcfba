SPECIFICATION Spec
CONSTANTS
    Fds = {f1, f2}
    MaxHandlers = 3
    MaxId = 3
    MaxSends = 1
INVARIANTS PollSeesTable TableInOrder
PROPERTIES AsyncServed
