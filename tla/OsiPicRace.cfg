SPECIFICATION Spec
CONSTANTS
    Irqs = {i1}
    Devices = {d1}
INVARIANT LineAgrees
