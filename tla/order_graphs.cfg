SPECIFICATION Spec
CONSTANTS
    Addrs = {1, 2, 3, 4}
INVARIANTS IndegreeExact OrderIsLeastTopological CycleIsReal
PROPERTIES OrderReturns
