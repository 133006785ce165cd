SPECIFICATION Spec
CONSTANTS
    Procs = {p1}
    NoProc = NoProc
    Addrs = {1, 2, 3}
    Configs <- Chain
    Decisions = {"no-op", "update", "replace", "delete"}
    Verbs = {"plan", "destroy", "apply"}
    MaxCommands = 4
    Null = Null
    Nothing = Nothing
INVARIANTS SerialCountsLegs
PROPERTIES DependenciesFirst
