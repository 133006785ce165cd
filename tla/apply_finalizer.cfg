SPECIFICATION Spec
CONSTANTS
    Procs = {p1}
    NoProc = NoProc
    Addrs = {1}
    Configs <- Single
    Decisions = {"update"}
    Verbs = {"plan", "apply"}
    MaxCommands = 2
    Null = Null
    Nothing = Nothing
INVARIANTS FailedFinalizerKeepsMarker
