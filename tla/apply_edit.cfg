SPECIFICATION Spec
CONSTANTS
    Procs = {p1}
    NoProc = NoProc
    Addrs = {1, 2}
    Configs <- Shrinking
    Decisions = {"no-op", "update", "replace", "delete"}
    Verbs = {"plan", "apply", "import"}
    MaxCommands = 5
    Null = Null
    Nothing = Nothing
INVARIANTS TypeOK MarkerCoversRun CompletedIsDurable ExitIsTruthful
