SPECIFICATION FairSpec
CONSTANTS
    Procs = {p1, p2}
    NoProc = NoProc
    Addrs = {1}
    Configs <- Single
    Decisions = {"update"}
    Verbs = {"plan", "apply", "import", "sanitize"}
    MaxCommands = 4
    Null = Null
    Nothing = Nothing
INVARIANTS PlanIsFresh
PROPERTIES MutationsAreMarked NoneWaitsForAnother
