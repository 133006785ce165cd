SPECIFICATION Spec
CONSTANTS
    Procs = {p1}
    NoProc = NoProc
    Addrs = {1, 2}
    Configs <- Shrinking
    Decisions = {"update"}
    Verbs = {"plan", "apply"}
    MaxCommands = 5
    Null = Null
    Nothing = Nothing
PROPERTIES StateOnlyDeleteIsSafe
