SPECIFICATION FairSpec
CONSTANTS
    Procs = {p1, p2}
    Bodies = {b0, b1}
    EmptyBody = b0
    NoProc = NoProc
    MaxSerial = 2
INVARIANTS TypeOK NoLostUpdate PromisedSurvives NoFalseConflict
PROPERTIES OperationIsolated BackupOnlyFromCurrent ImplementsRegister SaveReturns
