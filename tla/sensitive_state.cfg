SPECIFICATION StateSpec
CONSTANTS
    Addrs = {1, 2}
    Schema <- OneSchema
    Values <- Samples
    Reads <- Omitted
    Secrets <- Hushed
    Declarations <- Policies
    Raws <- Bodies
    Presences <- Both
    Reachable <- Live
    LegacyPaths <- OldK
    MaxSaves = 3
    Lost = Lost
    AllPaths <- Paths5
    Universe <- Every
    Legacies <- Old5
    Literals <- LiteralsOf
    ProjectUnder <- ProjectionOf
    Restore <- Restoration
    CarryForward <- Carried
    RedactJSON <- Redaction
    Texts <- TextsOf
CHECK_DEADLOCK FALSE
INVARIANTS SecretsWithheld ValuesAreRestored PathsAreRemembered SavedIsLoadable
PROPERTIES WithheldSurvives RecordedPathsStay
