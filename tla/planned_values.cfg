SPECIFICATION ApplySpec
CONSTANTS
    Schema <- OneSchema
    Authors <- Writers
    References <- Two
    Default <- D
    Variants <- Meddled
    Replacing <- Replacements
    MaxPlans = 2
    Nothing = Nothing
INVARIANTS ReviewHolds NoOpMeansEqual Converges PromisesAreChecked
