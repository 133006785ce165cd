SPECIFICATION FairSpec
CONSTANTS
    Installers = {p1, p2}
    Readers = {r1}
    Archives = {"one", "two", "deep", "big", "path"}
    Zip <- Zips
    Sums = {"first", "second", "double"}
    Lines <- Documents
    Signed = {"first", "second", "double"}
    Descriptors <- Offers
    Names = {0, 1, 2, 3, 4, 5}
    Cleaned <- Spellings
    Prefixed = {1, 2, 3, 4, 5}
    Flat = {0, 1, 2, 3}
    Globbed = {1, 2}
    MaxArchive = 2
    MaxEntry = 2
    Silences <- Stalls
    PluginDirs <- Plugged
    Obstacles <- Odd
    NoFile = NoFile
    Other = Other
    Null = Null
CHECK_DEADLOCK FALSE
INVARIANTS CacheIsWhole LaunchIsWhole NothingLeftBehind ReturnedIsInstalled
PROPERTIES InstallReturns
