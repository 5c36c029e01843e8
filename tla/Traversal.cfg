CONSTANTS
    Unset = Unset
    Blank = Blank
    Separator = Separator
    ManifestStem = ManifestStem
    NoDirectory = NoDirectory
    w = w
    d = d
    f = f
    loop = loop
    store = store
    STORE = STORE
    app = app
    rare = rare
    Numerals <- MCNumerals
    DefaultBasePath <- MCBase
    FullPaths <- MCFullPaths
    Folded <- MCFolded
    AppData <- MCAppData
    SafeName <- SelfNamed
    Digest <- SelfNamed
    CaseSensitive = TRUE
    Links <- MCLinks
    MaxLinks = 1
    Trees <- ProperTrees
    SettingsSet <- MCSettingsSet
    DeniedPlaces <- MCDenied
    MaxDepth = 6
SPECIFICATION TraversalSpec
INVARIANTS
    FindsExactlyTheTree
PROPERTIES
    EveryTraversalEnds
CHECK_DEADLOCK FALSE
