CONSTANTS
    Unset = Unset
    Blank = Blank
    Separator = Separator
    ManifestStem = ManifestStem
    NoDirectory = NoDirectory
    NoSnapshot = NoSnapshot
    r1 = r1
    r2 = r2
    h1 = h1
    u = u
    v = v
    uv = uv
    store = store
    STORE = STORE
    V = V
    a = a
    app = app
    x = x
    y = y
    Numerals <- MCNumerals
    DefaultBasePath <- MCBase
    FullPaths <- RootsInUse
    Folded <- MCFolded
    AppData <- MCAppData
    SafeName <- SelfNamed
    Digest <- SelfNamed
    CaseSensitive = FALSE
    Links <- NoLinks
    MaxLinks = 0
    Requests = {r1, r2}
    Hosts = {h1}
    HostOf <- OneHost
    RootOf <- TwoCases
    SettingsSets <- EveryFormat
    UserFolders <- MCFolders
    UserFiles <- MCFiles
    Contents = {x}
    MaxSaves = 2
SPECIFICATION RootSpec
INVARIANTS
    OneAnalysisPerDirectory
    ManifestsAreReadable
