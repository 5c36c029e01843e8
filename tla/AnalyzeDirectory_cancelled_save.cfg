CONSTANTS
    Missing = Missing
    Absent = Absent
    Torn = Torn
    Root = Root
    r1 = r1
    r2 = r2
    r3 = r3
    a = a
    b = b
    d = d
    x = x
    y = y
    h1 = h1
    h2 = h2
    m1 = m1
    z = z
    Requests = {r1, r2}
    Hosts = {h1}
    Locks = {h1}
    HostOf <- OneHost
    LockOf <- OneHost
    Manifests = {m1}
    ManifestOf <- MCManifestOf
    Names = {a}
    Nested = {}
    Subdirs = {}
    Beneath <- MCBeneath
    Paths = {a}
    Fold <- MCFold
    Contents = {x, y}
    BigContents = {}
    SizeOf <- MCSizeOf
    Hashes = {x, y}
    HashOf <- MCHashOf
    FreshStamps = TRUE
    MaxClock = 2
    MaxInt = 2
    MaxFileCount = 1
    MaxFileSize = 1
SYMMETRY MCSymmetry
SPECIFICATION Spec
INVARIANTS
    ManifestsReadable
