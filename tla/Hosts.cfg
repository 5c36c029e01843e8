CONSTANTS
    Missing = Missing
    Absent = Absent
    Torn = Torn
    Root = Root
    r1 = r1
    r2 = r2
    h1 = h1
    m1 = m1
    a = a
    d = d
    x = x
    y = y
    z = z
    Requests = {r1, r2}
    Hosts = {h1}
    Locks = {h1}
    HostOf <- MCHostOf
    LockOf <- MCHostOf
    Manifests = {m1}
    ManifestOf <- MCManifestOf
    Names = {a}
    Subdirs = {d}
    Beneath <- MCBeneath
    Paths = {d}
    Fold <- MCFold
    Contents = {x, y, z}
    BigContents = {z}
    SizeOf <- MCSizeOf
    Hashes = {x, y, z}
    HashOf <- MCHashOf
    FreshStamps = TRUE
    MaxClock = 3
    MaxInt = 2
    MaxFileCount = 1
    MaxFileSize = 1
SYMMETRY MCSymmetry
SPECIFICATION HostSpec
INVARIANTS
    TypeOK
    ManifestWithinLimits
    ClientsCanFollow
