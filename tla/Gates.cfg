CONSTANTS
    Nil = Nil
    pa = pa
    pb = pb
    ps = ps
    App = App
    Pkgs = {pa, pb, ps}
    Dev = {pb}
    Releases <- MCReleases
    Bodies <- MCBodies
    MaxDepEdits = 2
    NoApk = NoApk
    ABIs = {arm64, x64}
    Primary = arm64
    MaxChanges = 2
    f = f
    g = g
    h = h
    Absent = Absent
    Decls = {f, g, h}
    Frozen = Frozen
    Swaps = {w}
    Bases <- MCBases
    MaxChanged = 2
    ios = ios
    android = android
    r2 = r2
    r9 = r9
    f2 = f2
    f9 = f9
    i2 = i2
    a2 = a2
    i9 = i9
    a9 = a9
    d2 = d2
    d9 = d9
    Missing = Missing
    Version = Version
    SetupPlatforms = {ios, android}
    Revisions = {r2, r9}
    Frontends = {f2, f9}
    Toolchains = {i2, a2, i9, a9}
    ManifestsOf <- MCManifests
    LegacyPairs <- MCLegacyPairs
    Catalogs1 <- MCCatalogs1
    Catalogs2 <- MCCatalogs2
    MaxEvents = 1
    MaxBadReplies = 1
    k1 = k1
    k2 = k2
    NoKey = NoKey
    KeyCmds = {k1, k2}
    MaxKeys = 2
    MaxKeyFaults = 1
INIT GatesInit
NEXT GatesNext
SYMMETRY KeySymmetry
INVARIANTS DescriptorIsTrue PatchIsComplete GatesAgree  RedirectsAreExact SetupIsTrue KeysHold
PROPERTIES DeliversWhatChanged SeedStays
