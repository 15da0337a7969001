CONSTANTS
    Procs = {p1, p2}
    Top = top
    Declared = {dev, prod}
    NoFile = nil
    MaxRuns = 3
    MaxEdits = 1
    MaxKills = 1
    dev = dev
    prod = prod
    id1 = id1
    id2 = id2
    fn1 = fn1
    fn2 = fn2
    LaneCmds = {p1, p2}
    Patchables <- MCLists
    Codes = {code}
    ReleaseIds = {id1, id2}
    LaneEngines = {engine}
    AppVersions = {v1}
    OutFiles = {out}
    Nothing = nothing
    MaxLaneReleases = 2
    MaxLanePatches = 1
SYMMETRY Symmetry
INIT IndexedOnly
NEXT ConfigNext
CHECK_DEADLOCK FALSE
INVARIANT DillIsOfBuild
