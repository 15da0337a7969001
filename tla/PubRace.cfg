SPECIFICATION Spec
CONSTANTS
    Operators = {o1, o2}
    Runtimes = {r1}
    Channels = {stable}
    Releases = {rel1}
    Artifacts = {a1, a2}
    Base = base
    BaselineChannel = stable
    PublishChannels = {stable}
    PatchVersions = {1}
    MaxPatches = 3
SYMMETRY RaceSymmetry
VIEW OperatorView
CHECK_DEADLOCK FALSE
INVARIANTS AnnouncedVersionsIncrease SignedNotAhead FreshAfterListing GateNamesARealRace
PROPERTY ImplementsLedger
