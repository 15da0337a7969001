SPECIFICATION FairSpec
CONSTANTS
    Operators = {o1}
    Runtimes = {r1}
    Channels = {stable}
    Releases = {rel1}
    Artifacts = {a1, a2}
    Base = base
    BaselineChannel = stable
    PublishChannels = {stable}
    PatchVersions = {1}
    MaxPatches = 3
INVARIANTS NothingServedMismatched NoSilentNoOp
PROPERTIES DeviceOnlyMovesForward DeviceCatchesUp
CHECK_DEADLOCK FALSE
