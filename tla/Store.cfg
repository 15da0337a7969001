SPECIFICATION Spec
CONSTANTS
    Commands = {c1, c2}
    Platforms = {"android", "ios"}
    Versions = {1, 2}
    Pinned <- OnePin
    None = none
    NoFile = nofile
    Empty = empty
    Garbled = garbled
    MaxRuns = 3
    RacingRuns = 2
    MaxKills = 1
SYMMETRY CommandSymmetry
CHECK_DEADLOCK FALSE
INVARIANTS RecordsHold PlatformsCoexist
PROPERTY DamagedOnPurpose
