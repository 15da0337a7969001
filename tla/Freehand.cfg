CONSTANTS
    Nil = Nil
    r1 = r1
    r2 = r2
    p1 = p1
    Releases = {r1, r2}
    Patches = {p1}
    Inlining = {1}
    NewIcons = {2}
    MaxSource = 2
    MaxVersion = 2
    MaxEdits = 2
    MaxFaults = 2
    MaxRunning = 2
    MaxRacing = 1
SYMMETRY Symmetry
SPECIFICATION Spec
CHECK_DEADLOCK FALSE
INVARIANTS OneBuild PatchesFit ActivationEnds
PROPERTY BoundOnce
