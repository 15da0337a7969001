CONSTANTS
    Nil = Nil
    None = None
    Named = {prod}
    Toolchains = {t1, t2}
    MaxVersion = 2
    MaxSource = 3
    MaxCommands = 3
    MaxSetups = 1
    MaxClones = 1
    MaxFaults = 1
    MaxDisturbances = 3
    Strategies <- MCStrategies
    Bases <- MCBases
    Candidates <- MCCandidates
    ByteValues = 4
    ByteXor <- MCByteXor
    Uvarint <- MCUvarint
    SeedBytes = 1
    MinCopy = 1
    MinCopyLong = 2
    MaxOffsets = 1
    AnchorStride = 1
    MinAnchor = 2
    MinTailAnchor = 1
    Lookahead = 3
    MinAdd = 1
    MinSparse = 2
    AddRadius = 1
    MinReuse = 2
    ContextRadius = 1
INIT AndroidInit
NEXT AndroidNext
SYMMETRY ToolchainSymmetry
INVARIANTS BaseIsTrue NamesSurvive FlavorsApart Lossless
