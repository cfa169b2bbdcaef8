CONSTANTS
    Calls = {c1, c2}
    SetSeq <- TwoSets
    Paths = {"p1", "p2"}
    Srcs = {"d1", "d2"}
    Configs <- ThreeConfigs
    Contents <- FewContents
    Bad = Bad
    NoPath = NoPath
    StartFiles <- TwoFiles
    StartDisks <- TwoDisks
    MaxCount = 2
    MaxCalls = 2
    MaxEdits = 1
SPECIFICATION Spec
INVARIANTS TypeOK ReadableSetsAgree ServedFromCurrentConfig
PROPERTIES RestartOnlyPartsAreKept EveryCallReturns
CHECK_DEADLOCK FALSE
