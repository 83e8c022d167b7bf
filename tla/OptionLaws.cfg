CONSTANTS
    Texts = {"typed"}
    Mains <- SomeMains
    Imported <- Imports
    Controllers = {"adb", "win32"}
    MaxLength = 4
    Removed = "removed"
SPECIFICATION Spec
INVARIANTS
    TypeOK
    VerdictIsRight
    MergesInOrder
    CheckSettles
    GeneratedIsAccepted
    EnsureMakesForest
    EnsureKeepsChoices
    ForestIsSerializable
    EditKeepsForest
CHECK_DEADLOCK FALSE
