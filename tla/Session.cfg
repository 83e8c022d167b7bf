\* One interface.json that never changes.
CONSTANTS
    Interfaces <- OneInterface
    NeedsAdmin = {}
    TaskLimit = 2
    Texts = {"typed", "odd"}
    NoFile = NoFile
SPECIFICATION Spec
INVARIANTS
    TypeOK
    RunsForests
    RunIsKept
    Runnable
PROPERTIES
    KeepsInactive
