\* One interface.json that never changes; the user switches controllers.
CONSTANTS
    Interfaces <- OneInterface
    NeedsAdmin = {}
    TaskLimit = 1
    Texts = {"typed", "odd"}
    NoFile = NoFile
SPECIFICATION Spec
INVARIANTS
    OnlyUpdatesDelete
