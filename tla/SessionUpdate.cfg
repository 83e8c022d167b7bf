\* interface.json is updated between sessions, back and forth; win32 needs an Administrator.
CONSTANTS
    Interfaces <- Updates
    NeedsAdmin = {"win32"}
    TaskLimit = 1
    Texts = {"typed", "odd"}
    NoFile = NoFile
SPECIFICATION Spec
INVARIANTS
    RunsForests
    TextsWereGiven
    RunIsKept
    Runnable
