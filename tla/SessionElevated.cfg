\* One controller asks for an Administrator.
CONSTANTS
    Interfaces <- OneInterface
    NeedsAdmin = {"win32"}
    TaskLimit = 1
    Texts = {"typed", "odd"}
    NoFile = NoFile
SPECIFICATION Spec
PROPERTIES
    ElevatedLeaves
