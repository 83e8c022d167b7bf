\* Two processes on one directory, two fields; interface.json stays as it is.
CONSTANTS
    p1 = p1
    p2 = p2
    d1 = d1
    d2 = d2
    Procs = {p1, p2}
    Dirs = {d1}
    DirOf <- OneDir
    SlotCount = 2
    Secrets = {"secret", "other"}
    InterfaceMayChange = FALSE
    Unreadable = Unreadable
SPECIFICATION Spec
INVARIANTS
    TypeOK
    Decryptable
    NeverRefused
    MenuIsClear
PROPERTIES
    KeyIsForever
    NoBarePassword
    IsPlainStore
