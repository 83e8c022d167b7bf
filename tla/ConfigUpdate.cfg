\* Two installations that share the master key; their interface.json changes.
CONSTANTS
    p1 = p1
    p2 = p2
    d1 = d1
    d2 = d2
    Procs = {p1, p2}
    Dirs = {d1, d2}
    DirOf <- TwoDirs
    SlotCount = 1
    Secrets = {"secret"}
    InterfaceMayChange = TRUE
    Unreadable = Unreadable
SPECIFICATION Spec
INVARIANTS
    Decryptable
PROPERTIES
    KeyIsForever
    NoBarePassword
