\* A resource update makes a field whose value is saved a password.
CONSTANTS
    p1 = p1
    p2 = p2
    d1 = d1
    d2 = d2
    Procs = {p1}
    Dirs = {d1}
    DirOf <- OneDir
    SlotCount = 1
    Secrets = {"secret"}
    InterfaceMayChange = TRUE
    Unreadable = Unreadable
SPECIFICATION Spec
INVARIANTS
    LegacyIsAccepted
