\* Three platforms; the resource is renamed and back between sessions.
CONSTANTS
    Setups <- SomeSetups
    Windows = {"w1", "w2"}
    Untitled = {"w2"}
    AdbDevices = {"d1", "d2", "d3"}
    AdbName <- OneName
    AdbPath <- TwoPaths
    Addresses = {"a1", "a2"}
    Sockets = {"socket"}
    Sizes = {720}
SPECIFICATION Spec
INVARIANTS
    TypeOK
    RunHasDevice
    HandlesAreFresh
    ChosenDeviceRuns
    UnattendedAfterRun
