\* One controller, whose input method an update changes.
CONSTANTS
    Setups <- MethodChanges
    Windows = {"w1", "w2"}
    Untitled = {"w2"}
    AdbDevices = {"d1", "d2", "d3"}
    AdbName <- OneName
    AdbPath <- TwoPaths
    Addresses = {"a1", "a2"}
    Sockets = {"socket"}
    Sizes = {720}
SPECIFICATION Spec
INVARIANTS
    RequiredIsAsked
