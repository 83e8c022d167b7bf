----------------------------- MODULE MCDevices -----------------------------
(***************************************************************************)
(* Devices on three platforms, with controllers of two or three types      *)
(* each, those the platform lacks included; updates change what wlr needs  *)
(* and make an Android device of store.                                    *)
(***************************************************************************)
EXTENDS Devices

\* d1 and d3 are twins, d2 has only their name.
OneName  == [d \in {"d1", "d2", "d3"} |-> "emulator"]
TwoPaths == [d \in {"d1", "d2", "d3"} |-> IF d = "d2" THEN "adb2" ELSE "adb1"]

Adb           == [type |-> "Adb"]
Win32(m)      == [type |-> "Win32", regex |-> TRUE, matches |-> m]
NoRegex       == [type |-> "Win32", regex |-> FALSE, matches |-> {}]
Gamepad(m, t) == [type |-> "Gamepad", regex |-> m # {}, matches |-> m, padType |-> t]
MacOS(m)      == [type |-> "MacOS", asks |-> FALSE, regex |-> TRUE, matches |-> m]
MacOSAsks     == [type |-> "MacOS", asks |-> TRUE, regex |-> TRUE, matches |-> Windows]
PlayCover(id) == [type |-> "PlayCover", uuid |-> id]
Linux(s, i)   == [type |-> "Linux", screencap |-> s, input |-> i]

On(platform, controller) == {[platform |-> platform, resource |-> r, controller |-> controller] :
                             r \in {{"official"}, {"renamed"}}}

WindowsAndPhones == [platform |-> "windows", resource |-> {"official"},
                     controller |-> [store |-> Adb, game |-> Win32({"w1", "w2"}), other |-> NoRegex]]

SomeSetups ==
    {WindowsAndPhones}
    \cup On("windows", [game |-> Win32({"w1"}), store |-> Win32({"w2"}), app |-> PlayCover(NoText)])
    \cup On("windows", [pad |-> Gamepad({"w1", "w2"}, "DS4"), blind |-> Gamepad({}, NoText)])
    \cup On("macos", [shown |-> MacOS({"w1", "w2"}), asked |-> MacOSAsks])
    \cup On("macos", [app |-> PlayCover("id1"), plain |-> PlayCover(NoText), pad |-> Gamepad({}, NoText)])
    \cup On("linux", [wlr |-> Linux(NoText, "Wlr"), libei |-> Linux("PipeWire", "Libei")])
    \cup On("linux", [wlr |-> Linux("PipeWire", "UInput"), shown |-> MacOS({"w1"}), app |-> PlayCover("id1")])
    \cup On("linux", [pad |-> Gamepad({}, NoText)])

\* An update renames the resource and changes how the controller gets input.
MethodChanges ==
    {[platform |-> "linux", resource |-> {"official"}, controller |-> [desktop |-> Linux("PipeWire", "Wlr")]],
     [platform |-> "linux", resource |-> {"renamed"}, controller |-> [desktop |-> Linux("PipeWire", "UInput")]]}
=============================================================================
