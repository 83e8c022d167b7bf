------------------------------ MODULE Devices ------------------------------
(***************************************************************************)
(* The device behind a controller: how the menu asks for it, what of it is *)
(* saved, what a run asks for again, and what Runner creates of it         *)
(* (interactor.cpp, Configurator.cpp, Types.h, Runner.cpp).                *)
(*                                                                         *)
(* The lists of windows, sockets and Android devices are MaaToolkit's and  *)
(* the system's: every call may answer something else.  An operator that   *)
(* returns a set of outcomes allows what the user and MaaToolkit may       *)
(* answer.  Tasks and options are Session's part.                          *)
(***************************************************************************)
EXTENDS Naturals, FiniteSets

CONSTANTS
    Setups,      \* interface.json files by platform: [platform, resource, controller]
    Windows,     \* window handles
    Untitled,    \* those without a title
    AdbDevices,  \* Android devices
    AdbName,     \* what MaaToolkit calls a device
    AdbPath,     \* the adb executable it finds it with
    Addresses,   \* addresses of devices and services
    Sockets,     \* socket paths
    Sizes        \* screen dimensions

NoText == ""
NoWindow == "null"
Nobody == "none"       \* no device of AdbDevices: an address typed in by hand
NoParam == [type |-> "none"]

\* What a device typed in is called, which the program makes of its address and
\* its path.
TypedName == "by hand"

\* A device in a list has a name, an executable and an address.  Its name is not
\* that of a device that was typed in, which has the address in it, so that
\* looking it up would change nothing.
ASSUME DevicesAssumption ==
    /\ \A d \in AdbDevices : AdbName[d] \notin {NoText, TypedName} /\ AdbPath[d] # NoText
    /\ NoText \notin Addresses
    /\ Nobody \notin AdbDevices
    /\ NoWindow \notin Windows
    /\ Sizes \subseteq Nat \ {0}

ControllerTypes == {"Adb", "Win32", "MacOS", "PlayCover", "Gamepad", "Linux"}

\* What controller types there are; the window of a controller is looked for
\* among those of the system.
ASSUME SetupsAssumption ==
    \A S \in Setups : \A n \in DOMAIN S.controller :
        LET k == S.controller[n] IN
        /\ k.type \in ControllerTypes
        /\ k.type \in {"Win32", "MacOS", "Gamepad"} => k.regex \in BOOLEAN /\ k.matches \subseteq Windows

VARIABLES
    setup,    \* the platform and the installed interface.json
    mode,     \* "off", "setup", "menu", "direct", "pretasks", "running", "ending"
    direct,   \* started with -d
    cfg,      \* config_: the configuration in memory
    file,     \* the configuration in maa_pi_config.json
    aborted,  \* input_aborted_
    param,    \* the RuntimeParam's controller_param
    used,     \* what the controller of the run was created with
    listing,  \* the devices MaaToolkit listed when it was created
    seen,     \* the windows this process has found in a list
    kept      \* the window that was in the configuration this process loaded

vars == <<setup, mode, direct, cfg, file, aborted, param, used, listing, seen, kept>>

run == <<param, used, listing>>

\* The part of Configuration about devices; adb.device is the device the user
\* chose from a list, which the program does not know.
Blank ==
    [name |-> NoText, type |-> "Adb", resource |-> NoText,
     adb |-> [name |-> NoText, path |-> NoText, address |-> NoText, device |-> Nobody],
     win32 |-> NoWindow, window |-> NoWindow,
     address |-> NoText, uuid |-> NoText,
     padWindow |-> NoWindow, padType |-> NoText,
     wlr |-> NoText, eis |-> NoText, width |-> 0, height |-> 0]

NoFile == [Blank EXCEPT !.name = "no file"]

Controllers == DOMAIN setup.controller
Controller(c) == setup.controller[c.name]
KnownController(c) == c.name \in Controllers
KnownResource(c)   == c.resource \in setup.resource

\* kPlayCoverSupported, kGamepadSupported, kLinuxSupported: the other types are
\* not asked about.
Home == [PlayCover |-> "macos", Gamepad |-> "windows", Linux |-> "linux"]
Supported(type) == type \in DOMAIN Home => Home[type] = setup.platform

-----------------------------------------------------------------------------
(* Outcomes of a dialogue: it completes, fails, or the input ends in it.    *)

Outcome(c, ok, end) == [cfg |-> c, ok |-> ok, aborted |-> end]
Done(c)   == Outcome(c, TRUE, FALSE)
Failed(c) == Outcome(c, FALSE, FALSE)
Ended(c)  == Outcome(c, FALSE, TRUE)

\* One dialogue behind another, which is not held once the first has failed.
Then(outcomes, Following(_)) == UNION {IF o.ok THEN Following(o.cfg) ELSE {o} : o \in outcomes}

\* mpause behind a message.
Paused(o) == {o, Ended(o.cfg)}

-----------------------------------------------------------------------------
(* The dialogues                                                            *)

Described(d, a) == [name |-> AdbName[d], path |-> AdbPath[d], address |-> a, device |-> d]

ByHand(p, a) == [name |-> TypedName, path |-> p, address |-> a, device |-> Nobody]

\* What may be typed in: an empty line is taken for an answer.
Paths        == {AdbPath[d] : d \in AdbDevices} \cup {NoText}
AddressLines == Addresses \cup {NoText}

\* select_adb: auto detection, which without a device asks again, or by hand.
SelectAdb(c) ==
    {Ended(c)}
    \cup {Ended([c EXCEPT !.adb.path = p]) : p \in Paths}
    \cup {Done([c EXCEPT !.adb = Described(d, a)]) : d \in AdbDevices, a \in Addresses}
    \cup {Done([c EXCEPT !.adb = ByHand(p, a)]) : p \in Paths, a \in AddressLines}

\* The windows of a list that match: a single one is taken without a question.
Picked(matching, c, Take(_)) ==
    {Done(Take(w)) : w \in matching} \cup IF Cardinality(matching) > 1 THEN {Ended(c)} ELSE {}

\* k.regex: FALSE for a regular expression that does not compile.
Matching(k) == IF k.regex THEN SUBSET k.matches ELSE {}

SelectWin32(c, k) ==
    IF ~k.regex THEN {Failed(c)}
    ELSE UNION {IF m = {} THEN Paused(Failed(c)) ELSE Picked(m, c, LAMBDA w : [c EXCEPT !.win32 = w]) :
                m \in Matching(k)}

\* The title may have to be typed in; the methods that are asked for behind the
\* window are saved and have no other use.
SelectMacOS(c, k) ==
    LET titles == IF k.asks THEN {Ended(c), Failed(c), Done(c)} ELSE {Done(c)}
        windows(c1) == IF ~k.regex THEN {Failed(c1)}
                       ELSE UNION {IF m = {} THEN {Failed(c1)}
                                   ELSE Picked(m, c1, LAMBDA w : [c1 EXCEPT !.window = w]) : m \in Matching(k)}
        methods(c1) == {Done(c1), Ended(c1)}
    IN Then(Then(titles, windows), methods)

\* The identifier of interface.json only fills an empty one.
SelectPlayCover(c, k) ==
    LET c1 == [c EXCEPT !.uuid = IF @ = NoText THEN k.uuid ELSE @]
        default == IF c.address = NoText THEN "127.0.0.1:1717" ELSE c.address
    IN {Ended(c1)} \cup {Done([c1 EXCEPT !.address = a]) : a \in Addresses \cup {default}}

\* Without a window there is no screenshot, and the dialogue goes on.
SelectGamepad(c, k) ==
    LET noWindow == Done([c EXCEPT !.padWindow = NoWindow])
        windows == IF ~k.regex THEN {noWindow}
                   ELSE UNION {IF m = {} THEN {noWindow}
                               ELSE Picked(m, c, LAMBDA w : [c EXCEPT !.padWindow = w]) : m \in Matching(k)}
        types(c1) == {Ended(c1)} \cup {Done([c1 EXCEPT !.padType = t]) : t \in {"Xbox360", "DualShock4"}}
    IN Then(windows, types)

\* normalize_linux_screencap_method, normalize_linux_input_method
Screencap(k) == IF k.screencap \in {"Wlr", "PipeWire"} THEN k.screencap ELSE "Wlr"
Input(k)     == IF k.input \in {"Wlr", "UInput", "Libei"} THEN k.input ELSE "Wlr"

UsesWlr(k) == "Wlr" \in {Screencap(k), Input(k)}

\* What is typed in may be empty.
SelectWlroots(c) == {Ended(c)} \cup {Done([c EXCEPT !.wlr = s]) : s \in Sockets \cup {NoText}}

\* A dimension that is set may be confirmed, one that is not is asked for until
\* it is positive.
InputWidth(c) ==
    {Ended(c)} \cup {Done([c EXCEPT !.width = n]) : n \in (Sizes \cup {c.width}) \ {0}}

InputHeight(c) ==
    {Ended(c)} \cup {Done([c EXCEPT !.height = n]) : n \in (Sizes \cup {c.height}) \ {0}}

\* A socket that is set is not asked for again, the one for EIS is.
SelectLinux(c, k) ==
    LET wlroots(c1) == IF UsesWlr(k) /\ c1.wlr = NoText THEN SelectWlroots(c1) ELSE {Done(c1)}
        libei(c1)   == IF Input(k) # "Libei" THEN {Done(c1)}
                       ELSE {Ended(c1)} \cup {Done([c1 EXCEPT !.eis = s]) : s \in (Sockets \cup {c1.eis}) \ {NoText}}
        uinput(c1)  == IF Input(k) # "UInput" THEN {Done(c1)} ELSE Then(InputWidth(c1), InputHeight)
    IN Then(Then(wlroots(c), libei), uinput)

Dialogue(c, k) ==
    CASE k.type = "Adb"       -> SelectAdb(c)
      [] k.type = "Win32"     -> SelectWin32(c, k)
      [] k.type = "MacOS"     -> SelectMacOS(c, k)
      [] k.type = "PlayCover" -> SelectPlayCover(c, k)
      [] k.type = "Gamepad"   -> SelectGamepad(c, k)
      [] k.type = "Linux"     -> SelectLinux(c, k)

\* select_controller: name and type first.  A type the platform lacks makes it
\* start over as long as interface.json has one of another type; with no other it
\* completes.
SelectController(c) ==
    (IF Cardinality(Controllers) = 1 THEN {} ELSE {Ended(c)})
    \cup UNION {LET k == setup.controller[n]
                    named == [c EXCEPT !.name = n, !.type = k.type]
                IN IF Supported(k.type) THEN Dialogue(named, k)
                   ELSE IF \E other \in Controllers : setup.controller[other].type # k.type THEN {Ended(named)}
                   ELSE Paused(Done(named)) : n \in Controllers}

-----------------------------------------------------------------------------
(* check_validity, before a run.  It goes by the type in the configuration. *)

IfFound(c, outcomes) == IF KnownController(c) THEN outcomes ELSE {Failed(c)}

\* What a dialogue returns is ignored, and condition asked instead.
Regardless(outcomes, Condition(_)) == {[o EXCEPT !.ok = Condition(o.cfg)] : o \in outcomes}

CheckWin32(c) ==
    IF c.win32 # NoWindow THEN {Done(c)} ELSE IfFound(c, SelectWin32(c, Controller(c)))

CheckMacOS(c) ==
    IF c.window \notin {NoWindow} \cup Untitled THEN {Done(c)}
    ELSE IfFound(c, Regardless(SelectMacOS(c, Controller(c)), LAMBDA c1 : c1.window # NoWindow))

CheckPlayCover(c) ==
    IF ~Supported("PlayCover") THEN {Failed(c)}
    ELSE Regardless(IF c.address = NoText /\ KnownController(c) THEN SelectPlayCover(c, Controller(c)) ELSE {Done(c)},
                    LAMBDA c1 : c1.address # NoText)

CheckGamepad(c) ==
    IF ~Supported("Gamepad") THEN {Failed(c)}
    ELSE Regardless(IF c.padType = NoText /\ KnownController(c) THEN SelectGamepad(c, Controller(c)) ELSE {Done(c)},
                    LAMBDA c1 : TRUE)

\* The values a Linux controller's methods need, and c has not.
Missing(c, k) ==
    {v \in {"wlr", "eis", "dimensions"} :
        \/ v = "wlr" /\ c.wlr = NoText /\ UsesWlr(k)
        \/ v = "eis" /\ c.eis = NoText /\ Input(k) = "Libei"
        \/ v = "dimensions" /\ Input(k) = "UInput" /\ (c.width = 0 \/ c.height = 0)}

\* Slip: a dimension that was not confirmed is not missed.
CheckLinux_OneDimension(c) ==
    IF ~Supported("Linux") THEN {Failed(c)}
    ELSE IF ~KnownController(c) THEN {Failed(c)}
    ELSE IF Missing(c, Controller(c)) \ {"dimensions"} = {} THEN {Done(c)}
    ELSE Then(SelectLinux(c, Controller(c)),
              LAMBDA c1 : IF Missing(c, Controller(c)) \cap Missing(c1, Controller(c)) = {} THEN {Done(c1)}
                          ELSE {Failed(c1)})

CheckLinux(c) ==
    IF ~Supported("Linux") THEN {Failed(c)}
    ELSE IF ~KnownController(c) THEN {Failed(c)}
    ELSE IF Missing(c, Controller(c)) = {} THEN {Done(c)}
    ELSE Then(SelectLinux(c, Controller(c)),
              LAMBDA c1 : IF Missing(c, Controller(c)) \cap Missing(c1, Controller(c)) = {} THEN {Done(c1)}
                          ELSE {Failed(c1)})

CheckValidity(c) ==
    CASE c.type = "Adb"       -> {Done(c)}
      [] c.type = "Win32"     -> CheckWin32(c)
      [] c.type = "MacOS"     -> CheckMacOS(c)
      [] c.type = "PlayCover" -> CheckPlayCover(c)
      [] c.type = "Gamepad"   -> CheckGamepad(c)
      [] c.type = "Linux"     -> CheckLinux(c)

-----------------------------------------------------------------------------
(* generate_runtime and the creation of the controller, which go by the     *)
(* type in interface.json.                                                  *)

\* parse_linux_screencap_method, parse_linux_input_method and their defaults.
RuntimeScreencap(k) == IF k.screencap = "PipeWire" THEN "PipeWire" ELSE "Wlr"
RuntimeInput(k)     == IF k.input \in {"UInput", "Libei"} THEN k.input ELSE "Wlr"

\* parse_gamepad_type of the user's choice, else of interface.json's.
GamepadType(c, k) ==
    IF (IF c.padType = NoText THEN k.padType ELSE c.padType) \in {"DualShock4", "DS4"} THEN "DualShock4" ELSE "Xbox360"

\* NoParam: there is nothing to run.
Parameter(c) ==
    IF ~KnownResource(c) \/ ~KnownController(c) THEN NoParam
    ELSE LET k == Controller(c) IN
         CASE k.type = "Adb"       -> [type |-> "Adb", name |-> c.adb.name, path |-> c.adb.path,
                                       address |-> c.adb.address, device |-> c.adb.device]
           [] k.type = "Win32"     -> [type |-> "Win32", window |-> c.win32]
           [] k.type = "MacOS"     -> [type |-> "MacOS", window |-> c.window]
           [] k.type = "PlayCover" -> IF c.address = NoText THEN NoParam
                                      ELSE [type |-> "PlayCover", address |-> c.address,
                                            uuid |-> IF c.uuid = NoText THEN "maa.playcover" ELSE c.uuid]
           [] k.type = "Gamepad"   -> [type |-> "Gamepad", window |-> c.padWindow, pad |-> GamepadType(c, k)]
           [] k.type = "Linux"     -> [type |-> "Linux", screencap |-> RuntimeScreencap(k), input |-> RuntimeInput(k),
                                       wlr |-> c.wlr, eis |-> c.eis, width |-> c.width, height |-> c.height]

\* What MaaToolkit may list: some of the devices, each at some address.
Listings == UNION {[D -> Addresses] : D \in SUBSET AdbDevices}

\* The device takes the present address of one of those that are the same.
At(p, list, same) == IF same = {} THEN {p} ELSE {[p EXCEPT !.address = list[d]] : d \in same}

\* Slip: the devices are compared by name only.
Reconfigured_ByName(p, list) == At(p, list, {d \in DOMAIN list : AdbName[d] = p.name})

\* reconfig_adb: the first device of that name and path in the list, which may be
\* in any order.
Reconfigured(p, list) == At(p, list, {d \in DOMAIN list : AdbName[d] = p.name /\ AdbPath[d] = p.path})

\* The types Runner::run is compiled for; the others it refuses.
Compiled(type) == Supported(type) /\ (type = "MacOS" => setup.platform = "macos")

\* Creating the controller may fail, with PipeWire also looking for a stream.
Created(p, list) ==
    {NoParam} \cup IF ~Compiled(p.type) THEN {} ELSE IF p.type = "Adb" THEN Reconfigured(p, list) ELSE {p}

-----------------------------------------------------------------------------
(* Loading and saving                                                       *)

\* Slip: the socket of EIS is not among the members that are serialised.
Persistent_NoEis(c) == [c EXCEPT !.type = "Adb", !.win32 = NoWindow, !.padWindow = NoWindow, !.eis = NoText]

\* Slip: the window handles are serialised.
Persistent_Handles(c) == [c EXCEPT !.type = "Adb"]

\* Neither the type nor the window handles of Windows are serialised.
Persistent(c) == [c EXCEPT !.type = "Adb", !.win32 = NoWindow, !.padWindow = NoWindow]

\* check_configuration: the type is set when the resource and the controller are
\* known, and is Adb's, the default, otherwise.
Loaded(f) ==
    IF ~KnownResource(f) THEN [f EXCEPT !.resource = NoText]
    ELSE IF ~KnownController(f) THEN [f EXCEPT !.name = NoText]
    ELSE [f EXCEPT !.type = Controller(f).type]

NoRun == param' = NoParam /\ used' = NoParam /\ listing' = [d \in {} |-> NoText]

Init ==
    /\ setup \in Setups
    /\ mode = "off"
    /\ direct = FALSE
    /\ cfg = Blank
    /\ file = NoFile
    /\ aborted = FALSE
    /\ param = NoParam
    /\ used = NoParam
    /\ listing = [d \in {} |-> NoText]
    /\ seen = {}
    /\ kept = NoWindow

\* The project is updated while the program is off.
Update ==
    /\ mode = "off"
    /\ \E S \in Setups : S.platform = setup.platform /\ setup' = S
    /\ UNCHANGED <<mode, direct, cfg, file, aborted, run, seen, kept>>

\* Interactor::load; with -d there is no setup, even without a file.
Start ==
    /\ mode = "off"
    /\ cfg' = IF file = NoFile THEN Blank ELSE Loaded(file)
    /\ \/ direct' = FALSE /\ mode' = IF file = NoFile THEN "setup" ELSE "menu"
       \/ direct' = TRUE /\ mode' = "direct"
    /\ kept' = cfg'.window
    /\ UNCHANGED <<setup, file, aborted, run, seen>>

Leave ==
    /\ mode # "off"
    /\ mode' = "off"
    /\ direct' = FALSE
    /\ cfg' = Blank
    /\ aborted' = FALSE
    /\ seen' = {}
    /\ kept' = NoWindow
    /\ NoRun
    /\ UNCHANGED <<setup, file>>

\* A dialogue that makes d of c puts the windows it finds into the configuration.
Found(c, d) ==
    {w \in Windows : \/ w = d.win32 /\ w # c.win32
                     \/ w = d.window /\ w # c.window
                     \/ w = d.padWindow /\ w # c.padWindow}

Take(o) ==
    /\ cfg' = o.cfg
    /\ aborted' = o.aborted
    /\ seen' = seen \cup Found(cfg, o.cfg)
    /\ UNCHANGED kept

Save == file' = Persistent(cfg')

\* Where the program is behind an action: once the input has ended, or when
\* there is no menu, it ends.
Behind(end) == mode' = IF direct \/ end THEN "ending" ELSE "menu"

\* interact_for_first_time_use; wherever it fails the program ends (Leave).
Setup ==
    /\ mode = "setup"
    /\ \E o \in SelectController(cfg), r \in setup.resource :
        /\ o.ok
        /\ Take([o EXCEPT !.cfg.resource = r])
    /\ Save
    /\ mode' = "menu"
    /\ UNCHANGED <<setup, direct, run>>

SwitchController ==
    /\ mode = "menu"
    /\ \E o \in SelectController(cfg) :
        /\ Take(o)
        /\ IF o.ok THEN Save ELSE UNCHANGED file
        /\ Behind(o.aborted)
    /\ UNCHANGED <<setup, direct, run>>

SwitchResource ==
    /\ mode = "menu"
    /\ \E r \in setup.resource : cfg' = [cfg EXCEPT !.resource = r]
    /\ Save
    /\ UNCHANGED <<setup, mode, direct, aborted, run, seen, kept>>

\* Any other action of the menu that completes saves what is in memory.
SaveMenu ==
    /\ mode = "menu"
    /\ UNCHANGED cfg
    /\ Save
    /\ UNCHANGED <<setup, mode, direct, aborted, run, seen, kept>>

-----------------------------------------------------------------------------
(* A run                                                                    *)

\* Slip: the empty result of generate_runtime is run.
Prepared_NothingIsRun(o) ==
    /\ o.ok
    /\ Save
    /\ param' \in {Parameter(o.cfg), NoParam}
    /\ mode' = "pretasks"
    /\ UNCHANGED <<used, listing>>

\* The lists of options are complete and saved.  There may be nothing to run;
\* Runner::run begins with the pretasks.
Prepared(o) ==
    /\ o.ok
    /\ Save
    /\ param' \in {Parameter(o.cfg), NoParam}
    /\ IF param' = NoParam THEN Behind(o.aborted) ELSE mode' = "pretasks"
    /\ UNCHANGED <<used, listing>>

\* Interactor::run; it also stops at a device that is not valid, at options that
\* cannot be completed, and at a save that fails.
Run ==
    /\ mode \in {"menu", "direct"}
    /\ \E o \in CheckValidity(cfg) :
        /\ Take(o)
        /\ \/ Prepared(o)
           \/ Behind(o.aborted) /\ UNCHANGED <<file, run>>
    /\ UNCHANGED <<setup, direct>>

CreateController ==
    /\ mode = "pretasks"
    /\ \E list \in Listings : \E u \in Created(param, list) :
        IF u = NoParam THEN NoRun /\ Behind(aborted)
        ELSE /\ used' = u
             /\ listing' = list
             /\ mode' = "running"
             /\ UNCHANGED param
    /\ UNCHANGED <<setup, direct, cfg, file, aborted, seen, kept>>

\* mpause behind the run, and the save when all tasks were posted.
RunEnds ==
    /\ mode = "running"
    /\ Behind(aborted)
    /\ \/ UNCHANGED file
       \/ mode' = "menu" /\ file' = Persistent(cfg)
    /\ NoRun
    /\ UNCHANGED <<setup, direct, cfg, aborted, seen, kept>>

Next ==
    \/ Update \/ Start \/ Leave \/ Setup \/ SwitchController \/ SwitchResource \/ SaveMenu
    \/ Run \/ CreateController \/ RunEnds

Spec == Init /\ [][Next]_vars

-----------------------------------------------------------------------------
(* Properties.                                                              *)

IsDevice(c) ==
    /\ {c.win32, c.window, c.padWindow} \subseteq Windows \cup {NoWindow}
    /\ {c.wlr, c.eis} \subseteq Sockets \cup {NoText}
    /\ {c.width, c.height} \subseteq Sizes \cup {0}

TypeOK ==
    /\ setup \in Setups
    /\ mode \in {"off", "setup", "menu", "direct", "pretasks", "running", "ending"}
    /\ IsDevice(cfg) /\ IsDevice(file)
    /\ {direct, aborted} \subseteq BOOLEAN
    /\ seen \subseteq Windows /\ kept \in Windows \cup {NoWindow}
    /\ mode \in {"off", "setup"} => cfg = Blank
    /\ (mode = "running") = (used # NoParam)
    /\ (mode \in {"pretasks", "running"}) = (param # NoParam)

Running == mode = "running"

\* check_validity went by a type that is not the controller's: the default, as
\* the check at the start ended at an unknown resource, chosen anew since.
Stale == cfg.type = "Adb" /\ used.type # "Adb"

\* What the controller of this type and with these methods cannot do without.
Complete(u) ==
    CASE u.type = "Adb"                -> u.path # NoText /\ u.address # NoText
      [] u.type \in {"Win32", "MacOS"} -> u.window # NoWindow
      [] u.type = "PlayCover"          -> u.address # NoText
      [] u.type = "Linux"              -> /\ "Wlr" \in {u.screencap, u.input} => u.wlr # NoText
                                          /\ u.input = "Libei" => u.eis # NoText
                                          /\ u.input = "UInput" => u.width > 0 /\ u.height > 0
      [] u.type = "Gamepad"            -> TRUE

\* The check has no case for Android devices.  A controller that became one by an
\* update is run with nothing (interactor.cpp:2356, Configurator.cpp:311-320).
NeverAsked == used.type = "Adb" /\ {used.name, used.path, used.address} = {NoText}

\* The user answered with an empty line (interactor.cpp:816-830).
TypedEmpty == used.type = "Adb" /\ used.name = TypedName

\* A controller is created only with everything its methods need, whatever was
\* left open by dialogues that ended, by -d without a setup, by an update; the
\* methods are read twice, by Interactor and by Configurator, and must agree
\* (interactor.cpp:2356-2468, Configurator.cpp:307-437).  Three cases are let
\* through: Stale (see RequiredIsAsked), NeverAsked and TypedEmpty; an Android
\* device half of which is known is none of them.
RunHasDevice == Running => Complete(used) \/ Stale \/ NeverAsked \/ TypedEmpty

\* README.md:59-61: the CLI prompts for the Wayland socket of Wlr, the width and
\* height of UInput, the socket of Libei: no Linux controller goes without.
RequiredIsAsked == Running /\ used.type = "Linux" => Complete(used)

\* A window handle of Windows is good for one process and not saved: a run never
\* gets one that this process has not found in a list of windows.  The window
\* number of macOS is saved (Types.h:411-418) and used again unasked
\* (interactor.cpp:2375): a run gets one found by this process, or the very one
\* that was in the file it started from, which may long be gone.
HandlesAreFresh ==
    Running =>
        /\ used.type \in {"Win32", "Gamepad"} => used.window \in seen \cup {NoWindow}
        /\ used.type = "MacOS" => used.window \in seen \cup {NoWindow, kept}

\* The devices that cannot be told from d.
Twins(d) == {e \in AdbDevices : AdbName[e] = AdbName[d] /\ AdbPath[e] = AdbPath[d]}

\* The Android device that was chosen is the one that runs, or one of its name and
\* executable, which the program cannot tell from it, at its present address when
\* one is listed, after restarts, updates and dialogues that ended half-way; what
\* was typed in is used as typed (Runner.cpp:367-402).
ChosenDeviceRuns ==
    Running /\ used.type = "Adb" =>
        LET listed == IF used.device = Nobody THEN {} ELSE Twins(used.device) \cap DOMAIN listing
        IN IF listed = {} THEN used.address = file.adb.address
           ELSE \E d \in listed : used.address = listing[d]

\* Behind a run that needed no window of Windows, -d needs no answers: what the
\* run was asked for is saved, passes the check, and makes the same parameter
\* (README.md:98-99, interactor.cpp:2356-2468).  An ended input is the exception.
UnattendedAfterRun ==
    Running /\ ~Stale /\ ~aborted /\ used.type # "Win32" /\ cfg.window \notin Untitled =>
        LET again == Loaded(file) IN
        /\ CheckValidity(again) = {Done(again)}
        /\ Parameter(again) = IF param.type = "Gamepad" THEN [param EXCEPT !.window = NoWindow] ELSE param
=============================================================================
