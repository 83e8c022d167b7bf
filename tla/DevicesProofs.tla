--------------------------- MODULE DevicesProofs ---------------------------
(***************************************************************************)
(* What holds of Devices for any interface.json files, windows, sockets    *)
(* and Android devices.                                                    *)
(***************************************************************************)
EXTENDS Devices, TLAPS

Handles == Windows \cup {NoWindow}

ControllerNames == {NoText, "no file"} \cup UNION {DOMAIN S.controller : S \in Setups}
ResourceNames   == {NoText} \cup UNION {S.resource : S \in Setups}
Kinds           == UNION {{S.controller[n] : n \in DOMAIN S.controller} : S \in Setups}
Uuids           == {NoText} \cup {k.uuid : k \in {j \in Kinds : j.type = "PlayCover"}}

\* The devices adb may stand for; one that was chosen goes by its name and path.
AdbConfigs ==
    [name : {NoText, TypedName} \cup {AdbName[d] : d \in AdbDevices},
     path : Paths,
     address : {NoText} \cup Addresses,
     device : AdbDevices \cup {Nobody}]

Configs ==
    [name : ControllerNames, type : ControllerTypes, resource : ResourceNames, adb : AdbConfigs,
     win32 : Handles, window : Handles,
     address : {NoText, "127.0.0.1:1717"} \cup Addresses, uuid : Uuids,
     padWindow : Handles, padType : {NoText, "Xbox360", "DualShock4"},
     wlr : Sockets \cup {NoText}, eis : Sockets \cup {NoText},
     width : Sizes \cup {0}, height : Sizes \cup {0}]

\* A device that was chosen goes by its name and path and has an address; one that
\* was not was typed in, or nothing is known of it.
Identified(a) ==
    IF a.device = Nobody THEN a.name = TypedName \/ {a.name, a.path, a.address} = {NoText}
    ELSE a.name = AdbName[a.device] /\ a.path = AdbPath[a.device] /\ a.address # NoText

Outcomes == [cfg : Configs, ok : BOOLEAN, aborted : BOOLEAN]

\* What any dialogue keeps of the configuration it works on.
SameNames(c, d) == d.name = c.name /\ d.type = c.type /\ d.resource = c.resource

\* What those keep that do not ask for an Android device.
Same(c, d) == SameNames(c, d) /\ d.adb = c.adb

-----------------------------------------------------------------------------
(* Dialogues.                                                               *)

\* How a dialogue completes, fails, and ends.
LEMMA OutcomeFacts ==
    \A c \in Configs :
           /\ Done(c) \in Outcomes /\ Failed(c) \in Outcomes /\ Ended(c) \in Outcomes
           /\ Done(c).cfg = c /\ Failed(c).cfg = c /\ Ended(c).cfg = c
           /\ Done(c).ok = TRUE /\ Done(c).aborted = FALSE
           /\ Failed(c).ok = FALSE /\ Failed(c).aborted = FALSE
           /\ Ended(c).ok = FALSE /\ Ended(c).aborted = TRUE
BY DEF Outcomes, Done, Failed, Ended, Outcome

\* select_adb either ends or leaves a device that is identified
\* (interactor.cpp:745-840).
LEMMA AdbDialogue ==
    \A c \in Configs : \A o \in SelectAdb(c) :
        /\ o \in Outcomes /\ SameNames(c, o.cfg)
        /\ o.ok => Identified(o.cfg.adb)
        /\ ~o.ok => o.aborted
<1> SUFFICES ASSUME NEW c \in Configs, NEW o \in SelectAdb(c)
    PROVE  /\ o \in Outcomes /\ SameNames(c, o.cfg)
           /\ o.ok => Identified(o.cfg.adb)
           /\ ~o.ok => o.aborted
  OBVIOUS
<1>1. ASSUME NEW a \in AdbConfigs
      PROVE  /\ [c EXCEPT !.adb = a] \in Configs
             /\ SameNames(c, [c EXCEPT !.adb = a])
             /\ [c EXCEPT !.adb = a].adb = a
  BY DEF Configs, SameNames
<1>2. ASSUME NEW d \in AdbDevices, NEW a \in Addresses
      PROVE  Described(d, a) \in AdbConfigs /\ Identified(Described(d, a))
  BY DevicesAssumption DEF AdbConfigs, Described, Paths, Identified
<1>3. ASSUME NEW p \in Paths, NEW a \in AddressLines
      PROVE  ByHand(p, a) \in AdbConfigs /\ Identified(ByHand(p, a))
  BY DEF AddressLines, AdbConfigs, ByHand, Identified
<1>4. ASSUME NEW p \in Paths
      PROVE  /\ [c.adb EXCEPT !.path = p] \in AdbConfigs
             /\ [c EXCEPT !.adb.path = p] = [c EXCEPT !.adb = [c.adb EXCEPT !.path = p]]
  BY DEF Configs, AdbConfigs
<1>5. \/ o = Ended(c)
      \/ \E p \in Paths : o = Ended([c EXCEPT !.adb.path = p])
      \/ \E d \in AdbDevices, a \in Addresses : o = Done([c EXCEPT !.adb = Described(d, a)])
      \/ \E p \in Paths, a \in AddressLines : o = Done([c EXCEPT !.adb = ByHand(p, a)])
  BY DEF SelectAdb
<1>6. \/ o = Ended(c)
      \/ \E a \in AdbConfigs : \/ o = Ended([c EXCEPT !.adb = a])
                               \/ Identified(a) /\ o = Done([c EXCEPT !.adb = a])
  BY <1>2, <1>3, <1>4, <1>5
<1>7. CASE o = Ended(c)
  BY <1>7, OutcomeFacts DEF SameNames
<1>8. ASSUME NEW a \in AdbConfigs, o = Ended([c EXCEPT !.adb = a])
      PROVE  o \in Outcomes /\ SameNames(c, o.cfg) /\ ~o.ok /\ o.aborted
  BY <1>1, <1>8, OutcomeFacts DEF SameNames
<1>9. ASSUME NEW a \in AdbConfigs, Identified(a), o = Done([c EXCEPT !.adb = a])
      PROVE  o \in Outcomes /\ SameNames(c, o.cfg) /\ o.ok /\ ~o.aborted /\ Identified(o.cfg.adb)
  BY <1>1, <1>9, OutcomeFacts DEF SameNames
<1> QED
  BY <1>6, <1>7, <1>8, <1>9, OutcomeFacts

\* A controller of interface.json.
LEMMA KindFacts ==
    \A k \in Kinds :
           /\ k.type \in ControllerTypes
           /\ k.type \in {"Win32", "MacOS", "Gamepad"} => \A m \in Matching(k) : m \subseteq Windows
BY SetupsAssumption DEF Kinds, Matching

\* The members a dialogue sets one by one.
WithWin32(c, w)     == [c EXCEPT !.win32 = w]
WithWindow(c, w)    == [c EXCEPT !.window = w]
WithPadWindow(c, w) == [c EXCEPT !.padWindow = w]
WithPadType(c, t)   == [c EXCEPT !.padType = t]
WithUuid(c, u)      == [c EXCEPT !.uuid = u]
WithAddress(c, a)   == [c EXCEPT !.address = a]
WithWlr(c, s)       == [c EXCEPT !.wlr = s]
WithEis(c, s)       == [c EXCEPT !.eis = s]
WithWidth(c, n)     == [c EXCEPT !.width = n]
WithHeight(c, n)    == [c EXCEPT !.height = n]

\* Keeping is reflexive and transitive: it carries over from one dialogue to the next.
LEMMA SameFacts ==
    /\ \A c : Same(c, c)
    /\ \A c, d, e : Same(c, d) /\ Same(d, e) => Same(c, e)
BY DEF Same, SameNames

\* A window put into the configuration changes nothing else.
LEMMA WindowFacts ==
    \A c \in Configs, w \in Handles :
           /\ WithWin32(c, w) \in Configs /\ Same(c, WithWin32(c, w))
           /\ WithWin32(c, w).win32 = w
           /\ WithWindow(c, w) \in Configs /\ Same(c, WithWindow(c, w))
           /\ WithPadWindow(c, w) \in Configs /\ Same(c, WithPadWindow(c, w))
BY DEF Configs, Same, SameNames, Handles, WithWin32, WithWindow, WithPadWindow

\* Nor does a type of gamepad.
LEMMA PadTypeFacts ==
    \A c \in Configs, t \in {"Xbox360", "DualShock4"} :
           /\ WithPadType(c, t) \in Configs /\ Same(c, WithPadType(c, t))
           /\ WithPadType(c, t).padType = t
BY DEF Configs, Same, SameNames, WithPadType

\* Nor does an address or an identifier.
LEMMA AddressFacts ==
    \A c \in Configs :
           /\ \A a \in {NoText, "127.0.0.1:1717"} \cup Addresses :
                WithAddress(c, a) \in Configs /\ Same(c, WithAddress(c, a))
           /\ \A u \in Uuids : WithUuid(c, u) \in Configs /\ Same(c, WithUuid(c, u))
           /\ c.address \in {NoText, "127.0.0.1:1717"} \cup Addresses
           /\ c.uuid \in Uuids
BY DEF Configs, Same, SameNames, WithAddress, WithUuid

\* Nor does a socket or a dimension, and each has a place of its own.
LEMMA LinuxFacts ==
    \A c \in Configs :
        /\ \A s \in Sockets \cup {NoText} :
            /\ WithWlr(c, s) \in Configs /\ Same(c, WithWlr(c, s))
            /\ WithEis(c, s) \in Configs /\ Same(c, WithEis(c, s))
            /\ WithEis(c, s).wlr = c.wlr /\ WithEis(c, s).eis = s
        /\ \A n \in Sizes :
            /\ WithWidth(c, n) \in Configs /\ Same(c, WithWidth(c, n))
            /\ WithWidth(c, n).wlr = c.wlr /\ WithWidth(c, n).eis = c.eis
            /\ WithWidth(c, n).width = n
            /\ WithHeight(c, n) \in Configs /\ Same(c, WithHeight(c, n))
            /\ WithHeight(c, n).wlr = c.wlr /\ WithHeight(c, n).eis = c.eis
            /\ WithHeight(c, n).width = c.width /\ WithHeight(c, n).height = n
        /\ {c.wlr, c.eis} \subseteq Sockets \cup {NoText}
        /\ {c.width, c.height} \subseteq Sizes \cup {0}
BY DEF Configs, Same, SameNames, WithWlr, WithEis, WithWidth, WithHeight

\* select_win32_hwnd completes with a window only (interactor.cpp:842-920).
LEMMA Win32Dialogue ==
    \A c \in Configs, k \in Kinds : k.type = "Win32" =>
        \A o \in SelectWin32(c, k) :
            /\ o \in Outcomes /\ Same(c, o.cfg)
            /\ o.ok => o.cfg.win32 # NoWindow
<1> SUFFICES ASSUME NEW c \in Configs, NEW k \in Kinds, k.type = "Win32", NEW o \in SelectWin32(c, k)
    PROVE  /\ o \in Outcomes /\ Same(c, o.cfg)
           /\ o.ok => o.cfg.win32 # NoWindow
  OBVIOUS
<1>1. CASE o \in {Failed(c), Ended(c)}
  BY <1>1, SameFacts, OutcomeFacts
<1>2. ASSUME NEW w \in Windows, o = Done(WithWin32(c, w))
      PROVE  o \in Outcomes /\ Same(c, o.cfg) /\ o.cfg.win32 # NoWindow
  <2>1. w \in Handles /\ w # NoWindow
    BY DevicesAssumption DEF Handles
  <2> QED
    BY <1>2, <2>1, WindowFacts, OutcomeFacts
<1>3. CASE k.regex
  <2>1. PICK m \in Matching(k) :
           o \in IF m = {} THEN Paused(Failed(c)) ELSE Picked(m, c, LAMBDA w : [c EXCEPT !.win32 = w])
    BY <1>3 DEF SelectWin32
  <2>2. CASE m = {}
    BY <1>1, <2>1, <2>2, OutcomeFacts DEF Paused
  <2>3. CASE m # {}
    <3>1. o = Ended(c) \/ \E w \in m : o = Done(WithWin32(c, w))
      BY <2>1, <2>3 DEF Picked, WithWin32
    <3> QED
      BY <1>1, <1>2, <3>1, KindFacts
  <2> QED
    BY <2>2, <2>3
<1>4. CASE ~k.regex
  BY <1>1, <1>4 DEF SelectWin32
<1> QED
  BY <1>3, <1>4

\* select_macos_window.
LEMMA MacOSDialogue ==
    \A c \in Configs, k \in Kinds : k.type = "MacOS" =>
        \A o \in SelectMacOS(c, k) : o \in Outcomes /\ Same(c, o.cfg)
<1> SUFFICES ASSUME NEW c \in Configs, NEW k \in Kinds, k.type = "MacOS", NEW o \in SelectMacOS(c, k)
    PROVE  o \in Outcomes /\ Same(c, o.cfg)
  OBVIOUS
<1> DEFINE titles == IF k.asks THEN {Ended(c), Failed(c), Done(c)} ELSE {Done(c)}
           windows(c1) == IF ~k.regex THEN {Failed(c1)}
                          ELSE UNION {IF m = {} THEN {Failed(c1)}
                                      ELSE Picked(m, c1, LAMBDA w : [c1 EXCEPT !.window = w]) : m \in Matching(k)}
           methods(c1) == {Done(c1), Ended(c1)}
           found == Then(titles, windows)
<1>1. o \in Then(found, methods)
  BY DEF SelectMacOS
<1>2. PICK f \in found : o \in IF f.ok THEN methods(f.cfg) ELSE {f}
  <2> HIDE DEF found, methods
  <2> QED
    BY <1>1 DEF Then
<1>3. PICK t \in titles : f \in IF t.ok THEN windows(t.cfg) ELSE {t}
  <2> HIDE DEF titles, windows
  <2> QED
    BY <1>2 DEF Then
<1>4. t \in {Ended(c), Failed(c), Done(c)}
  OBVIOUS
<1>5. t.cfg = c /\ t \in Outcomes
  BY <1>4, OutcomeFacts
<1>6. \/ f \in {t, Failed(c), Ended(c)}
      \/ \E w \in Handles : f = Done(WithWindow(c, w))
  <2>1. CASE f \in windows(c)
    <3>1. CASE ~k.regex
      BY <2>1, <3>1
    <3>2. CASE k.regex
      <4>1. PICK m \in Matching(k) :
               f \in IF m = {} THEN {Failed(c)} ELSE Picked(m, c, LAMBDA w : [c EXCEPT !.window = w])
        BY <2>1, <3>2
      <4>2. \/ f \in {Failed(c), Ended(c)}
            \/ \E w \in m : f = Done(WithWindow(c, w))
        <5> HIDE DEF windows, methods, found, titles
        <5> QED
          BY <4>1 DEF Picked, WithWindow
      <4> QED
        BY <4>2, KindFacts DEF Handles
    <3> QED
      BY <3>1, <3>2
  <2>2. CASE f = t
    BY <2>2
  <2> HIDE DEF windows
  <2> QED
    BY <1>3, <1>5, <2>1, <2>2
<1> HIDE DEF windows, found, titles
<1>7. f \in Outcomes /\ Same(c, f.cfg)
  <2>1. CASE f \in {t, Failed(c), Ended(c)}
    BY <1>5, <2>1, SameFacts, OutcomeFacts
  <2>2. ASSUME NEW w \in Handles, f = Done(WithWindow(c, w)) PROVE f \in Outcomes /\ Same(c, f.cfg)
    BY <2>2, WindowFacts, OutcomeFacts
  <2> QED
    BY <1>6, <2>1, <2>2
<1>8. o \in {f, Done(f.cfg), Ended(f.cfg)} /\ f.cfg \in Configs
  BY <1>2, <1>7 DEF Outcomes
<1> QED
  BY <1>7, <1>8, OutcomeFacts

\* select_playcover.
LEMMA PlayCoverDialogue ==
    \A c \in Configs, k \in Kinds : k.type = "PlayCover" =>
        \A o \in SelectPlayCover(c, k) : o \in Outcomes /\ Same(c, o.cfg)
<1> SUFFICES ASSUME NEW c \in Configs, NEW k \in Kinds, k.type = "PlayCover", NEW o \in SelectPlayCover(c, k)
    PROVE  o \in Outcomes /\ Same(c, o.cfg)
  OBVIOUS
<1> DEFINE u == IF c.uuid = NoText THEN k.uuid ELSE c.uuid
           c1 == WithUuid(c, u)
<1>1. u \in Uuids
  BY AddressFacts DEF Uuids
<1>2. c1 = [c EXCEPT !.uuid = IF @ = NoText THEN k.uuid ELSE @]
  BY DEF WithUuid, Configs
<1>3. \/ o = Ended(c1)
      \/ \E a \in Addresses \cup {IF c.address = NoText THEN "127.0.0.1:1717" ELSE c.address} :
            o = Done(WithAddress(c1, a))
  <2> HIDE DEF c1
  <2> QED
    BY <1>2 DEF SelectPlayCover, WithAddress
<1> HIDE DEF u
<1>4. c1 \in Configs /\ Same(c, c1)
  BY <1>1, AddressFacts
<1> HIDE DEF c1
<1>5. CASE o = Ended(c1)
  BY <1>4, <1>5, OutcomeFacts
<1>6. ASSUME NEW a \in Addresses \cup {IF c.address = NoText THEN "127.0.0.1:1717" ELSE c.address},
             o = Done(WithAddress(c1, a))
      PROVE  o \in Outcomes /\ Same(c, o.cfg)
  <2>1. WithAddress(c1, a) \in Configs /\ Same(c1, WithAddress(c1, a))
    BY <1>4, AddressFacts
  <2> QED
    BY <1>4, <1>6, <2>1, SameFacts, OutcomeFacts
<1> QED
  BY <1>3, <1>5, <1>6

\* select_gamepad: unless the input ends, the type is known afterwards.
LEMMA GamepadDialogue ==
    \A c \in Configs, k \in Kinds : k.type = "Gamepad" =>
        \A o \in SelectGamepad(c, k) :
            /\ o \in Outcomes /\ Same(c, o.cfg)
            /\ ~o.aborted => o.cfg.padType # NoText
<1> SUFFICES ASSUME NEW c \in Configs, NEW k \in Kinds, k.type = "Gamepad", NEW o \in SelectGamepad(c, k)
    PROVE  /\ o \in Outcomes /\ Same(c, o.cfg)
           /\ ~o.aborted => o.cfg.padType # NoText
  OBVIOUS
<1> DEFINE noWindow == Done([c EXCEPT !.padWindow = NoWindow])
           windows == IF ~k.regex THEN {noWindow}
                      ELSE UNION {IF m = {} THEN {noWindow}
                                  ELSE Picked(m, c, LAMBDA w : [c EXCEPT !.padWindow = w]) : m \in Matching(k)}
           types(c1) == {Ended(c1)} \cup {Done([c1 EXCEPT !.padType = t]) : t \in {"Xbox360", "DualShock4"}}
<1>1. o \in Then(windows, types)
  BY DEF SelectGamepad
<1>2. PICK f \in windows : o \in IF f.ok THEN types(f.cfg) ELSE {f}
  <2> HIDE DEF windows, types
  <2> QED
    BY <1>1 DEF Then
<1>3. f = Ended(c) \/ \E w \in Handles : f = Done(WithPadWindow(c, w))
  <2>1. CASE f = noWindow
    BY <2>1 DEF Handles, WithPadWindow
  <2>2. CASE f # noWindow
    <3>1. k.regex
      BY <1>2, <2>2
    <3>2. PICK m \in Matching(k) :
             f \in IF m = {} THEN {noWindow} ELSE Picked(m, c, LAMBDA w : [c EXCEPT !.padWindow = w])
      BY <1>2, <3>1
    <3>3. f = Ended(c) \/ \E w \in m : f = Done(WithPadWindow(c, w))
      <4> HIDE DEF noWindow
      <4> QED
        BY <2>2, <3>2 DEF Picked, WithPadWindow
    <3> QED
      BY <3>3, KindFacts DEF Handles
  <2> QED
    BY <2>1, <2>2
<1>4. CASE f = Ended(c)
  <2>1. o = Ended(c)
    <3> HIDE DEF types, windows
    <3> QED
      BY <1>2, <1>4, OutcomeFacts
  <2> QED
    BY <2>1, SameFacts, OutcomeFacts
<1>5. ASSUME NEW w \in Handles, f = Done(WithPadWindow(c, w))
      PROVE  /\ o \in Outcomes /\ Same(c, o.cfg)
             /\ ~o.aborted => o.cfg.padType # NoText
  <2> DEFINE d == WithPadWindow(c, w)
  <2> HIDE DEF windows, types
  <2>1. d \in Configs /\ Same(c, d) /\ f.cfg = d /\ f.ok
    BY <1>5, WindowFacts, OutcomeFacts
  <2> HIDE DEF d
  <2>2. o \in types(d)
    BY <1>2, <2>1
  <2>3. o = Ended(d) \/ \E t \in {"Xbox360", "DualShock4"} : o = Done(WithPadType(d, t))
    BY <2>2 DEF types, WithPadType
  <2>4. CASE o = Ended(d)
    BY <2>1, <2>4, OutcomeFacts
  <2>5. ASSUME NEW t \in {"Xbox360", "DualShock4"}, o = Done(WithPadType(d, t))
        PROVE  o \in Outcomes /\ Same(c, o.cfg) /\ o.cfg.padType # NoText
    <3>1. WithPadType(d, t) \in Configs /\ Same(d, WithPadType(d, t)) /\ WithPadType(d, t).padType = t
      BY <2>1, PadTypeFacts
    <3> QED
      BY <2>1, <2>5, <3>1, SameFacts, OutcomeFacts DEF NoText
  <2> QED
    BY <2>3, <2>4, <2>5
<1> QED
  BY <1>3, <1>4, <1>5

\* The two dimensions UInput needs are asked for until they are positive.
LEMMA UInputDialogue ==
    \A c \in Configs : \A o \in Then(InputWidth(c), InputHeight) :
        /\ o \in Outcomes /\ Same(c, o.cfg)
        /\ o.ok => /\ o.cfg.wlr = c.wlr /\ o.cfg.eis = c.eis
                   /\ o.cfg.width \in Sizes /\ o.cfg.height \in Sizes
<1>1. ASSUME NEW c \in Configs, NEW o \in InputWidth(c)
      PROVE  o = Ended(c) \/ \E n \in Sizes : o = Done(WithWidth(c, n))
  <2>1. (Sizes \cup {c.width}) \ {0} \subseteq Sizes
    BY LinuxFacts
  <2> QED
    BY <2>1 DEF InputWidth, WithWidth
<1>2. ASSUME NEW c \in Configs, NEW o \in InputHeight(c)
      PROVE  o = Ended(c) \/ \E n \in Sizes : o = Done(WithHeight(c, n))
  <2>1. (Sizes \cup {c.height}) \ {0} \subseteq Sizes
    BY LinuxFacts
  <2> QED
    BY <2>1 DEF InputHeight, WithHeight
<1> SUFFICES ASSUME NEW c \in Configs, NEW o \in Then(InputWidth(c), InputHeight)
    PROVE  /\ o \in Outcomes /\ Same(c, o.cfg)
           /\ o.ok => /\ o.cfg.wlr = c.wlr /\ o.cfg.eis = c.eis
                      /\ o.cfg.width \in Sizes /\ o.cfg.height \in Sizes
  OBVIOUS
<1>3. PICK f \in InputWidth(c) : o \in IF f.ok THEN InputHeight(f.cfg) ELSE {f}
  BY DEF Then
<1>4. CASE f = Ended(c)
  <2>1. o = Ended(c)
    BY <1>3, <1>4, OutcomeFacts
  <2> QED
    BY <2>1, SameFacts, OutcomeFacts
<1>5. ASSUME NEW n \in Sizes, f = Done(WithWidth(c, n))
      PROVE  /\ o \in Outcomes /\ Same(c, o.cfg)
             /\ o.ok => /\ o.cfg.wlr = c.wlr /\ o.cfg.eis = c.eis
                        /\ o.cfg.width \in Sizes /\ o.cfg.height \in Sizes
  <2> DEFINE d == WithWidth(c, n)
  <2>1. d \in Configs /\ Same(c, d) /\ d.wlr = c.wlr /\ d.eis = c.eis /\ d.width = n
    BY LinuxFacts
  <2>2. f.cfg = d /\ f.ok
    BY <1>5, <2>1, OutcomeFacts
  <2> HIDE DEF d
  <2>3. o = Ended(d) \/ \E m \in Sizes : o = Done(WithHeight(d, m))
    BY <1>2, <1>3, <2>1, <2>2
  <2>4. CASE o = Ended(d)
    BY <2>1, <2>4, OutcomeFacts
  <2>5. ASSUME NEW m \in Sizes, o = Done(WithHeight(d, m))
        PROVE  /\ o \in Outcomes /\ Same(c, o.cfg)
               /\ o.cfg.wlr = c.wlr /\ o.cfg.eis = c.eis
               /\ o.cfg.width \in Sizes /\ o.cfg.height \in Sizes
    <3>1. /\ WithHeight(d, m) \in Configs /\ Same(d, WithHeight(d, m))
          /\ WithHeight(d, m).wlr = d.wlr /\ WithHeight(d, m).eis = d.eis
          /\ WithHeight(d, m).width = d.width /\ WithHeight(d, m).height = m
      BY <2>1, LinuxFacts
    <3>2. o \in Outcomes /\ o.cfg = WithHeight(d, m)
      BY <2>5, <3>1, OutcomeFacts
    <3> QED
      BY <2>1, <3>1, <3>2, SameFacts
  <2> QED
    BY <2>3, <2>4, <2>5
<1> QED
  BY <1>1, <1>4, <1>5

\* select_linux leaves nothing missing that was not missing before: only the
\* socket of Wlr may be left empty, and only when it was.
LEMMA LinuxDialogue ==
    \A c \in Configs, k \in Kinds : k.type = "Linux" =>
        \A o \in SelectLinux(c, k) :
            /\ o \in Outcomes /\ Same(c, o.cfg)
            /\ o.ok => Missing(o.cfg, k) \subseteq Missing(c, k)
<1> SUFFICES ASSUME NEW c \in Configs, NEW k \in Kinds, k.type = "Linux", NEW o \in SelectLinux(c, k)
    PROVE  /\ o \in Outcomes /\ Same(c, o.cfg)
           /\ o.ok => Missing(o.cfg, k) \subseteq Missing(c, k)
  OBVIOUS
<1> DEFINE wlroots(c1) == IF UsesWlr(k) /\ c1.wlr = NoText THEN SelectWlroots(c1) ELSE {Done(c1)}
           libei(c1)   == IF Input(k) # "Libei" THEN {Done(c1)}
                          ELSE {Ended(c1)} \cup {Done([c1 EXCEPT !.eis = s]) : s \in (Sockets \cup {c1.eis}) \ {NoText}}
           uinput(c1)  == IF Input(k) # "UInput" THEN {Done(c1)} ELSE Then(InputWidth(c1), InputHeight)
           sockets     == Then(wlroots(c), libei)
<1>1. o \in Then(sockets, uinput)
  BY DEF SelectLinux
<1>2. PICK f \in sockets : o \in IF f.ok THEN uinput(f.cfg) ELSE {f}
  <2> HIDE DEF sockets, uinput
  <2> QED
    BY <1>1 DEF Then
<1>3. PICK g \in wlroots(c) : f \in IF g.ok THEN libei(g.cfg) ELSE {g}
  <2> HIDE DEF wlroots, libei
  <2> QED
    BY <1>2 DEF Then
<1>4. /\ g \in Outcomes /\ Same(c, g.cfg)
      /\ UsesWlr(k) /\ g.cfg.wlr = NoText => c.wlr = NoText
  <2>1. CASE UsesWlr(k) /\ c.wlr = NoText
    <3>1. g = Ended(c) \/ \E s \in Sockets \cup {NoText} : g = Done(WithWlr(c, s))
      BY <2>1 DEF SelectWlroots, WithWlr
    <3>2. CASE g = Ended(c)
      BY <2>1, <3>2, SameFacts, OutcomeFacts
    <3>3. ASSUME NEW s \in Sockets \cup {NoText}, g = Done(WithWlr(c, s))
          PROVE  g \in Outcomes /\ Same(c, g.cfg)
      <4>1. WithWlr(c, s) \in Configs /\ Same(c, WithWlr(c, s))
        BY LinuxFacts
      <4> QED
        BY <3>3, <4>1, OutcomeFacts
    <3> QED
      BY <2>1, <3>1, <3>2, <3>3
  <2>2. CASE ~(UsesWlr(k) /\ c.wlr = NoText)
    <3>1. g = Done(c)
      BY <2>2
    <3> QED
      BY <2>2, <3>1, SameFacts, OutcomeFacts
  <2> QED
    BY <2>1, <2>2
<1> HIDE DEF wlroots, sockets
<1>5. /\ f \in Outcomes /\ Same(c, f.cfg)
      /\ f.ok => /\ UsesWlr(k) /\ f.cfg.wlr = NoText => c.wlr = NoText
                 /\ Input(k) = "Libei" => f.cfg.eis # NoText
  <2>1. CASE ~g.ok
    BY <1>3, <1>4, <2>1
  <2>2. CASE g.ok
    <3> DEFINE d == g.cfg
    <3>1. d \in Configs /\ Same(c, d)
      BY <1>4 DEF Outcomes
    <3>2. f \in libei(d)
      BY <1>3, <2>2
    <3>3. \/ f = Ended(d)
          \/ Input(k) # "Libei" /\ f = Done(d)
          \/ \E s \in (Sockets \cup {d.eis}) \ {NoText} : f = Done(WithEis(d, s))
      <4> HIDE DEF d
      <4> QED
        BY <3>2 DEF libei, WithEis
    <3>4. CASE f = Ended(d)
      BY <3>1, <3>4, OutcomeFacts
    <3>5. CASE Input(k) # "Libei" /\ f = Done(d)
      <4>1. f \in Outcomes /\ f.cfg = d
        BY <3>1, <3>5, OutcomeFacts
      <4> QED
        BY <1>4, <3>1, <3>5, <4>1
    <3>6. ASSUME NEW s \in (Sockets \cup {d.eis}) \ {NoText}, f = Done(WithEis(d, s))
          PROVE  f \in Outcomes /\ Same(c, f.cfg) /\ f.cfg.wlr = d.wlr /\ f.cfg.eis # NoText
      <4> HIDE DEF d
      <4>1. s \in Sockets /\ s # NoText
        BY <3>1, LinuxFacts
      <4>2. /\ WithEis(d, s) \in Configs /\ Same(d, WithEis(d, s))
            /\ WithEis(d, s).wlr = d.wlr /\ WithEis(d, s).eis = s
        BY <3>1, <4>1, LinuxFacts
      <4>3. f \in Outcomes /\ f.cfg = WithEis(d, s)
        BY <3>6, <4>2, OutcomeFacts
      <4> QED
        BY <3>1, <4>1, <4>2, <4>3, SameFacts
    <3> QED
      BY <1>4, <3>3, <3>4, <3>5, <3>6
  <2> QED
    BY <2>1, <2>2
<1> HIDE DEF libei
<1>6. /\ o \in Outcomes /\ Same(c, o.cfg)
      /\ o.ok => /\ UsesWlr(k) /\ o.cfg.wlr = NoText => c.wlr = NoText
                 /\ Input(k) = "Libei" => o.cfg.eis # NoText
                 /\ Input(k) = "UInput" => o.cfg.width # 0 /\ o.cfg.height # 0
  <2>1. CASE ~f.ok
    BY <1>2, <1>5, <2>1
  <2>2. CASE f.ok /\ Input(k) # "UInput"
    <3>1. o = Done(f.cfg) /\ f.cfg \in Configs
      BY <1>2, <1>5, <2>2 DEF Outcomes
    <3> QED
      BY <1>5, <2>2, <3>1, OutcomeFacts
  <2>3. CASE f.ok /\ Input(k) = "UInput"
    <3>1. o \in Then(InputWidth(f.cfg), InputHeight) /\ f.cfg \in Configs
      BY <1>2, <1>5, <2>3 DEF Outcomes
    <3>2. 0 \notin Sizes
      BY DevicesAssumption
    <3> HIDE DEF uinput
    <3> QED
      BY <1>5, <2>3, <3>1, <3>2, UInputDialogue, SameFacts
  <2> QED
    BY <2>1, <2>2, <2>3
<1> QED
  BY <1>6 DEF Missing

-----------------------------------------------------------------------------
(* The check before a run, and the controller it is for.                    *)

\* What the check has established of the device, if it went by the type of the
\* controller.
Ready(c, k, end) ==
    /\ k.type = "Win32" => c.win32 # NoWindow
    /\ k.type = "MacOS" => c.window # NoWindow
    /\ k.type = "Gamepad" /\ ~end => c.padType # NoText
    /\ k.type = "Linux" => Missing(c, k) = {}

\* The type in the configuration is the controller's or the default.
TypeAgrees(c) == KnownController(c) => c.type \in {"Adb", Controller(c).type}

WithOk(o, b) == [o EXCEPT !.ok = b]

\* What a dialogue returns may be replaced by something else.
LEMMA WithOkFacts ==
    \A o \in Outcomes, b \in BOOLEAN :
        /\ WithOk(o, b) \in Outcomes /\ WithOk(o, b).cfg = o.cfg
        /\ WithOk(o, b).aborted = o.aborted /\ WithOk(o, b).ok = b
BY DEF Outcomes, WithOk

\* A controller that is known is one of interface.json's.
LEMMA KnownKind ==
    ASSUME setup \in Setups, NEW c, KnownController(c) PROVE Controller(c) \in Kinds
BY DEF KnownController, Controller, Controllers, Kinds

\* Win32: a window there is, or one is found.
LEMMA CheckWin32Facts ==
    ASSUME setup \in Setups, NEW c \in Configs, c.type = "Win32", TypeAgrees(c), NEW o \in CheckWin32(c)
    PROVE  /\ o \in Outcomes /\ Same(c, o.cfg)
           /\ o.ok => o.cfg.win32 # NoWindow
<1>1. CASE c.win32 # NoWindow
  <2>1. o = Done(c)
    BY <1>1 DEF CheckWin32
  <2> QED
    BY <1>1, <2>1, SameFacts, OutcomeFacts
<1>2. CASE c.win32 = NoWindow /\ ~KnownController(c)
  <2>1. o = Failed(c)
    BY <1>2 DEF CheckWin32, IfFound
  <2> QED
    BY <2>1, SameFacts, OutcomeFacts
<1>3. CASE c.win32 = NoWindow /\ KnownController(c)
  <2>1. o \in SelectWin32(c, Controller(c)) /\ Controller(c).type = "Win32" /\ Controller(c) \in Kinds
    BY <1>3, KnownKind DEF CheckWin32, IfFound, TypeAgrees
  <2> QED
    BY <2>1, Win32Dialogue
<1> QED
  BY <1>1, <1>2, <1>3

\* MacOS: likewise, whatever the dialogue returns.
LEMMA CheckMacOSFacts ==
    ASSUME setup \in Setups, NEW c \in Configs, c.type = "MacOS", TypeAgrees(c), NEW o \in CheckMacOS(c)
    PROVE  /\ o \in Outcomes /\ Same(c, o.cfg)
           /\ o.ok => o.cfg.window # NoWindow
<1>1. CASE c.window \notin {NoWindow} \cup Untitled
  <2>1. o = Done(c)
    BY <1>1 DEF CheckMacOS
  <2> QED
    BY <1>1, <2>1, SameFacts, OutcomeFacts
<1>2. CASE c.window \in {NoWindow} \cup Untitled /\ ~KnownController(c)
  <2>1. o = Failed(c)
    BY <1>2 DEF CheckMacOS, IfFound
  <2> QED
    BY <2>1, SameFacts, OutcomeFacts
<1>3. CASE c.window \in {NoWindow} \cup Untitled /\ KnownController(c)
  <2>1. Controller(c).type = "MacOS" /\ Controller(c) \in Kinds
    BY <1>3, KnownKind DEF TypeAgrees
  <2>2. PICK q \in SelectMacOS(c, Controller(c)) : o = WithOk(q, q.cfg.window # NoWindow)
    BY <1>3 DEF CheckMacOS, IfFound, Regardless, WithOk
  <2>3. q \in Outcomes /\ Same(c, q.cfg)
    BY <2>1, MacOSDialogue
  <2>4. o \in Outcomes /\ o.cfg = q.cfg /\ o.ok = (q.cfg.window # NoWindow)
    BY <2>2, <2>3, WithOkFacts
  <2> QED
    BY <2>3, <2>4
<1> QED
  BY <1>1, <1>2, <1>3

\* PlayCover: nothing that is not asked for again when the parameter is made.
LEMMA CheckPlayCoverFacts ==
    ASSUME setup \in Setups, NEW c \in Configs, c.type = "PlayCover", TypeAgrees(c), NEW o \in CheckPlayCover(c)
    PROVE  o \in Outcomes /\ Same(c, o.cfg)
<1>1. CASE ~Supported("PlayCover")
  <2>1. o = Failed(c)
    BY <1>1 DEF CheckPlayCover
  <2> QED
    BY <2>1, SameFacts, OutcomeFacts
<1>2. CASE Supported("PlayCover")
  <2> DEFINE asked == IF c.address = NoText /\ KnownController(c) THEN SelectPlayCover(c, Controller(c)) ELSE {Done(c)}
  <2>1. PICK q \in asked : o = WithOk(q, q.cfg.address # NoText)
    BY <1>2 DEF CheckPlayCover, Regardless, WithOk
  <2>2. q \in Outcomes /\ Same(c, q.cfg)
    <3>1. CASE c.address = NoText /\ KnownController(c)
      <4>1. Controller(c).type = "PlayCover" /\ Controller(c) \in Kinds
        BY <3>1, KnownKind DEF TypeAgrees
      <4>2. q \in SelectPlayCover(c, Controller(c))
        BY <3>1
      <4> HIDE DEF asked
      <4> QED
        BY <4>1, <4>2, PlayCoverDialogue
    <3>2. CASE ~(c.address = NoText /\ KnownController(c))
      <4>1. q = Done(c)
        BY <3>2
      <4> QED
        BY <4>1, SameFacts, OutcomeFacts
    <3> QED
      BY <3>1, <3>2
  <2> HIDE DEF asked
  <2> QED
    BY <2>1, <2>2, WithOkFacts
<1> QED
  BY <1>1, <1>2

\* Gamepad: the type is known unless the input has ended.
LEMMA CheckGamepadFacts ==
    ASSUME setup \in Setups, NEW c \in Configs, c.type = "Gamepad", TypeAgrees(c), NEW o \in CheckGamepad(c)
    PROVE  /\ o \in Outcomes /\ Same(c, o.cfg)
           /\ o.ok /\ KnownController(c) /\ ~o.aborted => o.cfg.padType # NoText
<1>1. CASE ~Supported("Gamepad")
  <2>1. o = Failed(c)
    BY <1>1 DEF CheckGamepad
  <2> QED
    BY <2>1, SameFacts, OutcomeFacts
<1>2. CASE Supported("Gamepad")
  <2> DEFINE asked == IF c.padType = NoText /\ KnownController(c) THEN SelectGamepad(c, Controller(c)) ELSE {Done(c)}
  <2>1. PICK q \in asked : o = WithOk(q, TRUE)
    BY <1>2 DEF CheckGamepad, Regardless, WithOk
  <2>2. /\ q \in Outcomes /\ Same(c, q.cfg)
        /\ KnownController(c) /\ ~q.aborted => q.cfg.padType # NoText
    <3>1. CASE c.padType = NoText /\ KnownController(c)
      <4>1. Controller(c).type = "Gamepad" /\ Controller(c) \in Kinds
        BY <3>1, KnownKind DEF TypeAgrees
      <4>2. q \in SelectGamepad(c, Controller(c))
        BY <3>1
      <4> HIDE DEF asked
      <4> QED
        BY <4>1, <4>2, GamepadDialogue
    <3>2. CASE ~(c.padType = NoText /\ KnownController(c))
      <4>1. q = Done(c)
        BY <3>2
      <4> HIDE DEF asked
      <4> QED
        BY <3>2, <4>1, SameFacts, OutcomeFacts
    <3> QED
      BY <3>1, <3>2
  <2> HIDE DEF asked
  <2>3. o \in Outcomes /\ o.cfg = q.cfg /\ o.aborted = q.aborted
    BY <2>1, <2>2, WithOkFacts
  <2> QED
    BY <2>2, <2>3
<1> QED
  BY <1>1, <1>2

\* Linux: what was missing has been entered, and nothing else has got lost.
LEMMA CheckLinuxFacts ==
    ASSUME setup \in Setups, NEW c \in Configs, c.type = "Linux", TypeAgrees(c), NEW o \in CheckLinux(c)
    PROVE  /\ o \in Outcomes /\ Same(c, o.cfg)
           /\ o.ok => Missing(o.cfg, Controller(c)) = {}
<1>1. CASE ~Supported("Linux") \/ ~KnownController(c)
  <2>1. o = Failed(c)
    BY <1>1 DEF CheckLinux
  <2> QED
    BY <2>1, SameFacts, OutcomeFacts
<1>2. CASE Supported("Linux") /\ KnownController(c)
  <2> DEFINE k == Controller(c)
             judge(c1) == IF Missing(c, k) \cap Missing(c1, k) = {} THEN {Done(c1)} ELSE {Failed(c1)}
  <2>1. k.type = "Linux" /\ k \in Kinds
    BY <1>2, KnownKind DEF TypeAgrees
  <2>2. o \in IF Missing(c, k) = {} THEN {Done(c)} ELSE Then(SelectLinux(c, k), judge)
    BY <1>2 DEF CheckLinux
  <2> HIDE DEF k
  <2>3. CASE Missing(c, k) = {}
    <3>1. o = Done(c)
      BY <2>2, <2>3
    <3> QED
      BY <2>3, <3>1, SameFacts, OutcomeFacts DEF k
  <2>4. CASE Missing(c, k) # {}
    <3>1. PICK q \in SelectLinux(c, k) : o \in IF q.ok THEN judge(q.cfg) ELSE {q}
      <4> HIDE DEF judge
      <4> QED
        BY <2>2, <2>4 DEF Then
    <3>2. /\ q \in Outcomes /\ Same(c, q.cfg)
          /\ q.ok => Missing(q.cfg, k) \subseteq Missing(c, k)
      BY <2>1, LinuxDialogue
    <3>3. CASE ~q.ok
      BY <3>1, <3>2, <3>3
    <3>4. CASE q.ok
      <4>1. \/ o = Done(q.cfg) /\ Missing(q.cfg, k) = {}
            \/ o = Failed(q.cfg)
        BY <3>1, <3>2, <3>4
      <4>2. q.cfg \in Configs
        BY <3>2 DEF Outcomes
      <4> QED
        BY <3>2, <4>1, <4>2, OutcomeFacts DEF k
    <3> QED
      BY <3>3, <3>4
  <2> QED
    BY <2>3, <2>4
<1> QED
  BY <1>1, <1>2

\* check_validity keeps the controller and the Android device, and what passes
\* is ready if the type was the controller's (interactor.cpp:2356-2468).
LEMMA CheckFacts ==
    ASSUME setup \in Setups, NEW c \in Configs, TypeAgrees(c), NEW o \in CheckValidity(c)
    PROVE  /\ o \in Outcomes /\ Same(c, o.cfg)
           /\ o.ok /\ KnownController(c) /\ c.type = Controller(c).type => Ready(o.cfg, Controller(c), o.aborted)
<1>1. c.type \in ControllerTypes
  BY DEF Configs
<1>2. CASE c.type = "Adb"
  <2>1. o = Done(c)
    BY <1>2 DEF CheckValidity
  <2> QED
    BY <1>2, <2>1, SameFacts, OutcomeFacts DEF Ready
<1>3. CASE c.type = "Win32"
  BY <1>3, CheckWin32Facts DEF CheckValidity, Ready
<1>4. CASE c.type = "MacOS"
  BY <1>4, CheckMacOSFacts DEF CheckValidity, Ready
<1>5. CASE c.type = "PlayCover"
  BY <1>5, CheckPlayCoverFacts DEF CheckValidity, Ready
<1>6. CASE c.type = "Gamepad"
  BY <1>6, CheckGamepadFacts DEF CheckValidity, Ready
<1>7. CASE c.type = "Linux"
  BY <1>7, CheckLinuxFacts DEF CheckValidity, Ready
<1> QED
  BY <1>1, <1>2, <1>3, <1>4, <1>5, <1>6, <1>7 DEF ControllerTypes

\* What choosing a controller sets before it asks for the device.
Named(c, n, t) == [c EXCEPT !.name = n, !.type = t]

\* Naming a controller is all it does.
LEMMA NamedFacts ==
    \A c \in Configs, n \in ControllerNames, t \in ControllerTypes :
        /\ Named(c, n, t) \in Configs /\ Named(c, n, t).adb = c.adb
        /\ Named(c, n, t).name = n /\ Named(c, n, t).type = t
BY DEF Configs, Named

\* select_controller sets name and type together; the Android device is one the
\* user has identified, unless the input has ended in the middle.
LEMMA ControllerFacts ==
    ASSUME setup \in Setups, NEW c \in Configs, TypeAgrees(c), Identified(c.adb),
           NEW o \in SelectController(c)
    PROVE  /\ o \in Outcomes /\ TypeAgrees(o.cfg)
           /\ o.ok \/ ~o.aborted => Identified(o.cfg.adb)
<1>1. CASE o = Ended(c)
  BY <1>1, OutcomeFacts
<1>2. CASE o # Ended(c)
  <2> DEFINE k(n) == setup.controller[n]
             named(n) == Named(c, n, k(n).type)
             outcomes(n) == IF Supported(k(n).type) THEN Dialogue(named(n), k(n))
                            ELSE IF \E other \in Controllers : setup.controller[other].type # k(n).type
                                 THEN {Ended(named(n))}
                            ELSE Paused(Done(named(n)))
  <2>1. PICK n \in Controllers : o \in outcomes(n)
    <3>1. SelectController(c) = (IF Cardinality(Controllers) = 1 THEN {} ELSE {Ended(c)})
                                \cup UNION {outcomes(n) : n \in Controllers}
      BY DEF SelectController, Named
    <3> HIDE DEF outcomes
    <3> QED
      BY <1>2, <3>1
  <2>2. k(n) \in Kinds /\ n \in ControllerNames
    <3> HIDE DEF named, outcomes
    <3>1. setup.controller[n] \in Kinds
      BY DEF Kinds, Controllers
    <3>2. n \in ControllerNames
      BY DEF Controllers, ControllerNames
    <3> QED
      BY <3>1, <3>2
  <2>3. k(n).type \in ControllerTypes
    BY <2>2, KindFacts
  <2>4. named(n) \in Configs /\ named(n).adb = c.adb /\ named(n).name = n /\ named(n).type = k(n).type
    <3> HIDE DEF k
    <3> QED
      BY <2>2, <2>3, NamedFacts
  <2>5. o \in Dialogue(named(n), k(n)) \/ o = Ended(named(n)) \/ o = Done(named(n))
    <3>1. Ended(Done(named(n)).cfg) = Ended(named(n))
      BY <2>4, OutcomeFacts
    <3> HIDE DEF named, k
    <3> QED
      BY <2>1, <3>1 DEF Paused
  <2>6. \A d : SameNames(named(n), d) => TypeAgrees(d)
    <3>1. \A d : SameNames(named(n), d) => d.name = n /\ d.type = k(n).type
      BY <2>4 DEF SameNames
    <3> HIDE DEF named
    <3> QED
      BY <3>1 DEF TypeAgrees, Controller
  <2> HIDE DEF k, named, outcomes
  <2>7. CASE o = Ended(named(n)) \/ o = Done(named(n))
    <3>1. o \in Outcomes /\ o.cfg = named(n)
      BY <2>4, <2>7, OutcomeFacts
    <3> QED
      BY <2>4, <2>6, <3>1 DEF SameNames
  <2>8. CASE o \in Dialogue(named(n), k(n))
    <3>1. CASE k(n).type = "Adb"
      <4>1. o \in SelectAdb(named(n))
        BY <2>8, <3>1 DEF Dialogue
      <4> QED
        BY <2>4, <2>6, <4>1, AdbDialogue
    <3>2. CASE k(n).type # "Adb"
      <4>1. o \in Outcomes /\ Same(named(n), o.cfg)
        BY <2>2, <2>3, <2>4, <2>8, <3>2, Win32Dialogue, MacOSDialogue, PlayCoverDialogue, GamepadDialogue,
           LinuxDialogue DEF Dialogue, ControllerTypes
      <4> QED
        BY <2>4, <2>6, <4>1 DEF Same
    <3> QED
      BY <3>1, <3>2
  <2> QED
    BY <2>5, <2>7, <2>8
<1> QED
  BY <1>1, <1>2

-----------------------------------------------------------------------------
(* The invariant.                                                           *)

InRun == {"pretasks", "running"}

Types ==
    /\ setup \in Setups
    /\ mode \in {"off", "setup", "menu", "direct", "pretasks", "running", "ending"}
    /\ direct \in BOOLEAN /\ aborted \in BOOLEAN
    /\ cfg \in Configs /\ file \in Configs
    /\ seen \subseteq Windows /\ kept \in Handles

\* The handles of c are from lists s of this process, or the one kept by macOS.
Fresh(c, s, k) ==
    /\ {c.win32, c.padWindow} \subseteq s \cup {NoWindow}
    /\ c.window \in s \cup {NoWindow, k}

\* Nothing of one process is in the file: no handle of Windows, no type.
FileInv ==
    /\ file.type = "Adb" /\ file.win32 = NoWindow /\ file.padWindow = NoWindow
    /\ Identified(file.adb)

\* What is in memory belongs together, unless the program is about to end.
MemoryInv ==
    /\ mode \in {"off", "setup"} => cfg = Blank
    /\ TypeAgrees(cfg)
    /\ mode # "ending" => Identified(cfg.adb)
    /\ Fresh(cfg, seen, kept)

\* What is run was made of what is in memory, which has been checked and saved.
ParamInv ==
    /\ mode \notin InRun => param = NoParam
    /\ mode \in InRun =>
        /\ param = Parameter(cfg) /\ param # NoParam
        /\ file = Persistent(cfg)
        /\ cfg.type = Controller(cfg).type => Ready(cfg, Controller(cfg), aborted)

\* The controller was created of it, with what was listed at that moment.
UsedInv ==
    /\ mode # "running" => used = NoParam
    /\ mode = "running" =>
        /\ listing \in Listings
        /\ Compiled(param.type)
        /\ used \in IF param.type = "Adb" THEN Reconfigured(param, listing) ELSE {param}

IInv == Types /\ FileInv /\ MemoryInv /\ ParamInv /\ UsedInv

\* The configuration the program starts with, and a file that is not there.
LEMMA BlankFacts ==
    /\ Blank \in Configs /\ NoFile \in Configs
    /\ Blank.type = "Adb" /\ NoFile.type = "Adb"
    /\ Blank.win32 = NoWindow /\ Blank.padWindow = NoWindow
    /\ NoFile.win32 = NoWindow /\ NoFile.padWindow = NoWindow
    /\ Blank.window = NoWindow
    /\ Identified(Blank.adb) /\ Identified(NoFile.adb)
<1>1. Blank.adb \in AdbConfigs /\ Identified(Blank.adb)
  BY DEF Blank, AdbConfigs, Identified, Paths
<1>2. /\ Blank \in Configs
      /\ Blank.type = "Adb" /\ Blank.win32 = NoWindow /\ Blank.padWindow = NoWindow /\ Blank.window = NoWindow
  BY <1>1 DEF Blank, Configs, Handles, ControllerNames, ResourceNames, ControllerTypes, Uuids
<1>3. /\ NoFile \in Configs /\ NoFile.adb = Blank.adb /\ NoFile.type = Blank.type
      /\ NoFile.win32 = Blank.win32 /\ NoFile.padWindow = Blank.padWindow
  BY <1>2 DEF NoFile, Configs, ControllerNames
<1> QED
  BY <1>1, <1>2, <1>3

\* What is saved, and what becomes of it when it is read (Types.h:399-443).
LEMMA PersistentFacts ==
    \A c \in Configs :
        /\ Persistent(c) \in Configs
        /\ Persistent(c).type = "Adb" /\ Persistent(c).adb = c.adb
        /\ Persistent(c).win32 = NoWindow /\ Persistent(c).padWindow = NoWindow
<1> SUFFICES ASSUME NEW c \in Configs
    PROVE  /\ Persistent(c) \in Configs
           /\ Persistent(c).type = "Adb" /\ Persistent(c).adb = c.adb
           /\ Persistent(c).win32 = NoWindow /\ Persistent(c).padWindow = NoWindow
  OBVIOUS
<1>1. "Adb" \in ControllerTypes /\ NoWindow \in Handles
  BY DEF ControllerTypes, Handles
<1> QED
  BY <1>1 DEF Configs, Persistent

\* What check_configuration makes of what was saved (Configurator.cpp).
LEMMA LoadedFacts ==
    ASSUME setup \in Setups, NEW f \in Configs, f.type = "Adb"
    PROVE  /\ Loaded(f) \in Configs /\ TypeAgrees(Loaded(f))
           /\ Loaded(f).adb = f.adb /\ Loaded(f).win32 = f.win32 /\ Loaded(f).padWindow = f.padWindow
<1>1. CASE ~KnownResource(f)
  BY <1>1 DEF Loaded, Configs, ResourceNames, TypeAgrees
<1>2. CASE KnownResource(f) /\ ~KnownController(f)
  BY <1>2 DEF Loaded, Configs, ControllerNames, TypeAgrees
<1>3. CASE KnownResource(f) /\ KnownController(f)
  <2>1. Controller(f).type \in ControllerTypes
    BY <1>3, KnownKind, KindFacts
  <2>2. Loaded(f) = [f EXCEPT !.type = Controller(f).type]
    BY <1>3 DEF Loaded
  <2>3. Loaded(f).name = f.name /\ Loaded(f).type = Controller(f).type
    BY <2>1, <2>2 DEF Configs
  <2>4. TypeAgrees(Loaded(f))
    BY <2>3 DEF TypeAgrees, Controller
  <2> QED
    BY <2>1, <2>2, <2>4 DEF Configs
<1> QED
  BY <1>1, <1>2, <1>3

\* The program starts in the invariant.
LEMMA Initially == Init => IInv
BY BlankFacts DEF Init, IInv, Types, FileInv, MemoryInv, Fresh, Handles, ParamInv, UsedInv, TypeAgrees, InRun

-----------------------------------------------------------------------------
(* Every step keeps the invariant.                                          *)

\* As long as interface.json stays what it is, so does what is made of it.
LEMMA SameSetup ==
    ASSUME setup' = setup
    PROVE  /\ (TypeAgrees(cfg))' <=> TypeAgrees(cfg')
           /\ (Parameter(cfg))' = Parameter(cfg')
           /\ (KnownController(cfg))' <=> KnownController(cfg')
           /\ (Controller(cfg))' = Controller(cfg')
           /\ (Compiled(param.type))' <=> Compiled(param'.type)
BY DEF TypeAgrees, Parameter, KnownResource, KnownController, Controller, Controllers, Compiled, Supported

\* Where there is no run there is nothing to say of one.
LEMMA NoRunFacts ==
    ASSUME mode' \notin InRun, param' = NoParam, used' = NoParam
    PROVE  ParamInv' /\ UsedInv'
BY DEF ParamInv, UsedInv, InRun

\* What a dialogue found is in the configuration and among the windows seen.
LEMMA TakeFacts ==
    ASSUME Types, MemoryInv, NEW o, o.cfg \in Configs, o.aborted \in BOOLEAN, Take(o)
    PROVE  /\ cfg' = o.cfg /\ cfg' \in Configs /\ aborted' \in BOOLEAN
           /\ seen' \subseteq Windows /\ kept' \in Handles
           /\ Fresh(cfg', seen', kept')
<1>1. {o.cfg.win32, o.cfg.window, o.cfg.padWindow} \subseteq Windows \cup {NoWindow}
  BY DEF Configs, Handles
<1>2. /\ cfg' = o.cfg /\ aborted' = o.aborted /\ kept' = kept
      /\ seen' = seen \cup Found(cfg, o.cfg)
  BY DEF Take
<1>3. /\ {cfg.win32, cfg.padWindow} \subseteq seen \cup {NoWindow}
      /\ cfg.window \in seen \cup {NoWindow, kept}
      /\ seen \subseteq Windows /\ kept \in Handles
  BY DEF Types, MemoryInv, Fresh
<1>4. /\ o.cfg.win32 \in Windows /\ o.cfg.win32 # cfg.win32 => o.cfg.win32 \in seen'
      /\ o.cfg.window \in Windows /\ o.cfg.window # cfg.window => o.cfg.window \in seen'
      /\ o.cfg.padWindow \in Windows /\ o.cfg.padWindow # cfg.padWindow => o.cfg.padWindow \in seen'
  BY <1>2 DEF Found
<1>5. seen' \subseteq Windows /\ \A w \in seen : w \in seen'
  BY <1>2, <1>3 DEF Found
<1>6. o.cfg.win32 \in seen' \cup {NoWindow} /\ o.cfg.padWindow \in seen' \cup {NoWindow}
  BY <1>1, <1>3, <1>4, <1>5
<1>7. o.cfg.window \in seen' \cup {NoWindow, kept}
  BY <1>1, <1>3, <1>4, <1>5
<1> QED
  BY <1>2, <1>3, <1>5, <1>6, <1>7 DEF Fresh

\* The menu, or the end.
LEMMA BehindFacts ==
    \A end : Behind(end) => mode' \in {"menu", "ending"} /\ (mode' = "menu" => ~end)
BY DEF Behind

\* What is saved holds nothing of this process.
LEMMA SaveFacts ==
    ASSUME cfg' \in Configs, Identified(cfg'.adb), Save
    PROVE  file' \in Configs /\ FileInv'
BY PersistentFacts DEF Save, FileInv

\* An update finds the program off: nothing of the old interface.json is in memory.
LEMMA UpdateKeeps == IInv /\ Update => IInv'
<1> SUFFICES ASSUME IInv, Update PROVE IInv'
  OBVIOUS
<1>1. Types' /\ FileInv'
  BY DEF IInv, Update, Types, FileInv, run
<1>2. MemoryInv'
  <2>1. (TypeAgrees(cfg))'
    BY BlankFacts DEF IInv, MemoryInv, Update, TypeAgrees, run
  <2> QED
    BY <2>1 DEF IInv, MemoryInv, Update, run
<1>3. ParamInv' /\ UsedInv'
  BY NoRunFacts DEF IInv, Update, ParamInv, UsedInv, InRun, run
<1> QED
  BY <1>1, <1>2, <1>3 DEF IInv

\* What is read has no handles, and the type of the controller it names.
LEMMA StartKeeps == IInv /\ Start => IInv'
<1> SUFFICES ASSUME IInv, Start PROVE IInv'
  OBVIOUS
<1>1. /\ setup' = setup /\ UNCHANGED <<file, aborted, run, seen>> /\ kept' = cfg'.window
      /\ mode' \in {"setup", "menu", "direct"} /\ direct' \in BOOLEAN
      /\ mode' = "setup" => cfg' = Blank
  BY DEF Start
<1>2. /\ cfg' \in Configs /\ TypeAgrees(cfg') /\ Identified(cfg'.adb)
      /\ cfg'.win32 = NoWindow /\ cfg'.padWindow = NoWindow
  <2>1. CASE cfg' = Blank
    BY <2>1, BlankFacts DEF TypeAgrees
  <2>2. CASE cfg' = Loaded(file)
    BY <2>2, LoadedFacts DEF IInv, Types, FileInv
  <2> QED
    BY <2>1, <2>2 DEF Start
<1>3. Types' /\ FileInv'
  BY <1>1, <1>2 DEF IInv, Types, FileInv, Configs
<1>4. MemoryInv'
  BY <1>1, <1>2, SameSetup DEF MemoryInv, Fresh
<1>5. ParamInv' /\ UsedInv'
  BY <1>1, NoRunFacts DEF IInv, Start, ParamInv, UsedInv, InRun, run
<1> QED
  BY <1>3, <1>4, <1>5 DEF IInv

\* What is in memory is gone when the program ends, the file stays.
LEMMA LeaveKeeps == IInv /\ Leave => IInv'
<1> SUFFICES ASSUME IInv, Leave PROVE IInv'
  OBVIOUS
<1>1. Types' /\ FileInv'
  BY BlankFacts DEF IInv, Leave, Types, FileInv, Handles
<1>2. MemoryInv'
  <2>1. (TypeAgrees(cfg))'
    BY BlankFacts DEF Leave, TypeAgrees
  <2> QED
    BY <2>1, BlankFacts DEF MemoryInv, Fresh, Leave
<1>3. ParamInv' /\ UsedInv'
  BY NoRunFacts DEF Leave, InRun, NoRun
<1> QED
  BY <1>1, <1>2, <1>3 DEF IInv

\* The first setup is saved only when the device has been identified
\* (interactor.cpp).
LEMMA SetupKeeps == IInv /\ Setup => IInv'
<1> SUFFICES ASSUME IInv, Setup PROVE IInv'
  OBVIOUS
<1> DEFINE chosen(o, r) == [o EXCEPT !.cfg.resource = r]
<1>1. PICK o \in SelectController(cfg), r \in setup.resource : o.ok /\ Take(chosen(o, r))
  BY DEF Setup
<1>2. mode = "setup" /\ mode' = "menu" /\ UNCHANGED <<setup, direct, run>> /\ Save
  BY DEF Setup
<1>3. /\ Types /\ MemoryInv /\ setup \in Setups /\ cfg \in Configs
      /\ TypeAgrees(cfg) /\ Identified(cfg.adb)
  BY <1>2 DEF IInv, Types, MemoryInv
<1>4. o \in Outcomes /\ TypeAgrees(o.cfg) /\ Identified(o.cfg.adb)
  BY <1>1, <1>3, ControllerFacts
<1>5. r \in ResourceNames
  BY <1>3 DEF ResourceNames
<1>6. /\ chosen(o, r).cfg = [o.cfg EXCEPT !.resource = r]
      /\ chosen(o, r).aborted = o.aborted /\ o.aborted \in BOOLEAN /\ o.cfg \in Configs
  BY <1>4 DEF Outcomes
<1> HIDE DEF chosen
<1>7. /\ chosen(o, r).cfg \in Configs /\ chosen(o, r).cfg.adb = o.cfg.adb
      /\ chosen(o, r).cfg.name = o.cfg.name /\ chosen(o, r).cfg.type = o.cfg.type
  BY <1>5, <1>6 DEF Configs
<1>8. /\ cfg' = chosen(o, r).cfg /\ cfg' \in Configs /\ aborted' \in BOOLEAN
      /\ seen' \subseteq Windows /\ kept' \in Handles
      /\ Fresh(cfg', seen', kept')
  BY <1>1, <1>3, <1>6, <1>7, TakeFacts
<1>9. TypeAgrees(cfg') /\ Identified(cfg'.adb)
  BY <1>4, <1>7, <1>8 DEF TypeAgrees, KnownController, Controller
<1>10. file' \in Configs /\ FileInv'
  BY <1>2, <1>8, <1>9, SaveFacts
<1>11. Types' /\ MemoryInv'
  BY <1>2, <1>3, <1>8, <1>9, <1>10, SameSetup DEF Types, MemoryInv
<1>12. ParamInv' /\ UsedInv'
  BY <1>2, NoRunFacts DEF IInv, ParamInv, UsedInv, InRun, run
<1> QED
  BY <1>10, <1>11, <1>12 DEF IInv

\* A dialogue that ends in the middle is kept in memory, not saved, and there is
\* no other action behind it.
LEMMA SwitchControllerKeeps == IInv /\ SwitchController => IInv'
<1> SUFFICES ASSUME IInv, SwitchController PROVE IInv'
  OBVIOUS
<1>1. PICK o \in SelectController(cfg) :
        /\ Take(o)
        /\ IF o.ok THEN Save ELSE UNCHANGED file
        /\ Behind(o.aborted)
  BY DEF SwitchController
<1>2. mode = "menu" /\ UNCHANGED <<setup, direct, run>>
  BY DEF SwitchController
<1>3. /\ Types /\ MemoryInv /\ setup \in Setups /\ cfg \in Configs
      /\ TypeAgrees(cfg) /\ Identified(cfg.adb)
  BY <1>2 DEF IInv, Types, MemoryInv
<1>4. o \in Outcomes /\ TypeAgrees(o.cfg) /\ (o.ok \/ ~o.aborted => Identified(o.cfg.adb))
  BY <1>3, ControllerFacts
<1>5. /\ cfg' = o.cfg /\ cfg' \in Configs /\ aborted' \in BOOLEAN
      /\ seen' \subseteq Windows /\ kept' \in Handles
      /\ Fresh(cfg', seen', kept')
  <2>1. o.cfg \in Configs /\ o.aborted \in BOOLEAN
    BY <1>4 DEF Outcomes
  <2> QED
    BY <1>1, <1>3, <2>1, TakeFacts
<1>6. mode' \in {"menu", "ending"} /\ (mode' = "menu" => Identified(cfg'.adb))
  BY <1>1, <1>4, <1>5, BehindFacts
<1>7. file' \in Configs /\ FileInv'
  <2>1. CASE o.ok
    BY <1>1, <1>4, <1>5, <2>1, SaveFacts
  <2>2. CASE ~o.ok
    BY <1>1, <1>3, <2>2 DEF IInv, Types, FileInv
  <2> QED
    BY <2>1, <2>2
<1>8. Types' /\ MemoryInv'
  BY <1>2, <1>3, <1>4, <1>5, <1>6, <1>7, SameSetup DEF Types, MemoryInv
<1>9. ParamInv' /\ UsedInv'
  BY <1>2, <1>6, NoRunFacts DEF IInv, ParamInv, UsedInv, InRun, run
<1> QED
  BY <1>7, <1>8, <1>9 DEF IInv

\* The resource changes nothing about the device.
LEMMA SwitchResourceKeeps == IInv /\ SwitchResource => IInv'
<1> SUFFICES ASSUME IInv, SwitchResource PROVE IInv'
  OBVIOUS
<1>1. PICK r \in setup.resource : cfg' = [cfg EXCEPT !.resource = r]
  BY DEF SwitchResource
<1>2. mode = "menu" /\ UNCHANGED <<setup, mode, direct, aborted, run, seen, kept>> /\ Save
  BY DEF SwitchResource
<1>3. /\ Types /\ MemoryInv /\ cfg \in Configs /\ TypeAgrees(cfg) /\ Identified(cfg.adb)
      /\ Fresh(cfg, seen, kept)
  BY <1>2 DEF IInv, Types, MemoryInv
<1>4. r \in ResourceNames
  BY <1>3 DEF Types, ResourceNames
<1>5. /\ cfg' \in Configs /\ cfg'.adb = cfg.adb /\ cfg'.name = cfg.name /\ cfg'.type = cfg.type
      /\ cfg'.win32 = cfg.win32 /\ cfg'.padWindow = cfg.padWindow /\ cfg'.window = cfg.window
  BY <1>1, <1>3, <1>4 DEF Configs
<1>6. TypeAgrees(cfg')
  BY <1>3, <1>5 DEF TypeAgrees, KnownController, Controller
<1>7. file' \in Configs /\ FileInv'
  BY <1>2, <1>3, <1>5, SaveFacts
<1>8. Types' /\ MemoryInv'
  BY <1>2, <1>3, <1>5, <1>6, <1>7, SameSetup DEF Types, MemoryInv, Fresh
<1>9. ParamInv' /\ UsedInv'
  BY <1>2, NoRunFacts DEF IInv, ParamInv, UsedInv, InRun, run
<1> QED
  BY <1>7, <1>8, <1>9 DEF IInv

\* A save changes the file only, which had been saved by another process.
LEMMA SaveMenuKeeps == IInv /\ SaveMenu => IInv'
<1> SUFFICES ASSUME IInv, SaveMenu PROVE IInv'
  OBVIOUS
<1>1. mode = "menu" /\ UNCHANGED <<setup, mode, direct, cfg, aborted, run, seen, kept>> /\ Save
  BY DEF SaveMenu
<1>2. Types /\ MemoryInv /\ cfg \in Configs /\ Identified(cfg.adb) /\ TypeAgrees(cfg)
  BY <1>1 DEF IInv, Types, MemoryInv
<1>3. file' \in Configs /\ FileInv'
  BY <1>1, <1>2, SaveFacts
<1>4. Types' /\ MemoryInv'
  BY <1>1, <1>2, <1>3, SameSetup DEF Types, MemoryInv
<1>5. ParamInv' /\ UsedInv'
  BY <1>1, NoRunFacts DEF IInv, ParamInv, UsedInv, InRun, run
<1> QED
  BY <1>3, <1>4, <1>5 DEF IInv

\* A run goes on only with what passed the check, saved, and complete enough for
\* a parameter to be made of it.
LEMMA RunKeeps == IInv /\ Run => IInv'
<1> SUFFICES ASSUME IInv, Run PROVE IInv'
  OBVIOUS
<1>1. PICK o \in CheckValidity(cfg) :
        /\ Take(o)
        /\ \/ Prepared(o)
           \/ Behind(o.aborted) /\ UNCHANGED <<file, run>>
  BY DEF Run
<1>2. mode \in {"menu", "direct"} /\ UNCHANGED <<setup, direct>>
  BY DEF Run
<1>3. /\ Types /\ MemoryInv /\ setup \in Setups /\ cfg \in Configs
      /\ TypeAgrees(cfg) /\ Identified(cfg.adb) /\ file \in Configs /\ FileInv
      /\ param = NoParam /\ used = NoParam
  BY <1>2 DEF IInv, Types, MemoryInv, ParamInv, UsedInv, InRun
<1>4. /\ o \in Outcomes /\ Same(cfg, o.cfg)
      /\ o.ok /\ KnownController(cfg) /\ cfg.type = Controller(cfg).type => Ready(o.cfg, Controller(cfg), o.aborted)
  BY <1>3, CheckFacts
<1>5. /\ cfg' = o.cfg /\ cfg' \in Configs /\ aborted' = o.aborted /\ aborted' \in BOOLEAN
      /\ seen' \subseteq Windows /\ kept' \in Handles
      /\ Fresh(cfg', seen', kept')
  <2>1. o.cfg \in Configs /\ o.aborted \in BOOLEAN
    BY <1>4 DEF Outcomes
  <2>2. aborted' = o.aborted
    BY <1>1 DEF Take
  <2> QED
    BY <1>1, <1>3, <2>1, <2>2, TakeFacts
<1>6. /\ cfg'.name = cfg.name /\ cfg'.type = cfg.type /\ cfg'.adb = cfg.adb
      /\ TypeAgrees(cfg') /\ Identified(cfg'.adb)
  <2>1. cfg'.name = cfg.name /\ cfg'.type = cfg.type /\ cfg'.adb = cfg.adb
    BY <1>4, <1>5 DEF Same, SameNames
  <2> QED
    BY <1>3, <2>1 DEF TypeAgrees, KnownController, Controller
<1>7. CASE Prepared(o)
  <2>1. /\ o.ok /\ Save /\ param' \in {Parameter(o.cfg), NoParam} /\ used' = used
        /\ IF param' = NoParam THEN Behind(o.aborted) ELSE mode' = "pretasks"
    BY <1>7 DEF Prepared
  <2>2. file' \in Configs /\ FileInv'
    BY <1>5, <1>6, <2>1, SaveFacts
  <2>3. mode' \in {"menu", "ending", "pretasks"} /\ (mode' = "pretasks" <=> param' # NoParam)
    BY <2>1, BehindFacts
  <2>4. Types' /\ MemoryInv'
    BY <1>2, <1>3, <1>5, <1>6, <2>2, <2>3, SameSetup DEF Types, MemoryInv
  <2>5. CASE param' = NoParam
    BY <1>3, <2>1, <2>2, <2>3, <2>4, <2>5, NoRunFacts DEF IInv, InRun
  <2>6. CASE param' # NoParam
    <3>1. param' = Parameter(cfg') /\ KnownController(cfg)
      <4>1. param' = Parameter(o.cfg)
        BY <2>1, <2>6
      <4>2. KnownController(o.cfg)
        BY <2>6, <4>1 DEF Parameter
      <4> QED
        BY <1>5, <1>6, <4>1, <4>2 DEF KnownController
    <3>2. Controller(cfg') = Controller(cfg)
      BY <1>6 DEF Controller
    <3>3. cfg'.type = Controller(cfg').type => Ready(cfg', Controller(cfg'), aborted')
      BY <1>4, <1>5, <1>6, <2>1, <3>1, <3>2
    <3>4. /\ (Parameter(cfg))' = Parameter(cfg') /\ (Controller(cfg))' = Controller(cfg')
      BY <1>2, SameSetup
    <3>5. (Ready(cfg, Controller(cfg), aborted))' <=> Ready(cfg', Controller(cfg'), aborted')
      BY <3>4 DEF Ready
    <3>6. ParamInv'
      BY <2>1, <2>3, <2>6, <3>1, <3>3, <3>4, <3>5 DEF ParamInv, InRun, Save
    <3>7. UsedInv'
      BY <1>3, <2>1, <2>3, <2>6 DEF UsedInv
    <3> QED
      BY <2>2, <2>4, <3>6, <3>7 DEF IInv
  <2> QED
    BY <2>5, <2>6
<1>8. CASE Behind(o.aborted) /\ UNCHANGED <<file, run>>
  <2>1. mode' \in {"menu", "ending"}
    BY <1>8, BehindFacts
  <2>2. Types' /\ MemoryInv' /\ FileInv'
    BY <1>2, <1>3, <1>5, <1>6, <1>8, <2>1, SameSetup DEF Types, MemoryInv, FileInv
  <2>3. ParamInv' /\ UsedInv'
    BY <1>3, <1>8, <2>1, NoRunFacts DEF InRun, run
  <2> QED
    BY <2>2, <2>3 DEF IInv
<1> QED
  BY <1>1, <1>7, <1>8

\* What is created: nothing, or the parameter with the present address of its
\* Android device.
LEMMA CreatedFacts ==
    ASSUME NEW p, NEW list, NEW u \in Created(p, list), u # NoParam
    PROVE  Compiled(p.type) /\ u \in IF p.type = "Adb" THEN Reconfigured(p, list) ELSE {p}
BY DEF Created

\* Creating the controller fails or makes it of the parameter.
LEMMA CreateControllerKeeps == IInv /\ CreateController => IInv'
<1> SUFFICES ASSUME IInv, CreateController PROVE IInv'
  OBVIOUS
<1>1. PICK list \in Listings : \E u \in Created(param, list) :
        IF u = NoParam THEN NoRun /\ Behind(aborted)
        ELSE /\ used' = u
             /\ listing' = list
             /\ mode' = "running"
             /\ UNCHANGED param
  BY DEF CreateController
<1>2. PICK u \in Created(param, list) :
        IF u = NoParam THEN NoRun /\ Behind(aborted)
        ELSE /\ used' = u
             /\ listing' = list
             /\ mode' = "running"
             /\ UNCHANGED param
  BY <1>1
<1>3. mode = "pretasks" /\ UNCHANGED <<setup, direct, cfg, file, aborted, seen, kept>>
  BY DEF CreateController
<1>4. Types /\ FileInv /\ MemoryInv /\ ParamInv /\ Identified(cfg.adb)
  BY <1>3 DEF IInv, MemoryInv
<1>5. mode' \in {"menu", "ending", "running"}
  BY <1>2, BehindFacts
<1>6. Types' /\ FileInv' /\ MemoryInv'
  BY <1>3, <1>4, <1>5, SameSetup DEF Types, FileInv, MemoryInv
<1>7. CASE u = NoParam
  <2>1. mode' \notin InRun /\ param' = NoParam /\ used' = NoParam
    BY <1>2, <1>7, BehindFacts DEF NoRun, InRun
  <2> QED
    BY <1>6, <2>1, NoRunFacts DEF IInv
<1>8. CASE u # NoParam
  <2>1. used' = u /\ listing' = list /\ mode' = "running" /\ param' = param
    BY <1>2, <1>8
  <2>2. Compiled(param.type) /\ u \in IF param.type = "Adb" THEN Reconfigured(param, list) ELSE {param}
    BY <1>2, <1>8, CreatedFacts
  <2>3. UsedInv'
    <3>1. (Compiled(param.type))'
      BY <1>3, <2>1, <2>2, SameSetup
    <3>2. Reconfigured(param', listing') = Reconfigured(param, list)
      BY <2>1
    <3> QED
      BY <1>1, <2>1, <2>2, <3>1, <3>2 DEF UsedInv
  <2>4. ParamInv'
    <3>1. (Parameter(cfg))' = Parameter(cfg) /\ (Controller(cfg))' = Controller(cfg)
      BY <1>3, SameSetup
    <3>2. (Ready(cfg, Controller(cfg), aborted))' <=> Ready(cfg, Controller(cfg), aborted)
      BY <1>3, <3>1 DEF Ready
    <3> QED
      BY <1>3, <1>4, <2>1, <3>1, <3>2 DEF ParamInv, InRun
  <2> QED
    BY <1>6, <2>3, <2>4 DEF IInv
<1> QED
  BY <1>7, <1>8

\* Behind a run its parameter is gone.
LEMMA RunEndsKeeps == IInv /\ RunEnds => IInv'
<1> SUFFICES ASSUME IInv, RunEnds PROVE IInv'
  OBVIOUS
<1>1. /\ mode = "running" /\ UNCHANGED <<setup, direct, cfg, aborted, seen, kept>>
      /\ file' = file \/ file' = Persistent(cfg)
      /\ param' = NoParam /\ used' = NoParam
      /\ mode' \in {"menu", "ending"}
  BY BehindFacts DEF RunEnds, NoRun
<1>2. Types /\ FileInv /\ MemoryInv /\ Identified(cfg.adb) /\ cfg \in Configs
  BY <1>1 DEF IInv, Types, MemoryInv
<1>3. file' \in Configs /\ FileInv'
  BY <1>1, <1>2, PersistentFacts DEF Types, FileInv
<1>4. Types' /\ MemoryInv'
  BY <1>1, <1>2, <1>3, SameSetup DEF Types, MemoryInv
<1>5. ParamInv' /\ UsedInv'
  BY <1>1, NoRunFacts DEF InRun
<1> QED
  BY <1>3, <1>4, <1>5 DEF IInv

\* What is made of the state changes only with the state.
LEMMA StutterKeeps == IInv /\ UNCHANGED vars => IInv'
<1> SUFFICES ASSUME IInv, UNCHANGED vars PROVE IInv'
  OBVIOUS
<1>1. UNCHANGED <<setup, mode, direct, cfg, file, aborted, param, used, listing, seen, kept>>
  BY DEF vars
<1>2. Types' /\ FileInv' /\ MemoryInv'
  BY <1>1, SameSetup DEF IInv, Types, FileInv, MemoryInv
<1>3. ParamInv'
  <2>1. (Parameter(cfg))' = Parameter(cfg) /\ (Controller(cfg))' = Controller(cfg)
    BY <1>1, SameSetup
  <2>2. (Ready(cfg, Controller(cfg), aborted))' <=> Ready(cfg, Controller(cfg), aborted)
    BY <1>1, <2>1 DEF Ready
  <2> QED
    BY <1>1, <2>1, <2>2 DEF IInv, ParamInv
<1>4. UsedInv'
  <2>1. (Compiled(param.type))' <=> Compiled(param.type)
    BY <1>1, SameSetup
  <2> QED
    BY <1>1, <2>1 DEF IInv, UsedInv
<1> QED
  BY <1>2, <1>3, <1>4 DEF IInv

\* What Devices keeps, with any interface.json files and devices: the inductive
\* invariant.
THEOREM Invariance == Spec => []IInv
<1>1. IInv /\ [Next]_vars => IInv'
  BY UpdateKeeps, StartKeeps, LeaveKeeps, SetupKeeps, SwitchControllerKeeps, SwitchResourceKeeps, SaveMenuKeeps,
     RunKeeps, CreateControllerKeeps, RunEndsKeeps, StutterKeeps DEF Next
<1> QED
  BY Initially, <1>1, PTL DEF Spec

-----------------------------------------------------------------------------
(* What a run is made of.                                                   *)

\* generate_runtime makes a parameter of the controller's type, of the members
\* that type has (Configurator.cpp:307-437).
LEMMA ParameterFacts ==
    ASSUME setup \in Setups, NEW c \in Configs, Parameter(c) # NoParam
    PROVE  LET k == Controller(c)
               p == Parameter(c)
           IN /\ KnownResource(c) /\ KnownController(c) /\ k \in Kinds /\ k.type \in ControllerTypes
              /\ p.type = k.type
              /\ k.type = "Adb" => p = [type |-> "Adb", name |-> c.adb.name, path |-> c.adb.path,
                                        address |-> c.adb.address, device |-> c.adb.device]
              /\ k.type = "Win32" => p = [type |-> "Win32", window |-> c.win32]
              /\ k.type = "MacOS" => p = [type |-> "MacOS", window |-> c.window]
              /\ k.type = "PlayCover" =>
                    /\ c.address # NoText
                    /\ p = [type |-> "PlayCover", address |-> c.address,
                            uuid |-> IF c.uuid = NoText THEN "maa.playcover" ELSE c.uuid]
              /\ k.type = "Gamepad" => p = [type |-> "Gamepad", window |-> c.padWindow, pad |-> GamepadType(c, k)]
              /\ k.type = "Linux" =>
                    p = [type |-> "Linux", screencap |-> RuntimeScreencap(k), input |-> RuntimeInput(k),
                         wlr |-> c.wlr, eis |-> c.eis, width |-> c.width, height |-> c.height]
<1> DEFINE k == Controller(c)
           p == Parameter(c)
<1>1. KnownResource(c) /\ KnownController(c)
  BY DEF Parameter
<1>2. k \in Kinds /\ k.type \in ControllerTypes
  BY <1>1, KnownKind, KindFacts
<1>3. CASE k.type = "Adb"
  BY <1>1, <1>2, <1>3 DEF Parameter
<1>4. CASE k.type = "Win32"
  BY <1>1, <1>2, <1>4 DEF Parameter
<1>5. CASE k.type = "MacOS"
  BY <1>1, <1>2, <1>5 DEF Parameter
<1>6. CASE k.type = "PlayCover"
  BY <1>1, <1>2, <1>6 DEF Parameter
<1>7. CASE k.type = "Gamepad"
  BY <1>1, <1>2, <1>7 DEF Parameter
<1>8. CASE k.type = "Linux"
  BY <1>1, <1>2, <1>8 DEF Parameter
<1> QED
  BY <1>2, <1>3, <1>4, <1>5, <1>6, <1>7, <1>8 DEF ControllerTypes

\* Whatever is listed, only the address may change (Runner.cpp:367-402).
LEMMA ReconfiguredFacts ==
    \A n, q, a, d, list :
        LET p == [type |-> "Adb", name |-> n, path |-> q, address |-> a, device |-> d] IN
        \A u \in Reconfigured(p, list) :
            u.type = "Adb" /\ u.name = n /\ u.path = q /\ u.device = d
BY DEF Reconfigured, At

\* The device that was chosen is found again if it is listed, and only those that
\* cannot be told from it are taken for it.
LEMMA ChosenIsFound ==
    ASSUME NEW a \in AdbConfigs, Identified(a), NEW list \in Listings,
           NEW u \in Reconfigured([type |-> "Adb", name |-> a.name, path |-> a.path,
                                   address |-> a.address, device |-> a.device], list)
    PROVE  LET listed == IF a.device = Nobody THEN {} ELSE Twins(a.device) \cap DOMAIN list
           IN IF listed = {} THEN u.address = a.address ELSE \E d \in listed : u.address = list[d]
<1> DEFINE p == [type |-> "Adb", name |-> a.name, path |-> a.path, address |-> a.address, device |-> a.device]
           same == {d \in DOMAIN list : AdbName[d] = p.name /\ AdbPath[d] = p.path}
           listed == IF a.device = Nobody THEN {} ELSE Twins(a.device) \cap DOMAIN list
<1>1. DOMAIN list \subseteq AdbDevices
  BY DEF Listings
<1>2. same = listed
  <2>1. CASE a.device = Nobody
    <3>1. p.name \in {NoText, TypedName}
      BY <2>1 DEF Identified
    <3>2. \A d \in AdbDevices : AdbName[d] # p.name
      BY <3>1, DevicesAssumption
    <3> QED
      BY <1>1, <2>1, <3>2
  <2>2. CASE a.device # Nobody
    <3>1. p.name = AdbName[a.device] /\ p.path = AdbPath[a.device]
      BY <2>2 DEF Identified
    <3> HIDE DEF p
    <3> QED
      BY <1>1, <2>2, <3>1 DEF Twins
  <2> QED
    BY <2>1, <2>2
<1>3. u \in At(p, list, same)
  BY DEF Reconfigured
<1>4. p.address = a.address
  OBVIOUS
<1>5. \A x : [p EXCEPT !.address = x].address = x
  OBVIOUS
<1> HIDE DEF p, same, listed
<1>6. CASE listed = {}
  BY <1>2, <1>3, <1>4, <1>6 DEF At, listed
<1>7. CASE listed # {}
  <2>1. PICK d \in listed : u = [p EXCEPT !.address = list[d]]
    BY <1>2, <1>3, <1>7 DEF At
  <2> QED
    BY <1>5, <1>7, <2>1 DEF listed
<1> QED
  BY <1>6, <1>7

\* What is being run, and what of it is saved.
LEMMA RunFacts ==
    ASSUME IInv, Running
    PROVE  LET k == Controller(cfg) IN
           /\ setup \in Setups /\ cfg \in Configs /\ KnownResource(cfg) /\ KnownController(cfg)
           /\ k \in Kinds /\ k.type \in ControllerTypes
           /\ param = Parameter(cfg) /\ param.type = k.type /\ param # NoParam
           /\ used.type = k.type /\ Compiled(k.type)
           /\ k.type # "Adb" => used = param
           /\ ~Stale => cfg.type = k.type /\ Ready(cfg, k, aborted)
           /\ file = Persistent(cfg)
<1> DEFINE k == Controller(cfg)
<1>1. setup \in Setups /\ cfg \in Configs /\ mode = "running"
  BY DEF IInv, Types, Running
<1>2. /\ param = Parameter(cfg) /\ param # NoParam /\ file = Persistent(cfg)
      /\ cfg.type = k.type => Ready(cfg, k, aborted)
  BY <1>1 DEF IInv, ParamInv, InRun
<1>3. /\ Compiled(param.type)
      /\ used \in IF param.type = "Adb" THEN Reconfigured(param, listing) ELSE {param}
  BY <1>1 DEF IInv, UsedInv
<1>4. /\ KnownResource(cfg) /\ KnownController(cfg) /\ k \in Kinds /\ k.type \in ControllerTypes
      /\ param.type = k.type
  BY <1>1, <1>2, ParameterFacts
<1>5. used.type = k.type
  <2>1. CASE k.type = "Adb"
    <3>1. param = [type |-> "Adb", name |-> cfg.adb.name, path |-> cfg.adb.path,
                   address |-> cfg.adb.address, device |-> cfg.adb.device]
      BY <1>1, <1>2, <2>1, ParameterFacts
    <3> QED
      BY <1>3, <1>4, <2>1, <3>1, ReconfiguredFacts
  <2>2. CASE k.type # "Adb"
    BY <1>3, <1>4, <2>2
  <2> QED
    BY <2>1, <2>2
<1>6. ~Stale => cfg.type = k.type
  BY <1>4, <1>5 DEF Stale, IInv, MemoryInv, TypeAgrees
<1> QED
  BY <1>1, <1>2, <1>3, <1>4, <1>5, <1>6

-----------------------------------------------------------------------------
(* The properties.                                                          *)

\* The values the state of Devices takes.
THEOREM TypeCorrect == Spec => []TypeOK
<1>1. IInv => TypeOK
  <2> SUFFICES ASSUME IInv PROVE TypeOK
    OBVIOUS
  <2>1. \A c \in Configs : IsDevice(c)
    BY DEF Configs, IsDevice, Handles
  <2>2. (mode = "running") = (used # NoParam)
    <3>1. CASE mode = "running"
      <4>1. used.type \in ControllerTypes
        BY <3>1, RunFacts DEF Running
      <4>2. NoParam.type \notin ControllerTypes
        BY DEF NoParam, ControllerTypes
      <4> QED
        BY <3>1, <4>1, <4>2
    <3>2. CASE mode # "running"
      BY <3>2 DEF IInv, UsedInv
    <3> QED
      BY <3>1, <3>2
  <2>3. (mode \in {"pretasks", "running"}) = (param # NoParam)
    BY DEF IInv, ParamInv, InRun
  <2> QED
    BY <2>1, <2>2, <2>3 DEF IInv, Types, MemoryInv, TypeOK, Handles
<1> QED
  BY Invariance, <1>1, PTL

\* A run never gets a window handle of Windows of another process, and on macOS
\* only the window that was in the file this process started from
\* (Types.h:399-443, interactor.cpp:2356-2468).
THEOREM HandlesStayFresh == Spec => []HandlesAreFresh
<1>1. IInv => HandlesAreFresh
  <2> SUFFICES ASSUME IInv, Running, used.type \in {"Win32", "Gamepad", "MacOS"}
               PROVE  /\ used.type \in {"Win32", "Gamepad"} => used.window \in seen \cup {NoWindow}
                      /\ used.type = "MacOS" => used.window \in seen \cup {NoWindow, kept}
    BY DEF HandlesAreFresh
  <2>1. /\ used.type \in {"Win32", "Gamepad"} => used.window \in {cfg.win32, cfg.padWindow}
        /\ used.type = "MacOS" => used.window = cfg.window
    BY RunFacts, ParameterFacts
  <2> QED
    BY <2>1 DEF IInv, MemoryInv, Fresh
<1> QED
  BY Invariance, <1>1, PTL

\* The Android device that was chosen is the one that runs, wherever it is now,
\* or one that goes by its name and executable; one that was typed in is used as
\* typed (Runner.cpp:367-402).
THEOREM ChosenRuns == Spec => []ChosenDeviceRuns
<1>1. IInv => ChosenDeviceRuns
  <2> SUFFICES ASSUME IInv, Running, used.type = "Adb"
               PROVE  LET listed == IF used.device = Nobody THEN {} ELSE Twins(used.device) \cap DOMAIN listing
                      IN IF listed = {} THEN used.address = file.adb.address
                         ELSE \E d \in listed : used.address = listing[d]
    BY DEF ChosenDeviceRuns
  <2> DEFINE p == [type |-> "Adb", name |-> cfg.adb.name, path |-> cfg.adb.path,
                   address |-> cfg.adb.address, device |-> cfg.adb.device]
  <2>1. param = p
    BY RunFacts, ParameterFacts
  <2>2. used \in Reconfigured(p, listing) /\ listing \in Listings
    BY <2>1, RunFacts DEF IInv, UsedInv, Running
  <2>3. cfg.adb \in AdbConfigs /\ Identified(cfg.adb)
    BY DEF IInv, Types, Configs, MemoryInv, Running
  <2>4. used.device = cfg.adb.device
    BY <2>2, ReconfiguredFacts
  <2>5. file.adb = cfg.adb
    BY RunFacts, PersistentFacts
  <2> QED
    BY <2>2, <2>3, <2>4, <2>5, ChosenIsFound
<1> QED
  BY Invariance, <1>1, PTL

\* A dimension is a number of pixels.
LEMMA SizeFacts == \A n \in Sizes \cup {0} : n \in Nat
<1>1. \A n \in Sizes : n \in Nat \ {0}
  BY DevicesAssumption
<1> QED
  BY <1>1

\* What runs of an Android device: it is one that was chosen, with a path and an
\* address, or one of which the user has left something or everything open.
LEMMA AdbRuns ==
    ASSUME IInv, Running, used.type = "Adb"
    PROVE  Complete(used) \/ NeverAsked \/ TypedEmpty
<1> DEFINE a == cfg.adb
           p == [type |-> "Adb", name |-> a.name, path |-> a.path, address |-> a.address, device |-> a.device]
<1>1. param = p
  BY RunFacts, ParameterFacts
<1>2. used \in Reconfigured(p, listing) /\ listing \in Listings
  BY <1>1, RunFacts DEF IInv, UsedInv, Running
<1>3. a \in AdbConfigs /\ Identified(a)
  BY DEF IInv, Types, Configs, MemoryInv, Running
<1>4. used.name = a.name /\ used.path = a.path
  BY <1>2, ReconfiguredFacts
<1>5. \/ used.address = a.address
      \/ \E d \in Twins(a.device) \cap DOMAIN listing : used.address = listing[d]
  BY <1>2, <1>3, ChosenIsFound
<1>6. \A d \in DOMAIN listing : listing[d] # NoText
  BY <1>2, DevicesAssumption DEF Listings
<1>7. CASE a.device = Nobody
  <2>1. used.address = a.address
    BY <1>2, <1>3, <1>7, ChosenIsFound
  <2> QED
    BY <1>3, <1>4, <1>7, <2>1 DEF Identified, NeverAsked, TypedEmpty
<1>8. CASE a.device # Nobody
  <2>1. a.device \in AdbDevices
    BY <1>3, <1>8 DEF AdbConfigs
  <2>2. a.path # NoText /\ a.address # NoText
    BY <1>3, <1>8, <2>1, DevicesAssumption DEF Identified
  <2>3. used.address # NoText
    BY <1>5, <1>6, <2>2
  <2> QED
    BY <1>4, <2>2, <2>3 DEF Complete
<1> QED
  BY <1>7, <1>8

\* No controller is created without what its methods need, as long as the check
\* went by its type: Interactor and Configurator read the methods alike
\* (interactor.cpp:2356-2468, Configurator.cpp:307-437).  The exceptions for an
\* Android device are those of RunHasDevice.
THEOREM RunsHaveDevices == Spec => []RunHasDevice
<1>1. IInv => RunHasDevice
  <2> SUFFICES ASSUME IInv, Running, ~Stale, used.type # "Adb" PROVE Complete(used)
    BY AdbRuns DEF RunHasDevice
  <2> DEFINE k == Controller(cfg)
  <2>1. /\ cfg \in Configs /\ k.type \in ControllerTypes /\ used.type = k.type
        /\ k.type # "Adb" => used = Parameter(cfg)
        /\ Ready(cfg, k, aborted)
    BY RunFacts
  <2>2. CASE k.type = "Gamepad"
    BY <2>1, <2>2 DEF Complete
  <2>3. CASE k.type = "Win32"
    <3>1. used = [type |-> "Win32", window |-> cfg.win32]
      BY <2>1, <2>3, RunFacts, ParameterFacts
    <3> QED
      BY <2>1, <2>3, <3>1 DEF Complete, Ready
  <2>4. CASE k.type = "MacOS"
    <3>1. used = [type |-> "MacOS", window |-> cfg.window]
      BY <2>1, <2>4, RunFacts, ParameterFacts
    <3> QED
      BY <2>1, <2>4, <3>1 DEF Complete, Ready
  <2>5. CASE k.type = "PlayCover"
    <3>1. /\ cfg.address # NoText
          /\ used = [type |-> "PlayCover", address |-> cfg.address,
                     uuid |-> IF cfg.uuid = NoText THEN "maa.playcover" ELSE cfg.uuid]
      BY <2>1, <2>5, RunFacts, ParameterFacts
    <3> QED
      BY <3>1 DEF Complete
  <2>6. CASE k.type = "Linux"
    <3>1. used = [type |-> "Linux", screencap |-> RuntimeScreencap(k), input |-> RuntimeInput(k),
                  wlr |-> cfg.wlr, eis |-> cfg.eis, width |-> cfg.width, height |-> cfg.height]
      BY <2>1, <2>6, RunFacts, ParameterFacts
    <3>2. RuntimeScreencap(k) = Screencap(k) /\ RuntimeInput(k) = Input(k)
      BY DEF RuntimeScreencap, RuntimeInput, Screencap, Input
    <3>3. /\ UsesWlr(k) => cfg.wlr # NoText
          /\ Input(k) = "Libei" => cfg.eis # NoText
          /\ Input(k) = "UInput" => cfg.width # 0 /\ cfg.height # 0
      BY <2>1, <2>6 DEF Ready, Missing
    <3>4. cfg.width \in Nat /\ cfg.height \in Nat
      BY <2>1, LinuxFacts, SizeFacts
    <3> HIDE DEF k
    <3> QED
      BY <3>1, <3>2, <3>3, <3>4 DEF Complete, UsesWlr
  <2> QED
    BY <2>1, <2>2, <2>3, <2>4, <2>5, <2>6 DEF ControllerTypes
<1> QED
  BY Invariance, <1>1, PTL

\* What is loaded after a run that was not stale is what was run, less the
\* handles of Windows.
LEMMA AgainFacts ==
    ASSUME IInv, Running, ~Stale
    PROVE  LET again == Loaded(file) IN
           /\ again = [cfg EXCEPT !.win32 = NoWindow, !.padWindow = NoWindow]
           /\ again \in Configs
           /\ KnownResource(again) /\ KnownController(again) /\ Controller(again) = Controller(cfg)
           /\ again.type = Controller(cfg).type
           /\ again.adb = cfg.adb /\ again.window = cfg.window
           /\ again.address = cfg.address /\ again.uuid = cfg.uuid
           /\ again.padWindow = NoWindow /\ again.padType = cfg.padType
           /\ again.wlr = cfg.wlr /\ again.eis = cfg.eis
           /\ again.width = cfg.width /\ again.height = cfg.height
<1>1. cfg \in Configs /\ file = Persistent(cfg) /\ cfg.type = Controller(cfg).type
  BY RunFacts
<1>2. file.name = cfg.name /\ file.resource = cfg.resource
  BY <1>1 DEF Persistent, Configs
<1>3. KnownResource(file) /\ KnownController(file) /\ Controller(file) = Controller(cfg)
  BY <1>2, RunFacts DEF KnownResource, KnownController, Controller
<1>4. Loaded(file) = [file EXCEPT !.type = cfg.type]
  BY <1>1, <1>3 DEF Loaded
<1>5. Loaded(file) = [cfg EXCEPT !.win32 = NoWindow, !.padWindow = NoWindow]
  BY <1>1, <1>4 DEF Persistent, Configs
<1>6. NoWindow \in Handles
  BY DEF Handles
<1>7. Loaded(file).name = cfg.name /\ Loaded(file).resource = cfg.resource
  BY <1>1, <1>5 DEF Configs
<1>8. KnownResource(Loaded(file)) /\ KnownController(Loaded(file)) /\ Controller(Loaded(file)) = Controller(cfg)
  BY <1>7, RunFacts DEF KnownResource, KnownController, Controller
<1> QED
  BY <1>1, <1>5, <1>6, <1>8 DEF Configs

\* An outcome that completes does not change when it is said to complete.
LEMMA DoneAgain ==
    \A c \in Configs : Done(c).cfg = c /\ WithOk(Done(c), TRUE) = Done(c)
BY OutcomeFacts DEF WithOk, Outcomes


\* Behind a run without a window of Windows another run asks for nothing and is
\* made of the same, whatever is asked for in the dialogues
\* (README.md:98-99, interactor.cpp:2356-2468).
THEOREM RunsRepeat == Spec => []UnattendedAfterRun
<1>1. IInv => UnattendedAfterRun
  <2> SUFFICES ASSUME IInv, Running, ~Stale, ~aborted, used.type # "Win32", cfg.window \notin Untitled
               PROVE  LET again == Loaded(file) IN
                      /\ CheckValidity(again) = {Done(again)}
                      /\ Parameter(again) =
                            IF param.type = "Gamepad" THEN [param EXCEPT !.window = NoWindow] ELSE param
    BY DEF UnattendedAfterRun
  <2> DEFINE k == Controller(cfg)
             again == Loaded(file)
  <2>1. /\ cfg \in Configs /\ KnownResource(cfg) /\ KnownController(cfg)
        /\ k.type \in ControllerTypes /\ k.type # "Win32"
        /\ param = Parameter(cfg) /\ param.type = k.type /\ param # NoParam
        /\ setup \in Setups /\ Compiled(k.type) /\ Ready(cfg, k, aborted)
    BY RunFacts
  <2>2. /\ KnownResource(again) /\ KnownController(again) /\ Controller(again) = k
        /\ again.type = k.type /\ again \in Configs
        /\ again.adb = cfg.adb /\ again.window = cfg.window
        /\ again.address = cfg.address /\ again.uuid = cfg.uuid
        /\ again.padWindow = NoWindow /\ again.padType = cfg.padType
        /\ again.wlr = cfg.wlr /\ again.eis = cfg.eis
        /\ again.width = cfg.width /\ again.height = cfg.height
    BY AgainFacts
  <2> HIDE DEF k, again
  <2>3. CASE k.type = "Adb"
    <3>1. CheckValidity(again) = {Done(again)}
      BY <2>2, <2>3 DEF CheckValidity
    <3>2. Parameter(again) = param
      BY <2>1, <2>2, <2>3 DEF Parameter, k
    <3> QED
      BY <2>1, <2>3, <3>1, <3>2 DEF again
  <2>4. CASE k.type = "MacOS"
    <3>1. again.window \notin {NoWindow} \cup Untitled
      BY <2>1, <2>2, <2>4 DEF Ready
    <3>2. CheckValidity(again) = {Done(again)}
      BY <2>2, <2>4, <3>1 DEF CheckValidity, CheckMacOS
    <3>3. Parameter(again) = param
      BY <2>1, <2>2, <2>4 DEF Parameter, k
    <3> QED
      BY <2>1, <2>4, <3>2, <3>3 DEF again
  <2>5. CASE k.type = "PlayCover"
    <3>1. again.address # NoText
      BY <2>1, <2>2, <2>5, ParameterFacts DEF k
    <3>2. Supported("PlayCover")
      BY <2>1, <2>5 DEF Compiled
    <3>3. CheckPlayCover(again) = {WithOk(Done(again), Done(again).cfg.address # NoText)}
      BY <3>1, <3>2 DEF CheckPlayCover, Regardless, WithOk
    <3>4. CheckValidity(again) = {Done(again)}
      BY <2>2, <2>5, <3>1, <3>3, DoneAgain DEF CheckValidity
    <3>5. Parameter(again) = param
      BY <2>1, <2>2, <2>5 DEF Parameter, k
    <3> QED
      BY <2>1, <2>5, <3>4, <3>5 DEF again
  <2>6. CASE k.type = "Gamepad"
    <3>1. again.padType # NoText
      BY <2>1, <2>2, <2>6 DEF Ready
    <3>2. Supported("Gamepad")
      BY <2>1, <2>6 DEF Compiled
    <3>3. CheckGamepad(again) = {WithOk(Done(again), TRUE)}
      BY <3>1, <3>2 DEF CheckGamepad, Regardless, WithOk
    <3>4. CheckValidity(again) = {Done(again)}
      BY <2>2, <2>6, <3>3, DoneAgain DEF CheckValidity
    <3>5. param = [type |-> "Gamepad", window |-> cfg.padWindow, pad |-> GamepadType(cfg, k)]
      BY <2>1, <2>6, ParameterFacts DEF k
    <3>6. GamepadType(again, k) = GamepadType(cfg, k)
      BY <2>2 DEF GamepadType
    <3>7. Parameter(again) = [type |-> "Gamepad", window |-> NoWindow, pad |-> GamepadType(cfg, k)]
      BY <2>2, <2>6, <3>6 DEF Parameter
    <3> QED
      BY <3>4, <3>5, <3>7 DEF again
  <2>7. CASE k.type = "Linux"
    <3>1. Supported("Linux")
      BY <2>1, <2>7 DEF Compiled
    <3>2. Missing(again, k) = {}
      BY <2>1, <2>2, <2>7 DEF Ready, Missing
    <3>3. CheckValidity(again) = {Done(again)}
      BY <2>2, <2>7, <3>1, <3>2 DEF CheckValidity, CheckLinux
    <3>4. Parameter(again) = param
      BY <2>1, <2>2, <2>7 DEF Parameter, k
    <3> QED
      BY <2>1, <2>7, <3>3, <3>4 DEF again
  <2> QED
    BY <2>1, <2>3, <2>4, <2>5, <2>6, <2>7 DEF ControllerTypes
<1> QED
  BY Invariance, <1>1, PTL
=============================================================================
