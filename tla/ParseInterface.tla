--------------------------- MODULE ParseInterface ---------------------------
(***************************************************************************)
(* Parser::parse_interface: interface.json, the files it imports, read and *)
(* merged one by one, and validate_interface with its search for cycles on *)
(* what comes out (Impl/Parser.cpp).  One process, nothing concurrent: the *)
(* order in which the search takes the options up is that of a hash table. *)
(***************************************************************************)
EXTENDS OptionTree

CONSTANTS
    Mains,      \* the interface.json files
    Imported    \* the other files by name, those that do not parse left out

VARIABLES
    main,    \* the interface.json that is parsed
    stage,   \* "import", "search", "accepted", "rejected"
    data,    \* InterfaceData as merged so far
    at,      \* the import that is next
    state,   \* visit_states: "entered" (1) and "done" (2); 0 is no entry
    calls    \* detect_option_cycle's calls, innermost first: [option, rest]

parseVars == <<main, stage, data, at, state, calls>>

-----------------------------------------------------------------------------
(* One file                                                                 *)

Appended == {"task", "pretask", "preset", "setting"}

Listed == Appended \cup {"global", "group"}

\* What a file that parses has.
IsFile(f) ==
    /\ Listed \cup {"option"} \subseteq DOMAIN f
    /\ \A key \in Listed : IsList(f[key])
    /\ \A t \in ToSet(f.task) : IsList(t.roots)
    /\ IsOptions(f.option)

ASSUME FilesAssumption ==
    /\ \A f \in Mains : IsFile(f) /\ IsList(f.import)
    /\ \A name \in DOMAIN Imported : IsFile(Imported[name])

\* The keys of an absent "linux" object.
NoLinux == [screencap |-> "", input |-> "", source |-> "Gamescope"]

\* normalize_legacy_wlroots: the old key counts only without the new one.
Normalized(c) ==
    [type    |-> IF c.type = "WlRoots" THEN "Linux" ELSE c.type,
     display |-> c.display,
     linux   |-> IF "linux" \in DOMAIN c THEN c.linux
                 ELSE IF "wlroots" \in DOMAIN c THEN c.wlroots ELSE NoLinux]

NormalizedMain(f) == [f EXCEPT !.controller = [i \in DOMAIN @ |-> Normalized(@[i])]]

\* insert_or_assign for all of new.
Assigned(old, new) == [o \in DOMAIN old \cup DOMAIN new |-> IF o \in DOMAIN new THEN new[o] ELSE old[o]]

\* Slip: the options of an import are inserted and assign nothing.
Merged_FirstStays(d, f) ==
    [key \in DOMAIN d |->
        CASE key \in Appended            -> d[key] \o f[key]
          [] key = "option"              -> Assigned(f.option, d.option)
          [] key \in {"global", "group"} -> WithNew(d[key], f[key])
          [] OTHER                       -> d[key]]

\* Lists grow at their end, an option replaces one of its name, names of global
\* options and of groups stay single.
Merged(d, f) ==
    [key \in DOMAIN d |->
        CASE key \in Appended            -> d[key] \o f[key]
          [] key = "option"              -> Assigned(d.option, f.option)
          [] key \in {"global", "group"} -> WithNew(d[key], f[key])
          [] OTHER                       -> d[key]]

-----------------------------------------------------------------------------
(* validate_interface                                                       *)

ValidDisplay(c) ==
    /\ "expand" \in DOMAIN c.display => c.display.expand[1] > 0 /\ c.display.expand[2] > 0
    /\ Cardinality(DOMAIN c.display) <= 1

ValidLinux(m) ==
    /\ m.screencap \in {"", "Wlr", "PipeWire"}
    /\ m.input \in {"", "Wlr", "UInput", "Libei"}
    /\ m.screencap = "PipeWire" => m.source \in {"Gamescope", "Portal"}

ValidController(c) ==
    /\ c.type # "Invalid"
    /\ ValidDisplay(c)
    /\ c.type = "Linux" => ValidLinux(c.linux)

\* The version, then check_option_refs of everything that names options, but for
\* controllers and resources, groups, executables and the limits of checkboxes.
ReferencesHold(d) ==
    LET Known(names) == ToSet(names) \subseteq DOMAIN d.option IN
    /\ d.version = 2
    /\ \A t \in ToSet(d.task) : Known(t.roots) /\ ToSet(t.group) \subseteq ToSet(d.group)
    /\ Known(d.global)
    /\ \A s \in ToSet(d.setting) : Known(s.roots)
    /\ \A p \in ToSet(d.pretask) : p.exec # "" /\ Known(p.roots)
    /\ \A o \in DOMAIN d.option : ValidCheckbox(d.option[o])

ControllersHold(d) == \A c \in ToSet(d.controller) : ValidController(c)

\* The children of an option's cases, in their order.
ChildList(d, o) == FlattenSeq([i \in DOMAIN d.option[o].cases |-> d.option[o].child[d.option[o].cases[i]]])

-----------------------------------------------------------------------------
ParseInit ==
    /\ main \in Mains
    /\ stage = "import"
    /\ data = NormalizedMain(main)
    /\ at = 1
    /\ state = [o \in {} |-> "done"]
    /\ calls = <<>>

Reject ==
    /\ stage' = "rejected"
    /\ UNCHANGED <<main, data, at, state, calls>>

\* An import that is not there, or does not parse, ends it; the imports of an
\* import are not looked at.
ReadImport ==
    /\ stage = "import"
    /\ at \in DOMAIN main.import
    /\ IF main.import[at] \in DOMAIN Imported
       THEN /\ data' = Merged(data, Imported[main.import[at]])
            /\ at' = at + 1
            /\ UNCHANGED <<main, stage, state, calls>>
       ELSE Reject

BeginValidation ==
    /\ stage = "import"
    /\ at \notin DOMAIN main.import
    /\ IF ReferencesHold(data) THEN stage' = "search" /\ UNCHANGED <<main, data, at, state, calls>> ELSE Reject

\* detect_option_cycle is called for an option it has not seen.
Enter(o, callers) ==
    IF o \in DOMAIN data.option
    THEN /\ state' = [p \in DOMAIN state \cup {o} |-> IF p = o THEN "entered" ELSE state[p]]
         /\ calls' = <<[option |-> o, rest |-> ChildList(data, o)]>> \o callers
         /\ UNCHANGED <<main, stage, data, at>>
    ELSE Reject

SearchFrom ==
    /\ stage = "search"
    /\ calls = <<>>
    /\ \E o \in DOMAIN data.option \ DOMAIN state : Enter(o, <<>>)

\* Slip: a child that is entered is passed over as one that is done.
NextChild_EnteredIsDone ==
    /\ stage = "search"
    /\ calls # <<>>
    /\ calls[1].rest # <<>>
    /\ LET c == Head(calls[1].rest)
           callers == [calls EXCEPT ![1].rest = Tail(@)]
       IN IF c \notin DOMAIN state THEN Enter(c, callers)
          ELSE calls' = callers /\ UNCHANGED <<main, stage, data, at, state>>

\* A child that is entered and not done closes a cycle.
NextChild ==
    /\ stage = "search"
    /\ calls # <<>>
    /\ calls[1].rest # <<>>
    /\ LET c == Head(calls[1].rest)
           callers == [calls EXCEPT ![1].rest = Tail(@)]
       IN IF c \notin DOMAIN state THEN Enter(c, callers)
          ELSE IF state[c] = "entered" THEN Reject
          ELSE calls' = callers /\ UNCHANGED <<main, stage, data, at, state>>

Return ==
    /\ stage = "search"
    /\ calls # <<>>
    /\ calls[1].rest = <<>>
    /\ state' = [state EXCEPT ![calls[1].option] = "done"]
    /\ calls' = Tail(calls)
    /\ UNCHANGED <<main, stage, data, at>>

EndSearch ==
    /\ stage = "search"
    /\ calls = <<>>
    /\ DOMAIN data.option \subseteq DOMAIN state
    /\ IF ControllersHold(data) THEN stage' = "accepted" /\ UNCHANGED <<main, data, at, state, calls>> ELSE Reject

Parse == ReadImport \/ BeginValidation \/ SearchFrom \/ NextChild \/ Return \/ EndSearch

ParseSpec == ParseInit /\ [][Parse]_parseVars

-----------------------------------------------------------------------------
(* What the rest of the program sees: a task is looked up by its name, and  *)
(* the first of that name is found.                                         *)

TaskNamed(d, n) == d.task[CHOOSE i \in DOMAIN d.task : /\ d.task[i].name = n
                                                       /\ \A j \in 1 .. i - 1 : d.task[j].name # n]

Parsed(d) ==
    [option  |-> d.option,
     task    |-> [n \in {t.name : t \in ToSet(d.task)} |-> TaskNamed(d, n)],
     global  |-> d.global,
     pretask |-> d.pretask]

-----------------------------------------------------------------------------
(* Properties.                                                              *)

\* The search by three states, which shares what it knows between the options
\* it starts from, tells exactly the interfaces with a cycle or a child that is
\* missing: what is accepted meets the assumption of all prompts, which follow
\* the children without a limit, whatever the imports replaced, and what is
\* rejected does not (Parser.cpp:325-359, interactor.cpp:1909-1923).
VerdictIsRight ==
    /\ stage = "accepted" => at \notin DOMAIN main.import /\ EndsEverywhere(data) /\ ValidInterface(Parsed(data))
    /\ stage = "rejected" => \/ at \in DOMAIN main.import
                             \/ ~ReferencesHold(data) \/ ~ControllersHold(data)
                             \/ ~EndsEverywhere(data)

\* The files read so far, and what they have under a key, one behind the other.
FilesRead == <<main>> \o [i \in 1 .. at - 1 |-> Imported[main.import[i]]]

Collected(key) == FlattenSeq([i \in DOMAIN FilesRead |-> FilesRead[i][key]])

\* The last file that defines an option.
Definer(o) == CHOOSE i \in DOMAIN FilesRead : /\ o \in DOMAIN FilesRead[i].option
                                         /\ \A j \in i + 1 .. Len(FilesRead) : o \notin DOMAIN FilesRead[j].option

\* The first m is before the first n.
Before(s, m, n) == \E i \in DOMAIN s : s[i] = m /\ \A j \in 1 .. i : s[j] # n

\* parser_test.cpp:272-338: everything is appended main first, the last file that
\* defines an option wins, global options and groups keep their first occurrence.
MergesInOrder ==
    /\ \A key \in Appended : data[key] = Collected(key)
    /\ DOMAIN data.option = UNION {DOMAIN FilesRead[i].option : i \in DOMAIN FilesRead}
    /\ \A o \in DOMAIN data.option : data.option[o] = FilesRead[Definer(o)].option[o]
    /\ \A key \in {"global", "group"} :
           /\ ToSet(data[key]) = ToSet(Collected(key))
           /\ \A m, n \in ToSet(data[key]) : Before(data[key], m, n) = Before(Collected(key), m, n)
           /\ IsInjective(main[key]) => IsInjective(data[key])
=============================================================================
