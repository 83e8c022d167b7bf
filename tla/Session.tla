------------------------------ MODULE Session ------------------------------
(***************************************************************************)
(* A user's sessions with MaaPiCli: starting it (the check of the saved    *)
(* configuration included), the first-time setup, the menu and what each   *)
(* of its actions makes of the configuration in memory and in the file,    *)
(* running the tasks, and leaving at any moment (main.cpp, interactor.cpp, *)
(* Configurator.cpp).  Between sessions interface.json may be updated.     *)
(* One process; what the file looks like inside is ConfigStore's part, and *)
(* what happens while the tasks run is Runner's.                           *)
(***************************************************************************)
EXTENDS OptionTree

CONSTANTS
    Interfaces,   \* the interface.json files that get installed
    NeedsAdmin,   \* the controllers with permission_required on Windows
    TaskLimit,    \* bound: the longest task list a user puts together
    NoFile        \* no configuration has been saved yet

IsNames(s) == IsList(s) /\ ToSet(s) \subseteq STRING

\* The lists among what is read of an interface.json.
IsInterface(J) ==
    /\ IsOptions(J.option)
    /\ IsNames(J.global) /\ IsList(J.pretask)
    /\ IsList(J.checked) /\ ToSet(J.checked) \subseteq DOMAIN J.task
    /\ \A t \in DOMAIN J.task : IsNames(J.task[t].roots)
    /\ \A r \in DOMAIN J.resource : IsNames(J.resource[r].roots)
    /\ \A c \in DOMAIN J.controller : IsNames(J.controller[c].roots)
    /\ \A p \in ToSet(J.pretask) : IsNames(p.roots)
    /\ \A p \in DOMAIN J.preset : IsList(J.preset[p])

\* Pretasks with one identifier, and so with one list, have the same options.
Apart(J) == \A p, q \in ToSet(J.pretask) : p.id = q.id => p.roots = q.roots

\* What the prompts need: every option can be asked for, pretasks of one list
\* have the same options, and a preset's lists are such as prompts make.
Prompts(J) ==
    /\ AsksAll(J) /\ Apart(J)
    /\ \A p \in DOMAIN J.preset : \A t \in ToSet(J.preset[p]) : SoundList(t.option)

\* The lists of tasks interface.json brings are within the bound too.
Limited(J) ==
    /\ Len(J.checked) <= TaskLimit
    /\ \A p \in DOMAIN J.preset : Len(J.preset[p]) <= TaskLimit

\* A pretask with options that applies everywhere: each run completes its list.
AlwaysRuns(p) == p.controllers = {} /\ p.resources = {} /\ p.roots # <<>>

\* What a saved list of a pretask needs to outlive an update: its pretask stays,
\* and either the options do too or each run completes it.  (An update that also
\* takes the resource or the controller in use ends the check before the lists.)
PretasksStay ==
    /\ \A J, K \in Interfaces : \A p \in ToSet(J.pretask) : \E q \in ToSet(K.pretask) : q.id = p.id
    /\ \/ \A J, K \in Interfaces : J.option = K.option
       \/ \A J \in Interfaces : \A p \in ToSet(J.pretask) : AlwaysRuns(p)

ASSUME SessionAssumption == TaskLimit \in Nat /\ \A J \in Interfaces : IsInterface(J) /\ ValidInterface(J)

VARIABLES
    iface,     \* data_: the interface.json the process has read, or will read
    mode,      \* "off", "setup", "menu", "edit", or "running", "once" (-d)
    cfg,       \* config_: the configuration in memory
    file,      \* the configuration in maa_pi_config.json
    elevated   \* an elevated instance was started by this process

vars == <<iface, mode, cfg, file, elevated>>

Levels == {"global", "resource", "controller"}

Blank ==
    [ctx     |-> [controller |-> "", resource |-> ""],
     task    |-> <<>>,
     level   |-> [l \in Levels |-> <<>>],
     pretask |-> [p \in {} |-> <<>>]]

ConfigTask(name, option) == [name |-> name, option |-> option]

-----------------------------------------------------------------------------
(* Names a configuration holds and the interface may not know (any more).   *)

KnownResource(I, ctx)   == ctx.resource \in DOMAIN I.resource
KnownController(I, ctx) == ctx.controller \in DOMAIN I.controller

KnownTask(I, t) == t.name \in DOMAIN I.task

ActiveTask(I, ctx, t) == KnownTask(I, t) /\ Fits(I.task[t.name], ctx)

ActivePretasks(I, ctx) == Only(I.pretask, {p \in ToSet(I.pretask) : Fits(p, ctx)})

LevelRoots(I, ctx, level) ==
    CASE level = "global"     -> I.global
      [] level = "resource"   -> I.resource[ctx.resource].roots
      [] level = "controller" -> I.controller[ctx.controller].roots

-----------------------------------------------------------------------------
(* Parser::check_configuration                                              *)

CheckTasks(I, c) ==
    LET known == Only(c.task, {t \in ToSet(c.task) : KnownTask(I, t)})
    IN [i \in DOMAIN known |-> [known[i] EXCEPT !.option = CheckTask(I, c.ctx, known[i].name, @)]]

CheckPretasks(I, c) ==
    LET known == {p \in DOMAIN c.pretask : \E i \in DOMAIN I.pretask : I.pretask[i].id = p}
    IN [p \in known |-> CheckLevel(I, c.pretask[p])]

\* A resource or a controller that is gone ends the check where it stands.
CheckConfiguration(I, c) ==
    LET checked == [c EXCEPT !.task = CheckTasks(I, c)] IN
    IF ~KnownResource(I, c.ctx) THEN [checked EXCEPT !.ctx.resource = ""]
    ELSE IF ~KnownController(I, c.ctx) THEN [checked EXCEPT !.ctx.controller = ""]
    ELSE [checked EXCEPT !.level = [l \in Levels |-> CheckLevel(I, @[l])],
                         !.pretask = CheckPretasks(I, c)]

-----------------------------------------------------------------------------
(* The completion of all option lists before a run.                         *)

\* The lists of a configuration that ensure_* goes through, one after another.
Places(I, c) ==
    LET levels == Only(<<"global", "resource", "controller">>,
                       {l \in Levels : /\ l = "resource" => KnownResource(I, c.ctx)
                                       /\ l = "controller" => KnownController(I, c.ctx)})
        tasks  == Only([i \in DOMAIN c.task |-> i], {i \in DOMAIN c.task : ActiveTask(I, c.ctx, c.task[i])})
        pretasks == Only(ActivePretasks(I, c.ctx), {p \in ToSet(I.pretask) : p.roots # <<>>})
        At(kind, s) == [i \in DOMAIN s |-> [kind |-> kind, at |-> s[i]]]
    IN At("level", levels) \o At("task", tasks) \o At("pretask", pretasks)

\* The outcomes for the list at a place: ensure_runtime_options (the cleanup
\* first), ensure_task_options, ensure_pretask_options.
EnsurePlace(I, c, place) ==
    LET Outcome(c2, p) == [cfg |-> c2, ok |-> p.ok] IN
    CASE place.kind = "level" ->
            LET roots == LevelRoots(I, c.ctx, place.at)
                list == Cleanup(I, c.ctx, roots, c.level[place.at])
            IN {Outcome([c EXCEPT !.level[place.at] = p.out], p) : p \in Ensured(I, c.ctx, roots, list, "auto")}
      [] place.kind = "task" ->
            LET t == c.task[place.at]
            IN {Outcome([c EXCEPT !.task[place.at].option = p.out], p) :
                p \in Ensured(I, c.ctx, I.task[t.name].roots, t.option, "auto")}
      [] place.kind = "pretask" ->
            LET id == place.at.id
                stored == id \in DOMAIN c.pretask
                list == IF stored THEN c.pretask[id] ELSE <<>>
                Put(p) == IF stored \/ p.ok
                          THEN [c EXCEPT !.pretask = [q \in DOMAIN @ \cup {id} |-> IF q = id THEN p.out ELSE @[q]]]
                          ELSE c
            IN {Outcome(Put(p), p) : p \in Ensured(I, c.ctx, place.at.roots, list, "auto")}

\* The first list that cannot be completed ends it; the lists before it, and
\* what is left of itself, stay in memory as they are by then.
EnsureEach(I, c, places) ==
    LET sofar[n \in 0 .. Len(places)] ==
            IF n = 0 THEN {[cfg |-> c, ok |-> TRUE]}
            ELSE UNION {IF p.ok THEN EnsurePlace(I, p.cfg, places[n]) ELSE {p} : p \in sofar[n - 1]}
    IN sofar[Len(places)]

\* Slip: ensure_task_options is not called.
EnsureAll_NoTasks(I, c) == EnsureEach(I, c, SelectSeq(Places(I, c), LAMBDA place : place.kind # "task"))

\* Slip: ensure_pretask_options is not called.
EnsureAll_NoPretasks(I, c) == EnsureEach(I, c, SelectSeq(Places(I, c), LAMBDA place : place.kind # "pretask"))

EnsureAll(I, c) == EnsureEach(I, c, Places(I, c))

\* Configurator::generate_runtime: nothing to run, or no values for a pretask.
HasWork(I, c) ==
    /\ KnownResource(I, c.ctx)
    /\ I.resource[c.ctx.resource].path # <<>>
    /\ KnownController(I, c.ctx)
    /\ \E i \in DOMAIN c.task : ActiveTask(I, c.ctx, c.task[i])

PretasksReady(I, c) ==
    \A i \in DOMAIN ActivePretasks(I, c.ctx) :
        LET p == ActivePretasks(I, c.ctx)[i] IN
        p.roots # <<>> => p.id \in DOMAIN c.pretask /\ Serializable(I, c.ctx, p.roots, c.pretask[p.id])

Generates(I, c) == HasWork(I, c) /\ PretasksReady(I, c)

-----------------------------------------------------------------------------
(* Starting and leaving                                                     *)

Init ==
    /\ iface \in Interfaces
    /\ mode = "off"
    /\ cfg = Blank
    /\ file = NoFile
    /\ elevated = FALSE

Loaded(I) == IF file = NoFile THEN Blank ELSE CheckConfiguration(I, file)

\* Interactor::load and interact, up to the first prompt.
Start ==
    /\ mode = "off"
    /\ iface' \in Interfaces
    /\ cfg' = Loaded(iface')
    /\ mode' = IF file = NoFile THEN "setup" ELSE "menu"
    /\ UNCHANGED <<file, elevated>>

\* Exit, the end of the input at any prompt, a signal, a save the menu fails at,
\* or the end of a run started with -d: what is in memory only is gone.
Leave ==
    /\ mode # "off"
    /\ mode' = "off"
    /\ cfg' = Blank
    /\ elevated' = FALSE
    /\ UNCHANGED <<iface, file>>

Save == file' = cfg'

Back == mode' = "menu" /\ UNCHANGED <<iface, elevated>>

\* action_status: an action that completes is saved, one that does not is not.
Complete == Back /\ Save

Incomplete == Back /\ UNCHANGED file

-----------------------------------------------------------------------------
(* The menu                                                                 *)

Resources(ctx) == {r \in DOMAIN iface.resource : Fits(iface.resource[r], ctx)}

\* Tasks of these names, each with one of its option lists.
Configured(names, options) ==
    {[i \in DOMAIN names |-> ConfigTask(names[i], list[i])] :
        list \in {l \in [DOMAIN names -> UNION {options[i] : i \in DOMAIN names}] :
                    \A i \in DOMAIN names : l[i] \in options[i]}}

\* The ways add_task may fill in the named tasks, one behind another.
NewTasks(ctx, names) ==
    Configured(names, [i \in DOMAIN names |-> Filled(iface, ctx, iface.task[names[i]].roots, "auto")])

\* With no task in interface.json add_task completes without adding any.
ChosenTasks(ctx) ==
    LET available == {n \in DOMAIN iface.task : Fits(iface.task[n], ctx)}
    IN IF DOMAIN iface.task = {} THEN {<<>>} ELSE BoundedSeq(available, TaskLimit) \ {<<>>}

\* iface.checked: the tasks with default_check, in the order of interface.json.
DefaultTasks(ctx) == Only(iface.checked, {n \in ToSet(iface.checked) : Fits(iface.task[n], ctx)})

\* interact_for_first_time_use; wherever it fails the program ends (Leave).
Setup ==
    /\ mode = "setup"
    /\ \E c \in DOMAIN iface.controller, r \in DOMAIN iface.resource :
        LET ctx == [controller |-> c, resource |-> r]
            defaults == DefaultTasks(ctx)
            Lists(l) == Filled(iface, ctx, LevelRoots(iface, ctx, l), "ask")
        IN /\ r \in Resources(ctx)
           /\ \E names \in IF defaults # <<>> THEN {defaults} ELSE ChosenTasks(ctx) :
              \E tasks \in NewTasks(ctx, names), g \in Lists("global"), rl \in Lists("resource"),
                 cl \in Lists("controller") :
                  cfg' = [Blank EXCEPT !.ctx = ctx, !.task = tasks,
                                       !.level = [global |-> g, resource |-> rl, controller |-> cl]]
    /\ Complete

\* The name changes first; the choice of a device may then fail.
SelectController ==
    /\ mode = "menu"
    /\ \E c \in DOMAIN iface.controller : cfg' = [cfg EXCEPT !.ctx.controller = c]
    /\ Complete \/ Incomplete

SelectResource ==
    /\ mode = "menu"
    /\ \E r \in Resources(cfg.ctx) : cfg' = [cfg EXCEPT !.ctx.resource = r]
    /\ Complete

AddTask ==
    /\ mode = "menu"
    /\ \E names \in ChosenTasks(cfg.ctx) :
        /\ Len(cfg.task) + Len(names) <= TaskLimit
        /\ \E tasks \in NewTasks(cfg.ctx, names) : cfg' = [cfg EXCEPT !.task = @ \o tasks]
    /\ Complete

\* Slip: the task is put in its new place and not taken out of the old one.
MoveTask_NotErased ==
    /\ mode = "menu"
    /\ \E from, to \in DOMAIN cfg.task : cfg' = [cfg EXCEPT !.task = InsertAt(@, to, @[from])]
    /\ Complete

MoveTask ==
    /\ mode = "menu"
    /\ \E from, to \in DOMAIN cfg.task :
        cfg' = [cfg EXCEPT !.task = InsertAt(RemoveAt(@, from), to, @[from])]
    /\ Complete

DeleteTask ==
    /\ mode = "menu"
    /\ \E gone \in (SUBSET DOMAIN cfg.task) \ {{}} :
        LET stay == Only([i \in DOMAIN cfg.task |-> i], DOMAIN cfg.task \ gone)
        IN cfg' = [cfg EXCEPT !.task = [i \in DOMAIN stay |-> @[stay[i]]]]
    /\ Complete

\* A preset task without options gets the defaults, one with options exactly
\* those (iface.preset holds them sorted by name, as the parser's map does);
\* check_configuration then goes over the result, and only its tasks are used.
ApplyPreset ==
    /\ mode = "menu"
    /\ \E p \in DOMAIN iface.preset :
        LET enabled == Only(iface.preset[p], {t \in ToSet(iface.preset[p]) : KnownTask(iface, t)})
            Lists(t) == IF t.option = <<>> THEN Filled(iface, cfg.ctx, iface.task[t.name].roots, "auto")
                        ELSE {Only(t.option, {e \in ToSet(t.option) : e.name \in DOMAIN iface.option})}
        IN \E tasks \in Configured([i \in DOMAIN enabled |-> enabled[i].name], [i \in DOMAIN enabled |-> Lists(enabled[i])]) :
               cfg' = [cfg EXCEPT !.task = CheckTasks(iface, [cfg EXCEPT !.task = tasks])]
    /\ Complete

-----------------------------------------------------------------------------
(* edit_task: saved when the user returns to the menu, which without a task *)
(* is at once                                                               *)

OpenEdit ==
    /\ mode = "menu"
    /\ UNCHANGED cfg
    /\ \/ cfg.task # <<>> /\ mode' = "edit" /\ UNCHANGED <<iface, file, elevated>>
       \/ cfg.task = <<>> /\ Complete

SetOptions(i, list) ==
    /\ cfg' = [cfg EXCEPT !.task[i].option = list]
    /\ UNCHANGED <<iface, mode, file, elevated>>

\* A task without any options is configured as a whole.
ConfigureTask ==
    /\ mode = "edit"
    /\ \E i \in DOMAIN cfg.task :
        /\ cfg.task[i].option = <<>>
        /\ KnownTask(iface, cfg.task[i])
        /\ \E list \in Filled(iface, cfg.ctx, iface.task[cfg.task[i].name].roots, "ask") : SetOptions(i, list)

EditOption ==
    /\ mode = "edit"
    /\ \E i \in DOMAIN cfg.task : \E j \in DOMAIN cfg.task[i].option :
        LET list == cfg.task[i].option IN
        \E new \in Trees(iface, cfg.ctx, "ask")[list[j].name] \ {<<>>} :
            SetOptions(i, Edited(iface, cfg.ctx, list, j, new))

CloseEdit ==
    /\ mode = "edit"
    /\ UNCHANGED cfg
    /\ Complete

-----------------------------------------------------------------------------
(* Running the tasks                                                        *)

\* check_and_elevate_if_needed in a process that is not an Administrator's.
NeedsElevation(I, ctx) == KnownController(I, ctx) /\ ctx.controller \in NeedsAdmin

\* Slip: the configuration is saved before its lists are completed.
Prepare_SavesFirst(I, c, run, done) ==
    /\ ~NeedsElevation(I, c.ctx)
    /\ \E p \in EnsureAll(I, c) :
        LET runs == p.ok /\ Generates(I, p.cfg) IN
        /\ mode' = IF runs THEN run ELSE done
        /\ cfg' = IF ~runs /\ done = "off" THEN Blank ELSE p.cfg
        /\ file' = c

\* The lists are completed and saved, which may fail; then the parameters are
\* generated.  done is where the program goes when it does not get to a run.
Prepare(I, c, run, done) ==
    /\ ~NeedsElevation(I, c.ctx)
    /\ \E p \in EnsureAll(I, c), written \in BOOLEAN :
        LET saved == p.ok /\ written
            runs  == saved /\ Generates(I, p.cfg)
        IN /\ mode' = IF runs THEN run ELSE done
           /\ cfg' = IF ~runs /\ done = "off" THEN Blank ELSE p.cfg
           /\ file' = IF saved THEN p.cfg ELSE file

\* "Run tasks"; the device may be asked for again before (check_validity).
Run ==
    /\ mode = "menu"
    /\ Prepare(iface, cfg, "running", "menu")
    /\ UNCHANGED <<iface, elevated>>

\* check_and_elevate_if_needed: save, which may fail, then start the program
\* again as Administrator, which the user may refuse.
RunElevated ==
    /\ mode = "menu"
    /\ NeedsElevation(iface, cfg.ctx)
    /\ \/ file' = cfg /\ elevated' \in {elevated, TRUE}
       \/ UNCHANGED <<file, elevated>>
    /\ UNCHANGED <<iface, mode, cfg>>

\* Runner::run has returned; with true the menu saves once more.
RunEnds ==
    /\ mode = "running"
    /\ UNCHANGED cfg
    /\ Complete \/ Incomplete

\* main with -d: load and run, without a setup and without the menu.
RunDirectly ==
    /\ mode = "off"
    /\ iface' \in Interfaces
    /\ LET c == Loaded(iface') IN
       \/ Prepare(iface', c, "once", "off")
       \/ /\ NeedsElevation(iface', c.ctx)
          /\ file' \in {c, file}
          /\ UNCHANGED <<mode, cfg>>
    /\ UNCHANGED elevated

Menu ==
    \/ SelectController \/ SelectResource \/ AddTask \/ MoveTask \/ DeleteTask \/ ApplyPreset
    \/ OpenEdit \/ ConfigureTask \/ EditOption \/ CloseEdit

Next == Start \/ Leave \/ Setup \/ Menu \/ Run \/ RunElevated \/ RunEnds \/ RunDirectly

Spec == Init /\ [][Next]_vars

-----------------------------------------------------------------------------
(* Properties.                                                              *)

TextsInUse == Texts \cup {Default}

IsEntry(e) ==
    /\ {e.name, e.value} \cup ToSet(e.values) \subseteq STRING
    /\ \A f \in DOMAIN e.inputs : e.inputs[f] \in TextsInUse

IsConfiguration(c) ==
    /\ DOMAIN c.level = Levels
    /\ \A l \in Levels : \A i \in DOMAIN c.level[l] : IsEntry(c.level[l][i])
    /\ Len(c.task) <= TaskLimit
    /\ \A t \in DOMAIN c.task : \A i \in DOMAIN c.task[t].option : IsEntry(c.task[t].option[i])
    /\ \A p \in DOMAIN c.pretask : \A i \in DOMAIN c.pretask[p] : IsEntry(c.pretask[p][i])

TypeOK ==
    /\ iface \in Interfaces
    /\ mode \in {"off", "setup", "menu", "edit", "running", "once"}
    /\ IsConfiguration(cfg)
    /\ file = NoFile \/ IsConfiguration(file)
    /\ elevated \in BOOLEAN
    /\ mode \in {"off", "setup"} => cfg = Blank

Running == mode \in {"running", "once"}

\* What runs is what could have been chosen: whatever updates, switches, edits
\* and aborted prompts came before, every active list that Runner's parameters
\* are made of has the effects of one that the prompts of the installed
\* interface.json produce, but for its texts: an option, its cases and children,
\* its counts and input fields are as the prompts leave them, while a text typed
\* before, given by a preset or taken as a default is not held against verify
\* again (interactor.cpp:289-336, 1835-1901, Configurator.cpp:572-665).
RunsForests ==
    Running =>
        \A n \in DOMAIN Places(iface, cfg) :
            LET place == Places(iface, cfg)[n]
                Choosable(list, roots) ==
                    Effects(iface, cfg.ctx, list) \in Filled(iface, cfg.ctx, roots, "unverified")
            IN CASE place.kind = "level"   -> Choosable(cfg.level[place.at], LevelRoots(iface, cfg.ctx, place.at))
                 [] place.kind = "task"    -> LET t == cfg.task[place.at]
                                              IN Choosable(t.option, iface.task[t.name].roots)
                 [] place.kind = "pretask" -> Choosable(cfg.pretask[place.at.id], place.at.roots)

\* A text that a prompt took, now or under an earlier interface.json, that a
\* preset brings, or that is the default.
Vouched(o, f, text) ==
    \/ text = Default
    \/ \E J \in Interfaces :
          \/ o \in DOMAIN J.option /\ f \in J.option[o].inputs /\ text \in J.option[o].verify[f]
          \/ \E p \in DOMAIN J.preset : \E t \in ToSet(J.preset[p]) : \E e \in ToSet(t.option) :
                 e.name = o /\ f \in DOMAIN e.inputs /\ e.inputs[f] = text

\* verify is asked at the prompt alone, and that is enough for this much: no
\* list that runs has a text nobody vouched for, one that each verify the user
\* ever met refuses and no preset brings.  Neither the check at a start, nor the
\* completion, nor an edit moves a text to another field or option
\* (interactor.cpp:1886-1901, 2664-2722, Parser.cpp:642-655).
TextsWereGiven ==
    Running =>
        \A n \in DOMAIN Places(iface, cfg) :
            LET place == Places(iface, cfg)[n]
                list == CASE place.kind = "level"   -> cfg.level[place.at]
                          [] place.kind = "task"    -> cfg.task[place.at].option
                          [] place.kind = "pretask" -> cfg.pretask[place.at.id]
            IN \A e \in ToSet(Effects(iface, cfg.ctx, list)) : \A f \in DOMAIN e.inputs : Vouched(e.name, f, e.inputs[f])

\* What is in the lists of a configuration, fields an input once had apart.
Meaning(I, c) ==
    LET Of(list) == [i \in DOMAIN list |->
                        IF list[i].name \in DOMAIN I.option THEN Read(I.option[list[i].name], list[i]) ELSE list[i]]
    IN [task    |-> [i \in DOMAIN c.task |-> ConfigTask(c.task[i].name, Of(c.task[i].option))],
        level   |-> [l \in Levels |-> Of(c.level[l])],
        pretask |-> [p \in DOMAIN c.pretask |-> Of(c.pretask[p])]]

\* What a run has saved, the next start keeps to the last choice, as long as
\* interface.json stays (interactor.cpp:316-318, Parser.cpp:561-692).
RunIsKept ==
    Running => file = cfg /\ Meaning(iface, CheckConfiguration(iface, file)) = Meaning(iface, file)

InactiveTasks(I, ctx, tasks) == Only(tasks, {t \in ToSet(tasks) : KnownTask(I, t) /\ ~ActiveTask(I, ctx, t)})

\* A task of another controller or resource, put aside in the configuration, is
\* neither checked away at a start nor completed by a run: its choices are there
\* when the user switches back (Parser.cpp:701-703, interactor.cpp:2736-2743).
KeepsInactive ==
    [][/\ Start /\ file # NoFile =>
              InactiveTasks(iface', file.ctx, cfg'.task) = InactiveTasks(iface', file.ctx, file.task)
       /\ Run => InactiveTasks(iface, cfg.ctx, cfg'.task) = InactiveTasks(iface, cfg.ctx, cfg.task)]_vars

\* Once all lists are completed there is nothing left that could keep
\* generate_runtime from starting an active task: the pretasks find every value
\* they need, wherever the lists came from (Configurator.cpp:443-475, 667-753).
Runnable ==
    mode = "menu" =>
        \A p \in EnsureAll(iface, cfg) : p.ok /\ HasWork(iface, p.cfg) => PretasksReady(iface, p.cfg)

\* interactor.cpp:217-218: "The interface has changed and incompatible
\* configurations have been deleted."  So while it has not changed, a start
\* deletes nothing.
OnlyUpdatesDelete ==
    mode = "off" /\ file # NoFile => CheckConfiguration(iface, file) = file

\* interactor.cpp:282: "Elevated instance has been started; caller should exit
\* current process."
ElevatedLeaves == [][elevated /\ mode = "menu" => mode' = "off"]_vars
=============================================================================
