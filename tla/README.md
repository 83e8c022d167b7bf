# MaaPiCli in TLA+

TLA+ models of MaaPiCli, the command line client of the ProjectInterface protocol: what a run does with
its jobs and child processes, what the menu, the check at start and a run make of the configuration, which
device a run gets, how interface.json is put together and checked, and how the configuration gets to disk
and back. TLC checks them on small instances; TLAPS proves all but one of the safety results
for all sizes: any number of processes, fields, tasks, options and imports, lists of any length. Paths below are relative to the repository; line numbers are in
`PROJECT.json` (`map`, `hazards`, `findings`).

## 1. The system

| Part | Source | State | Operations |
|---|---|---|---|
| main, signals | `CLI/main.cpp` | - | load, then `-d` (run once) or the menu; SIGINT, SIGTERM: `exit(0)` |
| Interactor | `CLI/interactor.cpp` | `config_` (through Configurator), `input_aborted_` | first-time setup, nine menu actions, completion of options, elevation, run |
| Option lists | `CLI/interactor.cpp`, `Impl/Parser.cpp`, `Impl/Configurator.cpp` | flat lists in the configuration: global, resource, controller, one per task and pretask | prompt, check, complete, edit, serialise, apply |
| Configurator | `Impl/Configurator.cpp` | `data_` (interface.json), `config_`, `first_time_use_`, translations | load, check, save, generate_runtime |
| Parser | `Impl/Parser.cpp` | - | parse and merge interface.json, validate it, check a configuration against it |
| SecretStore | `Impl/SecretStore.cpp` | the user's master key file | encrypt, decrypt, create the key |
| Runner | `Impl/Runner.cpp` | handles, agent clients, child processes | run |
| Device selection | `CLI/interactor.cpp`, `Impl/Configurator.cpp`, `Impl/Runner.cpp` | `controller.type`, addresses, windows, sockets in `config_` | select_controller and its six dialogues, check_validity, the controller parameter, creating the controller |
| Console input | `CLI/input.cpp` | - | read_line, input, input_multi |
| MaaFramework, MaaToolkit, agents, pretasks | external | jobs, processes | settle, exit |

They interact like this. `main` loads: Configurator parses interface.json and maa_pi_config.json,
opens the passwords in it with SecretStore, and Parser deletes what interface.json does not know (any
more). Interactor then changes `config_` by menu actions; each action that completes is followed by a
save, each that does not leaves its changes in memory. "Run" completes all option lists, saves, generates
the parameters and calls Runner, which waits for jobs of MaaFramework and starts child processes. Several
processes may share one user directory; all processes of a user share the master key.

**What is hard here.** Most of the program is sequential, so the hazards are of two kinds. Concurrency
is confined to a run (one thread that waits for jobs and processes which settle when they like, and a
signal at any time) and to the files (several processes, no locks, crashes between system calls). The
other kind is a long sequence of legal actions: six pieces of code read the same flat option list, each
with its own idea of where a subtree ends, and between any two of them the user may switch the
controller, abort a prompt, leave, edit, apply a preset, or install another interface.json.

**What makes each part correct.**
- Runner: no task before pretasks, connection, bundles and agents; the hash is that of `resource.path`
  only; no agent process survives a run; `true` means that no task is pending; the run ends.
- Files: the master key is never replaced, nor a torn one completed by a process that finds it, what is on disk can be opened, a password is never written in
  the clear, the menu never sees a ciphertext; load and save behave as if there were no encryption.
- Option lists: what one part writes the others accept; the check settles; a completed list is a tree the
  prompts could have produced, and choices that are valid survive completion and edit. Whether a text matches its
  `verify` is asked at the prompt and never again, so of texts only less can be said: none is run that no prompt, preset or
  default has given.
- Session: whatever came before, a run gets such lists, what it saves is kept by the next start, tasks of
  other controllers are left alone.
- Device: a run gets everything its controller's methods need (the code has three holes here, named in section 2),
  no window handle of Windows of an earlier process, the Android device that was chosen or one the program cannot
  tell from it; what it was asked for, `-d` does not have to ask for again.
- interface.json: imports are merged in order, the last definition of an option counts; what is accepted
  has no cycle and no missing child, whichever file brought them in.

## 2. Modules

| Module | Models | Size of the instance |
|---|---|---|
| `RunContract` | what one call of `Runner::run` promises | abstract |
| `Runner` | `Runner::run`, step by step, with jobs, pretasks and agents beside it | 3 pretasks, 3 + 2 bundles, 3 agents, 3 tasks |
| `RunnerProofs` | theorems about `Runner` | any |
| `DataInduction` | induction over numbers, sets and lists, and recursive functions, for the proofs | any |
| `PlainStore` | load and save as if in the clear | abstract |
| `ConfigStore`, `MCConfigStore` | `Configurator::load`/`save` over `SecretStore` (OpenSSL variant) by several processes | 2 processes, 1 or 2 directories, 2 fields |
| `ConfigStoreProofs` | theorems about `ConfigStore` | any |
| `OptionTree` | the operators on option lists, pure | - |
| `OptionTreeProofs` | lemmas about them: what a prompt, a check, a completion may return | any |
| `ParseInterface` | `Parser::parse_interface`: imports, merge, validation with the search for cycles call by call | up to 2 imports |
| `ParseInterfaceProofs` | theorems about `ParseInterface` | any |
| `OptionLaws`, `MCOptionLaws` | the operators of `OptionTree` against one another, behind the parser | all lists of up to 4 entries; 64 graphs of options times 13 lists of imports |
| `OptionLawsProofs` | theorems about `OptionLaws` | any |
| `Interfaces` | options for the instances | 3 to 4 options in 2 or 3 levels |
| `Session`, `MCSession` | sessions of one user: start, setup, menu, edit, run, `-d`, elevation, leave | 2 tasks, 2 controllers, 2 resources |
| `SessionProofs` | theorems about `Session` | any |
| `Devices`, `MCDevices` | the device behind a controller: dialogues, check, serialisation, parameter, creation, `-d`, updates | 3 platforms, all 6 types, 2 windows, 3 Android devices of one name, two of them with one executable |
| `DevicesProofs` | theorems about `Devices` | any |

`ParseInterface` extends `OptionTree` and `OptionLaws` extends `ParseInterface`: the laws hold of what the
parser accepts. `Session` is built on `OptionTree`; it abstracts the inside of the file (`ConfigStore`) to the last
configuration saved, and the inside of a run (`Runner`) to its beginning and end, and the choice of a device to whether it succeeds; `Devices` is the other
half of the same program, with the tasks and options left out. The two share `controller.name`, the resource
and the points where the configuration is saved. No module uses RECURSIVE operators, only recursive functions,
so that all stay within the reach of the proof system.

### Runner

`pc` is the place in `run` (Runner.cpp:473-681), `at` the element of the loop it is in. Each action is
one stretch of code between two points where another thread or process can be seen: post, wait, spawn,
connect. `conn`, `bundle`, `task` are jobs, `pretask`, `child` processes; they settle by actions of their
own (`ConnectionSettles`, `BundleSettles`, `TaskSettles`, `PretaskExits`, `AgentExits`), bundles and tasks
in posting order, with any status. The code waits for the last id of a group only, and so does the model:
an earlier bundle that fails goes unnoticed. Failing returns go through `unwind`, `reap`, `destroy` in the
order of the scopes: agent children first, then the handles. `Interrupt` is `exit(0)` in the signal handler;
no destructor of `run` is executed, and `NoAgentOutlivesRun` excludes it by name.

`Contract` maps a run to `RunContract`: the sets of prerequisites met, of tasks started and ended, the
phase and the result. The contract knows no order among the prerequisites.

### ConfigStore

A configuration is the values of its input fields. Each system call another process can see is a step:
reading the file, reading the key for every field anew, `open(O_EXCL)`, `write` of the key, truncation,
`write` of the file. `Stop` is a process that dies (or leaves, or fails) between any two of them; `SaveFails` is a save that gives up and
returns to the menu with the configuration in memory intact, as one inside `Interactor::run` does
(`interactor.cpp:316-318`), and may be tried again.
`Unreadable` is a file that is missing, truncated or torn; `write` may leave one, because the stream is not
looked at again. A ciphertext opens with its key in its field and nowhere else. The parser reads the
file in one go, and one `<<` of a whole text is taken as one write: a mixture of two writers that
happens to parse is not modelled. Values with the prefix of another platform do not occur.

`Plain` maps it to `PlainStore`: the file as the key on disk opens it.

### ParseInterface

`stage` is the place in `parse_interface`, `at` the import that is next, `data` what has been merged. Each import
is a step (`ReadImport`); one that is missing or does not parse rejects the whole. The validation then goes
in the order of the code: references, groups and limits (`BeginValidation`, with `interface_version`), cycles, controllers (`EndSearch`). The search
is one step per call, per child and per return of `detect_option_cycle`: `calls` is its stack, `state` the map
`visit_states` it shares between all starting points, which come in any order (`std::unordered_map`).
`VerdictIsRight` compares its verdict with the transitive closure of the children. That JSON members have
the right types (`check_json`) is taken for granted; a file for which it fails is one that does not parse.
`FilesAssumption` says what that gives the rest: lists where `Types.h` has vectors, finitely many options of four
kinds. `ParseSpec` is the parser alone; `OptionLaws` has it as a part of its own steps.

### OptionTree, OptionLaws

An entry has the name of an option and a selection; lists are what Configuration::Option vectors are. The
prompts are `Trees` and `Filled` (every answer the user may give; the empty set is a failure), the check
is `CheckTask` (with `Subtrees`, `Kept`) and `CheckLevel`, completion is `Ensured` (with `Cleanup`), the
edit is `Edited`, the pretask's argument `Serializable`, and what a run reads of a list is `Effects`. Names
and texts are atoms; a text is one of `Texts` or the default. `verify` is the set of texts a field accepts. A prompt
(`how = "ask"`) takes nothing else, the default behind an empty answer included; completion without a question
(`"auto"`) takes the default unverified and leaves stored texts alone, and the check at start does not look at
texts. So after an update of `verify`, or with a preset or a default that fails it, a run gets a list that no prompt of the
installed interface.json gives. `EnsureMakesForest` and `RunsForests` therefore compare with the trees of the prompts
*without* `verify` (`how = "unverified"`): options, cases, counts, children and fields are as the prompts leave them, texts may
be any. What holds of texts is `TextsWereGiven` in `Session`: each one that runs was accepted by the `verify` of its own field in some
interface.json, or is of a preset for that field, or is the default; no edit, check or completion moves a text elsewhere.

`OptionLaws` fills in the task of every interface the parser accepts. It visits every list of at most `MaxLength` entries, with unknown options, unknown cases,
repeated values and missing input fields, and every list the prompts can produce, extended further. `Held` is what such a
list may contain: entries of the options there are, shaped like their option, or of `Removed`, an option of an earlier interface.json.

### Session

`cfg` is `config_`, `file` the configuration on disk, `mode` where the program is. A menu action is one
step, from its choice to the save behind it: the program is sequential and nothing else looks at `config_`.
Actions that may fail after they changed something (`SelectController`; `Prepare`, whose completion may
stop half-way, and whose save may fail) have both outcomes, the file unchanged in the second. The save
behind any other action ends the program when it fails: in the model, `Leave` instead of that action. `edit_task` is several steps,
because its loop is left by a save or by an abort. `Leave` is possible anywhere: exit, end of input, a signal.
`Start` and `RunDirectly` read any of `Interfaces`: an update happens while the program is off. `SessionAssumption` asks
of each that it has the types of `Types.h`, keys and names included (`IsInterface`), and was accepted by the parser
(`ValidInterface`, which `ParseInterface` proves of what it accepts). What the parser does not look at and a theorem
needs is a hypothesis of that theorem: `Prompts`, `Limited`, `PretasksStay` (section 5).

### Devices

`cfg` and `file` are the parts of the configuration about devices, `cfg.type` the copy of the type that
`check_configuration` and `select_controller` keep. A dialogue is an operator that returns its outcomes: the
configuration it leaves, whether it returned true, and whether the input ended in it (`input_aborted_`); so a
dialogue that ends half-way leaves what it had assigned by then. `SelectController`, `SelectAdb`, ..., `CheckValidity`,
`Parameter` and `Created` follow the functions of the code; `Persistent` is what MEO_JSONIZATION lists. The lists of
windows, devices and sockets may be different at every call. `Run` is `Interactor::run` up to the pretasks: the check,
the save, `generate_runtime`, or any failing return between them; `CreateController` is `reconfig_adb` and the
creation. `seen`, `kept` and `adb.device` are known to the model only: the windows found by this process, the macOS window
in the file it started from, the device the user meant.

Three holes in the code are in the model, and the properties name them:
- `check_validity` has no case for Adb (`interactor.cpp:2356-2468`) and `generate_runtime` does not look at the path and the address
  (`Configurator.cpp:311-320`). An update that makes a configured controller an Android one is run with neither
  (`NeverAsked`), and an empty line typed in for one is taken as it is (`TypedEmpty`). `RunHasDevice` lets both through, and the runs of finding 5
  (`Stale`), and nothing else: a device with a name but without a path or an address, or a part of one left by a dialogue that
  ended, must not run.
- `macos.window_id` comes from a list of windows but is saved (`Types.h:411-418`) and accepted from the file as long as it has
  a title (`interactor.cpp:2375`). So a macOS run may get a window of an earlier process; `HandlesAreFresh` lets through exactly
  the one in the file this process started from. The handles of Windows (Win32, Gamepad) are not saved, and a run gets only one found
  by this process.
- Two devices with one name and one executable are the same to `reconfig_adb`, which takes the first in the list
  (`Runner.cpp:382`). `ChosenDeviceRuns` promises the chosen device or such a twin; the instance has twins.

`Update` replaces interface.json on one platform, `Leave` is an exit, the end of input or a signal.

## 3. Runs

| Run | Shows | Bounds |
|---|---|---|
| `runner` | `StartGate`, `HashOfPrimary`, `NoAgentOutlivesRun`, `SuccessIsComplete`, the refinement `KeepsContract`, and `RunEnds`: no wait of a run lasts for ever, over every interleaving, failure and interrupt | three of each, so that loops have a first, a middle and a last element, and a group has earlier bundles that may fail unnoticed; fairness below |
| `config_store` | key, ciphertexts, bare passwords, `NeverRefused`, `MenuIsClear`, and the refinement `IsPlainStore`, for two processes on one directory | two fields: one may be a password and the other not, the context of one is wrong for the other |
| `config_update` | the same safety for two directories that share the key while password flags come and go | one field, any flags |
| `config_legacy` | *violation*: finding 1 | one process |
| `option_laws` | `VerdictIsRight`, `MergesInOrder`, and six laws about option lists | every graph of children of two options and a third from an import, up to two of three imports (one closes a cycle, one is missing); twelve files with one thing wrong, or nearly, elsewhere; lists of 4 entries: the longest list the interface can produce for its two task options; three levels, a child with limits, a child of one controller only |
| `option_shared` | *violation*: finding 3 | two options with a common child |
| `session` | `RunsForests`, `RunIsKept`, `Runnable`, `KeepsInactive` for one interface.json | two tasks in the list, so that one can be inactive beside one that runs; options of both controllers, which share one list, and of a resource; a preset whose child option comes before its parent |
| `session_update` | the first three and `TextsWereGiven` while interface.json is replaced between sessions, back and forth; one controller needs elevation | three interface.json files; one task, options of three levels that change kind, cases, children, limits, fields and what a field accepts; a resource and a controller that go and come back |
| `session_switch` | *violation*: finding 4 | |
| `session_elevated` | *violation*: finding 2 | |
| `devices` | `RunHasDevice`, `HandlesAreFresh`, `ChosenDeviceRuns`, `UnattendedAfterRun` | 15 setups: types the platform has and lacks, a Linux controller for each method, one whose methods an update changes, a resource that is renamed and back; one window without a title, one regular expression that is invalid; two of a thing where one could be mistaken for the other, and twins where it must be; a controller an update makes an Android one |
| `devices_stale` | *violation*: finding 5 | one controller |

`RunIsKept` compares what entries mean: completion leaves an input field that interface.json no longer has,
and the next check removes it. `EnsureKeepsChoices` excludes lists in which entries of one name differ:
there the first entry decides for all. `RunHasDevice` and `UnattendedAfterRun` except the runs of finding 5, where
`controller.type` is stale (`Stale`); the other exceptions of `Devices` are in section 2, and the run reaches each of them. `UnattendedAfterRun` is about controllers whose device can be saved: not a Win32 window,
nor a macOS window without a title, which the check asks for at every start; the window of a gamepad, which is
optional, is lost. `HandlesAreFresh` allows the window of the controller chosen before, which a run gets when the
window of the new one was not found: the code clears nothing. Deadlock is checked in `config_*`, `session*` and `devices*`, where something
can always happen; a run ends, the parser ends, and `OptionLaws` ends with its longest lists.

**Fairness** (`Runner!FairSpec`, run `runner`): the calling thread is scheduled (`WF` of its steps); MaaFramework settles
every job that was posted; a pretask exits; an agent that was signalled exits. None of these is
promised by Runner.cpp itself: `waitpid` and the job waits have no time limit, so a run lasts exactly as
long as they do. An agent is not assumed to exit by itself, and MaaAgentClientConnect is assumed to return.
Nothing else has a liveness property: in the menu the user decides.

## 4. Findings

1. *A bare value is refused once its field is a password* (`config_legacy`). `Impl/SecretStore.h:12-14`
   announces legacy plaintext; `SecretStore::decrypt` fails on it and `load` then refuses to start.
2. *The starter of the elevated instance stays* (`session_elevated`). The comment at `interactor.cpp:282`
   wants the caller to exit; the menu goes on and both processes save the same file.
3. *Editing an option with a shared child leaves part of the old subtree* (`option_shared`). The end of
   the subtree is found through the first entry of each name (`interactor.cpp:2231`), against the comment at 2214.
4. *Switching the controller counts as a changed interface* (`session_switch`). The check demands the
   children that apply now, deletes choices, and tells the user that the interface has changed
   (`interactor.cpp:217`).
5. *A device is not asked for once its type is stale* (`devices_stale`). A resource that is gone ends the check
   before `controller.type` is set (`Parser.cpp:582`); choosing a resource does not set it either. The check before a run
   takes the controller for one of Adb, while the run is created with the real type: a Linux controller without the dimensions
   `README.md:60` says are prompted for, a Win32 one without its window.

## 5. Proofs

**Assumptions on the constants.** Each is named in the module that declares the constant, and TLC evaluates it.

| Assumption | Says | Because |
|---|---|---|
| `RunnerAssumption` | counts are natural numbers | they are sizes of vectors |
| `ConfigStoreAssumption`, `UnreadableAssumption` | a process has a directory; model values differ | - |
| `DevicesAssumption` | a listed Android device has a name, a path and an address, and not the name of a typed one; two may share name and path | MaaToolkit's lists; a typed device is named address-path (`interactor.cpp:832`) |
| `SetupsAssumption` | controllers have one of the six types | `Types.h:70-79` |
| `FilesAssumption` | what a file that parses has: lists, options of four kinds | the C++ types |
| `SessionAssumption` | interfaces have these types too, names are strings, and they passed the parser | the C++ types; `VerdictIsRight` |
| `RemovedAssumption`, `NoValueAssumption` | the literals that stand for names and for no value are strings | TLC knows; the provers have to be told |

Some theorems hold only of interfaces with a property the parser does not ask for. There it is a hypothesis of
the theorem, and an `ASSUME` of the MC module has TLC check that the instances satisfy it.

| Hypothesis | Says | Of | Without it |
|---|---|---|---|
| `Prompts` | every option can be asked for (a switch has two cases, a select and a checkbox one, no case name occurs twice); pretasks of one identifier have the same options; the entries of a preset's lists are shaped like stored ones and repeat no value | `WhatRunsCanBeChosen`, `Session`'s `TypeCorrect`, `RunsAreKept` | a switch with one case is kept when it is stored and cannot be prompted for; two pretasks overwrite each other's list; what a preset repeats stays in a task that does not apply, since `check_task` passes over it |
| `Limited` | ticked tasks and presets are no longer than `TaskLimit` | `Session`'s `TypeCorrect` | `TaskLimit` bounds what the menu may add, not what interface.json brings |
| `PretasksStay` | an update keeps the pretasks, and either the options too or each run completes the pretasks' lists | `RunsAreKept` | an update that takes the resource or the controller in use ends `check_configuration` before the pretasks' lists: a run saves stale ones, which the next start removes |
| `Askable` | the options can be asked for, none is called `Removed`, the task applies | `CompletionMakesForest` | as under `Prompts`: an option of one case, and repeated values in a task that `check_task` passes over |
| `OnceEach` | no option has two entries in the list that is edited | `EditsKeepForests` | finding 3 |

`InstancesPrompt` (`MCSession`) and `InstancesAsk` (`MCOptionLaws`) are these checks.

**Runner** (`RunnerProofs`). `TypeCorrect`, `TasksBehindGate`, `HashIsOfPrimary`, `ChildrenReaped`, `TrueIsComplete` and
`Refinement`: `Runner` implements `RunContract`. The invariants are not inductive by themselves. `StartGate`, for
example, speaks of task jobs only, while what makes it true is where the thread is: that it cannot reach `post` without
having passed each wait. `IInv` adds, per kind of job or process, what holds at each `pc`: which elements of the loop are
done, that handles exist between two places, what the connection is known to be, and which result each place can
have. `ChildrenReaped` follows because the reaping loop goes through every agent whose child was started before the
handles are destroyed. `Refinement` takes one lemma per action that the contract can see.

**ConfigStore** (`ConfigStoreProofs`). For any number of processes, directories and fields: `TypeCorrect`,
`DecryptableAlways`, `KeyStays` (a complete key stays; a torn one is completed only by the process that created
the file and stands before its write), `PasswordsSealed`, and `StoreIsPlain`, the refinement of `PlainStore`. `Decryptable` needs
three facts more: whoever stands between creating and writing the key is alone there (`KeyInv`), every ciphertext in
memory opens as well as those on disk (`CipherInv`), and the two walks over the fields leave behind them what they
should (`Passwords`, `CopyAgrees`). `StartsAreNotRefused` and `MenusAreClear` have the hypothesis `~InterfaceMayChange`:
when an update moves password flags they are false, which is finding 1. They rest on a second invariant, that a process and the
file of its directory agree on which fields are passwords (`StableInv`).

**Devices** (`DevicesProofs`). For any setups and devices: `TypeCorrect`, `HandlesStayFresh`, `ChosenRuns`, `RunsHaveDevices`,
`RunsRepeat`. Each dialogue is shown to return configurations that belong together (`TypeAgrees`, `Identified`), with
handles of windows it has seen. The invariant then says that the file never has a handle or a type, that a parameter
is that of the configuration just checked and saved, and that what is created was made of it and of one listing. `RunsHaveDevices` rests on an Android device being
whole, typed or absent in every configuration that is saved or run (`AdbRuns`), since nothing checks it before a run; `ChosenRuns` holds of any
devices, twins included; `HandlesStayFresh` says of macOS what the property says.

**ParseInterface** (`ParseInterfaceProofs`). `VerdictsAreRight`: the search accepts exactly the interfaces without a
cycle and without a missing child, whatever order it starts in. That what it accepts has no cycle needs no paths: in every
set of options that are done there is one that is nobody's child within the set (`DoneInv`), so no option is
among its own descendants. That it rejects rightly follows the stack: each call's option is a child of
the one below it, so meeting an option that is entered closes a path (`StackInv`); the model's `Descendants` is a closure
by levels, and a path is no longer than there are options. `ImportsMergeInOrder`: after each import,
appended lists are the concatenation of the files read, the last file that has an option defines it,
and `global` and `group` have their first occurrences in order.

**Option lists** (`OptionTreeProofs`, `OptionLawsProofs`). The operators are recursive functions over the options. That
these have a value at all is shown once (`Fixpoint` in `DataInduction`: each value depends on options of a lower
rank only; the rank of an option is the number of its descendants, which falls towards its children where
options end). Induction is over sets of numbers, since a theorem with an operator for a parameter cannot be used. On this rest:
- `ImplementsParser`: `OptionLaws` implements `ParseSpec`, so that `VerdictIsRight` and `MergesInOrder` hold of it;
- `CompletedSerializes`: `ForestIsSerializable` for lists of any length. A list is *complete* when every entry selects cases that
  exist and every child of these that applies has an entry somewhere in the list. What a prompt produces is
  complete (`TreesComplete`), the walk of the completion keeps what it has finished (`WalkCompletes`), so its result is complete
  and has the roots (`EnsuredCompletes`); and a complete list gives each option of a pretask its value (`CompleteSerializes`);
- `TypeCorrect`: whatever is filled in or stored is shaped like its option. An entry is *sound* when no value occurs
  twice in it and its inputs are typed or defaults; prompts make sound entries, and the checks and the edit
  keep them. This is the invariant `Session` needs of everything in memory and in the file;
- `CompletionMakesForest`: `EnsureMakesForest`, up to `verify`. What the prompts can produce is the least family of trees closed under
  "an entry, then the trees of its children", so a claim about all of them is one about a family that is closed in
  this way (`Bears`, `TreesBorne`). `EnsuredReads` goes along the walk of the completion with it: entry by entry, what
  is read of the completed list is an answer followed by the trees of its children;
- `RunsKeepChoices`: `EnsureKeepsChoices`. On a complete list in which no option has two different entries the walk finds
  everything it looks for, and the cleanup has nothing to remove (`EnsuredStays`);
- `ChecksSettle` and `ChecksAcceptAnswers`: `CheckSettles` and `GeneratedIsAccepted`. What `check_task` leaves is *chained*: it
  is cut into segments, each a subtree of a root, and the end of each is computed from the entries of that segment alone
  (`Chained`, `SubtreesAlike`). Checking a chained list removes nothing (`ChainIsKept`), what a check leaves is chained
  (`KeptChains`), and so is what the prompts produce (`FilledChains`, by the same growth as above: `SubtreesGrow`);
- `EditsKeepForests`: `EditKeepsForest` for lists without an option twice. In such a list the first entry of a name is the only
  one, so the old subtree ends where it was appended (`TreesCut`); the edit then replaces one tree by another (`EditedFills`).

**Session** (`SessionProofs`). For any interface.json files, any configurations and any length of a session:
- `InactiveTasksStay` (`KeepsInactive`): the check at start leaves alone a task that does not apply, and so does each
  place the completion goes through; the order stays because both work position by position. The invariant it needs is
  that memory and file hold lists of tasks (`HoldsTasks`).
- `RunnableAlways` (`Runnable`): every run can generate its parameters. Each pretask's list is complete once its own
  place was visited, and no later place makes it incomplete. The hypothesis `Apart` (pretasks with one identifier have the same
  options) is necessary: without it the second pretask replaces the first one's list (`interactor.cpp:2775`, a hazard).
- `WhatRunsCanBeChosen` (`RunsForests`): what is run, the prompts could have put together, up to `verify`. All lists in memory and in the file are
  sound (`HoldsSound`): the start drops repeated values, the menu appends prompted lists, presets bring sound ones. Completion then makes each list one that reads as a
  forest (`EnsuredReads`), and the places behind it leave it so (`RunsRead`).
- `TypeCorrect` (`TypeOK`): with `HoldsSound`, that the task list is within its bound (`HoldsWithin`) and that what is not
  off has a configuration of known tasks (`HoldsMode`).
- `RunsAreKept` (`RunIsKept`): whatever runs is saved (`RunsSaved`), and checking it again under the same interface keeps every choice. A completed list is,
  up to fields that interface.json no longer has, a list the prompts could have filled in (`AsFilled`), and
  such a list the check of a task leaves alone (`AsFilledIsKept`, from the chains above); the lists of the levels and of
  pretasks are checked entry by entry, and a completed list has only entries that pass (`LevelLasts`). Two things
  may stand in a configuration that no run completes: tasks, which the menu and the start keep known, and lists of pretasks that do not apply now, which
  stay what a check has left (`HoldsStays`).

**Only model-checked**, and why:
- `RunEnds`: liveness.
- `TextsWereGiven`: it needs an invariant over every text in memory and in the file, along all the operators on lists.
- `EnsureMakesForest` and `EditKeepsForest` without their hypotheses: false, see the table; the runs check them where the
  hypotheses hold, and `option_shared` where `OnceEach` does not.

## 6. Not modelled

- The contents of pipeline overrides, environment variables (those set for one run stay set for the next),
  translations, texts.
- Console input (`input.cpp`): it parses a line and keeps nothing. What it refuses is asked for again, so every prompt
  of the models is a choice among the answers it accepts, or the end of the input.
- The screenshot and input methods of Windows and macOS: names, with defaults, that decide nothing else here;
  what `select_macos` asks about them is saved and never used. The search for a PipeWire stream is a creation that may fail.
- What a `verify` pattern is: a set of texts stands for it. The JSON types of members (`check_json`). No instance has an interface.json without tasks.
- Pretasks with one identifier: two without a name that run the same program. `Session` has the list they share
  (`ActivePretasks`, `EnsurePlace`); the second completion replaces the first one's entries and no run
  can be generated. The instances have one pretask.
- DPAPI and Keychain. On macOS two entries of one context share a Keychain item.
- Two processes in `Session` and `Devices`; `ConfigStore` has them.
- A preset's options of the wrong JSON type; groups and settings beyond their validation, hotkeys, which the program
  does not act on.
- The tests, the build and the packaging.

## 7. Plan

Done, in this order: `RunContract`, `Runner`, `RunnerProofs`; `PlainStore`, `ConfigStore`; `OptionTree`,
`OptionLaws`, `Session`; `Devices`; `ParseInterface` with `OptionLaws` behind it; the proofs about `ConfigStore`,
`Devices`, `ParseInterface`, the completion of option lists, and `Session`; last, the proofs about where subtrees
end, what an edit and a check leave, and what `Session` runs and saves.

Open:
1. Two instances of `Session`'s process on one file, joined with the steps of `ConfigStore`: what a run saves is then
   kept until the other process saves, and `RunIsKept` has to say so.
2. Weaker hypotheses: `PretasksStay` excludes more updates than those that end the check early, and `OnceEach` excludes
   lists in which an option occurs twice with one and the same subtree.
