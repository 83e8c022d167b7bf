----------------------------- MODULE MCSession -----------------------------
(***************************************************************************)
(* Session with the interface.json files of Interfaces: a task for both    *)
(* controllers and one for win32 only, options of the global level and of  *)
(* a pretask, a preset.                                                    *)
(***************************************************************************)
EXTENDS Session, Interfaces

\* In a sorted map this child option is before its parent.
Typed == Entry("login", NoValue, <<>>, [f \in {"user"} |-> "typed"])

Resource(path, controllers) == [path |-> path] @@ Roots(<<>>, controllers)

Iface(options, global) ==
    [option     |-> options,
     controller |-> [adb |-> Roots(<<>>, Everywhere), win32 |-> Roots(<<>>, Everywhere)],
     resource   |-> [official |-> Resource(<<"base">>, Everywhere), lite |-> Resource(<<"base", "lite">>, {"adb"})],
     task       |-> [daily |-> Roots(<<"mode">>, Everywhere), farm |-> Roots(<<"loud">>, {"win32"})],
     checked    |-> <<"farm">>,
     global     |-> global,
     pretask    |-> <<[id |-> "prepare"] @@ Roots(<<"login">>, Everywhere)>>,
     preset     |-> [quick |-> <<ConfigTask("daily", <<Entry("mode", "fast", <<>>, NoInputs)>>)>>,
                     typed |-> <<ConfigTask("daily", <<Typed, Entry("mode", "full", <<>>, NoInputs)>>)>>,
                     usual |-> <<ConfigTask("daily", <<>>)>>]]

Original == Iface(Nested, <<"loud">>)
Update   == Iface(Updated, <<"loud">>)

\* The resource lite and the controller win32 are gone.
Reduced ==
    [Iface(Small, <<"mode">>) EXCEPT !.controller = [adb |-> Roots(<<>>, Everywhere)],
                                     !.resource = [official |-> Resource(<<"base">>, Everywhere)]]

\* One list serves the options of all controllers, another those of all resources.
Levelled ==
    [Iface(Small, <<>>) EXCEPT !.controller["win32"].roots = <<"loud">>,
                               !.controller["adb"].roots = <<"login">>,
                               !.resource["lite"].roots = <<"login">>,
                               !.resource["lite"].path = <<>>]

OneInterface == {Levelled}
Updates == {Original, Update, Reduced}

\* What WhatRunsCanBeChosen, TypeCorrect and RunsAreKept (SessionProofs) ask of
\* the interfaces.
ASSUME InstancesPrompt == PretasksStay /\ \A J \in Interfaces : Prompts(J) /\ Limited(J)
=============================================================================
