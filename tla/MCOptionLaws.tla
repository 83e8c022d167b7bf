---------------------------- MODULE MCOptionLaws ----------------------------
(***************************************************************************)
(* OptionLaws over one task of the interfaces in Interfaces, and over      *)
(* smaller files without that task for the parser: every graph of two      *)
(* options and a third that imports may define, with every order of up to  *)
(* two imports.                                                            *)
(***************************************************************************)
EXTENDS OptionLaws, Interfaces

Phone == [type |-> "Adb", display |-> [short |-> 720]]

File(tasks, options, global) ==
    [task |-> tasks, option |-> options, global |-> global, group |-> <<>>, pretask |-> <<>>,
     preset |-> <<>>, setting |-> <<>>]

Main(file, imports) == [version |-> 2, controller |-> <<Phone>>, import |-> imports] @@ file

Task(name, names) == [name |-> name, group |-> <<>>] @@ Roots(names, Everywhere)

\* The task's options are spread over two files; one of them is replaced.
NestedMain ==
    Main(File(<<Task(T, <<"mode", "loud">>)>>, [mode |-> Nested.mode, areas |-> Shared.areas], <<>>), <<"rest">>)
Rest == File(<<Task(T, <<>>)>>, [areas |-> Nested.areas, login |-> Nested.login, loud |-> Nested.loud], <<"loud">>)

SharedMain == Main(File(<<Task(T, <<"mode", "extra">>)>>, Shared, <<>>), <<>>)

\* An option with a case for every child.
Parent(children) == LET all == SetToSeq(children) IN Select(all, [c \in children |-> <<c>>], <<>>)

Graphs == {[a |-> Parent(x), b |-> Parent(y)] : x, y \in SUBSET {"a", "b", "c"}}

GraphMains ==
    {Main(File(<<Task("first", <<"a">>)>>, options, <<"b">>), imports) :
        options \in Graphs, imports \in BoundedSeq({"leaf", "back", "absent"}, 2)}

\* Each of these imports defines c, the second one b as well.
Leaf3 == File(<<Task("second", <<"c">>)>>, [c |-> Parent({})], <<"c", "b">>)
Back  == File(<<>>, [b |-> Parent({}), c |-> Parent({"a"})], <<"c", "c", "a">>)

\* A checkbox that wants a case, with a list of defaults or without.
Wants(listed) == [Checkbox(<<"north", "south">>, Leaf(<<>>), <<>>, 1, 2) EXCEPT !.list = listed]

One == Main(File(<<Task("first", <<"a">>)>>, [a |-> Parent({})], <<>>), <<>>)

With(controller) == [One EXCEPT !.controller = <<controller>>]

Linux(screencap, source) ==
    [type |-> "Linux", display |-> [expand |-> <<1280, 720>>], linux |-> [screencap |-> screencap, input |-> "", source |-> source]]

\* What validate_interface looks at apart from options.
OtherMains ==
    {With(Linux("PipeWire", "Portal")), With(Linux("PipeWire", "portal")), With(Linux("X11", "Gamescope")),
     With([type |-> "WlRoots", display |-> <<>>, wlroots |-> NoLinux]),
     With([Phone EXCEPT !.display = [expand |-> <<0, 720>>]]),
     With([Phone EXCEPT !.display = [short |-> 720, raw |-> TRUE]]),
     With([Phone EXCEPT !.type = "Invalid"]),
     [One EXCEPT !.version = 1],
     [One EXCEPT !.option = [a |-> Wants(FALSE)]], [One EXCEPT !.option = [a |-> Wants(TRUE)]],
     [One EXCEPT !.option = [a |-> [Parent({}) EXCEPT !.list = TRUE, !.default = <<"north">>]]],
     [One EXCEPT !.pretask = <<[exec |-> ""] @@ Roots(<<>>, Everywhere)>>],
     [One EXCEPT !.pretask = <<[exec |-> "tool"] @@ Roots(<<"b">>, Everywhere)>>],
     [One EXCEPT !.setting = <<Roots(<<"b">>, Everywhere)>>],
     [One EXCEPT !.group = <<"g", "g">>, !.task = <<[Task("first", <<>>) EXCEPT !.group = <<"g">>]>>],
     [One EXCEPT !.task = <<[Task("first", <<>>) EXCEPT !.group = <<"g">>]>>]}

SomeMains == {NestedMain} \cup GraphMains \cup OtherMains
OneMain == {SharedMain}

Imports == [rest |-> Rest, leaf |-> Leaf3, back |-> Back]

\* What CompletionMakesForest (OptionLawsProofs) asks of the interfaces whose
\* task is filled in.
ASSUME InstancesAsk == \A f \in {NestedMain, Rest, SharedMain} : \A o \in DOMAIN f.option : Asks(f.option[o]) /\ o # Removed
=============================================================================
