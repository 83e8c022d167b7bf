----------------------------- MODULE Interfaces -----------------------------
(***************************************************************************)
(* interface.json files for the instances: one option of each kind, nested *)
(* over three levels and limited to a controller, with and without an      *)
(* option that two others share as a child.                                *)
(***************************************************************************)
EXTENDS OptionTree

Everywhere == {}   \* an absent controller or resource list

\* Defaults are of the sort the kind calls for.
Opt(kind, cases, child, default, min, max, verify, controllers) ==
    [kind |-> kind, cases |-> cases, child |-> child, default |-> default, list |-> kind = "checkbox",
     min |-> min, max |-> max, inputs |-> DOMAIN verify, verify |-> verify,
     controllers |-> controllers, resources |-> Everywhere]

NoChild == [c \in {} |-> <<>>]
NoFields == [f \in {} |-> {}]

Leaf(cases) == [c \in ToSet(cases) |-> <<>>]

Select(cases, child, default) ==
    Opt("select", cases, child @@ Leaf(cases), default, 0, Unlimited, NoFields, Everywhere)

Switch(default) == Opt("switch", <<"Yes", "No">>, Leaf(<<"Yes", "No">>), default, 0, Unlimited, NoFields, Everywhere)

Checkbox(cases, child, default, min, max) ==
    Opt("checkbox", cases, child @@ Leaf(cases), default, min, max, NoFields, Everywhere)

\* verify: what each field accepts; none of them takes the text "odd".
Input(verify) == Opt("input", <<>>, NoChild, <<>>, 0, Unlimited, verify, Everywhere)

Usual == {"typed", Default}

On(opt, controllers) == [opt EXCEPT !.controllers = controllers]

Roots(roots, controllers) == [roots |-> roots, controllers |-> controllers, resources |-> Everywhere]

\* Options by name, in the task's order.
Nested ==
    [mode  |-> Select(<<"fast", "full">>, "full" :> <<"areas">>, <<"full">>),
     areas |-> Checkbox(<<"north", "south">>, "north" :> <<"login">>, <<"north">>, 1, Unlimited),
     login |-> On(Input([user |-> {"typed"}]), {"adb"}),
     loud  |-> On(Switch(<<>>), {"win32"})]

\* Two levels, each with a limit of its own.
Small ==
    [mode  |-> Select(<<"fast", "full">>, "full" :> <<"login">>, <<"full">>),
     login |-> On(Input([user |-> Usual]), {"adb"}),
     loud  |-> On(Switch(<<>>), {"win32"})]

\* Both options of the task have the same child, which has one of its own.
Shared ==
    [mode  |-> Select(<<"fast", "full">>, "full" :> <<"areas">>, <<"full">>),
     extra |-> Select(<<"none", "all">>, "all" :> <<"areas">>, <<"all">>),
     areas |-> Select(<<"north", "south">>, "north" :> <<"login">>, <<"north">>),
     login |-> Input([user |-> Usual])]

\* What an update makes of Nested: an option changes its kind, a case and a
\* child option go, a checkbox gets a limit, an input a second field, and the
\* texts its first one took before are refused.
Updated ==
    [mode  |-> Select(<<"full", "slow">>, "full" :> <<"areas">>, <<"slow">>),
     areas |-> Checkbox(<<"north", "south">>, "south" :> <<"login">>, <<>>, 0, 1),
     login |-> Input([user |-> {Default}, token |-> Usual]),
     loud  |-> On(Input([user |-> Usual]), {"win32"})]
=============================================================================
