----------------------------- MODULE OptionLaws -----------------------------
(***************************************************************************)
(* The operators of OptionTree against one another, behind the parser: for *)
(* every interface that ParseInterface accepts and that has the task T,    *)
(* over every list of at most MaxLength entries a config file may hold for *)
(* it: entries of options that exist and of one that does not, with cases  *)
(* that exist, that do not, and that are repeated, in any order.           *)
(***************************************************************************)
EXTENDS ParseInterface

CONSTANTS
    Controllers, MaxLength,
    Removed     \* the name of an option of an earlier interface.json

\* Of the literals too, for the provers.
ASSUME RemovedAssumption == {Removed, "gone", "x"} \subseteq STRING

VARIABLES ctx, list

vars == <<main, stage, data, at, state, calls, ctx, list>>

T == "task"

I == Parsed(data)

\* There is a task to fill in.
Ready == stage = "accepted" /\ T \in DOMAIN I.task

roots == I.task[T].roots

\* The entries a file may hold for an option.
Stored(o) ==
    LET opt == I.option[o] IN
    CASE IsChoice(opt)         -> {Entry(o, v, <<>>, NoInputs) : v \in ToSet(opt.cases) \cup {"gone"}}
      [] opt.kind = "checkbox" -> {Entry(o, NoValue, vs, NoInputs) : vs \in BoundedSeq(ToSet(opt.cases), 2) \cup {<<"gone">>}}
      [] opt.kind = "input"    -> UNION {{Entry(o, NoValue, <<>>, ins) : ins \in [fs -> Texts \cup {Default}]} : fs \in SUBSET opt.inputs}

Unknown == Entry(Removed, "x", <<>>, NoInputs)

\* What the list has for an option, stored or filled in.
Held(o, e) ==
    LET opt == I.option[o] IN
    /\ o \in DOMAIN I.option
    /\ CASE IsChoice(opt)         -> e = Entry(o, e.value, <<>>, NoInputs) /\ e.value \in ToSet(opt.cases) \cup {"gone"}
         [] opt.kind = "checkbox" -> e = Entry(o, NoValue, e.values, NoInputs) /\ e.values \in Seq(ToSet(opt.cases) \cup {"gone"})
         [] opt.kind = "input"    -> \E fs \in SUBSET opt.inputs : \E ins \in [fs -> Texts \cup {Default}] :
                                         e = Entry(o, NoValue, <<>>, ins)

\* The complete lists: what the prompts of this interface.json, or of one that
\* differs in verify only, may have put together.
Forests == Filled(I, ctx, roots, "unverified")

TypeOK ==
    /\ main \in Mains
    /\ stage \in {"import", "search", "accepted", "rejected"}
    /\ ctx \in [controller : Controllers, resource : {"official"}]
    /\ \A i \in DOMAIN list : list[i] = Unknown \/ Held(list[i].name, list[i])

Init ==
    /\ ParseInit
    /\ ctx \in [controller : Controllers, resource : {"official"}]
    /\ list = <<>>

\* What the menu may have put together.
Fill ==
    /\ Ready
    /\ list = <<>>
    /\ list' \in Forests
    /\ UNCHANGED <<parseVars, ctx>>

\* Whatever else a file may hold.
Extend ==
    /\ Ready
    /\ Len(list) < MaxLength
    /\ \E e \in {Unknown} \cup UNION {Stored(o) : o \in DOMAIN I.option} : list' = Append(list, e)
    /\ UNCHANGED <<parseVars, ctx>>

Next == (Parse /\ UNCHANGED <<ctx, list>>) \/ Fill \/ Extend

Spec == Init /\ [][Next]_vars

-----------------------------------------------------------------------------
Checked == CheckTask(I, ctx, T, list)

Outcomes(l) == {[out |-> p.out, ok |-> p.ok] : p \in Ensured(I, ctx, roots, l, "auto")}

\* check_task finds nothing more to remove in what it has left, although it
\* removes in two passes and cuts from one task option to the next
\* (Parser.cpp:717-768).
CheckSettles == Ready => CheckTask(I, ctx, T, Checked) = Checked

\* The recogniser accepts what the generator produces: what process_option can
\* store for a task is left alone by check_task (interactor.cpp:1909-1923,
\* Parser.cpp:156-198).
GeneratedIsAccepted == Ready /\ list \in Forests => Checked = list

\* A run completes whatever the check leaves to one of the complete lists, also
\* when the controller was switched in between: the options, cases, counts and
\* fields the prompts could have left.  Stored texts and defaults stay as they
\* are, without another look at verify (interactor.cpp:2664-2722, 1848-1851).
EnsureMakesForest ==
    Ready => \A c \in Controllers :
        LET there == [ctx EXCEPT !.controller = c] IN
        \A p \in Ensured(I, there, roots, Checked, "auto") : p.ok /\ p.out \in Filled(I, there, roots, "unverified")

\* A run changes nothing in a list that is complete already, unless an option
\* is there twice: the first entry of a name decides for all of them.
EnsureKeepsChoices ==
    (Ready /\ list \in Forests /\ \A i, j \in DOMAIN list : list[i].name = list[j].name => list[i] = list[j]) =>
        Outcomes(list) = {[out |-> list, ok |-> TRUE]}

\* With every option of a complete list a pretask can be given its values.
ForestIsSerializable == Ready => \A p \in Outcomes(list) : p.ok => Serializable(I, ctx, roots, p.out)

\* Answering one option of a complete list again leaves a complete list, however
\* its old subtree ended; what verify lets the prompt take is among the answers
\* (interactor.cpp:2213-2253).
EditKeepsForest ==
    Ready /\ list \in Forests =>
        \A i \in DOMAIN list : \A new \in Trees(I, ctx, "unverified")[list[i].name] :
            Edited(I, ctx, list, i, new) \in Forests
=============================================================================
