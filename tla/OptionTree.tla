----------------------------- MODULE OptionTree -----------------------------
(***************************************************************************)
(* The option lists of a configuration, and what the menu, the check at    *)
(* start and a run make of them (CLI/interactor.cpp, Impl/Parser.cpp).     *)
(*                                                                         *)
(* interface.json describes a forest: an option has cases, a case has      *)
(* child options.  The configuration stores the chosen part of it as a     *)
(* flat list: an option, then the subtrees of its selected cases.  Nothing *)
(* in the list says where a subtree ends.                                  *)
(*                                                                         *)
(* I is an interface, ctx the chosen controller and resource, list a list  *)
(* of entries.  An operator that returns a set allows what the user may    *)
(* answer; the empty set is a failure.                                     *)
(***************************************************************************)
EXTENDS Integers, Sequences, FiniteSets, SequencesExt

CONSTANT Texts    \* what a user may type into an input field

Unlimited == -1   \* a checkbox without max_count

Default == "default"   \* the default of every input field

\* Configuration::Option: value for select and switch, values for checkbox.
Entry(name, value, values, inputs) ==
    [name |-> name, value |-> value, values |-> values, inputs |-> inputs]

NoValue == ""
NoInputs == [f \in {} |-> Default]

\* Said once: the provers do not know it of a literal.
ASSUME NoValueAssumption == NoValue \in STRING

Fits(x, ctx) ==
    /\ x.controllers = {} \/ ctx.controller \in x.controllers
    /\ x.resources = {} \/ ctx.resource \in x.resources

IsChoice(opt) == opt.kind \in {"select", "switch"}

CountFits(opt, n) == opt.min <= n /\ (opt.max = Unlimited \/ n <= opt.max)

\* Whether the entry selects cases the option has, and as many as it may.
ValidChoice(opt, e) ==
    CASE IsChoice(opt)           -> e.value \in ToSet(opt.cases)
      [] opt.kind = "checkbox"   -> ToSet(e.values) \subseteq ToSet(opt.cases) /\ CountFits(opt, Len(e.values))
      [] opt.kind = "input"      -> TRUE

Chosen(opt, e) ==
    CASE IsChoice(opt) -> <<e.value>> [] opt.kind = "checkbox" -> e.values [] opt.kind = "input" -> <<>>

\* The child options of the selected cases, in the order of the selection.
Children(opt, e) == FlattenSeq([i \in DOMAIN Chosen(opt, e) |-> opt.child[Chosen(opt, e)[i]]])

\* The elements of s that are in V, in their order.
Only(s, V) == FlattenSeq([i \in DOMAIN s |-> IF s[i] \in V THEN <<s[i]>> ELSE <<>>])

\* Adds the values that are not there yet.
WithNew(values, more) ==
    LET kept[i \in 0 .. Len(more)] ==
            IF i = 0 THEN values
            ELSE IF more[i] \in ToSet(kept[i - 1]) THEN kept[i - 1]
            ELSE Append(kept[i - 1], more[i])
    IN kept[Len(more)]

-----------------------------------------------------------------------------
(* interface.json, as Parser::validate_interface accepts it.                *)

IsList(s) == s \in Seq(ToSet(s))

\* What the options of any file are: finitely many by name, their cases and the
\* children of those in lists.
IsOptions(options) ==
    /\ IsFiniteSet(DOMAIN options) /\ DOMAIN options \subseteq STRING
    /\ \A o \in DOMAIN options :
           /\ options[o].kind \in {"select", "switch", "checkbox", "input"}
           /\ options[o].list \in BOOLEAN
           /\ options[o].min \in Nat /\ options[o].max \in Nat \cup {Unlimited}
           /\ IsList(options[o].cases) /\ ToSet(options[o].cases) \subseteq STRING
           /\ \A c \in ToSet(options[o].cases) : IsList(options[o].child[c])

AllChildren(opt) == UNION {ToSet(opt.child[c]) : c \in ToSet(opt.cases)}

Descendants(I, o) ==
    LET down[n \in 0 .. Cardinality(DOMAIN I.option)] ==
            IF n = 0 THEN AllChildren(I.option[o])
            ELSE down[n - 1] \cup UNION {AllChildren(I.option[c]) : c \in down[n - 1]}
    IN down[Cardinality(DOMAIN I.option)]

\* The options' children exist, and no option is below itself.
EndsEverywhere(I) ==
    /\ \A o \in DOMAIN I.option : AllChildren(I.option[o]) \subseteq DOMAIN I.option
    /\ \A o \in DOMAIN I.option : o \notin Descendants(I, o)

\* opt.list: default_case is a list, and not a string or absent.  Of the wrong
\* sort for the kind, or naming no case, it is ignored.
DefaultCases(opt) ==
    IF opt.list = (opt.kind = "checkbox") THEN Only(opt.cases, ToSet(opt.default)) ELSE <<>>

\* Asked of every option, whatever its kind; only a list of defaults is looked at.
ValidCheckbox(opt) ==
    /\ opt.min <= Len(opt.cases)
    /\ opt.max = Unlimited \/ (opt.max <= Len(opt.cases) /\ opt.min <= opt.max)
    /\ opt.list => ToSet(opt.default) \subseteq ToSet(opt.cases) /\ CountFits(opt, Cardinality(ToSet(opt.default)))

\* The options a controller or a resource names are not looked up.
ValidInterface(I) ==
    LET known == DOMAIN I.option IN
    /\ \A t \in DOMAIN I.task : ToSet(I.task[t].roots) \subseteq known
    /\ ToSet(I.global) \subseteq known
    /\ \A i \in DOMAIN I.pretask : ToSet(I.pretask[i].roots) \subseteq known
    /\ \A o \in known : ValidCheckbox(I.option[o])
    /\ EndsEverywhere(I)

-----------------------------------------------------------------------------
(* process_option                                                           *)
(*                                                                          *)
(* how: "auto", defaults are taken unasked where there are any; "ask", the  *)
(* user answers everything; "unverified", answers as they may have got into *)
(* a list without the prompt of this interface.json.                        *)

\* The case a select or switch ends up with: every prompt offers all of them.
PickCase(opt, how) ==
    IF Len(opt.cases) < (IF opt.kind = "switch" THEN 2 ELSE 1) THEN {}
    ELSE IF how = "auto" /\ DefaultCases(opt) # <<>> THEN {DefaultCases(opt)[1]}
    ELSE ToSet(opt.cases)

\* The prompt of a checkbox asks again until the count fits; repeated numbers
\* count once and the order is the user's.
PickCases(opt, how) ==
    IF opt.cases = <<>> THEN {}
    ELSE IF opt.max = 0 THEN {<<>>}
    ELSE {values \in IF how = "auto" /\ DefaultCases(opt) # <<>> THEN {DefaultCases(opt)}
                     ELSE SetToAllKPermutations(ToSet(opt.cases)) : CountFits(opt, Len(values))}

\* Slip: an empty answer is stored as it is.
TypeInputs_Empty(opt, how) == [opt.inputs -> IF how = "auto" THEN {Default} ELSE Texts \cup {NoValue}]

\* Slip: the answers are not held against verify.
TypeInputs_Unverified(opt, how) == [opt.inputs -> IF how = "auto" THEN {Default} ELSE Texts \cup {Default}]

\* The prompt asks again until the text, or the default for an empty answer,
\* matches verify; a default taken unasked is not held against it.
TypeInputs(opt, how) ==
    {ins \in [opt.inputs -> IF how = "auto" THEN {Default} ELSE Texts \cup {Default}] :
        how = "ask" => \A f \in opt.inputs : ins[f] \in opt.verify[f]}

\* The entries the user, or the defaults, may give an option.
Answers(I, o, how) ==
    LET opt == I.option[o] IN
    CASE IsChoice(opt)         -> {Entry(o, v, <<>>, NoInputs) : v \in PickCase(opt, how)}
      [] opt.kind = "checkbox" -> {Entry(o, NoValue, vs, NoInputs) : vs \in PickCases(opt, how)}
      [] opt.kind = "input"    -> {Entry(o, NoValue, <<>>, ins) : ins \in TypeInputs(opt, how)}

Joined(before, after) == {done \o more : done \in before, more \in after}

\* One list for each way of filling in the subtrees of names, one after another.
Forest(tree, names) ==
    LET lists[n \in 0 .. Len(names)] ==
            IF n = 0 THEN {<<>>} ELSE Joined(lists[n - 1], tree[names[n]])
    IN lists[Len(names)]

\* Slip: the children come before the option they belong to.
Trees_ChildrenFirst(I, ctx, how) ==
    LET tree[o \in STRING] ==
        IF o \notin DOMAIN I.option THEN {}
        ELSE IF ~Fits(I.option[o], ctx) THEN {<<>>}
        ELSE UNION {{Append(rest, e) : rest \in Forest(tree, Children(I.option[o], e))} :
                    e \in Answers(I, o, how)}
    IN tree

\* The lists process_option may append for an option: nothing where the option
\* does not apply, else its entry and the subtrees of its selected cases.
Trees(I, ctx, how) ==
    LET tree[o \in STRING] ==
        IF o \notin DOMAIN I.option THEN {}
        ELSE IF ~Fits(I.option[o], ctx) THEN {<<>>}
        ELSE UNION {{<<e>> \o rest : rest \in Forest(tree, Children(I.option[o], e))} :
                    e \in Answers(I, o, how)}
    IN tree

\* What a loop of process_option over roots may store; {} when one of them fails.
Filled(I, ctx, roots, how) == Forest(Trees(I, ctx, how), roots)

-----------------------------------------------------------------------------
(* check_task and check_configuration, at every start                       *)

\* The first of equal values stays.
Unique(values) == WithNew(<<>>, values)

Deduped(I, e) ==
    IF e.name \in DOMAIN I.option /\ I.option[e.name].kind = "checkbox"
    THEN [e EXCEPT !.values = Unique(@)]
    ELSE e

\* Where the subtree that starts at each index ends, by the case selections and
\* the children they demand; 0 when it is not what they demand.
Subtrees(I, ctx, list) ==
    LET end[i \in DOMAIN list] ==
        LET opt == I.option[list[i].name]
            Follow(at, c) ==
                IF at = 0 \/ c \notin DOMAIN I.option THEN 0
                ELSE IF ~Fits(I.option[c], ctx) THEN at
                ELSE IF at \in DOMAIN list /\ list[at].name = c THEN end[at] ELSE 0
            past[n \in 0 .. Len(Children(opt, list[i]))] ==
                IF n = 0 THEN i + 1 ELSE Follow(past[n - 1], Children(opt, list[i])[n])
        IN IF /\ list[i].name \in DOMAIN I.option
              /\ Fits(opt, ctx)
              /\ ValidChoice(opt, list[i])
           THEN past[Len(Children(opt, list[i]))]
           ELSE 0
    IN end

\* Keeps the subtrees of the task's own options that are complete and followed
\* by the next one of them, and drops everything else up to there.
Kept(I, ctx, roots, list) ==
    LET end == Subtrees(I, ctx, list)
        Root(i) == list[i].name \in roots
        Next(i) == CHOOSE j \in i + 1 .. Len(list) + 1 :
                       /\ j = Len(list) + 1 \/ Root(j)
                       /\ \A k \in i + 1 .. j - 1 : ~Root(k)
        kept[i \in 1 .. Len(list) + 1] ==
            IF i > Len(list) THEN <<>>
            ELSE IF Root(i) /\ end[i] # 0 /\ (end[i] > Len(list) \/ Root(end[i]))
                 THEN SubSeq(list, i, end[i] - 1) \o kept[end[i]]
                 ELSE kept[Next(i)]
    IN kept[1]

\* Slip: the repeated cases of a checkbox are removed after its children were looked for.
CheckTask_DedupedLast(I, ctx, task, list) ==
    LET roots == ToSet(I.task[task].roots)
        Stays(e) == e.name \in roots \/ e.name \notin DOMAIN I.option \/ Fits(I.option[e.name], ctx)
        kept == Kept(I, ctx, roots, Only(list, {e \in ToSet(list) : Stays(e)}))
    IN IF Fits(I.task[task], ctx) THEN [i \in DOMAIN kept |-> Deduped(I, kept[i])] ELSE list

\* Slip: the tasks of other controllers and resources are checked too.
CheckTask_AllTasks(I, ctx, task, list) ==
    LET roots == ToSet(I.task[task].roots)
        Stays(e) == e.name \in roots \/ e.name \notin DOMAIN I.option \/ Fits(I.option[e.name], ctx)
        applicable == Only(list, {e \in ToSet(list) : Stays(e)})
    IN Kept(I, ctx, roots, [i \in DOMAIN applicable |-> Deduped(I, applicable[i])])

\* A task that does not apply is left as it is.
CheckTask(I, ctx, task, list) ==
    LET roots == ToSet(I.task[task].roots)
        Stays(e) == e.name \in roots \/ e.name \notin DOMAIN I.option \/ Fits(I.option[e.name], ctx)
        applicable == Only(list, {e \in ToSet(list) : Stays(e)})
    IN IF Fits(I.task[task], ctx)
       THEN Kept(I, ctx, roots, [i \in DOMAIN applicable |-> Deduped(I, applicable[i])])
       ELSE list

\* The lists that belong to no task are checked entry by entry.
CheckLevel(I, list) ==
    LET Known(e) == e.name \in DOMAIN I.option
        Valid(e) ==
            LET opt == I.option[e.name] IN ValidChoice(opt, e) \/ (IsChoice(opt) /\ e.value = NoValue)
        Cleaned(e) ==
            IF I.option[e.name].kind = "input"
            THEN [e EXCEPT !.inputs = [f \in DOMAIN @ \cap I.option[e.name].inputs |-> @[f]]]
            ELSE Deduped(I, e)
        known == Only(list, {e \in ToSet(list) : Known(e)})
        cleaned == [i \in DOMAIN known |-> Cleaned(known[i])]
    IN Only(cleaned, {e \in ToSet(cleaned) : Valid(e)})

-----------------------------------------------------------------------------
(* ensure_declared_option_tree and its helpers, before every run            *)

Occurrences(list, o) == {i \in DOMAIN list : list[i].name = o}

First(list, o) == CHOOSE i \in Occurrences(list, o) : \A j \in Occurrences(list, o) : i <= j

\* select_runtime_option_cases, as the names that may follow: the first entry
\* of that name decides; what is missing, invalid or does not apply has none.
ActiveChildren(I, ctx, o, list) ==
    IF /\ o \in DOMAIN I.option
       /\ Fits(I.option[o], ctx)
       /\ Occurrences(list, o) # {}
       /\ ValidChoice(I.option[o], list[First(list, o)])
    THEN ToSet(Children(I.option[o], list[First(list, o)]))
    ELSE {}

\* cleanup_runtime_options: entries no valid selection leads to are erased.
Cleanup(I, ctx, roots, list) ==
    LET active[o \in STRING] ==
            IF o \notin DOMAIN I.option THEN {}
            ELSE IF ~Fits(I.option[o], ctx) THEN {}
            ELSE {o} \cup UNION {active[c] : c \in ActiveChildren(I, ctx, o, list)}
        reached == UNION {active[r] : r \in ToSet(roots)}
    IN Only(list, {e \in ToSet(list) : e.name \in reached})

\* Slip: the defaults replace what was typed in.
WithDefaults_Overwrite(opt, e) ==
    IF opt.kind = "input" THEN [e EXCEPT !.inputs = [f \in DOMAIN @ \cup opt.inputs |-> Default]] ELSE e

WithDefaults(opt, e) ==
    IF opt.kind = "input"
    THEN [e EXCEPT !.inputs = [f \in DOMAIN @ \cup opt.inputs |-> IF f \in DOMAIN @ THEN @[f] ELSE Default]]
    ELSE e

Progress(out, gone, ok) == [out |-> out, gone |-> gone, ok |-> ok]

\* Slip: what is stored is not followed to the children of its cases.
Ensured_RootsOnly(I, ctx, roots, list, how) ==
    LET created == Trees(I, ctx, how)
        Ways(o) ==
            IF Occurrences(list, o) = {} THEN created[o]
            ELSE {<<WithDefaults(I.option[o], list[First(list, o)])>>}
    IN {Progress(out, {}, TRUE) : out \in Forest([o \in STRING |-> Ways(o)], roots)}

\* What an option makes of the progress before it; a failure ends the walk.
After(ways, before) ==
    IF before.ok THEN {Progress(before.out \o p.out, p.gone, p.ok) : p \in ways[before.gone]} ELSE {before}

\* The ways through names, one behind another.
Walk(ways, start, names) ==
    LET sofar[n \in 0 .. Len(names)] ==
            IF n = 0 THEN {start} ELSE UNION {After(ways[names[n]], p) : p \in sofar[n - 1]}
    IN sofar[Len(names)]

\* What may be left of a stored list once it was completed along the declared
\* tree.  A stored entry that is valid stays, and its children are visited; one
\* that is not is erased (gone), and process_option makes a new subtree.  When
\* that fails the walk stops (~ok) and out is all that is left of the list.
Ensured(I, ctx, roots, list, how) ==
    LET created == Trees(I, ctx, how)
        Create(o, gone) ==
            IF created[o] = {} THEN {Progress(<<>>, gone, FALSE)}
            ELSE {Progress(tree, gone, TRUE) : tree \in created[o]}
        ensure[o \in STRING] == [gone \in SUBSET DOMAIN list |->
            LET opt == I.option[o]
                found == Occurrences(list, o) \ gone
                i == CHOOSE f \in found : \A g \in found : f <= g
                entry == WithDefaults(opt, list[i])
            IN IF o \notin DOMAIN I.option THEN {Progress(<<>>, gone, FALSE)}
               ELSE IF ~Fits(opt, ctx) THEN {Progress(<<>>, gone, TRUE)}
               ELSE IF found = {} THEN Create(o, gone)
               ELSE IF ~ValidChoice(opt, entry) THEN Create(o, gone \cup {i})
               ELSE Walk(ensure, Progress(<<entry>>, gone, TRUE), Children(opt, entry))]
    IN Walk(ensure, Progress(<<>>, {}, TRUE), roots)

-----------------------------------------------------------------------------
(* edit_task                                                                *)

\* Slip: only the entries right below the edited one are taken for its subtree.
Edited_OneLevel(I, ctx, list, i, new) ==
    LET InSubtree(j) == list[j].name \in ActiveChildren(I, ctx, list[i].name, list)
        end == CHOOSE k \in i + 1 .. Len(list) + 1 :
                   /\ k = Len(list) + 1 \/ ~InSubtree(k)
                   /\ \A j \in i + 1 .. k - 1 : InSubtree(j)
    IN SubSeq(list, 1, i - 1) \o new \o SubSeq(list, end, Len(list))

\* Entry i is answered again (new): the entries behind it go, as long as each is
\* an active child of the edited entry or of one that goes.
Edited(I, ctx, list, i, new) ==
    LET InSubtree(j) == \E k \in i .. j - 1 : list[j].name \in ActiveChildren(I, ctx, list[k].name, list)
        end == CHOOSE k \in i + 1 .. Len(list) + 1 :
                   /\ k = Len(list) + 1 \/ ~InSubtree(k)
                   /\ \A j \in i + 1 .. k - 1 : InSubtree(j)
    IN SubSeq(list, 1, i - 1) \o new \o SubSeq(list, end, Len(list))

-----------------------------------------------------------------------------
(* append_pretask_option: the values a pretask is given                     *)

\* Slip: options that do not apply must be stored too.
Serializable_Everywhere(I, ctx, roots, list) ==
    LET given[o \in STRING] ==
        /\ Occurrences(list, o) # {}
        /\ \A c \in ToSet(Children(I.option[o], list[First(list, o)])) : given[c]
    IN \A r \in ToSet(roots) : given[r]

\* Every option the walk meets must be stored, with cases that exist.
Serializable(I, ctx, roots, list) ==
    LET given[o \in STRING] ==
        LET opt == I.option[o]
            entry == list[First(list, o)]
            exists == CASE IsChoice(opt)         -> entry.value \in ToSet(opt.cases)
                        [] opt.kind = "checkbox" -> ToSet(entry.values) \subseteq ToSet(opt.cases)
                        [] opt.kind = "input"    -> TRUE
        IN /\ o \in DOMAIN I.option
           /\ Fits(opt, ctx) =>
                  /\ Occurrences(list, o) # {}
                  /\ exists
                  /\ \A c \in ToSet(Children(opt, entry)) : given[c]
    IN \A r \in ToSet(roots) : given[r]

-----------------------------------------------------------------------------
(* merge_option_overrides: what a run reads of a list                       *)

\* An entry counts by the field of its option's kind, input fields by the ones
\* the interface has.
Read(opt, e) ==
    CASE IsChoice(opt)         -> Entry(e.name, e.value, <<>>, NoInputs)
      [] opt.kind = "checkbox" -> Entry(e.name, NoValue, e.values, NoInputs)
      [] opt.kind = "input"    ->
            Entry(e.name, NoValue, <<>>,
                  [f \in opt.inputs |-> IF f \in DOMAIN e.inputs THEN e.inputs[f] ELSE Default])

\* Entries that are unknown, do not apply or name no case are passed over.
Effects(I, ctx, list) ==
    LET Used(e) ==
            /\ e.name \in DOMAIN I.option
            /\ Fits(I.option[e.name], ctx)
            /\ IsChoice(I.option[e.name]) => e.value \in ToSet(I.option[e.name].cases)
        used == Only(list, {e \in ToSet(list) : Used(e)})
    IN [i \in DOMAIN used |-> Read(I.option[used[i].name], used[i])]

-----------------------------------------------------------------------------
(* Options that can be asked for, and the entries the answers leave.        *)

\* process_option gives up on an option without cases, or a switch without two;
\* that the cases have different names is up to interface.json.
CanAsk(opt) ==
    /\ IsInjective(opt.cases)
    /\ opt.kind = "switch" => Len(opt.cases) >= 2
    /\ opt.kind \in {"select", "checkbox"} => Len(opt.cases) >= 1

Asks(opt) == CanAsk(opt) /\ ValidCheckbox(opt)

AsksAll(I) == \A o \in DOMAIN I.option : Asks(I.option[o])

IsStored(e) == e = Entry(e.name, e.value, e.values, e.inputs) /\ IsList(e.values)

\* An entry without repeated cases, its inputs typed in or defaults.
Sound(e) ==
    /\ IsStored(e) /\ IsInjective(e.values)
    /\ e.name \in STRING /\ e.value \in STRING /\ ToSet(e.values) \subseteq STRING
    /\ \A f \in DOMAIN e.inputs : e.inputs[f] \in Texts \cup {Default}

SoundList(list) == IsList(list) /\ \A e \in ToSet(list) : Sound(e)
=============================================================================
