-------------------------- MODULE OptionLawsProofs --------------------------
(***************************************************************************)
(* What the parser guarantees holds while its interfaces are used: filling *)
(* in a task and reading a list leave the parser's state alone.            *)
(* With it, any list of entries is completed to one that can be given to a *)
(* pretask.                                                                *)
(***************************************************************************)
EXTENDS OptionLaws, ParseInterfaceProofs

\* OptionLaws implements ParseInterface: a step of it is a step of the parser, or
\* one of the menu and the file that the parser does not take part in.
THEOREM ImplementsParser == Spec => ParseSpec
<1>1. Init => ParseInit
  BY DEF Init
<1>2. [Next]_vars => [Parse]_parseVars
  <2> SUFFICES ASSUME [Next]_vars PROVE [Parse]_parseVars
    OBVIOUS
  <2>1. CASE Parse /\ UNCHANGED <<ctx, list>>
    BY <2>1
  <2>2. CASE Fill
    BY <2>2 DEF Fill, parseVars
  <2>3. CASE Extend
    BY <2>3 DEF Extend, parseVars
  <2>4. CASE UNCHANGED vars
    BY <2>4 DEF vars, parseVars
  <2> QED
    BY <2>1, <2>2, <2>3, <2>4 DEF Next
<1> QED
  BY <1>1, <1>2, PTL DEF Spec, ParseSpec

\* Whatever list is looked at, it is looked at with an interface that was rightly
\* accepted.
THEOREM LawsHaveVerdicts == Spec => []VerdictIsRight
  BY ImplementsParser, VerdictsAreRight, PTL

\* ... and that its files make up in their order.
THEOREM LawsHaveMerges == Spec => []MergesInOrder
  BY ImplementsParser, ImportsMergeInOrder, PTL

-----------------------------------------------------------------------------
(* A completed list can be given to a pretask.                              *)

\* What an accepted interface with the task makes of its options.
LEMMA ReadyHas ==
    IInv /\ VerdictIsRight /\ Ready =>
        /\ IsOptions(I.option) /\ EndsEverywhere(I)
        /\ IsList(roots) /\ ToSet(roots) \subseteq DOMAIN I.option /\ DOMAIN I.option \subseteq STRING
<1> SUFFICES ASSUME IInv, VerdictIsRight, Ready
    PROVE  /\ IsOptions(I.option) /\ EndsEverywhere(I)
           /\ IsList(roots) /\ ToSet(roots) \subseteq DOMAIN I.option /\ DOMAIN I.option \subseteq STRING
  OBVIOUS
<1>1. IsFile(data) /\ ValidInterface(I) /\ T \in DOMAIN I.task
  BY DEF IInv, StageInv, VerdictIsRight, Ready, I
<1>2. /\ I.option = data.option
      /\ DOMAIN I.task = {t.name : t \in ToSet(data.task)}
      /\ \A n \in DOMAIN I.task : I.task[n] = TaskNamed(data, n)
  BY DEF I, Parsed
<1>3. IsOptions(I.option) /\ DOMAIN I.option \subseteq STRING
  BY <1>1, <1>2 DEF IsFile, IsOptions
<1>4. EndsEverywhere(I) /\ ToSet(roots) \subseteq DOMAIN I.option
  BY <1>1 DEF ValidInterface, roots
<1>5. IsList(roots)
  BY <1>1, <1>2, TaskNamedFacts DEF IsFile, roots
<1> QED
  BY <1>3, <1>4, <1>5

\* One more entry.
LEMMA AppendStored == \A l, e : StoredList(l) /\ IsStored(e) => StoredList(Append(l, e))
<1> SUFFICES ASSUME NEW l, NEW e, StoredList(l), IsStored(e) PROVE StoredList(Append(l, e))
  OBVIOUS
<1> DEFINE S == ToSet(l) \cup {e}
<1>1. l \in Seq(S)
  BY ListFacts DEF StoredList
<1>2. Append(l, e) \in Seq(S)
  BY <1>1
<1>3. IsList(Append(l, e)) /\ ToSet(Append(l, e)) \subseteq S
  BY <1>2, SeqIsList
<1>4. \A x \in S : IsStored(x)
  BY DEF StoredList
<1> QED
  BY <1>3, <1>4 DEF StoredList

\* What a file may hold for an option is an entry.
LEMMA StoredEntries ==
    IsOptions(I.option) => \A o \in DOMAIN I.option : \A e \in Stored(o) : IsStored(e)
<1> SUFFICES ASSUME IsOptions(I.option), NEW o \in DOMAIN I.option, NEW e \in Stored(o) PROVE IsStored(e)
  OBVIOUS
<1> DEFINE opt == I.option[o]
<1>1. opt.kind \in {"select", "switch", "checkbox", "input"}
  BY DEF IsOptions
<1>2. CASE IsChoice(opt)
  <2>1. PICK v \in ToSet(opt.cases) \cup {"gone"} : e = Entry(o, v, <<>>, NoInputs)
    BY <1>2 DEF Stored, IsChoice
  <2> QED
    BY <2>1, NothingIsList, EntryIsStored
<1>3. CASE opt.kind = "checkbox"
  <2>1. PICK vs \in BoundedSeq(ToSet(opt.cases), 2) \cup {<<"gone">>} : e = Entry(o, NoValue, vs, NoInputs)
    BY <1>3 DEF Stored, IsChoice
  <2>2. IsList(vs)
    <3> DEFINE C == ToSet(opt.cases) \cup {"gone"}
    <3>1. \A m \in 0 .. 2 : [1 .. m -> ToSet(opt.cases)] \subseteq Seq(C)
      <4> DEFINE A == ToSet(opt.cases)
      <4>1. A \subseteq C
        OBVIOUS
      <4> HIDE DEF A, C
      <4>2. ASSUME NEW m \in 0 .. 2, NEW s \in [1 .. m -> A] PROVE s \in Seq(C)
        BY <4>1
      <4> QED
        BY <4>2 DEF A
    <3>2. <<"gone">> \in Seq(C)
      OBVIOUS
    <3>3. \/ vs = <<"gone">>
          \/ \E m \in 0 .. 2 : vs \in [1 .. m -> ToSet(opt.cases)]
      BY <2>1 DEF BoundedSeq, SeqOf
    <3> HIDE DEF C, opt
    <3>4. vs \in Seq(C)
      BY <3>1, <3>2, <3>3
    <3> QED
      BY <3>4, SeqIsList
  <2> QED
    BY <2>1, <2>2, EntryIsStored
<1>4. CASE opt.kind = "input"
  <2> DEFINE Of(fs) == {Entry(o, NoValue, <<>>, ins) : ins \in [fs -> Texts \cup {Default}]}
  <2>1. Stored(o) = UNION {Of(fs) : fs \in SUBSET opt.inputs}
    BY <1>4 DEF Stored, IsChoice
  <2>2. PICK fs \in SUBSET opt.inputs : e \in Of(fs)
    BY <2>1
  <2>3. PICK ins \in [fs -> Texts \cup {Default}] : e = Entry(o, NoValue, <<>>, ins)
    BY <2>2
  <2> QED
    BY <2>3, NothingIsList, EntryIsStored
<1> QED
  BY <1>1, <1>2, <1>3, <1>4 DEF IsChoice

\* So is what the menu puts together.
LEMMA FilledStored ==
    IsOptions(I.option) /\ EndsEverywhere(I) /\ IsList(roots) /\ ToSet(roots) \subseteq STRING =>
        \A l \in Forests : StoredList(l)
<1> SUFFICES ASSUME IsOptions(I.option), EndsEverywhere(I), IsList(roots), ToSet(roots) \subseteq STRING, NEW l \in Forests
    PROVE  StoredList(l)
  OBVIOUS
<1> DEFINE E == AllAnswers(I, "unverified")
           tree == Trees(I, ctx, "unverified")
<1>1. \A o \in STRING : tree[o] \subseteq CompleteLists(I, ctx, E, {o})
  BY TreesComplete
<1>2. \A o \in ToSet(roots) : tree[o] \subseteq Seq(E)
  BY <1>1 DEF CompleteLists
<1>3. Forests = Forest(tree, roots)
  BY DEF Forests, Filled
<1>5. \A e \in E : IsStored(e)
  <2> SUFFICES ASSUME NEW e \in E PROVE IsStored(e)
    OBVIOUS
  <2>1. PICK o \in DOMAIN I.option : e \in Answers(I, o, "unverified")
    BY DEF AllAnswers
  <2> QED
    BY <2>1, AnswersAre
<1> HIDE DEF E, tree
<1>4. l \in Seq(E)
  BY <1>2, <1>3, SeqCloses, ForestFacts
<1>6. IsList(l) /\ ToSet(l) \subseteq E
  BY <1>4, SeqIsList
<1> QED
  BY <1>5, <1>6 DEF StoredList

\* The list holds entries in every state.
THEOREM ListIsStored == Spec => []StoredList(list)
<1>1. Init => StoredList(list)
  BY NothingIsList DEF Init, StoredList, ToSet
<1>2. IInv /\ VerdictIsRight /\ StoredList(list) /\ [Next]_vars => StoredList(list)'
  <2> SUFFICES ASSUME IInv, VerdictIsRight, StoredList(list), [Next]_vars
      PROVE  StoredList(list')
    OBVIOUS
  <2>1. CASE list' = list
    BY <2>1
  <2>2. CASE Fill
    <3>1. Ready /\ list' \in Forests
      BY <2>2 DEF Fill
    <3> QED
      BY <3>1, ReadyHas, FilledStored
  <2>3. CASE Extend
    <3>1. Ready
      BY <2>3 DEF Extend
    <3>2. IsStored(Unknown)
      BY NothingIsList, EntryIsStored DEF Unknown
    <3>3. \A e \in {Unknown} \cup UNION {Stored(o) : o \in DOMAIN I.option} : IsStored(e)
      BY <3>1, <3>2, ReadyHas, StoredEntries
    <3>4. PICK e \in {Unknown} \cup UNION {Stored(o) : o \in DOMAIN I.option} : list' = Append(list, e)
      BY <2>3 DEF Extend
    <3> QED
      BY <3>3, <3>4, AppendStored
  <2> QED
    BY <2>1, <2>2, <2>3 DEF Next, vars
<1>3. Spec => []IInv
  BY ImplementsParser, Invariance, PTL
<1> QED
  BY <1>1, <1>2, <1>3, LawsHaveVerdicts, PTL DEF Spec

\* Whatever a file holds for the task, once it is completed a pretask with its
\* options can be given their values, at any depth and for any number of entries
\* (interactor.cpp:2664-2722, Configurator.cpp:438-494).
THEOREM CompletedSerializes == Spec => []ForestIsSerializable
<1>1. IInv /\ VerdictIsRight /\ StoredList(list) => ForestIsSerializable
  <2> SUFFICES ASSUME IInv, VerdictIsRight, StoredList(list), Ready, NEW x \in Outcomes(list), x.ok
      PROVE  Serializable(I, ctx, roots, x.out)
    BY DEF ForestIsSerializable
  <2>1. /\ IsOptions(I.option) /\ EndsEverywhere(I)
        /\ IsList(roots) /\ ToSet(roots) \subseteq STRING
    BY ReadyHas
  <2>2. PICK p \in Ensured(I, ctx, roots, list, "auto") : x = [out |-> p.out, ok |-> p.ok]
    BY DEF Outcomes
  <2>3. p.ok /\ x.out = p.out
    BY <2>2
  <2>4. StoredList(p.out) /\ IsComplete(I, ctx, p.out) /\ Meets(I, ctx, ToSet(roots), p.out)
    BY <2>1, <2>3, EnsuredCompletes
  <2>5. IsList(p.out)
    BY <2>4 DEF StoredList
  <2> QED
    BY <2>1, <2>3, <2>4, <2>5, CompleteSerializes
<1>2. Spec => []IInv
  BY ImplementsParser, Invariance, PTL
<1> QED
  BY <1>1, <1>2, LawsHaveVerdicts, ListIsStored, PTL

\* A run changes nothing in a list that is complete already and has one entry
\* for each option: the user's choices, the counts of the checkboxes and the
\* inputs are those ensure_declared_option_tree would make (interactor.cpp:2549-2722).
THEOREM RunsKeepChoices == Spec => []EnsureKeepsChoices
<1>1. IInv /\ VerdictIsRight /\ StoredList(list) => EnsureKeepsChoices
  <2> SUFFICES ASSUME IInv, VerdictIsRight, StoredList(list), Ready, list \in Forests,
                      \A i, j \in DOMAIN list : list[i].name = list[j].name => list[i] = list[j]
      PROVE  Outcomes(list) = {[out |-> list, ok |-> TRUE]}
    BY DEF EnsureKeepsChoices
  <2>1. /\ IsOptions(I.option) /\ EndsEverywhere(I)
        /\ IsList(roots) /\ ToSet(roots) \subseteq STRING
    BY ReadyHas
  <2>2. \A o \in DOMAIN I.option : ValidCheckbox(I.option[o])
    <3>1. ValidInterface(I)
      BY DEF VerdictIsRight, Ready, I
    <3> QED
      BY <3>1 DEF ValidInterface
  <2>3. \A x, y \in ToSet(list) : x.name = y.name => x = y
    BY DEF ToSet
  <2>4. list \in Filled(I, ctx, roots, "unverified")
    BY DEF Forests
  <2>5. IsKept(I, ctx, roots, list)
    BY <2>1, <2>2, <2>3, <2>4 DEF IsKept
  <2>6. \A how : Ensured(I, ctx, roots, list, how) = {Progress(list, {}, TRUE)}
    BY ONLY <2>5, EnsuredStays
  <2>7. Outcomes(list) = {[out |-> p.out, ok |-> p.ok] : p \in {Progress(list, {}, TRUE)}}
    BY <2>6 DEF Outcomes
  <2> QED
    BY <2>7 DEF Progress
<1>2. Spec => []IInv
  BY ImplementsParser, Invariance, PTL
<1> QED
  BY <1>1, <1>2, LawsHaveVerdicts, ListIsStored, PTL

-----------------------------------------------------------------------------
(* check_task on its own result and on what the menu stores.                *)

\* Checking what check_task has left removes nothing more, whatever interface
\* was accepted and whatever list the file held (Parser.cpp:717-768).
THEOREM ChecksSettle == Spec => []CheckSettles
<1>1. IInv /\ VerdictIsRight /\ StoredList(list) => CheckSettles
  <2> SUFFICES ASSUME IInv, VerdictIsRight, StoredList(list), Ready
      PROVE  CheckTask(I, ctx, T, Checked) = Checked
    BY DEF CheckSettles
  <2>1. IsOptions(I.option)
    BY ReadyHas
  <2>2. CheckTask(I, ctx, T, CheckTask(I, ctx, T, list)) = CheckTask(I, ctx, T, list)
    BY ONLY <2>1, StoredList(list), CheckTwice
  <2> QED
    BY <2>2 DEF Checked
<1>2. Spec => []IInv
  BY ImplementsParser, Invariance, PTL
<1> QED
  BY <1>1, <1>2, LawsHaveVerdicts, ListIsStored, PTL

\* The check of a task leaves alone every list process_option can store for it,
\* at any depth (interactor.cpp:1909-1923, Parser.cpp:156-198).
THEOREM ChecksAcceptAnswers == Spec => []GeneratedIsAccepted
<1>1. IInv /\ VerdictIsRight => GeneratedIsAccepted
  <2> SUFFICES ASSUME IInv, VerdictIsRight, Ready, list \in Forests PROVE Checked = list
    BY DEF GeneratedIsAccepted
  <2>1. /\ IsOptions(I.option) /\ EndsEverywhere(I)
        /\ IsList(roots) /\ ToSet(roots) \subseteq DOMAIN I.option
    BY ReadyHas
  <2>2. \A o \in DOMAIN I.option : ValidCheckbox(I.option[o])
    <3>1. ValidInterface(I)
      BY DEF VerdictIsRight, Ready, I
    <3> QED
      BY <3>1 DEF ValidInterface
  <2>3. list \in Filled(I, ctx, roots, "unverified")
    BY DEF Forests
  <2>4. Chained(I, ctx, ToSet(roots), list) /\ \A e \in ToSet(list) : Untouched(I, ctx, ToSet(roots), e)
    BY ONLY <2>1, <2>2, <2>3, FilledChains
  <2>5. CheckTask(I, ctx, T, list) = list
    BY ONLY <2>1, <2>4, CheckKeeps DEF roots
  <2> QED
    BY <2>5 DEF Checked
<1>2. Spec => []IInv
  BY ImplementsParser, Invariance, PTL
<1> QED
  BY <1>1, <1>2, LawsHaveVerdicts, PTL

-----------------------------------------------------------------------------
(* Types.                                                                   *)

\* The menu's answers are what the list may hold.
LEMMA AnswersHeld == IsOptions(I.option) => \A o \in DOMAIN I.option : \A e \in Answers(I, o, "unverified") : Held(o, e)
<1> SUFFICES ASSUME IsOptions(I.option), NEW o \in DOMAIN I.option, NEW e \in Answers(I, o, "unverified") PROVE Held(o, e)
  OBVIOUS
<1> DEFINE opt == I.option[o]
           C == ToSet(opt.cases)
<1>1. opt.kind \in {"select", "switch", "checkbox", "input"} /\ IsList(opt.cases)
  BY DEF IsOptions
<1>2. CASE IsChoice(opt)
  <2>1. opt.kind # "checkbox" /\ opt.kind # "input"
    BY <1>2 DEF IsChoice
  <2>2. PICK v \in PickCase(opt, "unverified") : e = Entry(o, v, <<>>, NoInputs)
    BY <1>2, <2>1 DEF Answers
  <2>3. v \in C
    BY <1>1, PickedCaseIs
  <2>4. e.value = v
    BY <2>2 DEF Entry
  <2> QED
    BY <1>2, <2>1, <2>2, <2>3, <2>4 DEF Held
<1>3. CASE opt.kind = "checkbox"
  <2>1. ~IsChoice(opt)
    BY <1>3 DEF IsChoice
  <2>2. PICK vs \in PickCases(opt, "unverified") : e = Entry(o, NoValue, vs, NoInputs)
    BY <1>3, <2>1 DEF Answers
  <2>3. vs \in Seq(C)
    <3>1. \A how : PickCases(opt, how) \subseteq Seq(C)
      BY <1>1, PickedCasesAre
    <3> QED
      BY ONLY <3>1, vs \in PickCases(opt, "unverified")
  <2>4. e.values = vs
    BY <2>2 DEF Entry
  <2>5. Seq(C) \subseteq Seq(C \cup {"gone"})
    <3> HIDE DEF C
    <3> QED
      OBVIOUS
  <2> QED
    BY <1>3, <2>1, <2>2, <2>3, <2>4, <2>5 DEF Held
<1>4. CASE opt.kind = "input"
  <2>1. ~IsChoice(opt) /\ opt.kind # "checkbox"
    BY <1>4 DEF IsChoice
  <2>2. PICK ins \in TypeInputs(opt, "unverified") : e = Entry(o, NoValue, <<>>, ins)
    BY <1>4, <2>1 DEF Answers
  <2>3. ins \in [opt.inputs -> Texts \cup {Default}] /\ opt.inputs \in SUBSET opt.inputs
    BY DEF TypeInputs
  <2> QED
    BY <1>4, <2>1, <2>2, <2>3 DEF Held
<1> QED
  BY <1>1, <1>2, <1>3, <1>4 DEF IsChoice

\* So is what a file holds.
LEMMA StoredHeld == IsOptions(I.option) => \A o \in DOMAIN I.option : \A e \in Stored(o) : e.name = o /\ Held(o, e)
<1> SUFFICES ASSUME IsOptions(I.option), NEW o \in DOMAIN I.option, NEW e \in Stored(o) PROVE e.name = o /\ Held(o, e)
  OBVIOUS
<1> DEFINE opt == I.option[o]
           A == ToSet(opt.cases)
           C == A \cup {"gone"}
<1>1. opt.kind \in {"select", "switch", "checkbox", "input"}
  BY DEF IsOptions
<1>2. CASE IsChoice(opt)
  <2>1. PICK v \in C : e = Entry(o, v, <<>>, NoInputs)
    BY <1>2 DEF Stored, IsChoice
  <2>2. e.value = v /\ e.name = o
    BY <2>1 DEF Entry
  <2>3. opt.kind # "checkbox" /\ opt.kind # "input"
    BY <1>2 DEF IsChoice
  <2> QED
    BY <1>2, <2>1, <2>2, <2>3 DEF Held
<1>3. CASE opt.kind = "checkbox"
  <2>1. ~IsChoice(opt)
    BY <1>3 DEF IsChoice
  <2>2. PICK vs \in BoundedSeq(A, 2) \cup {<<"gone">>} : e = Entry(o, NoValue, vs, NoInputs)
    BY <1>3, <2>1 DEF Stored
  <2>3. vs \in Seq(C)
    <3>1. \A m \in 0 .. 2 : [1 .. m -> A] \subseteq Seq(C)
      <4>1. A \subseteq C
        OBVIOUS
      <4> HIDE DEF A, C
      <4>2. ASSUME NEW m \in 0 .. 2, NEW s \in [1 .. m -> A] PROVE s \in Seq(C)
        BY <4>1
      <4> QED
        BY <4>2
    <3>2. <<"gone">> \in Seq(C)
      OBVIOUS
    <3>3. \/ vs = <<"gone">>
          \/ \E m \in 0 .. 2 : vs \in [1 .. m -> A]
      BY <2>2 DEF BoundedSeq, SeqOf
    <3> HIDE DEF C, opt
    <3> QED
      BY <3>1, <3>2, <3>3
  <2>4. e.values = vs /\ e.name = o
    BY <2>2 DEF Entry
  <2> QED
    BY <1>3, <2>1, <2>2, <2>3, <2>4 DEF Held
<1>4. CASE opt.kind = "input"
  <2>1. ~IsChoice(opt) /\ opt.kind # "checkbox"
    BY <1>4 DEF IsChoice
  <2> DEFINE Of(fs) == {Entry(o, NoValue, <<>>, ins) : ins \in [fs -> Texts \cup {Default}]}
  <2>2. Stored(o) = UNION {Of(fs) : fs \in SUBSET opt.inputs}
    BY <1>4, <2>1 DEF Stored
  <2>3. PICK fs \in SUBSET opt.inputs : e \in Of(fs)
    BY <2>2
  <2>4. PICK ins \in [fs -> Texts \cup {Default}] : e = Entry(o, NoValue, <<>>, ins)
    BY <2>3
  <2>5. e.name = o
    BY <2>4 DEF Entry
  <2> QED
    BY <1>4, <2>1, <2>4, <2>5 DEF Held
<1> QED
  BY <1>1, <1>2, <1>3, <1>4 DEF IsChoice

HeldList(l) == \A e \in ToSet(l) : e = Unknown \/ Held(e.name, e)

\* A list is only there when its interface was accepted.
ListInv == (list # <<>> => stage = "accepted") /\ HeldList(list) /\ ctx \in [controller : Controllers, resource : {"official"}]

LEMMA FilledHeld ==
    IsOptions(I.option) /\ EndsEverywhere(I) /\ IsList(roots) /\ ToSet(roots) \subseteq STRING =>
        \A l \in Forests : HeldList(l)
<1> SUFFICES ASSUME IsOptions(I.option), EndsEverywhere(I), IsList(roots), ToSet(roots) \subseteq STRING, NEW l \in Forests
    PROVE  HeldList(l)
  OBVIOUS
<1> DEFINE E == AllAnswers(I, "unverified")
           tree == Trees(I, ctx, "unverified")
<1>1. \A o \in STRING : tree[o] \subseteq CompleteLists(I, ctx, E, {o})
  BY TreesComplete
<1>2. \A o \in ToSet(roots) : tree[o] \subseteq Seq(E)
  BY <1>1 DEF CompleteLists
<1>3. Forests = Forest(tree, roots)
  BY DEF Forests, Filled
<1>5. \A e \in E : Held(e.name, e)
  <2> SUFFICES ASSUME NEW e \in E PROVE Held(e.name, e)
    OBVIOUS
  <2>1. PICK o \in DOMAIN I.option : e \in Answers(I, o, "unverified")
    BY DEF AllAnswers
  <2>2. e.name = o
    <3>1. \A how : \A x \in Answers(I, o, how) : x.name = o
      BY AnswersAre
    <3> QED
      BY ONLY <2>1, <3>1
  <2> QED
    BY <2>1, <2>2, AnswersHeld
<1> HIDE DEF E, tree
<1>4. l \in Seq(E)
  BY <1>2, <1>3, SeqCloses, ForestFacts
<1>6. IsList(l) /\ ToSet(l) \subseteq E
  BY <1>4, SeqIsList
<1> QED
  BY <1>5, <1>6 DEF HeldList

\* The list holds such entries in every state.
THEOREM ListIsHeld == Spec => []ListInv
<1>1. Init => ListInv
  BY DEF Init, ListInv, HeldList, ToSet
<1>2. IInv /\ VerdictIsRight /\ StoredList(list) /\ ListInv /\ [Next]_vars => ListInv'
  <2> SUFFICES ASSUME IInv, VerdictIsRight, StoredList(list), ListInv, [Next]_vars
      PROVE  ListInv'
    OBVIOUS
  <2> USE DEF ListInv
  <2>1. CASE UNCHANGED vars
    <3>1. I' = I /\ list' = list /\ ctx' = ctx /\ stage' = stage
      BY <2>1 DEF vars, I
    <3> QED
      BY <3>1 DEF HeldList, Held
  <2>2. CASE Parse /\ UNCHANGED <<ctx, list>>
    <3>1. stage # "accepted"
      BY <2>2 DEF Parse, ReadImport, BeginValidation, SearchFrom, NextChild, Return, EndSearch
    <3>2. list' = <<>> /\ ctx' = ctx
      BY <2>2, <3>1
    <3> QED
      BY <3>2 DEF HeldList, ToSet
  <2>3. CASE Fill
    <3>1. Ready /\ list' \in Forests /\ UNCHANGED <<parseVars, ctx>>
      BY <2>3 DEF Fill
    <3>2. HeldList(list')
      BY <3>1, ReadyHas, FilledHeld
    <3>3. I' = I /\ stage' = "accepted" /\ ctx' = ctx
      BY <3>1 DEF parseVars, I, Ready
    <3> QED
      BY <3>2, <3>3 DEF HeldList, Held
  <2>4. CASE Extend
    <3>1. Ready /\ UNCHANGED <<parseVars, ctx>>
      BY <2>4 DEF Extend
    <3>2. \A e \in {Unknown} \cup UNION {Stored(o) : o \in DOMAIN I.option} : e = Unknown \/ Held(e.name, e)
      BY <3>1, ReadyHas, StoredHeld
    <3>3. PICK e \in {Unknown} \cup UNION {Stored(o) : o \in DOMAIN I.option} : list' = Append(list, e)
      BY <2>4 DEF Extend
    <3>4. HeldList(list')
      <4> DEFINE S == ToSet(list) \cup {e}
                 l == Append(list, e)
      <4>1. list \in Seq(S)
        BY ListFacts DEF StoredList
      <4>2. l \in Seq(S)
        BY <4>1
      <4>3. ToSet(l) \subseteq S
        BY <4>2, SeqIsList
      <4> HIDE DEF l
      <4> QED
        BY <3>2, <3>3, <4>3 DEF HeldList, l
    <3>5. I' = I /\ stage' = "accepted" /\ ctx' = ctx
      BY <3>1 DEF parseVars, I, Ready
    <3> QED
      BY <3>4, <3>5 DEF HeldList, Held
  <2> QED
    BY <2>1, <2>2, <2>3, <2>4 DEF Next
<1>3. Spec => []IInv
  BY ImplementsParser, Invariance, PTL
<1> QED
  BY <1>1, <1>2, <1>3, LawsHaveVerdicts, ListIsStored, PTL DEF Spec

\* Whatever the interface, its entries have the shape of their options.
THEOREM TypeCorrect == Spec => []TypeOK
<1>1. IInv /\ ListInv => TypeOK
  <2> SUFFICES ASSUME IInv, ListInv PROVE TypeOK
    OBVIOUS
  <2>1. main \in Mains /\ stage \in {"import", "search", "accepted", "rejected"}
    BY DEF IInv, StageInv, Stages
  <2>2. \A i \in DOMAIN list : list[i] \in ToSet(list)
    BY DEF ToSet
  <2> QED
    BY <2>1, <2>2 DEF TypeOK, ListInv, HeldList
<1>2. Spec => []IInv
  BY ImplementsParser, Invariance, PTL
<1> QED
  BY <1>1, <1>2, ListIsHeld, PTL

\* Without repeated cases, what the list may hold is sound, and a run reads
\* of it what is there.
LEMMA HeldIsPlain ==
    IsOptions(I.option) => \A e : Held(e.name, e) => Sound(Deduped(I, e)) /\ Plain(I, Deduped(I, e))
<1> SUFFICES ASSUME IsOptions(I.option), NEW e, Held(e.name, e)
    PROVE  Sound(Deduped(I, e)) /\ Plain(I, Deduped(I, e))
  OBVIOUS
<1> DEFINE o == e.name
           opt == I.option[o]
<1>1. /\ o \in DOMAIN I.option /\ o \in STRING /\ opt.kind \in {"select", "switch", "checkbox", "input"}
      /\ ToSet(opt.cases) \cup {"gone"} \subseteq STRING /\ NoValue \in STRING
  BY NoValueAssumption, RemovedAssumption DEF Held, IsOptions
<1>0. ToSet(<<>>) \subseteq STRING
  BY DEF ToSet
<1>2. CASE IsChoice(opt)
  <2>1. opt.kind # "checkbox" /\ opt.kind # "input"
    BY <1>2 DEF IsChoice
  <2>2. e = Entry(o, e.value, <<>>, NoInputs) /\ e.value \in ToSet(opt.cases) \cup {"gone"}
    BY <1>2, <2>1 DEF Held
  <2>3. Deduped(I, e) = e
    BY <2>1 DEF Deduped
  <2>4. Sound(e)
    BY <1>0, <1>1, <2>2, NothingIsList, OnceEmpty, NoInputsSound
  <2>5. WithDefaults(opt, e) = e
    BY <2>1 DEF WithDefaults
  <2>6. Reading(I, e) = e
    <3>1. Reading(I, e) = Entry(o, e.value, <<>>, NoInputs)
      BY <1>2, <2>1 DEF Reading, Read
    <3> QED
      BY <2>2, <3>1
  <2> QED
    BY <2>3, <2>4, <2>5, <2>6 DEF Plain
<1>3. CASE opt.kind = "checkbox"
  <2> DEFINE once == Unique(e.values)
             d == Entry(o, NoValue, once, NoInputs)
             C == ToSet(opt.cases) \cup {"gone"}
  <2>1. ~IsChoice(opt)
    BY <1>3 DEF IsChoice
  <2>2. e = Entry(o, NoValue, e.values, NoInputs) /\ e.values \in Seq(C)
    BY <1>3, <2>1 DEF Held
  <2>3. Deduped(I, e) = d
    <3>1. Deduped(I, e) = [e EXCEPT !.values = Unique(@)]
      BY <1>1, <1>3 DEF Deduped
    <3> QED
      BY <2>2, <3>1 DEF Entry
  <2>4. IsList(once) /\ IsInjective(once) /\ ToSet(once) \subseteq STRING
    <3>0. C \subseteq STRING
      BY <1>1
    <3> HIDE DEF C
    <3>1. <<>> \in Seq(C) /\ IsList(e.values)
      BY <2>2, SeqIsList, EmptySeq
    <3>2. IsList(once)
      BY <3>1, NothingIsList, WithNewIsList DEF Unique
    <3>3. ToSet(<<>>) = {} /\ ToSet(e.values) \subseteq C
      BY <2>2, SeqIsList DEF ToSet
    <3> DEFINE none == <<>>
               with == WithNew(none, e.values)
    <3>4. none \in Seq(C) /\ IsInjective(none) /\ e.values \in Seq(C)
      BY <2>2, <3>1, OnceEmpty
    <3> HIDE DEF none, C
    <3>5. IsInjective(with) /\ ToSet(with) = ToSet(none) \cup ToSet(e.values)
      BY <3>4, WithNewOnce
    <3>6. once = with
      BY DEF Unique, none
    <3> HIDE DEF with, once
    <3> QED
      BY <3>0, <3>2, <3>3, <3>5, <3>6 DEF none
  <2> HIDE DEF once
  <2>5. Sound(d)
    BY <1>1, <2>4, NoInputsSound
  <2>6. d.name = o /\ d.values = once
    BY DEF Entry
  <2>7. WithDefaults(opt, d) = d
    BY <1>3 DEF WithDefaults
  <2>8. Reading(I, d) = d
    <3> HIDE DEF d
    <3>1. Reading(I, d) = Entry(o, NoValue, once, NoInputs)
      BY <1>3, <2>1, <2>6 DEF Reading, Read
    <3> QED
      BY <3>1 DEF d
  <2> HIDE DEF d
  <2> QED
    BY <2>3, <2>5, <2>6, <2>7, <2>8 DEF Plain
<1>4. CASE opt.kind = "input"
  <2>1. ~IsChoice(opt) /\ opt.kind # "checkbox"
    BY <1>4 DEF IsChoice
  <2>2. PICK fs \in SUBSET opt.inputs : \E ins \in [fs -> Texts \cup {Default}] : e = Entry(o, NoValue, <<>>, ins)
    BY <1>4, <2>1 DEF Held
  <2>3. PICK ins \in [fs -> Texts \cup {Default}] : e = Entry(o, NoValue, <<>>, ins)
    BY <2>2
  <2>4. Deduped(I, e) = e
    BY <2>1 DEF Deduped
  <2>5. e.name = o /\ e.value = NoValue /\ e.values = <<>> /\ e.inputs = ins
    BY <2>3 DEF Entry
  <2>6. Sound(e)
    <3>1. IsStored(e)
      BY <2>3, NothingIsList, EntryIsStored
    <3> QED
      BY <1>0, <1>1, <2>5, <3>1, OnceEmpty DEF Sound
  <2> DEFINE full == [f \in DOMAIN ins \cup opt.inputs |-> IF f \in DOMAIN ins THEN ins[f] ELSE Default]
             d == Entry(o, NoValue, <<>>, full)
  <2>7. WithDefaults(opt, e) = d
    <3>1. WithDefaults(opt, e) =
              [e EXCEPT !.inputs = [f \in DOMAIN @ \cup opt.inputs |-> IF f \in DOMAIN @ THEN @[f] ELSE Default]]
      BY <1>4 DEF WithDefaults
    <3> QED
      BY <2>3, <3>1 DEF Entry
  <2>8. full = [f \in opt.inputs |-> IF f \in DOMAIN full THEN full[f] ELSE Default]
    OBVIOUS
  <2>9. d.name = o /\ d.inputs = full
    BY DEF Entry
  <2> HIDE DEF full
  <2>10. Reading(I, d) = d
    <3> HIDE DEF d
    <3>1. Reading(I, d) = Entry(o, NoValue, <<>>, [f \in opt.inputs |-> IF f \in DOMAIN full THEN full[f] ELSE Default])
      BY <1>4, <2>1, <2>9 DEF Reading, Read
    <3> QED
      BY <2>8, <3>1 DEF d
  <2> HIDE DEF d
  <2> QED
    BY <2>4, <2>6, <2>7, <2>10 DEF Plain
<1> QED
  BY <1>1, <1>2, <1>3, <1>4 DEF IsChoice

\* The interface can be asked for and the task is one that is checked; the name
\* that stands for an option that is gone is not one.
Askable == AsksAll(I) /\ Removed \notin DOMAIN I.option /\ Fits(I.task[T], ctx)

\* From whatever a file holds, a run makes one of the lists the user could have
\* chosen, under any controller, for every interface whose options can be asked
\* for (interactor.cpp:2664-2722, Parser.cpp:717-768).
THEOREM CompletionMakesForest == Spec => [](Askable => EnsureMakesForest)
<1>1. IInv /\ VerdictIsRight /\ StoredList(list) /\ ListInv => (Askable => EnsureMakesForest)
  <2> SUFFICES ASSUME IInv, VerdictIsRight, StoredList(list), ListInv, Askable, Ready, NEW c \in Controllers
      PROVE  LET there == [ctx EXCEPT !.controller = c] IN
             \A p \in Ensured(I, there, roots, Checked, "auto") : p.ok /\ p.out \in Filled(I, there, roots, "unverified")
    BY DEF EnsureMakesForest
  <2> DEFINE there == [ctx EXCEPT !.controller = c]
  <2>1. /\ IsOptions(I.option) /\ EndsEverywhere(I)
        /\ IsList(roots) /\ ToSet(roots) \subseteq DOMAIN I.option
    BY ReadyHas
  <2>2. AsksAll(I) /\ Fits(I.task[T], ctx)
    BY DEF Askable
  <2>3. \A e \in ToSet(list) : Sound(Deduped(I, e)) /\ Plain(I, Deduped(I, e))
    <3> SUFFICES ASSUME NEW e \in ToSet(list) PROVE Sound(Deduped(I, e)) /\ Plain(I, Deduped(I, e))
      OBVIOUS
    <3>1. CASE e = Unknown
      <4>1. e.name = Removed
        BY <3>1 DEF Unknown, Entry
      <4>2. e.name \notin DOMAIN I.option
        BY <4>1 DEF Askable
      <4>3. Deduped(I, e) = e
        BY <4>2 DEF Deduped
      <4>4. Sound(e)
        <5>1. ToSet(<<>>) \subseteq STRING
          BY DEF ToSet
        <5> QED
          BY <3>1, <5>1, RemovedAssumption, NothingIsList, OnceEmpty, NoInputsSound DEF Unknown
      <4> QED
        BY <4>2, <4>3, <4>4 DEF Plain
    <3>2. CASE Held(e.name, e)
      BY <2>1, <3>2, HeldIsPlain
    <3> QED
      BY <3>1, <3>2 DEF ListInv, HeldList
  <2> DEFINE D == {Deduped(I, e) : e \in ToSet(list)}
  <2>4. Checked \in Seq(D)
    <3>1. CheckTask(I, ctx, T, list) \in Seq({Deduped(I, e) : e \in ToSet(list)})
      BY ONLY <2>1, <2>2, StoredList(list), CheckedAre
    <3> QED
      BY <3>1 DEF Checked
  <2>5. \A e \in D : Sound(e) /\ Plain(I, e)
    BY <2>3
  <2> HIDE DEF D
  <2>6. SoundList(Checked) /\ \A e \in ToSet(Checked) : Plain(I, e)
    BY <2>4, <2>5, SeqIsList DEF SoundList
  <2> HIDE DEF there
  <2>7. \A how : how # "ask" => \A p \in Ensured(I, there, roots, Checked, how) :
            p.ok /\ p.out \in Filled(I, there, roots, "unverified")
    BY ONLY <2>1, <2>2, <2>6, EnsuredFills
  <2> QED
    BY <2>7 DEF there
<1>2. Spec => []IInv
  BY ImplementsParser, Invariance, PTL
<1> QED
  BY <1>1, <1>2, LawsHaveVerdicts, ListIsStored, ListIsHeld, PTL

\* The list has no option twice.
OnceEach == \A i, j \in DOMAIN list : list[i].name = list[j].name => i = j

\* Answering an option of a complete list again leaves a complete list, for every
\* interface and however its old subtree ended, unless the list has an option
\* twice (interactor.cpp:2213-2253).
THEOREM EditsKeepForests == Spec => [](OnceEach => EditKeepsForest)
<1>1. IInv /\ VerdictIsRight => (OnceEach => EditKeepsForest)
  <2> SUFFICES ASSUME IInv, VerdictIsRight, OnceEach, Ready, list \in Forests
      PROVE  \A i \in DOMAIN list : \A new \in Trees(I, ctx, "unverified")[list[i].name] : Edited(I, ctx, list, i, new) \in Forests
    BY DEF EditKeepsForest
  <2>1. /\ IsOptions(I.option) /\ EndsEverywhere(I)
        /\ IsList(roots) /\ ToSet(roots) \subseteq DOMAIN I.option
    BY ReadyHas
  <2>2. \A o \in DOMAIN I.option : ValidCheckbox(I.option[o])
    <3>1. ValidInterface(I)
      BY DEF VerdictIsRight, Ready, I
    <3> QED
      BY <3>1 DEF ValidInterface
  <2>3. list \in Filled(I, ctx, roots, "unverified")
    BY DEF Forests
  <2>4. \A i, j \in DOMAIN list : list[i].name = list[j].name => i = j
    BY DEF OnceEach
  <2>5. \A i \in DOMAIN list : \A new \in Trees(I, ctx, "unverified")[list[i].name] :
            Edited(I, ctx, list, i, new) \in Filled(I, ctx, roots, "unverified")
    BY ONLY <2>1, <2>2, <2>3, <2>4, EditedFills
  <2> QED
    BY <2>5 DEF Forests
<1>2. Spec => []IInv
  BY ImplementsParser, Invariance, PTL
<1> QED
  BY <1>1, <1>2, LawsHaveVerdicts, PTL
=============================================================================
