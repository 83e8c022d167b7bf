------------------------ MODULE ParseInterfaceProofs ------------------------
(***************************************************************************)
(* What parse_interface accepts and rejects, and in which order it merges, *)
(* for any files, any number of imports and options of any depth.          *)
(***************************************************************************)
EXTENDS ParseInterface, OptionTreeProofs

Done == {o \in DOMAIN state : state[o] = "done"}

Stages == {"import", "search", "accepted", "rejected"}

\* Where each stage can be, and what was checked on the way.
StageInv ==
    /\ main \in Mains
    /\ stage \in Stages
    /\ at \in Nat \ {0}
    /\ IsFile(data)
    /\ stage = "import" => DOMAIN state = {} /\ calls = <<>>
    /\ stage \in {"search", "accepted"} => at \notin DOMAIN main.import /\ ReferencesHold(data)
    /\ stage = "accepted" => calls = <<>> /\ DOMAIN data.option \subseteq DOMAIN state /\ ControllersHold(data)

\* Options are entered or done, and those that are entered are on the stack.
StateInv ==
    /\ DOMAIN state \subseteq DOMAIN data.option
    /\ \A o \in DOMAIN state : state[o] \in {"entered", "done"}
    /\ \A o \in DOMAIN state : state[o] = "entered" => \E i \in DOMAIN calls : calls[i].option = o

\* Each call is of an option of its own and has yet to look at some children; the others
\* are done, but for the one the next call is of.
StackInv ==
    /\ IsList(calls)
    /\ \A i \in DOMAIN calls :
           /\ DOMAIN calls[i] = {"option", "rest"}
           /\ calls[i].option \in DOMAIN state
           /\ state[calls[i].option] = "entered"
           /\ calls[i].rest \in Seq(Kids(data, calls[i].option))
    /\ \A i, j \in DOMAIN calls : calls[i].option = calls[j].option => i = j
    /\ \A i \in DOMAIN calls : \A c \in Kids(data, calls[i].option) :
           c \in ToSet(calls[i].rest) \/ c \in Done \/ (i > 1 /\ c = calls[i - 1].option)
    /\ \A i \in DOMAIN calls : i > 1 => calls[i - 1].option \in Kids(data, calls[i].option)

\* Options are done after their children.
DoneInv ==
    /\ \A o \in Done : Kids(data, o) \subseteq Done
    /\ \A X \in SUBSET Done : X # {} => \E x \in X : \A y \in X : x \notin Kids(data, y)

\* There is a reason to reject an interface.
RejectInv ==
    stage = "rejected" => \/ at \in DOMAIN main.import
                          \/ ~ReferencesHold(data) \/ ~ControllersHold(data)
                          \/ ~EndsEverywhere(data)

IInv == StageInv /\ StateInv /\ StackInv /\ DoneInv /\ RejectInv

-----------------------------------------------------------------------------
(* Lists and files.                                                         *)

\* The list of an option's children has the children of all its cases, and no others.
LEMMA ChildListFacts ==
    \A d : IsFile(d) => \A o \in DOMAIN d.option :
        ChildList(d, o) \in Seq(Kids(d, o)) /\ ToSet(ChildList(d, o)) = Kids(d, o)
<1> SUFFICES ASSUME NEW d, IsFile(d), NEW o \in DOMAIN d.option
    PROVE  ChildList(d, o) \in Seq(Kids(d, o)) /\ ToSet(ChildList(d, o)) = Kids(d, o)
  OBVIOUS
<1> DEFINE cases == d.option[o].cases
           child == d.option[o].child
           S == Kids(d, o)
           ss == [i \in DOMAIN cases |-> child[cases[i]]]
<1>1. IsList(cases) /\ \A c \in ToSet(cases) : IsList(child[c])
  BY DEF IsFile, IsOptions
<1>2. S = UNION {ToSet(child[c]) : c \in ToSet(cases)}
  BY DEF Kids, AllChildren
<1>3. ChildList(d, o) = FlattenSeq(ss)
  BY DEF ChildList
<1> HIDE DEF cases, child, S
<1>4. Len(cases) \in Nat /\ DOMAIN cases = 1 .. Len(cases) /\ \A i \in 1 .. Len(cases) : cases[i] \in ToSet(cases)
  BY <1>1, ListFacts
<1>5. ASSUME NEW i \in 1 .. Len(cases) PROVE child[cases[i]] \in Seq(S)
  <2>1. IsList(child[cases[i]]) /\ ToSet(child[cases[i]]) \subseteq S
    BY <1>1, <1>2, <1>4
  <2> QED
    BY <2>1, ListFacts
<1>6. ss \in Seq(Seq(S)) /\ Len(ss) = Len(cases) /\ \A i \in 1 .. Len(cases) : ss[i] = child[cases[i]]
  <2>1. ss \in [1 .. Len(cases) -> Seq(S)]
    BY <1>4, <1>5
  <2>2. DOMAIN ss = 1 .. Len(cases)
    BY <1>4
  <2>3. \A i \in 1 .. Len(cases) : ss[i] = child[cases[i]]
    BY <1>4
  <2> HIDE DEF ss
  <2> QED
    BY <1>4, <2>1, <2>2, <2>3
<1> HIDE DEF ss
<1>7. FlattenSeq(ss) \in Seq(S) /\ ToSet(FlattenSeq(ss)) = UNION {ToSet(ss[i]) : i \in 1 .. Len(ss)}
  BY <1>6, FlattenRange
<1>8. ToSet(cases) = {cases[i] : i \in 1 .. Len(cases)}
  BY <1>4 DEF ToSet
<1>9. UNION {ToSet(ss[i]) : i \in 1 .. Len(ss)} = S
  <2>1. ASSUME NEW i \in 1 .. Len(cases) PROVE ToSet(ss[i]) \subseteq S
    BY <1>2, <1>4, <1>6
  <2>2. ASSUME NEW c \in ToSet(cases) PROVE \E i \in 1 .. Len(cases) : ToSet(child[c]) = ToSet(ss[i])
    BY <1>6, <1>8
  <2>3. S \subseteq UNION {ToSet(ss[i]) : i \in 1 .. Len(cases)}
    BY <1>2, <2>2
  <2> QED
    BY <1>6, <2>1, <2>3
<1> QED
  BY <1>3, <1>7, <1>9 DEF S

-----------------------------------------------------------------------------
(* Merging.                                                                 *)

\* What a merge does to each key.
LEMMA MergedFacts ==
    \A d, f : IsFile(d) =>
        /\ DOMAIN Merged(d, f) = DOMAIN d
        /\ \A key \in Appended : Merged(d, f)[key] = d[key] \o f[key]
        /\ \A key \in {"global", "group"} : Merged(d, f)[key] = WithNew(d[key], f[key])
        /\ Merged(d, f).option = Assigned(d.option, f.option)
<1> SUFFICES ASSUME NEW d, NEW f, IsFile(d)
    PROVE  /\ DOMAIN Merged(d, f) = DOMAIN d
           /\ \A key \in Appended : Merged(d, f)[key] = d[key] \o f[key]
           /\ \A key \in {"global", "group"} : Merged(d, f)[key] = WithNew(d[key], f[key])
           /\ Merged(d, f).option = Assigned(d.option, f.option)
  OBVIOUS
<1>1. Appended \cup {"global", "group"} \cup {"option"} \subseteq DOMAIN d
  BY DEF IsFile, Listed
<1>2. DOMAIN Merged(d, f) = DOMAIN d
  BY DEF Merged
<1>3. ASSUME NEW key \in Appended PROVE Merged(d, f)[key] = d[key] \o f[key]
  BY <1>1 DEF Merged, Appended
<1>4. Merged(d, f).option = Assigned(d.option, f.option)
  BY <1>1 DEF Merged, Appended
<1>5. Merged(d, f).global = WithNew(d.global, f.global)
  BY <1>1 DEF Merged, Appended
<1>6. Merged(d, f).group = WithNew(d.group, f.group)
  BY <1>1 DEF Merged, Appended
<1> QED
  BY <1>2, <1>3, <1>4, <1>5, <1>6

\* Files merged are a file.
LEMMA MergedIsFile == \A d, f : IsFile(d) /\ IsFile(f) => IsFile(Merged(d, f))
<1> SUFFICES ASSUME NEW d, NEW f, IsFile(d), IsFile(f) PROVE IsFile(Merged(d, f))
  OBVIOUS
<1> DEFINE m == Merged(d, f)
<1>1. /\ DOMAIN m = DOMAIN d
      /\ \A key \in Appended : m[key] = d[key] \o f[key]
      /\ \A key \in {"global", "group"} : m[key] = WithNew(d[key], f[key])
      /\ m.option = Assigned(d.option, f.option)
  BY MergedFacts
<1> HIDE DEF m
<1>2. \A key \in Listed : IsList(d[key]) /\ IsList(f[key])
  BY DEF IsFile
<1>3. \A key \in Listed : IsList(m[key])
  BY <1>1, <1>2, ConcatLists, WithNewIsList DEF Listed
<1>4. /\ DOMAIN m.option = DOMAIN d.option \cup DOMAIN f.option
      /\ \A o \in DOMAIN f.option : m.option[o] = f.option[o]
      /\ \A o \in DOMAIN d.option \ DOMAIN f.option : m.option[o] = d.option[o]
  BY <1>1 DEF Assigned
<1>5. IsFiniteSet(DOMAIN m.option) /\ DOMAIN m.option \subseteq STRING
  <2>1. /\ IsFiniteSet(DOMAIN d.option) /\ DOMAIN d.option \subseteq STRING
        /\ IsFiniteSet(DOMAIN f.option) /\ DOMAIN f.option \subseteq STRING
    BY DEF IsFile, IsOptions
  <2>2. IsFiniteSet(DOMAIN d.option \cup DOMAIN f.option)
    BY <2>1, FS_Union
  <2> QED
    BY <1>4, <2>1, <2>2
<1>6. IsOptions(m.option)
  <2>1. \A o \in DOMAIN m.option : \/ o \in DOMAIN f.option /\ m.option[o] = f.option[o]
                                   \/ o \in DOMAIN d.option /\ m.option[o] = d.option[o]
    BY <1>4
  <2> QED
    BY <1>5, <2>1 DEF IsFile, IsOptions
<1>7. Listed \cup {"option"} \subseteq DOMAIN m
  BY <1>1 DEF IsFile
<1>8. \A t \in ToSet(m.task) : IsList(t.roots)
  <2>1. "task" \in Appended /\ "task" \in Listed
    BY DEF Appended, Listed
  <2>2. ToSet(m.task) = ToSet(d.task) \cup ToSet(f.task)
    BY <1>1, <1>2, <2>1, ConcatLists
  <2> QED
    BY <2>2 DEF IsFile
<1> QED
  BY <1>3, <1>6, <1>7, <1>8 DEF IsFile, m

-----------------------------------------------------------------------------
(* The stack.                                                               *)

\* A list is its first element and the rest of it.
LEMMA ListTail ==
    \A s : IsList(s) /\ s # <<>> =>
        /\ Len(s) \in Nat \ {0} /\ Head(s) = s[1]
        /\ IsList(Tail(s)) /\ Len(Tail(s)) = Len(s) - 1
        /\ \A i \in 1 .. Len(s) - 1 : Tail(s)[i] = s[i + 1]
        /\ ToSet(s) = {s[1]} \cup ToSet(Tail(s))
<1> SUFFICES ASSUME NEW s, IsList(s), s # <<>>
    PROVE  /\ Len(s) \in Nat \ {0} /\ Head(s) = s[1]
           /\ IsList(Tail(s)) /\ Len(Tail(s)) = Len(s) - 1
           /\ \A i \in 1 .. Len(s) - 1 : Tail(s)[i] = s[i + 1]
           /\ ToSet(s) = {s[1]} \cup ToSet(Tail(s))
  OBVIOUS
<1> DEFINE S == ToSet(s)
<1>1. s \in Seq(S)
  BY DEF IsList
<1>2. S = {s[i] : i \in 1 .. Len(s)}
  BY <1>1, LenProperties DEF ToSet
<1> HIDE DEF S
<1>3. Len(s) \in Nat \ {0}
  BY <1>1, EmptySeq
<1>4. /\ Tail(s) \in Seq(S) /\ Len(Tail(s)) = Len(s) - 1
      /\ \A i \in 1 .. Len(Tail(s)) : Tail(s)[i] = s[i + 1]
  BY <1>1, HeadTailProperties
<1>5. IsList(Tail(s))
  BY <1>4, SeqIsList
<1>6. Head(s) = s[1]
  BY <1>1
<1>7. ToSet(Tail(s)) = {s[i + 1] : i \in 1 .. Len(s) - 1}
  <2>1. DOMAIN Tail(s) = 1 .. Len(s) - 1
    BY <1>4, LenProperties
  <2> DEFINE t == Tail(s)
  <2>2. \A i \in 1 .. Len(s) - 1 : t[i] = s[i + 1]
    BY <1>4
  <2>3. DOMAIN t = 1 .. Len(s) - 1
    BY <2>1
  <2> HIDE DEF t
  <2>4. ToSet(t) = {s[i + 1] : i \in 1 .. Len(s) - 1}
    BY <2>2, <2>3 DEF ToSet
  <2> QED
    BY <2>4 DEF t
<1>8. S = {s[1]} \cup {s[i + 1] : i \in 1 .. Len(s) - 1}
  <2>1. ASSUME NEW i \in 1 .. Len(s) PROVE s[i] \in {s[1]} \cup {s[j + 1] : j \in 1 .. Len(s) - 1}
    <3>1. CASE i = 1
      BY <3>1
    <3>2. CASE i # 1
      <4>1. i - 1 \in 1 .. Len(s) - 1 /\ (i - 1) + 1 = i
        BY <1>3, <3>2
      <4> QED
        BY <4>1
    <3> QED
      BY <3>1, <3>2
  <2>2. \A i \in 1 .. Len(s) - 1 : i + 1 \in 1 .. Len(s)
    BY <1>3
  <2>3. 1 \in 1 .. Len(s)
    BY <1>3
  <2> QED
    BY <1>2, <2>1, <2>2, <2>3
<1> QED
  BY <1>3, <1>4, <1>5, <1>6, <1>7, <1>8 DEF S

\* A list with one more at its front.
LEMMA ListPush ==
    \A x, s : IsList(s) =>
        /\ IsList(<<x>> \o s) /\ Len(<<x>> \o s) = Len(s) + 1
        /\ (<<x>> \o s)[1] = x
        /\ \A i \in 2 .. Len(s) + 1 : (<<x>> \o s)[i] = s[i - 1]
<1> SUFFICES ASSUME NEW x, NEW s, IsList(s)
    PROVE  /\ IsList(<<x>> \o s) /\ Len(<<x>> \o s) = Len(s) + 1
           /\ (<<x>> \o s)[1] = x
           /\ \A i \in 2 .. Len(s) + 1 : (<<x>> \o s)[i] = s[i - 1]
  OBVIOUS
<1> DEFINE S == {x} \cup ToSet(s)
<1>1. s \in Seq(S) /\ Len(s) \in Nat
  BY ListFacts
<1>2. <<x>> \in Seq(S) /\ Len(<<x>>) = 1 /\ <<x>>[1] = x
  OBVIOUS
<1> HIDE DEF S
<1> DEFINE u == <<x>>
<1>3. u \in Seq(S) /\ Len(u) = 1 /\ u[1] = x
  BY <1>2
<1> HIDE DEF u
<1>4. /\ u \o s \in Seq(S)
      /\ Len(u \o s) = Len(u) + Len(s)
      /\ \A i \in 1 .. Len(u) + Len(s) : (u \o s)[i] = IF i <= Len(u) THEN u[i] ELSE s[i - Len(u)]
  BY <1>1, <1>3, ConcatProperties
<1>5. IsList(u \o s)
  BY <1>4, SeqIsList
<1>6. 1 \in 1 .. Len(u) + Len(s) /\ Len(u \o s) = Len(s) + 1
  BY <1>1, <1>3, <1>4
<1>7. \A i \in 2 .. Len(s) + 1 : i \in 1 .. Len(u) + Len(s) /\ ~(i <= Len(u)) /\ i - Len(u) = i - 1
  BY <1>1, <1>3
<1>8. (u \o s)[1] = x
  BY <1>3, <1>4, <1>6
<1>9. \A i \in 2 .. Len(s) + 1 : (u \o s)[i] = s[i - 1]
  BY <1>4, <1>7
<1> QED
  BY <1>5, <1>6, <1>8, <1>9 DEF u

-----------------------------------------------------------------------------
(* Each step keeps the invariant.                                           *)

\* It holds before the first import.
LEMMA Initially == ParseInit => IInv
<1> SUFFICES ASSUME ParseInit PROVE IInv
  OBVIOUS
<1>1. main \in Mains /\ stage = "import" /\ data = NormalizedMain(main) /\ at = 1 /\ DOMAIN state = {} /\ calls = <<>>
  BY DEF ParseInit
<1>2. IsFile(main)
  BY <1>1, FilesAssumption
<1>3. IsFile(data)
  <2>1. /\ DOMAIN data = DOMAIN main
        /\ \A key \in Listed \cup {"option"} : data[key] = main[key]
    <3>1. "controller" \notin Listed \cup {"option"}
      BY DEF Listed, Appended
    <3>2. Listed \cup {"option"} \subseteq DOMAIN main
      BY <1>2 DEF IsFile
    <3> QED
      BY <1>1, <3>1, <3>2 DEF NormalizedMain
  <2>2. data.option = main.option /\ data.task = main.task
    BY <2>1 DEF Listed, Appended
  <2> QED
    BY <1>2, <2>1, <2>2 DEF IsFile
<1>4. StageInv
  BY <1>1, <1>3 DEF StageInv, Stages
<1>5. StateInv
  BY <1>1 DEF StateInv
<1>6. StackInv
  <2>1. DOMAIN calls = {} /\ IsList(calls)
    BY <1>1 DEF IsList, ToSet
  <2> QED
    BY <2>1 DEF StackInv
<1>7. Done = {}
  BY <1>1 DEF Done
<1>8. DoneInv
  BY <1>7 DEF DoneInv
<1>9. RejectInv
  BY <1>1 DEF RejectInv
<1> QED
  BY <1>4, <1>5, <1>6, <1>8, <1>9 DEF IInv

\* What holds of the search stays when the stage alone changes.
LEMMA SameSearch ==
    StateInv /\ StackInv /\ DoneInv /\ UNCHANGED <<data, state, calls>> => StateInv' /\ StackInv' /\ DoneInv'
<1> SUFFICES ASSUME StateInv, StackInv, DoneInv, data' = data, state' = state, calls' = calls
    PROVE  StateInv' /\ StackInv' /\ DoneInv'
  OBVIOUS
<1>1. Done' = Done
  BY DEF Done
<1> QED
  BY <1>1 DEF StateInv, StackInv, DoneInv

\* A rejection that has a reason.
LEMMA RejectKeeps ==
    IInv /\ Reject /\ (\/ at \in DOMAIN main.import \/ ~ReferencesHold(data) \/ ~ControllersHold(data) \/ ~EndsEverywhere(data))
        => IInv'
<1> SUFFICES ASSUME IInv, Reject,
                    \/ at \in DOMAIN main.import \/ ~ReferencesHold(data) \/ ~ControllersHold(data) \/ ~EndsEverywhere(data)
    PROVE  IInv'
  OBVIOUS
<1>1. stage' = "rejected" /\ main' = main /\ data' = data /\ at' = at /\ state' = state /\ calls' = calls
  BY DEF Reject
<1>2. StageInv'
  BY <1>1 DEF IInv, StageInv, Stages
<1>3. StateInv' /\ StackInv' /\ DoneInv'
  BY <1>1, SameSearch DEF IInv
<1>4. RejectInv'
  BY <1>1 DEF RejectInv
<1> QED
  BY <1>2, <1>3, <1>4 DEF IInv

\* An import is merged, or is not there.
LEMMA ReadImportKeeps == IInv /\ ReadImport => IInv'
<1> SUFFICES ASSUME IInv, ReadImport PROVE IInv'
  OBVIOUS
<1>1. stage = "import" /\ at \in DOMAIN main.import /\ DOMAIN state = {} /\ calls = <<>> /\ IsFile(data) /\ at \in Nat \ {0}
      /\ main \in Mains
  BY DEF ReadImport, IInv, StageInv
<1>2. CASE main.import[at] \notin DOMAIN Imported
  <2>1. Reject
    BY <1>2 DEF ReadImport
  <2> QED
    BY <1>1, <2>1, RejectKeeps
<1>3. CASE main.import[at] \in DOMAIN Imported
  <2>1. data' = Merged(data, Imported[main.import[at]]) /\ at' = at + 1
        /\ main' = main /\ stage' = stage /\ state' = state /\ calls' = calls
    BY <1>3 DEF ReadImport
  <2>2. IsFile(data')
    BY <1>1, <1>3, <2>1, FilesAssumption, MergedIsFile
  <2>3. StageInv'
    BY <1>1, <2>1, <2>2 DEF StageInv, Stages
  <2>4. DOMAIN calls = {} /\ DOMAIN state' = {} /\ DOMAIN calls' = {} /\ IsList(calls')
    BY <1>1, <2>1 DEF IsList, ToSet
  <2>5. StateInv' /\ StackInv'
    BY <2>4 DEF StateInv, StackInv
  <2>6. Done' = {}
    BY <2>4 DEF Done
  <2>7. DoneInv'
    BY <2>6 DEF DoneInv
  <2>8. RejectInv'
    BY <1>1, <2>1 DEF RejectInv
  <2> QED
    BY <2>3, <2>5, <2>7, <2>8 DEF IInv
<1> QED
  BY <1>2, <1>3

\* The references are checked once all imports are in.
LEMMA BeginValidationKeeps == IInv /\ BeginValidation => IInv'
<1> SUFFICES ASSUME IInv, BeginValidation PROVE IInv'
  OBVIOUS
<1>1. CASE ReferencesHold(data)
  <2>1. stage = "import" /\ at \notin DOMAIN main.import /\ stage' = "search" /\ main' = main /\ data' = data /\ at' = at
        /\ state' = state /\ calls' = calls
    BY <1>1 DEF BeginValidation
  <2>2. StageInv'
    BY <1>1, <2>1 DEF IInv, StageInv, Stages
  <2>3. StateInv' /\ StackInv' /\ DoneInv'
    BY <2>1, SameSearch DEF IInv
  <2>4. RejectInv'
    BY <2>1 DEF RejectInv
  <2> QED
    BY <2>2, <2>3, <2>4 DEF IInv
<1>2. CASE ~ReferencesHold(data)
  <2>1. Reject
    BY <1>2 DEF BeginValidation
  <2> QED
    BY <1>2, <2>1, RejectKeeps
<1> QED
  BY <1>1, <1>2

\* The controllers are checked at the end.
LEMMA EndSearchKeeps == IInv /\ EndSearch => IInv'
<1> SUFFICES ASSUME IInv, EndSearch PROVE IInv'
  OBVIOUS
<1>1. CASE ControllersHold(data)
  <2>1. stage = "search" /\ calls = <<>> /\ DOMAIN data.option \subseteq DOMAIN state
        /\ stage' = "accepted" /\ main' = main /\ data' = data /\ at' = at /\ state' = state /\ calls' = calls
    BY <1>1 DEF EndSearch
  <2>2. StageInv'
    BY <1>1, <2>1 DEF IInv, StageInv, Stages
  <2>3. StateInv' /\ StackInv' /\ DoneInv'
    BY <2>1, SameSearch DEF IInv
  <2>4. RejectInv'
    BY <2>1 DEF RejectInv
  <2> QED
    BY <2>2, <2>3, <2>4 DEF IInv
<1>2. CASE ~ControllersHold(data)
  <2>1. Reject
    BY <1>2 DEF EndSearch
  <2> QED
    BY <1>2, <2>1, RejectKeeps
<1> QED
  BY <1>1, <1>2

\* The stack cs calls for o: its first call, if there is one, has o no longer in its rest.
CallsFor(o, cs) ==
    /\ IsList(cs)
    /\ Len(cs) = Len(calls)
    /\ \A i \in 1 .. Len(calls) :
           /\ DOMAIN cs[i] = {"option", "rest"}
           /\ cs[i].option = calls[i].option
           /\ cs[i].rest \in Seq(Kids(data, calls[i].option))
           /\ \A c \in Kids(data, calls[i].option) :
                  \/ c \in ToSet(cs[i].rest)
                  \/ c \in Done
                  \/ i > 1 /\ c = calls[i - 1].option
                  \/ i = 1 /\ c = o
    /\ Len(calls) > 0 => o \in Kids(data, calls[1].option)

\* The stack in the form the steps use.
LEMMA StackFacts ==
    IInv => /\ IsList(calls) /\ Len(calls) \in Nat /\ DOMAIN calls = 1 .. Len(calls)
            /\ \A i \in 1 .. Len(calls) :
                   /\ DOMAIN calls[i] = {"option", "rest"}
                   /\ calls[i].option \in DOMAIN state
                   /\ state[calls[i].option] = "entered"
                   /\ calls[i].rest \in Seq(Kids(data, calls[i].option))
            /\ \A i, j \in 1 .. Len(calls) : calls[i].option = calls[j].option => i = j
            /\ \A i \in 1 .. Len(calls) : \A c \in Kids(data, calls[i].option) :
                   c \in ToSet(calls[i].rest) \/ c \in Done \/ (i > 1 /\ c = calls[i - 1].option)
            /\ \A i \in 1 .. Len(calls) : i > 1 => calls[i - 1].option \in Kids(data, calls[i].option)
<1> SUFFICES ASSUME IInv
    PROVE  /\ IsList(calls) /\ Len(calls) \in Nat /\ DOMAIN calls = 1 .. Len(calls)
           /\ \A i \in 1 .. Len(calls) :
                  /\ DOMAIN calls[i] = {"option", "rest"}
                  /\ calls[i].option \in DOMAIN state
                  /\ state[calls[i].option] = "entered"
                  /\ calls[i].rest \in Seq(Kids(data, calls[i].option))
           /\ \A i, j \in 1 .. Len(calls) : calls[i].option = calls[j].option => i = j
           /\ \A i \in 1 .. Len(calls) : \A c \in Kids(data, calls[i].option) :
                  c \in ToSet(calls[i].rest) \/ c \in Done \/ (i > 1 /\ c = calls[i - 1].option)
           /\ \A i \in 1 .. Len(calls) : i > 1 => calls[i - 1].option \in Kids(data, calls[i].option)
  OBVIOUS
<1>1. IsList(calls)
  BY DEF IInv, StackInv
<1>2. Len(calls) \in Nat /\ DOMAIN calls = 1 .. Len(calls)
  BY <1>1, ListFacts
<1> QED
  BY <1>1, <1>2 DEF IInv, StackInv

\* detect_option_cycle is called for an option that was not seen before.
LEMMA EnterKeeps ==
    \A o \in DOMAIN data.option \ DOMAIN state : \A cs :
        IInv /\ stage = "search" /\ CallsFor(o, cs) /\ Enter(o, cs) => IInv'
<1> SUFFICES ASSUME NEW o \in DOMAIN data.option \ DOMAIN state, NEW cs,
                    IInv, stage = "search", CallsFor(o, cs), Enter(o, cs)
    PROVE  IInv'
  OBVIOUS
<1> DEFINE L == Len(calls)
           r == [option |-> o, rest |-> ChildList(data, o)]
<1>1. /\ state' = [p \in DOMAIN state \cup {o} |-> IF p = o THEN "entered" ELSE state[p]]
      /\ calls' = <<r>> \o cs
      /\ main' = main /\ stage' = stage /\ data' = data /\ at' = at
  BY DEF Enter
<1>2. /\ IsList(cs) /\ Len(cs) = L
      /\ \A i \in 1 .. L :
             /\ DOMAIN cs[i] = {"option", "rest"}
             /\ cs[i].option = calls[i].option
             /\ cs[i].rest \in Seq(Kids(data, calls[i].option))
             /\ \A c \in Kids(data, calls[i].option) :
                    \/ c \in ToSet(cs[i].rest)
                    \/ c \in Done
                    \/ i > 1 /\ c = calls[i - 1].option
                    \/ i = 1 /\ c = o
      /\ L > 0 => o \in Kids(data, calls[1].option)
  BY DEF CallsFor
<1>3. r.option = o /\ r.rest \in Seq(Kids(data, o)) /\ ToSet(r.rest) = Kids(data, o) /\ DOMAIN r = {"option", "rest"}
  BY ChildListFacts DEF IInv, StageInv
<1>4. /\ L \in Nat
      /\ \A i \in 1 .. L : calls[i].option \in DOMAIN state /\ state[calls[i].option] = "entered"
      /\ \A i, j \in 1 .. L : calls[i].option = calls[j].option => i = j
      /\ \A i \in 1 .. L : i > 1 => calls[i - 1].option \in Kids(data, calls[i].option)
      /\ DOMAIN calls = 1 .. L
  BY StackFacts
<1> HIDE DEF L, r
<1>5. /\ IsList(calls') /\ Len(calls') = L + 1 /\ calls'[1] = r
      /\ \A i \in 2 .. L + 1 : calls'[i] = cs[i - 1]
  BY <1>1, <1>2, ListPush
<1>6. DOMAIN calls' = 1 .. L + 1
  BY <1>5, ListFacts
<1>7. \A i \in 1 .. L + 1 : i = 1 \/ (i \in 2 .. L + 1 /\ i - 1 \in 1 .. L)
  BY <1>4
<1>8. DOMAIN state' = DOMAIN state \cup {o} /\ state'[o] = "entered" /\ \A p \in DOMAIN state : state'[p] = state[p]
  BY <1>1
<1>9. Done' = Done
  BY <1>8 DEF Done
<1>10. StageInv'
  BY <1>1 DEF IInv, StageInv, Stages
<1>11. StateInv'
  <2>1. DOMAIN state' \subseteq DOMAIN data'.option
    BY <1>1, <1>8 DEF IInv, StateInv
  <2>2. \A p \in DOMAIN state' : state'[p] \in {"entered", "done"}
    BY <1>8 DEF IInv, StateInv
  <2>3. ASSUME NEW p \in DOMAIN state', state'[p] = "entered" PROVE \E i \in DOMAIN calls' : calls'[i].option = p
    <3>1. CASE p = o
      <4>1. 1 \in DOMAIN calls'
        BY <1>4, <1>6
      <4> QED
        BY <1>3, <1>5, <3>1, <4>1
    <3>2. CASE p # o
      <4>1. PICK i \in DOMAIN calls : calls[i].option = p
        BY <1>8, <2>3, <3>2 DEF IInv, StateInv
      <4>2. i \in 1 .. L /\ i + 1 \in 2 .. L + 1 /\ i + 1 \in 1 .. L + 1 /\ (i + 1) - 1 = i
        BY <1>4, <4>1
      <4>3. calls'[i + 1].option = p
        BY <1>2, <1>5, <4>1, <4>2
      <4> QED
        BY <1>6, <4>2, <4>3
    <3> QED
      BY <3>1, <3>2
  <2> QED
    BY <2>1, <2>2, <2>3 DEF StateInv
<1>12. StackInv'
  <2>1. ASSUME NEW i \in 1 .. L + 1
        PROVE  /\ DOMAIN calls'[i] = {"option", "rest"}
               /\ calls'[i].option \in DOMAIN state'
               /\ state'[calls'[i].option] = "entered"
               /\ calls'[i].rest \in Seq(Kids(data, calls'[i].option))
    <3>1. CASE i = 1
      BY <1>3, <1>5, <1>8, <3>1
    <3>2. CASE i # 1
      <4>1. i - 1 \in 1 .. L /\ calls'[i] = cs[i - 1]
        BY <1>5, <1>7, <3>2
      <4> QED
        BY <1>2, <1>4, <1>8, <4>1
    <3> QED
      BY <3>1, <3>2
  <2>2. ASSUME NEW i \in 1 .. L + 1, NEW j \in 1 .. L + 1, calls'[i].option = calls'[j].option PROVE i = j
    <3>1. \A k \in 1 .. L + 1 : k # 1 => k - 1 \in 1 .. L /\ calls'[k].option = calls[k - 1].option
                                         /\ calls'[k].option # o
      BY <1>2, <1>4, <1>5, <1>7
    <3>2. calls'[1].option = o
      BY <1>3, <1>5
    <3>3. CASE i = 1
      BY <2>2, <3>1, <3>2, <3>3
    <3>4. CASE i # 1
      <4>1. j # 1
        BY <2>2, <3>1, <3>2, <3>4
      <4>2. i - 1 \in 1 .. L /\ j - 1 \in 1 .. L /\ calls[i - 1].option = calls[j - 1].option
        BY <2>2, <3>1, <3>4, <4>1
      <4>3. i - 1 = j - 1
        BY <1>4, <4>2
      <4> QED
        BY <4>3
    <3> QED
      BY <3>3, <3>4
  <2>3. ASSUME NEW i \in 1 .. L + 1, NEW c \in Kids(data, calls'[i].option)
        PROVE  c \in ToSet(calls'[i].rest) \/ c \in Done \/ (i > 1 /\ c = calls'[i - 1].option)
    <3>1. CASE i = 1
      BY <1>3, <1>5, <2>3, <3>1
    <3>2. CASE i # 1
      <4>1. i - 1 \in 1 .. L /\ calls'[i] = cs[i - 1] /\ i > 1
        BY <1>5, <1>7, <3>2
      <4>2. c \in Kids(data, calls[i - 1].option)
        BY <1>2, <2>3, <4>1
      <4>3. \/ c \in ToSet(cs[i - 1].rest)
            \/ c \in Done
            \/ i - 1 > 1 /\ c = calls[(i - 1) - 1].option
            \/ i - 1 = 1 /\ c = o
        BY <1>2, <4>1, <4>2
      <4>4. CASE i - 1 > 1 /\ c = calls[(i - 1) - 1].option
        <5>1. i - 1 \in 2 .. L + 1 /\ (i - 1) - 1 \in 1 .. L
          BY <1>4, <4>1, <4>4
        <5>2. calls'[i - 1].option = calls[(i - 1) - 1].option
          BY <1>2, <1>5, <5>1
        <5> QED
          BY <4>1, <4>4, <5>2
      <4>5. CASE i - 1 = 1 /\ c = o
        BY <1>3, <1>5, <4>1, <4>5
      <4> QED
        BY <4>1, <4>3, <4>4, <4>5
    <3> QED
      BY <3>1, <3>2
  <2>4. ASSUME NEW i \in 1 .. L + 1, i > 1 PROVE calls'[i - 1].option \in Kids(data, calls'[i].option)
    <3>1. i - 1 \in 1 .. L /\ calls'[i] = cs[i - 1] /\ calls'[i].option = calls[i - 1].option
      BY <1>2, <1>5, <1>7, <2>4
    <3>2. CASE i - 1 = 1
      BY <1>2, <1>3, <1>5, <3>1, <3>2
    <3>3. CASE i - 1 # 1
      <4>1. i - 1 > 1 /\ i - 1 \in 2 .. L + 1 /\ (i - 1) - 1 \in 1 .. L
        BY <1>4, <3>1, <3>3
      <4>2. calls'[i - 1].option = calls[(i - 1) - 1].option
        BY <1>2, <1>5, <4>1
      <4> QED
        BY <1>4, <3>1, <4>1, <4>2
    <3> QED
      BY <3>2, <3>3
  <2> QED
    BY <1>1, <1>5, <1>6, <1>9, <2>1, <2>2, <2>3, <2>4 DEF StackInv
<1>13. DoneInv'
  BY <1>1, <1>9 DEF IInv, DoneInv
<1>14. RejectInv'
  BY <1>1 DEF RejectInv
<1> QED
  BY <1>10, <1>11, <1>12, <1>13, <1>14 DEF IInv

\* The search starts from an option that no earlier start has seen.
LEMMA SearchFromKeeps == IInv /\ SearchFrom => IInv'
<1> SUFFICES ASSUME IInv, SearchFrom PROVE IInv'
  OBVIOUS
<1>1. stage = "search" /\ calls = <<>>
  BY DEF SearchFrom
<1>2. PICK o \in DOMAIN data.option \ DOMAIN state : Enter(o, <<>>)
  BY DEF SearchFrom
<1>3. IsList(<<>>) /\ Len(<<>>) = 0
  BY DEF IsList, ToSet
<1>4. CallsFor(o, <<>>)
  BY <1>1, <1>3 DEF CallsFor
<1> QED
  BY <1>1, <1>2, <1>4, EnterKeeps

\* A call that takes the next child from its rest calls for it.
LEMMA TakesNext ==
    IInv /\ calls # <<>> /\ calls[1].rest # <<>> =>
        /\ CallsFor(Head(calls[1].rest), [calls EXCEPT ![1].rest = Tail(@)])
        /\ Head(calls[1].rest) \in Kids(data, calls[1].option)
<1> SUFFICES ASSUME IInv, calls # <<>>, calls[1].rest # <<>>
    PROVE  /\ CallsFor(Head(calls[1].rest), [calls EXCEPT ![1].rest = Tail(@)])
           /\ Head(calls[1].rest) \in Kids(data, calls[1].option)
  OBVIOUS
<1> DEFINE L == Len(calls)
           K == Kids(data, calls[1].option)
           rest == calls[1].rest
           c == Head(rest)
           e == [calls[1] EXCEPT !.rest = Tail(rest)]
           cs == [calls EXCEPT ![1] = e]
           S == ToSet(calls) \cup {e}
<1>1. /\ IsList(calls) /\ L \in Nat /\ DOMAIN calls = 1 .. L
      /\ \A i \in 1 .. L :
             /\ DOMAIN calls[i] = {"option", "rest"}
             /\ calls[i].rest \in Seq(Kids(data, calls[i].option))
      /\ \A i \in 1 .. L : \A x \in Kids(data, calls[i].option) :
             x \in ToSet(calls[i].rest) \/ x \in Done \/ (i > 1 /\ x = calls[i - 1].option)
  BY StackFacts
<1>2. 1 \in 1 .. L
  BY <1>1, ListTail
<1>3. rest \in Seq(K) /\ rest # <<>> /\ DOMAIN calls[1] = {"option", "rest"}
  BY <1>1, <1>2
<1>4. [calls EXCEPT ![1].rest = Tail(@)] = cs
  OBVIOUS
<1>5. c \in K /\ Tail(rest) \in Seq(K)
  <2> HIDE DEF K, rest
  <2> QED
    BY <1>3, HeadTailProperties
<1>6. ToSet(rest) = {c} \cup ToSet(Tail(rest))
  <2>1. IsList(rest)
    BY <1>3, SeqIsList
  <2> HIDE DEF rest
  <2> QED
    BY <1>3, <2>1, ListTail
<1>7. DOMAIN e = {"option", "rest"} /\ e.option = calls[1].option /\ e.rest = Tail(rest)
  BY <1>3
<1>8. calls \in Seq(S) /\ e \in S
  <2> HIDE DEF e
  <2> QED
    BY <1>1, ListFacts
<1>9. /\ cs \in Seq(S) /\ Len(cs) = L
      /\ \A j \in 1 .. L : cs[j] = IF j = 1 THEN e ELSE calls[j]
  <2> HIDE DEF S, e
  <2> QED
    BY <1>2, <1>8, ExceptSeq
<1>10. IsList(cs)
  <2> HIDE DEF S, cs
  <2> QED
    BY <1>9, SeqIsList
<1> HIDE DEF L, K, rest, c, e, cs, S
<1>11. ASSUME NEW i \in 1 .. L
       PROVE  /\ DOMAIN cs[i] = {"option", "rest"}
              /\ cs[i].option = calls[i].option
              /\ cs[i].rest \in Seq(Kids(data, calls[i].option))
  <2>1. CASE i = 1
    BY <1>5, <1>7, <1>9, <2>1 DEF K
  <2>2. CASE i # 1
    BY <1>1, <1>9, <2>2
  <2> QED
    BY <2>1, <2>2
<1>12. ASSUME NEW i \in 1 .. L, NEW x \in Kids(data, calls[i].option)
       PROVE  \/ x \in ToSet(cs[i].rest)
              \/ x \in Done
              \/ i > 1 /\ x = calls[i - 1].option
              \/ i = 1 /\ x = c
  <2>1. x \in ToSet(calls[i].rest) \/ x \in Done \/ (i > 1 /\ x = calls[i - 1].option)
    BY <1>1
  <2>2. CASE i = 1
    <3>1. cs[i].rest = Tail(rest) /\ calls[i].rest = rest
      BY <1>2, <1>7, <1>9, <2>2 DEF rest
    <3> QED
      BY <1>6, <2>1, <2>2, <3>1
  <2>3. CASE i # 1
    BY <1>9, <2>1, <2>3
  <2> QED
    BY <2>2, <2>3
<1>13. CallsFor(c, cs)
  BY <1>5, <1>9, <1>10, <1>11, <1>12 DEF CallsFor, K, L
<1> QED
  BY <1>4, <1>5, <1>13 DEF c, rest, K

\* The first call that is entered again: from there to the last one goes a cycle.
LEMMA EnteredIsCycle ==
    IInv /\ Closed(data) => \A c \in DOMAIN state :
        state[c] = "entered" /\ Len(calls) > 0 /\ c \in Kids(data, calls[1].option) => c \in Descendants(data, c)
<1> SUFFICES ASSUME IInv, Closed(data), NEW c \in DOMAIN state, state[c] = "entered",
                    Len(calls) > 0, c \in Kids(data, calls[1].option)
    PROVE  c \in Descendants(data, c)
  OBVIOUS
<1> DEFINE L == Len(calls)
           O == DOMAIN data.option
           s == [i \in 1 .. L |-> calls[i].option]
<1>1. /\ L \in Nat /\ DOMAIN calls = 1 .. L
      /\ \A i \in 1 .. L : calls[i].option \in DOMAIN state
      /\ \A i, j \in 1 .. L : calls[i].option = calls[j].option => i = j
      /\ \A i \in 1 .. L : i > 1 => calls[i - 1].option \in Kids(data, calls[i].option)
  BY StackFacts
<1>2. DOMAIN state \subseteq O /\ IsFile(data)
  BY DEF IInv, StateInv, StageInv
<1>3. PICK k \in 1 .. L : calls[k].option = c
  BY <1>1 DEF IInv, StateInv
<1>4. \A i \in 1 .. L : i > 1 => i - 1 \in 1 .. L
  BY <1>1
<1>5. 1 \in 1 .. L
  BY <1>1
<1>6. \A i \in 1 .. L : s[i] = calls[i].option
  OBVIOUS
<1>7. s \in Seq(O) /\ Len(s) = L
  <2>1. s \in [1 .. L -> O] /\ DOMAIN s = 1 .. L
    BY <1>1, <1>2
  <2> HIDE DEF s, L, O
  <2> QED
    BY <1>1, <2>1
<1> HIDE DEF s, L
<1>8. \A i, j \in 1 .. Len(s) : s[i] = s[j] => i = j
  BY <1>1, <1>6, <1>7
<1>9. \A i \in 1 .. Len(s) : i > 1 => s[i - 1] \in Kids(data, s[i])
  BY <1>1, <1>4, <1>6, <1>7
<1>10. k \in 1 .. Len(s) /\ s[k] = c /\ s[k] \in Kids(data, s[1])
  BY <1>3, <1>5, <1>6, <1>7
<1>11. s[k] \in Descendants(data, s[k])
  <2>1. IsOptions(data.option)
    BY DEF IInv, StageInv, IsFile
  <2> QED
    BY <2>1, <1>2, <1>7, <1>8, <1>9, <1>10, CycleIsFound
<1> QED
  BY <1>10, <1>11

\* The loop over the children goes on.
LEMMA NextChildKeeps == IInv /\ NextChild => IInv'
<1> SUFFICES ASSUME IInv, NextChild PROVE IInv'
  OBVIOUS
<1> DEFINE c == Head(calls[1].rest)
           callers == [calls EXCEPT ![1].rest = Tail(@)]
<1>1. stage = "search" /\ calls # <<>> /\ calls[1].rest # <<>>
  BY DEF NextChild
<1>2. CallsFor(c, callers) /\ c \in Kids(data, calls[1].option)
  BY <1>1, TakesNext
<1>3. IF c \notin DOMAIN state THEN Enter(c, callers)
      ELSE IF state[c] = "entered" THEN Reject
      ELSE calls' = callers /\ UNCHANGED <<main, stage, data, at, state>>
  BY DEF NextChild
<1> HIDE DEF c, callers
<1>4. /\ IsList(calls) /\ Len(calls) \in Nat /\ DOMAIN calls = 1 .. Len(calls)
      /\ \A i \in 1 .. Len(calls) : calls[i].option \in DOMAIN state /\ state[calls[i].option] = "entered"
      /\ \A i, j \in 1 .. Len(calls) : calls[i].option = calls[j].option => i = j
      /\ \A i \in 1 .. Len(calls) : i > 1 => calls[i - 1].option \in Kids(data, calls[i].option)
  BY StackFacts
<1>5. Len(calls) > 0 /\ 1 \in 1 .. Len(calls)
  BY <1>1, <1>4, ListTail
<1>6. CASE c \notin DOMAIN state
  <2>1. CASE c \in DOMAIN data.option
    BY <1>1, <1>2, <1>3, <1>6, <2>1, EnterKeeps
  <2>2. CASE c \notin DOMAIN data.option
    <3>1. Reject
      BY <1>3, <1>6, <2>2 DEF Enter
    <3>2. calls[1].option \in DOMAIN data.option
      BY <1>4, <1>5 DEF IInv, StateInv
    <3>3. ~EndsEverywhere(data)
      BY <1>2, <2>2, <3>2 DEF EndsEverywhere, Kids
    <3> QED
      BY <3>1, <3>3, RejectKeeps
  <2> QED
    BY <2>1, <2>2
<1>7. CASE c \in DOMAIN state /\ state[c] = "entered"
  <2>1. Reject
    BY <1>3, <1>7
  <2>2. ~EndsEverywhere(data)
    <3>1. SUFFICES ASSUME EndsEverywhere(data) PROVE FALSE
      OBVIOUS
    <3>2. Closed(data)
      BY <3>1 DEF EndsEverywhere, Closed, Kids
    <3>3. c \in Descendants(data, c)
      BY <1>2, <1>5, <1>7, <3>2, EnteredIsCycle
    <3>4. c \in DOMAIN data.option
      BY <1>7 DEF IInv, StateInv
    <3> QED
      BY <3>1, <3>3, <3>4 DEF EndsEverywhere
  <2> QED
    BY <2>1, <2>2, RejectKeeps
<1>8. CASE c \in DOMAIN state /\ state[c] # "entered"
  <2>1. calls' = callers /\ main' = main /\ stage' = stage /\ data' = data /\ at' = at /\ state' = state
    BY <1>3, <1>8
  <2>2. Done' = Done /\ c \in Done
    <3>1. state[c] = "done" /\ c \in DOMAIN state
      BY <1>8 DEF IInv, StateInv
    <3>2. c \in Done
      BY <3>1 DEF Done
    <3> QED
      BY <2>1, <3>2 DEF Done
  <2>3. /\ IsList(calls') /\ Len(calls') = Len(calls)
        /\ \A i \in 1 .. Len(calls) :
               /\ DOMAIN calls'[i] = {"option", "rest"}
               /\ calls'[i].option = calls[i].option
               /\ calls'[i].rest \in Seq(Kids(data, calls[i].option))
               /\ \A x \in Kids(data, calls[i].option) :
                      \/ x \in ToSet(calls'[i].rest)
                      \/ x \in Done
                      \/ i > 1 /\ x = calls[i - 1].option
    BY <1>2, <2>1, <2>2 DEF CallsFor
  <2>4. DOMAIN calls' = 1 .. Len(calls)
    BY <2>3, ListFacts
  <2>5. \A i \in 1 .. Len(calls) : i > 1 => i - 1 \in 1 .. Len(calls)
    BY <1>4
  <2>6. StageInv'
    BY <1>1, <2>1 DEF IInv, StageInv, Stages
  <2>7. StateInv'
    BY <1>4, <2>1, <2>3, <2>4 DEF IInv, StateInv
  <2>8. StackInv'
    BY <1>4, <2>1, <2>2, <2>3, <2>4, <2>5 DEF StackInv
  <2>9. DoneInv'
    BY <2>1, <2>2 DEF IInv, DoneInv
  <2>10. RejectInv'
    BY <1>1, <2>1 DEF RejectInv
  <2> QED
    BY <2>6, <2>7, <2>8, <2>9, <2>10 DEF IInv
<1> QED
  BY <1>6, <1>7, <1>8

\* A call without a rest returns: its option is done, and nothing that is done has it as a child.
LEMMA ReturnKeeps == IInv /\ Return => IInv'
<1> SUFFICES ASSUME IInv, Return PROVE IInv'
  OBVIOUS
<1> DEFINE L == Len(calls)
           o == calls[1].option
<1>1. /\ stage = "search" /\ calls # <<>> /\ calls[1].rest = <<>>
      /\ state' = [state EXCEPT ![o] = "done"]
      /\ calls' = Tail(calls)
      /\ main' = main /\ stage' = stage /\ data' = data /\ at' = at
  BY DEF Return
<1>2. /\ IsList(calls) /\ L \in Nat /\ DOMAIN calls = 1 .. L
      /\ \A i \in 1 .. L :
             /\ DOMAIN calls[i] = {"option", "rest"}
             /\ calls[i].option \in DOMAIN state
             /\ state[calls[i].option] = "entered"
             /\ calls[i].rest \in Seq(Kids(data, calls[i].option))
      /\ \A i, j \in 1 .. L : calls[i].option = calls[j].option => i = j
      /\ \A i \in 1 .. L : \A c \in Kids(data, calls[i].option) :
             c \in ToSet(calls[i].rest) \/ c \in Done \/ (i > 1 /\ c = calls[i - 1].option)
      /\ \A i \in 1 .. L : i > 1 => calls[i - 1].option \in Kids(data, calls[i].option)
  BY StackFacts
<1>3. /\ L \in Nat \ {0} /\ IsList(calls') /\ Len(calls') = L - 1
      /\ \A i \in 1 .. L - 1 : calls'[i] = calls[i + 1]
  BY <1>1, <1>2, ListTail
<1> HIDE DEF L
<1>4. DOMAIN calls' = 1 .. L - 1 /\ 1 \in 1 .. L
  BY <1>3, ListFacts
<1>5. \A i \in 1 .. L - 1 : i + 1 \in 1 .. L /\ i + 1 > 1 /\ (i + 1) - 1 = i
  BY <1>2
<1>6. o \in DOMAIN state /\ state[o] = "entered" /\ o \notin Done
  BY <1>2, <1>4 DEF Done
<1>7. DOMAIN state' = DOMAIN state /\ state'[o] = "done" /\ \A p \in DOMAIN state : p # o => state'[p] = state[p]
  BY <1>1, <1>6
<1>8. Kids(data, o) \subseteq Done
  <2>1. ToSet(calls[1].rest) = {}
    BY <1>1 DEF ToSet
  <2> QED
    BY <1>2, <1>4, <2>1
<1>9. \A i \in 1 .. L - 1 : calls'[i].option # o
  BY <1>2, <1>3, <1>4, <1>5
<1> HIDE DEF o
<1>10. Done' = Done \cup {o}
  BY <1>6, <1>7 DEF Done
<1>11. StageInv'
  BY <1>1 DEF IInv, StageInv, Stages
<1>12. StateInv'
  <2>1. DOMAIN state' \subseteq DOMAIN data'.option
    BY <1>1, <1>7 DEF IInv, StateInv
  <2>2. \A p \in DOMAIN state' : state'[p] \in {"entered", "done"}
    BY <1>7 DEF IInv, StateInv
  <2>3. ASSUME NEW p \in DOMAIN state', state'[p] = "entered" PROVE \E i \in DOMAIN calls' : calls'[i].option = p
    <3>1. p # o /\ p \in DOMAIN state /\ state[p] = "entered"
      BY <1>7, <2>3
    <3>2. PICK i \in 1 .. L : calls[i].option = p
      BY <1>2, <3>1 DEF IInv, StateInv
    <3>3. i # 1
      BY <3>1, <3>2 DEF o
    <3>4. i - 1 \in 1 .. L - 1 /\ (i - 1) + 1 = i
      BY <1>2, <3>2, <3>3
    <3>5. calls'[i - 1].option = p
      BY <1>3, <3>2, <3>4
    <3> QED
      BY <1>4, <3>4, <3>5
  <2> QED
    BY <2>1, <2>2, <2>3 DEF StateInv
<1>13. StackInv'
  <2>1. ASSUME NEW i \in 1 .. L - 1
        PROVE  /\ DOMAIN calls'[i] = {"option", "rest"}
               /\ calls'[i].option \in DOMAIN state'
               /\ state'[calls'[i].option] = "entered"
               /\ calls'[i].rest \in Seq(Kids(data, calls'[i].option))
    BY <1>2, <1>3, <1>5, <1>7, <1>9
  <2>2. ASSUME NEW i \in 1 .. L - 1, NEW j \in 1 .. L - 1, calls'[i].option = calls'[j].option PROVE i = j
    <3>1. calls[i + 1].option = calls[j + 1].option /\ i + 1 \in 1 .. L /\ j + 1 \in 1 .. L
      BY <1>3, <1>5, <2>2
    <3>2. i + 1 = j + 1
      BY <1>2, <3>1
    <3> QED
      BY <3>2
  <2>3. ASSUME NEW i \in 1 .. L - 1, NEW c \in Kids(data, calls'[i].option)
        PROVE  c \in ToSet(calls'[i].rest) \/ c \in Done' \/ (i > 1 /\ c = calls'[i - 1].option)
    <3>1. calls'[i] = calls[i + 1] /\ i + 1 \in 1 .. L /\ (i + 1) - 1 = i
      BY <1>3, <1>5
    <3>2. c \in ToSet(calls[i + 1].rest) \/ c \in Done \/ c = calls[i].option
      BY <1>2, <2>3, <3>1
    <3>3. CASE c = calls[i].option
      <4>1. CASE i = 1
        BY <1>10, <3>3, <4>1 DEF o
      <4>2. CASE i # 1
        <5>1. i - 1 \in 1 .. L - 1 /\ (i - 1) + 1 = i /\ i > 1
          BY <1>2, <4>2
        <5> QED
          BY <1>3, <3>3, <5>1
      <4> QED
        BY <4>1, <4>2
    <3> QED
      BY <1>10, <3>1, <3>2, <3>3
  <2>4. ASSUME NEW i \in 1 .. L - 1, i > 1 PROVE calls'[i - 1].option \in Kids(data, calls'[i].option)
    <3>1. calls'[i] = calls[i + 1] /\ i + 1 \in 1 .. L /\ i + 1 > 1 /\ (i + 1) - 1 = i
      BY <1>3, <1>5
    <3>2. i - 1 \in 1 .. L - 1 /\ (i - 1) + 1 = i
      BY <1>2, <2>4
    <3>3. calls'[i - 1] = calls[i]
      BY <1>3, <3>2
    <3> QED
      BY <1>2, <3>1, <3>3
  <2> QED
    BY <1>1, <1>3, <1>4, <2>1, <2>2, <2>3, <2>4 DEF StackInv
<1>14. DoneInv'
  <2>1. \A p \in Done : Kids(data, p) \subseteq Done
    BY DEF IInv, DoneInv
  <2>2. \A p \in Done' : Kids(data, p) \subseteq Done'
    BY <1>8, <1>10, <2>1
  <2>3. ASSUME NEW X \in SUBSET Done', X # {} PROVE \E x \in X : \A y \in X : x \notin Kids(data, y)
    <3>1. CASE o \in X
      <4>1. \A y \in X : Kids(data, y) \subseteq Done
        BY <1>8, <1>10, <2>1
      <4> QED
        BY <1>6, <3>1, <4>1
    <3>2. CASE o \notin X
      <4>1. X \in SUBSET Done
        BY <1>10, <3>2
      <4> QED
        BY <2>3, <4>1 DEF IInv, DoneInv
    <3> QED
      BY <3>1, <3>2
  <2> QED
    BY <1>1, <2>2, <2>3 DEF DoneInv
<1>15. RejectInv'
  BY <1>1 DEF RejectInv
<1> QED
  BY <1>11, <1>12, <1>13, <1>14, <1>15 DEF IInv

\* Nothing changes, as far as the invariant is concerned.
LEMMA StutterKeeps == IInv /\ UNCHANGED parseVars => IInv'
<1> SUFFICES ASSUME IInv, UNCHANGED parseVars PROVE IInv'
  OBVIOUS
<1>1. main' = main /\ stage' = stage /\ data' = data /\ at' = at /\ state' = state /\ calls' = calls
  BY DEF parseVars
<1>2. StateInv' /\ StackInv' /\ DoneInv'
  BY <1>1, SameSearch DEF IInv
<1>3. StageInv'
  BY <1>1 DEF IInv, StageInv
<1>4. RejectInv'
  BY <1>1 DEF IInv, RejectInv
<1> QED
  BY <1>2, <1>3, <1>4 DEF IInv

\* The inductive invariant of parse_interface: what is checked at each stage, the stack of the
\* search, and the order in which options are done (Parser.cpp:402-489).
THEOREM Invariance == ParseSpec => []IInv
<1>1. ParseInit => IInv
  BY Initially
<1>2. IInv /\ [Parse]_parseVars => IInv'
  <2> SUFFICES ASSUME IInv, [Parse]_parseVars PROVE IInv'
    OBVIOUS
  <2>1. CASE ReadImport
    BY <2>1, ReadImportKeeps
  <2>2. CASE BeginValidation
    BY <2>2, BeginValidationKeeps
  <2>3. CASE SearchFrom
    BY <2>3, SearchFromKeeps
  <2>4. CASE NextChild
    BY <2>4, NextChildKeeps
  <2>5. CASE Return
    BY <2>5, ReturnKeeps
  <2>6. CASE EndSearch
    BY <2>6, EndSearchKeeps
  <2>7. CASE UNCHANGED parseVars
    BY <2>7, StutterKeeps
  <2> QED
    BY <2>1, <2>2, <2>3, <2>4, <2>5, <2>6, <2>7 DEF Parse
<1> QED
  BY <1>1, <1>2, PTL DEF ParseSpec

-----------------------------------------------------------------------------
(* The verdict.                                                             *)

\* The first task of a name is a task of that name.
LEMMA TaskNamedFacts ==
    \A d : IsFile(d) => \A n \in {t.name : t \in ToSet(d.task)} : TaskNamed(d, n) \in ToSet(d.task)
<1> SUFFICES ASSUME NEW d, IsFile(d), NEW n \in {t.name : t \in ToSet(d.task)}
    PROVE  TaskNamed(d, n) \in ToSet(d.task)
  OBVIOUS
<1> DEFINE task == d.task
           IsFirst(i) == task[i].name = n /\ \A j \in 1 .. i - 1 : task[j].name # n
           M == Len(task)
<1>1. IsList(task)
  BY DEF IsFile, Listed, Appended
<1>2. M \in Nat /\ DOMAIN task = 1 .. M /\ \A i \in 1 .. M : task[i] \in ToSet(task)
  BY <1>1, ListFacts
<1>3. TaskNamed(d, n) = task[CHOOSE i \in DOMAIN task : IsFirst(i)]
  BY DEF TaskNamed
<1>4. PICK k \in 1 .. M : task[k].name = n
  BY <1>2 DEF ToSet
<1> HIDE DEF task, M
<1>5. \E i \in 1 .. M : IsFirst(i)
  <2>1. SUFFICES ASSUME \A i \in 1 .. M : ~IsFirst(i) PROVE FALSE
    OBVIOUS
  <2> DEFINE S == {m \in 0 .. M : \A j \in 1 .. m : task[j].name # n}
  <2>2. 0 \in S
    BY <1>2
  <2>3. ASSUME NEW m \in Nat, m < M, m \in S PROVE m + 1 \in S
    <3>1. m + 1 \in 1 .. M /\ m + 1 \in 0 .. M /\ (m + 1) - 1 = m
      BY <1>2, <2>3
    <3>2. task[m + 1].name # n
      BY <2>1, <2>3, <3>1
    <3>3. \A j \in 1 .. m + 1 : j = m + 1 \/ j \in 1 .. m
      BY <2>3
    <3> QED
      BY <2>3, <3>1, <3>2, <3>3
  <2> HIDE DEF S
  <2>4. 0 .. M \subseteq S
    BY <1>2, <2>2, <2>3, UpTo
  <2>5. k \in 1 .. k /\ k \in 0 .. M
    BY <1>2, <1>4
  <2> QED
    BY <1>4, <2>4, <2>5 DEF S
<1>6. (CHOOSE i \in DOMAIN task : IsFirst(i)) \in 1 .. M
  <2> HIDE DEF IsFirst
  <2> QED
    BY <1>2, <1>5
<1> QED
  BY <1>2, <1>3, <1>6 DEF task

\* What the rest of the program gets of a file whose references hold and whose options end.
LEMMA ParsedIsValid == \A d : IsFile(d) /\ ReferencesHold(d) /\ EndsEverywhere(d) => ValidInterface(Parsed(d))
<1> SUFFICES ASSUME NEW d, IsFile(d), ReferencesHold(d), EndsEverywhere(d)
    PROVE  ValidInterface(Parsed(d))
  OBVIOUS
<1> DEFINE I == Parsed(d)
<1>1. /\ I.option = d.option /\ I.global = d.global /\ I.pretask = d.pretask
      /\ DOMAIN I.task = {t.name : t \in ToSet(d.task)}
      /\ \A n \in DOMAIN I.task : I.task[n] = TaskNamed(d, n)
  BY DEF Parsed
<1> HIDE DEF I
<1>2. \A n \in DOMAIN I.task : ToSet(I.task[n].roots) \subseteq DOMAIN d.option
  BY <1>1, TaskNamedFacts DEF ReferencesHold
<1>3. IsList(d.pretask)
  BY DEF IsFile, Listed, Appended
<1>4. \A i \in DOMAIN d.pretask : d.pretask[i] \in ToSet(d.pretask)
  BY DEF ToSet
<1>5. \A i \in DOMAIN d.pretask : ToSet(d.pretask[i].roots) \subseteq DOMAIN d.option
  BY <1>4 DEF ReferencesHold
<1>6. ToSet(d.global) \subseteq DOMAIN d.option /\ \A o \in DOMAIN d.option : ValidCheckbox(d.option[o])
  BY DEF ReferencesHold
<1>7. \A o \in DOMAIN d.option : Descendants(I, o) = Descendants(d, o)
  BY <1>1 DEF Descendants
<1>8. EndsEverywhere(I)
  BY <1>1, <1>7 DEF EndsEverywhere
<1> QED
  BY <1>1, <1>2, <1>5, <1>6, <1>7, <1>8 DEF ValidInterface, I

\* When all options are done, none of them is below itself.
LEMMA AcceptedEnds == IInv /\ calls = <<>> /\ DOMAIN data.option \subseteq DOMAIN state => EndsEverywhere(data)
<1> SUFFICES ASSUME IInv, calls = <<>>, DOMAIN data.option \subseteq DOMAIN state
    PROVE  EndsEverywhere(data)
  OBVIOUS
<1>1. Done = DOMAIN data.option
  <2>1. \A o \in DOMAIN state : state[o] = "done"
    BY DEF IInv, StateInv
  <2> QED
    BY <2>1 DEF IInv, StateInv, Done
<1>2. Closed(data)
  BY <1>1 DEF IInv, DoneInv, Closed
<1>3. \A X \in SUBSET DOMAIN data.option : X # {} => \E x \in X : \A y \in X : x \notin Kids(data, y)
  BY <1>1 DEF IInv, DoneInv
<1> QED
  BY <1>2, <1>3, FoundedEnds DEF IInv, StageInv, IsFile

\* The search with shared visit states accepts exactly the interfaces, of any number of options
\* at any depth, whose prompts end, and rejects only for a reason (Parser.cpp:325-360).
THEOREM VerdictsAreRight == ParseSpec => []VerdictIsRight
<1>1. IInv => VerdictIsRight
  <2> SUFFICES ASSUME IInv PROVE VerdictIsRight
    OBVIOUS
  <2>1. ASSUME stage = "accepted"
        PROVE  at \notin DOMAIN main.import /\ EndsEverywhere(data) /\ ValidInterface(Parsed(data))
    <3>1. IsFile(data) /\ at \notin DOMAIN main.import /\ ReferencesHold(data)
          /\ calls = <<>> /\ DOMAIN data.option \subseteq DOMAIN state
      BY <2>1 DEF IInv, StageInv
    <3>2. EndsEverywhere(data)
      BY <3>1, AcceptedEnds
    <3> QED
      BY <3>1, <3>2, ParsedIsValid
  <2> QED
    BY <2>1 DEF IInv, RejectInv, VerdictIsRight
<1> QED
  BY <1>1, Invariance, PTL

-----------------------------------------------------------------------------
(* The order of names.                                                      *)

\* s has what t has, and in the order in which t has it first.
Alike(s, t) ==
    /\ ToSet(s) = ToSet(t)
    /\ \A m, n \in ToSet(s) : Before(s, m, n) = Before(t, m, n)

\* What is not in a list is not before anything, and everything in it is before what is not.
LEMMA BeforeOutside ==
    \A s : IsList(s) => /\ \A m, n : m \notin ToSet(s) => ~Before(s, m, n)
                        /\ \A m \in ToSet(s) : \A n : n \notin ToSet(s) => Before(s, m, n)
<1> SUFFICES ASSUME NEW s, IsList(s)
    PROVE  /\ \A m, n : m \notin ToSet(s) => ~Before(s, m, n)
           /\ \A m \in ToSet(s) : \A n : n \notin ToSet(s) => Before(s, m, n)
  OBVIOUS
<1>1. Len(s) \in Nat /\ DOMAIN s = 1 .. Len(s) /\ ToSet(s) = {s[i] : i \in 1 .. Len(s)}
  BY ListFacts DEF ToSet
<1>2. ASSUME NEW m, NEW n, m \notin ToSet(s) PROVE ~Before(s, m, n)
  BY <1>1, <1>2 DEF Before
<1>3. ASSUME NEW m \in ToSet(s), NEW n, n \notin ToSet(s) PROVE Before(s, m, n)
  <2>1. PICK i \in 1 .. Len(s) : s[i] = m
    BY <1>1
  <2>2. \A j \in 1 .. i : j \in 1 .. Len(s)
    BY <1>1
  <2>3. \A j \in 1 .. i : s[j] # n
    BY <1>1, <1>3, <2>2
  <2> QED
    BY <1>1, <2>1, <2>3 DEF Before
<1> QED
  BY <1>2, <1>3

\* One more at the end is before what is nowhere, and nothing else.
LEMMA BeforeAppend ==
    \A S : \A s \in Seq(S) : \A e \in S : \A m, n :
        Before(Append(s, e), m, n) <=> (Before(s, m, n) \/ (m = e /\ n # e /\ n \notin ToSet(s)))
<1> SUFFICES ASSUME NEW S, NEW s \in Seq(S), NEW e \in S, NEW m, NEW n
    PROVE  Before(Append(s, e), m, n) <=> (Before(s, m, n) \/ (m = e /\ n # e /\ n \notin ToSet(s)))
  OBVIOUS
<1> DEFINE L == Len(s)
           r == Append(s, e)
<1>1. L \in Nat /\ DOMAIN s = 1 .. L /\ ToSet(s) = {s[i] : i \in 1 .. L}
  BY LenProperties DEF ToSet
<1>2. r \in Seq(S) /\ Len(r) = L + 1 /\ r[L + 1] = e /\ \A i \in 1 .. L : r[i] = s[i]
  BY AppendProperties
<1>3. DOMAIN r = 1 .. L + 1
  BY <1>2, LenProperties
<1> HIDE DEF L, r
<1>4. \A i \in 1 .. L + 1 : i = L + 1 \/ i \in 1 .. L
  BY <1>1
<1>5. \A i \in 1 .. L : i \in 1 .. L + 1 /\ \A j \in 1 .. i : j \in 1 .. L
  BY <1>1
<1>6. L + 1 \in 1 .. L + 1 /\ \A j \in 1 .. L : j \in 1 .. L + 1
  BY <1>1
<1>7. Before(r, m, n) <=> \E i \in 1 .. L + 1 : r[i] = m /\ \A j \in 1 .. i : r[j] # n
  BY <1>3 DEF Before
<1>8. Before(s, m, n) <=> \E i \in 1 .. L : s[i] = m /\ \A j \in 1 .. i : s[j] # n
  BY <1>1 DEF Before
<1>9. ASSUME NEW i \in 1 .. L PROVE (r[i] = m /\ \A j \in 1 .. i : r[j] # n) <=> (s[i] = m /\ \A j \in 1 .. i : s[j] # n)
  BY <1>2, <1>5
<1>10. (r[L + 1] = m /\ \A j \in 1 .. L + 1 : r[j] # n) <=> (m = e /\ n # e /\ n \notin ToSet(s))
  <2>1. ASSUME r[L + 1] = m, \A j \in 1 .. L + 1 : r[j] # n PROVE m = e /\ n # e /\ n \notin ToSet(s)
    BY <1>1, <1>2, <1>6, <2>1
  <2>2. ASSUME m = e, n # e, n \notin ToSet(s) PROVE r[L + 1] = m /\ \A j \in 1 .. L + 1 : r[j] # n
    BY <1>1, <1>2, <1>4, <2>2
  <2> QED
    BY <2>1, <2>2
<1>11. (\E i \in 1 .. L + 1 : r[i] = m /\ \A j \in 1 .. i : r[j] # n)
           <=> \/ \E i \in 1 .. L : r[i] = m /\ \A j \in 1 .. i : r[j] # n
               \/ r[L + 1] = m /\ \A j \in 1 .. L + 1 : r[j] # n
  BY <1>4, <1>5, <1>6
<1> QED
  BY <1>7, <1>8, <1>9, <1>10, <1>11 DEF r

\* Lists stay alike when a name comes behind the one, and behind the other if it is new there.
LEMMA AlikeAppend ==
    \A S : \A s, t \in Seq(S) : \A e \in S : Alike(s, t) =>
        Alike(IF e \in ToSet(s) THEN s ELSE Append(s, e), Append(t, e))
<1> SUFFICES ASSUME NEW S, NEW s \in Seq(S), NEW t \in Seq(S), NEW e \in S, Alike(s, t)
    PROVE  Alike(IF e \in ToSet(s) THEN s ELSE Append(s, e), Append(t, e))
  OBVIOUS
<1>1. ToSet(s) = ToSet(t) /\ \A m, n \in ToSet(s) : Before(s, m, n) = Before(t, m, n)
  BY DEF Alike
<1>2. ToSet(Append(s, e)) = ToSet(s) \cup {e} /\ ToSet(Append(t, e)) = ToSet(t) \cup {e}
  BY AppendRange
<1>3. \A m, n : Before(Append(s, e), m, n) <=> (Before(s, m, n) \/ (m = e /\ n # e /\ n \notin ToSet(s)))
  BY BeforeAppend
<1>4. \A m, n : Before(Append(t, e), m, n) <=> (Before(t, m, n) \/ (m = e /\ n # e /\ n \notin ToSet(t)))
  BY BeforeAppend
<1>5. IsList(s) /\ IsList(t)
  BY SeqIsList
<1>6. CASE e \in ToSet(s)
  <2>1. ToSet(Append(t, e)) = ToSet(s)
    BY <1>1, <1>2, <1>6
  <2>2. ASSUME NEW m \in ToSet(s), NEW n \in ToSet(s) PROVE Before(s, m, n) <=> Before(Append(t, e), m, n)
    BY <1>1, <1>4, <2>2
  <2>3. \A m, n \in ToSet(s) : Before(s, m, n) = Before(Append(t, e), m, n)
    BY <2>2 DEF Before
  <2> QED
    BY <1>6, <2>1, <2>3 DEF Alike
<1>7. CASE e \notin ToSet(s)
  <2>1. ASSUME NEW m \in ToSet(s) \cup {e}, NEW n \in ToSet(s) \cup {e} PROVE Before(s, m, n) <=> Before(t, m, n)
    <3>1. CASE m = e
      BY <1>1, <1>5, <1>7, <3>1, BeforeOutside
    <3>2. CASE m # e /\ n = e
      BY <1>1, <1>5, <1>7, <3>2, BeforeOutside
    <3>3. CASE m # e /\ n # e
      BY <1>1, <3>3
    <3> QED
      BY <3>1, <3>2, <3>3
  <2>2. \A m, n \in ToSet(s) \cup {e} : Before(Append(s, e), m, n) <=> Before(Append(t, e), m, n)
    BY <1>1, <1>3, <1>4, <2>1
  <2>3. \A m, n \in ToSet(s) \cup {e} : Before(Append(s, e), m, n) = Before(Append(t, e), m, n)
    BY <2>2 DEF Before
  <2> QED
    BY <1>1, <1>2, <1>7, <2>3 DEF Alike
<1> QED
  BY <1>6, <1>7

\* WithNew keeps the order of the first occurrences, and each name once.
LEMMA WithNewFacts ==
    \A names, t, more : IsList(names) /\ IsList(t) /\ IsList(more) /\ Alike(names, t) =>
        /\ Alike(WithNew(names, more), t \o more)
        /\ IsInjective(names) => IsInjective(WithNew(names, more))
<1> SUFFICES ASSUME NEW names, NEW t, NEW more, IsList(names), IsList(t), IsList(more), Alike(names, t)
    PROVE  /\ Alike(WithNew(names, more), t \o more)
           /\ IsInjective(names) => IsInjective(WithNew(names, more))
  OBVIOUS
<1> DEFINE S == ToSet(names) \cup ToSet(t) \cup ToSet(more)
           N == Len(more)
<1>1. names \in Seq(S) /\ t \in Seq(S) /\ more \in Seq(S) /\ N \in Nat
  BY ListFacts
<1> HIDE DEF S
<1>2. \A i \in 1 .. N : more[i] \in S
  BY <1>1
<1>3. PICK k \in [0 .. N -> Seq(S)] : Grows(k, names, more) /\ WithNew(names, more) = k[N]
  BY <1>1, WithNewGrows
<1>4. /\ k[0] = names
      /\ \A i \in 1 .. N : k[i] = IF more[i] \in ToSet(k[i - 1]) THEN k[i - 1] ELSE Append(k[i - 1], more[i])
  BY <1>3 DEF Grows
<1>5. /\ Prefix(t, more, 0) = t
      /\ Prefix(t, more, N) = t \o more
      /\ \A i \in 0 .. N : Prefix(t, more, i) \in Seq(S)
      /\ \A i \in 1 .. N : Prefix(t, more, i) = Append(Prefix(t, more, i - 1), more[i])
  BY <1>1, PrefixFacts
<1> HIDE DEF N
<1> DEFINE Holds == {i \in 0 .. N : Alike(k[i], Prefix(t, more, i)) /\ (IsInjective(names) => IsInjective(k[i]))}
<1>6. 0 \in Holds
  BY <1>1, <1>4, <1>5
<1>7. ASSUME NEW i \in Nat, i < N, i \in Holds PROVE i + 1 \in Holds
  <2>1. i + 1 \in 1 .. N /\ i + 1 \in 0 .. N /\ i \in 0 .. N /\ (i + 1) - 1 = i
    BY <1>1, <1>7
  <2> DEFINE e == more[i + 1]
             s == k[i]
             p == Prefix(t, more, i)
  <2>2. e \in S /\ s \in Seq(S) /\ p \in Seq(S)
    BY <1>2, <1>5, <2>1
  <2>3. k[i + 1] = IF e \in ToSet(s) THEN s ELSE Append(s, e)
    BY <1>4, <2>1
  <2>4. Prefix(t, more, i + 1) = Append(p, e)
    BY <1>5, <2>1
  <2>5. Alike(s, p) /\ (IsInjective(names) => IsInjective(s))
    BY <1>7
  <2> HIDE DEF e, s, p
  <2>6. Alike(k[i + 1], Prefix(t, more, i + 1))
    BY <2>2, <2>3, <2>4, <2>5, AlikeAppend
  <2>7. IsInjective(s) /\ e \notin ToSet(s) => IsInjective(Append(s, e))
    <3>1. SUFFICES ASSUME IsInjective(s), e \notin ToSet(s) PROVE IsInjective(Append(s, e))
      OBVIOUS
    <3> DEFINE L == Len(s)
               r == Append(s, e)
    <3>2. L \in Nat /\ DOMAIN s = 1 .. L /\ \A j \in 1 .. L : s[j] \in ToSet(s)
      BY <2>2, LenProperties DEF ToSet
    <3>3. r \in Seq(S) /\ Len(r) = L + 1 /\ r[L + 1] = e /\ \A j \in 1 .. L : r[j] = s[j]
      BY <2>2, AppendProperties
    <3>4. DOMAIN r = 1 .. L + 1
      BY <3>3, LenProperties
    <3> HIDE DEF L, r
    <3>5. \A j \in 1 .. L + 1 : j = L + 1 \/ j \in 1 .. L
      BY <3>2
    <3>6. \A a, b \in 1 .. L : s[a] = s[b] => a = b
      BY <3>1, <3>2 DEF IsInjective
    <3>7. \A a, b \in 1 .. L + 1 : r[a] = r[b] => a = b
      BY <3>1, <3>2, <3>3, <3>5, <3>6
    <3> QED
      BY <3>4, <3>7 DEF IsInjective, r
  <2> QED
    BY <2>1, <2>3, <2>5, <2>6, <2>7
<1> HIDE DEF Holds
<1>8. 0 .. N \subseteq Holds
  BY <1>1, <1>6, <1>7, UpTo
<1>9. N \in 0 .. N
  BY <1>1
<1> QED
  BY <1>3, <1>5, <1>8, <1>9 DEF Holds

-----------------------------------------------------------------------------
(* The merge.                                                               *)

Files(m, n) == <<m>> \o [i \in 1 .. n - 1 |-> Imported[m.import[i]]]

Collect(files, key) == FlattenSeq([i \in DOMAIN files |-> files[i][key]])

\* The imports before n are there.
Imports(m, n) == \A i \in 1 .. n - 1 : m.import[i] \in DOMAIN Imported

AreFiles(files) == IsList(files) /\ \A f \in ToSet(files) : IsFile(f)

\* i is the last of the files with the option o.
Defines(files, i, o) ==
    /\ o \in DOMAIN files[i].option
    /\ \A j \in i + 1 .. Len(files) : o \notin DOMAIN files[j].option

\* The list of files, as it grows by one import.
LEMMA FilesFacts ==
    \A m \in Mains : \A n \in Nat \ {0} : Imports(m, n) =>
        /\ Files(m, 1) = <<m>>
        /\ AreFiles(Files(m, n)) /\ Len(Files(m, n)) = n
        /\ m.import[n] \in DOMAIN Imported =>
               /\ IsFile(Imported[m.import[n]])
               /\ Files(m, n + 1) = Append(Files(m, n), Imported[m.import[n]])
<1> SUFFICES ASSUME NEW m \in Mains, NEW n \in Nat \ {0}, Imports(m, n)
    PROVE  /\ Files(m, 1) = <<m>>
           /\ AreFiles(Files(m, n)) /\ Len(Files(m, n)) = n
           /\ m.import[n] \in DOMAIN Imported =>
                  /\ IsFile(Imported[m.import[n]])
                  /\ Files(m, n + 1) = Append(Files(m, n), Imported[m.import[n]])
  OBVIOUS
<1> DEFINE S == {m} \cup {Imported[x] : x \in DOMAIN Imported}
           F(k) == [i \in 1 .. k - 1 |-> Imported[m.import[i]]]
<1>1. \A f \in S : IsFile(f)
  BY FilesAssumption
<1>2. \A x \in DOMAIN Imported : Imported[x] \in S
  OBVIOUS
<1>3. m \in S
  OBVIOUS
<1> HIDE DEF S
<1>4. <<m>> \in Seq(S) /\ Len(<<m>>) = 1 /\ <<m>>[1] = m
  BY <1>3
<1>5. \A k : Files(m, k) = <<m>> \o F(k)
  BY DEF Files
<1>6. ASSUME NEW k \in Nat \ {0}, Imports(m, k)
      PROVE  /\ F(k) \in Seq(S) /\ Len(F(k)) = k - 1
             /\ \A i \in 1 .. k - 1 : F(k)[i] = Imported[m.import[i]]
  <2>1. k - 1 \in Nat
    OBVIOUS
  <2>2. \A i \in 1 .. k - 1 : Imported[m.import[i]] \in S
    BY <1>2, <1>6 DEF Imports
  <2> DEFINE f == F(k)
  <2>3. f \in [1 .. k - 1 -> S] /\ \A i \in 1 .. k - 1 : f[i] = Imported[m.import[i]]
    BY <2>2
  <2> HIDE DEF f, F
  <2>4. f \in Seq(S) /\ Len(f) = k - 1
    BY <2>1, <2>3
  <2> QED
    BY <2>3, <2>4 DEF f
<1>7. Files(m, 1) = <<m>>
  <2>1. F(1) = <<>>
    <3>1. 1 .. 1 - 1 = {}
      OBVIOUS
    <3> QED
      BY <3>1
  <2> QED
    BY <1>4, <1>5, <2>1, ConcatEmptySeq
<1> HIDE DEF F
<1>8. ASSUME NEW k \in Nat \ {0}, Imports(m, k) PROVE Files(m, k) \in Seq(S) /\ Len(Files(m, k)) = k
  <2>1. F(k) \in Seq(S) /\ Len(F(k)) = k - 1
    BY <1>6, <1>8
  <2>2. <<m>> \o F(k) \in Seq(S) /\ Len(<<m>> \o F(k)) = Len(<<m>>) + Len(F(k))
    BY <1>4, <2>1, ConcatProperties
  <2>3. 1 + (k - 1) = k
    OBVIOUS
  <2> QED
    BY <1>4, <1>5, <2>1, <2>2, <2>3
<1>9. AreFiles(Files(m, n)) /\ Len(Files(m, n)) = n
  <2>1. Files(m, n) \in Seq(S) /\ Len(Files(m, n)) = n
    BY <1>8
  <2> QED
    BY <1>1, <2>1, SeqIsList DEF AreFiles
<1>10. ASSUME m.import[n] \in DOMAIN Imported
       PROVE  Files(m, n + 1) = Append(Files(m, n), Imported[m.import[n]])
  <2> DEFINE x == Imported[m.import[n]]
             a == F(n)
             b == F(n + 1)
  <2>1. Imports(m, n + 1) /\ n + 1 \in Nat \ {0}
    <3>1. \A i \in 1 .. (n + 1) - 1 : i = n \/ i \in 1 .. n - 1
      OBVIOUS
    <3> QED
      BY <1>10, <3>1 DEF Imports
  <2>2. a \in Seq(S) /\ Len(a) = n - 1 /\ \A i \in 1 .. n - 1 : a[i] = Imported[m.import[i]]
    BY <1>6
  <2>3. b \in Seq(S) /\ Len(b) = (n + 1) - 1 /\ \A i \in 1 .. (n + 1) - 1 : b[i] = Imported[m.import[i]]
    BY <1>6, <2>1
  <2>4. x \in S
    BY <1>2, <1>10
  <2> HIDE DEF a, b
  <2> DEFINE c == Append(a, x)
  <2>5. /\ c \in Seq(S) /\ Len(c) = (n - 1) + 1 /\ c[(n - 1) + 1] = x
        /\ \A i \in 1 .. n - 1 : c[i] = a[i]
    BY <2>2, <2>4, AppendProperties
  <2>6. (n - 1) + 1 = n /\ (n + 1) - 1 = n /\ \A i \in 1 .. n : i = n \/ i \in 1 .. n - 1
    OBVIOUS
  <2> HIDE DEF c
  <2>7. \A i \in 1 .. n : b[i] = c[i]
    BY <2>2, <2>3, <2>5, <2>6
  <2>8. b = c
    BY <2>3, <2>5, <2>6, <2>7, SeqEqual
  <2>9. <<m>> \o b = Append(<<m>> \o a, x)
    <3>1. <<x>> \in Seq(S)
      BY <2>4
    <3>2. b = a \o <<x>>
      BY <2>2, <2>4, <2>8, AppendIsConcat DEF c
    <3>3. <<m>> \o (a \o <<x>>) = (<<m>> \o a) \o <<x>>
      BY <1>4, <2>2, <3>1, ConcatAssociative
    <3>4. <<m>> \o a \in Seq(S)
      BY <1>4, <2>2, ConcatProperties
    <3>5. Append(<<m>> \o a, x) = (<<m>> \o a) \o <<x>>
      BY <2>4, <3>4, AppendIsConcat
    <3> QED
      BY <3>2, <3>3, <3>5
  <2> QED
    BY <1>5, <2>9 DEF a, b
<1>11. m.import[n] \in DOMAIN Imported => IsFile(Imported[m.import[n]])
  BY FilesAssumption
<1> QED
  BY <1>7, <1>9, <1>10, <1>11

\* What the files have under a key, as they grow by one.
LEMMA CollectFacts ==
    \A key \in Listed :
        /\ \A f : IsFile(f) => Collect(<<f>>, key) = f[key]
        /\ \A files : AreFiles(files) => IsList(Collect(files, key))
        /\ \A files, f : AreFiles(files) /\ IsFile(f) =>
               Collect(Append(files, f), key) = Collect(files, key) \o f[key]
<1> SUFFICES ASSUME NEW key \in Listed
    PROVE  /\ \A f : IsFile(f) => Collect(<<f>>, key) = f[key]
           /\ \A files : AreFiles(files) => IsList(Collect(files, key))
           /\ \A files, f : AreFiles(files) /\ IsFile(f) =>
                  Collect(Append(files, f), key) = Collect(files, key) \o f[key]
  OBVIOUS
<1>1. ASSUME NEW f, IsFile(f) PROVE Collect(<<f>>, key) = f[key]
  <2>1. IsList(f[key])
    BY <1>1 DEF IsFile
  <2> DEFINE S == ToSet(f[key])
  <2>2. f[key] \in Seq(S)
    BY <2>1 DEF IsList
  <2>3. [i \in DOMAIN <<f>> |-> <<f>>[i][key]] = <<f[key]>>
    OBVIOUS
  <2>4. FlattenSeq(<<f[key]>>) = f[key]
    <3> HIDE DEF S
    <3> QED
      BY <2>2, FlattenOne
  <2> QED
    BY <2>3, <2>4 DEF Collect
<1>2. ASSUME NEW files, AreFiles(files), NEW S, \A f \in ToSet(files) : ToSet(f[key]) \subseteq S
      PROVE  [i \in DOMAIN files |-> files[i][key]] \in Seq(Seq(S))
  <2>1. Len(files) \in Nat /\ DOMAIN files = 1 .. Len(files) /\ \A i \in 1 .. Len(files) : files[i] \in ToSet(files)
    BY <1>2, ListFacts DEF AreFiles
  <2>2. ASSUME NEW i \in 1 .. Len(files) PROVE files[i][key] \in Seq(S)
    <3>1. IsList(files[i][key]) /\ ToSet(files[i][key]) \subseteq S
      BY <1>2, <2>1 DEF AreFiles, IsFile
    <3> QED
      BY <3>1, ListFacts
  <2> DEFINE ss == [i \in DOMAIN files |-> files[i][key]]
  <2>3. ss \in [1 .. Len(files) -> Seq(S)]
    BY <2>1, <2>2
  <2> HIDE DEF ss
  <2>4. ss \in Seq(Seq(S))
    BY <2>1, <2>3
  <2> QED
    BY <2>4 DEF ss
<1>3. ASSUME NEW files, AreFiles(files) PROVE IsList(Collect(files, key))
  <2> DEFINE S == UNION {ToSet(f[key]) : f \in ToSet(files)}
  <2>1. \A f \in ToSet(files) : ToSet(f[key]) \subseteq S
    OBVIOUS
  <2> HIDE DEF S
  <2> DEFINE ss == [i \in DOMAIN files |-> files[i][key]]
  <2>2. ss \in Seq(Seq(S))
    BY <1>2, <1>3, <2>1
  <2>3. Collect(files, key) = FlattenSeq(ss)
    BY DEF Collect
  <2> HIDE DEF ss
  <2>4. FlattenSeq(ss) \in Seq(S)
    BY <2>2, FlattenRange
  <2> QED
    BY <2>3, <2>4, SeqIsList
<1>4. ASSUME NEW files, NEW f, AreFiles(files), IsFile(f)
      PROVE  Collect(Append(files, f), key) = Collect(files, key) \o f[key]
  <2> DEFINE T == ToSet(files) \cup {f}
             S == UNION {ToSet(g[key]) : g \in T}
             more == Append(files, f)
             ss == [i \in DOMAIN files |-> files[i][key]]
             tt == [i \in DOMAIN more |-> more[i][key]]
             uu == Append(ss, f[key])
  <2>1. files \in Seq(T) /\ f \in T /\ IsList(files)
    BY <1>4, ListFacts DEF AreFiles
  <2>2. \A g \in T : ToSet(g[key]) \subseteq S
    OBVIOUS
  <2>3. f[key] \in Seq(S)
    <3>1. IsList(f[key]) /\ ToSet(f[key]) \subseteq S
      BY <1>4, <2>1, <2>2 DEF IsFile
    <3> HIDE DEF S
    <3> QED
      BY <3>1, ListFacts
  <2>4. /\ Len(files) \in Nat /\ DOMAIN files = 1 .. Len(files)
    BY <2>1, ListFacts
  <2>5. /\ more \in Seq(T) /\ Len(more) = Len(files) + 1 /\ more[Len(files) + 1] = f
        /\ \A i \in 1 .. Len(files) : more[i] = files[i]
    <3> HIDE DEF T
    <3> QED
      BY <2>1, AppendProperties
  <2>6. AreFiles(more)
    <3>1. IsList(more) /\ ToSet(more) \subseteq T
      <4> HIDE DEF T, more
      <4> QED
        BY <2>5, SeqIsList
    <3>2. \A g \in T : IsFile(g)
      BY <1>4 DEF AreFiles
    <3> HIDE DEF T, more
    <3> QED
      BY <3>1, <3>2 DEF AreFiles
  <2>7. \A g \in ToSet(more) : ToSet(g[key]) \subseteq S
    <3>1. ToSet(more) \subseteq T
      <4> HIDE DEF T, more
      <4> QED
        BY <2>5, SeqIsList
    <3> HIDE DEF T, more, S
    <3> QED
      BY <2>2, <3>1
  <2>8. DOMAIN more = 1 .. Len(files) + 1
    <3> HIDE DEF T, more
    <3> QED
      BY <2>5, LenProperties
  <2>9. \A g \in ToSet(files) : ToSet(g[key]) \subseteq S
    BY <2>2
  <2> HIDE DEF S, T, more
  <2>10. ss \in Seq(Seq(S)) /\ tt \in Seq(Seq(S))
    BY <1>2, <1>4, <2>6, <2>7, <2>9
  <2>11. Len(ss) = Len(files) /\ \A i \in 1 .. Len(files) : ss[i] = files[i][key]
    <3>1. DOMAIN ss = 1 .. Len(files) /\ \A i \in 1 .. Len(files) : ss[i] = files[i][key]
      BY <2>4
    <3> HIDE DEF ss
    <3> QED
      BY <2>4, <2>10, <3>1, LenProperties
  <2>12. Len(tt) = Len(files) + 1 /\ \A i \in 1 .. Len(files) + 1 : tt[i] = more[i][key]
    <3>1. DOMAIN tt = 1 .. Len(files) + 1 /\ \A i \in 1 .. Len(files) + 1 : tt[i] = more[i][key]
      BY <2>8
    <3> HIDE DEF tt
    <3> QED
      BY <2>4, <2>10, <3>1, LenProperties
  <2>13. Collect(more, key) = FlattenSeq(tt) /\ Collect(files, key) = FlattenSeq(ss)
    BY DEF Collect
  <2> HIDE DEF ss, tt
  <2>14. /\ uu \in Seq(Seq(S)) /\ Len(uu) = Len(files) + 1 /\ uu[Len(files) + 1] = f[key]
         /\ \A i \in 1 .. Len(files) : uu[i] = ss[i]
    BY <2>3, <2>10, <2>11, AppendProperties
  <2> HIDE DEF uu
  <2>15. \A i \in 1 .. Len(files) + 1 : i = Len(files) + 1 \/ i \in 1 .. Len(files)
    BY <2>4
  <2>16. \A i \in 1 .. Len(files) + 1 : tt[i] = uu[i]
    BY <2>5, <2>11, <2>12, <2>14, <2>15
  <2>17. tt = uu
    BY <2>10, <2>12, <2>14, <2>16, SeqEqual
  <2>18. FlattenSeq(uu) = FlattenSeq(ss) \o f[key]
    BY <2>3, <2>10, FlattenAppend DEF uu
  <2> QED
    BY <2>13, <2>17, <2>18 DEF more
<1> QED
  BY <1>1, <1>3, <1>4

\* What has been merged is what the files read so far have.
MergeInv ==
    /\ Imports(main, at)
    /\ \A key \in Appended : data[key] = Collect(Files(main, at), key)
    /\ DOMAIN data.option = UNION {DOMAIN Files(main, at)[i].option : i \in 1 .. at}
    /\ \A o \in DOMAIN data.option : \E i \in 1 .. at :
           Defines(Files(main, at), i, o) /\ data.option[o] = Files(main, at)[i].option[o]
    /\ \A key \in {"global", "group"} :
           /\ Alike(data[key], Collect(Files(main, at), key))
           /\ IsInjective(main[key]) => IsInjective(data[key])

\* It holds of the first file.
LEMMA FirstFile == ParseInit => MergeInv
<1> SUFFICES ASSUME ParseInit PROVE MergeInv
  OBVIOUS
<1>1. main \in Mains /\ at = 1 /\ data = NormalizedMain(main) /\ IsFile(main)
  BY FilesAssumption DEF ParseInit
<1>2. Imports(main, 1)
  BY DEF Imports
<1>3. Files(main, at) = <<main>> /\ Len(<<main>>) = 1
  BY <1>1, <1>2, FilesFacts
<1>4. \A key \in Listed : data[key] = main[key] /\ Collect(<<main>>, key) = main[key]
  <2>1. "controller" \notin Listed
    BY DEF Listed, Appended
  <2>2. Listed \subseteq DOMAIN main
    BY <1>1 DEF IsFile
  <2>3. \A key \in Listed : data[key] = main[key]
    BY <1>1, <2>1, <2>2 DEF NormalizedMain
  <2> QED
    BY <1>1, <2>3, CollectFacts
<1>5. data.option = main.option
  <2>1. "option" \in DOMAIN main
    BY <1>1 DEF IsFile
  <2> QED
    BY <1>1, <2>1 DEF NormalizedMain
<1>6. 1 .. at = {1} /\ <<main>>[1] = main
  BY <1>1
<1>7. DOMAIN data.option = UNION {DOMAIN Files(main, at)[i].option : i \in 1 .. at}
  BY <1>3, <1>5, <1>6
<1>8. ASSUME NEW o \in DOMAIN data.option
      PROVE  \E i \in 1 .. at : Defines(Files(main, at), i, o) /\ data.option[o] = Files(main, at)[i].option[o]
  <2>1. Defines(<<main>>, 1, o)
    BY <1>3, <1>5, <1>6 DEF Defines
  <2> QED
    BY <1>3, <1>5, <1>6, <2>1
<1>9. \A key \in {"global", "group"} :
          Alike(data[key], Collect(Files(main, at), key)) /\ (IsInjective(main[key]) => IsInjective(data[key]))
  BY <1>3, <1>4 DEF Alike, Listed
<1>10. \A key \in Appended : data[key] = Collect(Files(main, at), key)
  BY <1>3, <1>4 DEF Listed
<1> QED
  BY <1>1, <1>2, <1>7, <1>8, <1>9, <1>10 DEF MergeInv

\* The next import is merged behind the others.
LEMMA ImportMerges == IInv /\ MergeInv /\ ReadImport => MergeInv'
<1> SUFFICES ASSUME IInv, MergeInv, ReadImport PROVE MergeInv'
  OBVIOUS
<1>1. main \in Mains /\ at \in Nat \ {0} /\ Imports(main, at) /\ IsFile(data)
  BY DEF IInv, StageInv, MergeInv
<1>2. CASE main.import[at] \notin DOMAIN Imported
  <2>1. main' = main /\ data' = data /\ at' = at
    BY <1>2 DEF ReadImport, Reject
  <2> QED
    BY <2>1 DEF MergeInv
<1>3. CASE main.import[at] \in DOMAIN Imported
  <2> DEFINE f == Imported[main.import[at]]
             fs == Files(main, at)
             gs == Files(main, at + 1)
  <2>1. data' = Merged(data, f) /\ at' = at + 1 /\ main' = main
    BY <1>3 DEF ReadImport
  <2>2. AreFiles(fs) /\ Len(fs) = at /\ IsFile(f) /\ gs = Append(fs, f)
    BY <1>1, <1>3, FilesFacts
  <2>3. Imports(main', at')
    <3>1. \A i \in 1 .. (at + 1) - 1 : i = at \/ i \in 1 .. at - 1
      BY <1>1
    <3> QED
      BY <1>1, <1>3, <2>1, <3>1 DEF Imports
  <2>4. gs[at + 1] = f /\ Len(gs) = at + 1 /\ \A i \in 1 .. at : gs[i] = fs[i]
    <3> DEFINE S == ToSet(fs) \cup {f}
    <3>1. fs \in Seq(S) /\ f \in S
      BY <2>2, ListFacts DEF AreFiles
    <3> HIDE DEF S, f, fs, gs
    <3> QED
      BY <2>2, <3>1, AppendProperties
  <2>5. Files(main', at') = gs
    BY <2>1
  <2>6. /\ \A key \in Appended : data'[key] = data[key] \o f[key]
        /\ \A key \in {"global", "group"} : data'[key] = WithNew(data[key], f[key])
        /\ data'.option = Assigned(data.option, f.option)
    <3>1. /\ \A key \in Appended : Merged(data, f)[key] = data[key] \o f[key]
          /\ \A key \in {"global", "group"} : Merged(data, f)[key] = WithNew(data[key], f[key])
          /\ Merged(data, f).option = Assigned(data.option, f.option)
      BY <1>1, MergedFacts
    <3> HIDE DEF f
    <3> QED
      BY <2>1, <3>1
  <2>7. /\ DOMAIN data'.option = DOMAIN data.option \cup DOMAIN f.option
        /\ \A o \in DOMAIN f.option : data'.option[o] = f.option[o]
        /\ \A o \in DOMAIN data.option \ DOMAIN f.option : data'.option[o] = data.option[o]
    BY <2>6 DEF Assigned
  <2>8. /\ \A key \in Appended : data[key] = Collect(fs, key)
        /\ DOMAIN data.option = UNION {DOMAIN fs[i].option : i \in 1 .. at}
        /\ \A o \in DOMAIN data.option : \E i \in 1 .. at : Defines(fs, i, o) /\ data.option[o] = fs[i].option[o]
        /\ \A key \in {"global", "group"} :
               /\ Alike(data[key], Collect(fs, key))
               /\ IsInjective(main[key]) => IsInjective(data[key])
    BY DEF MergeInv
  <2> HIDE DEF f, fs, gs
  <2>9. \A key \in Listed : IsList(Collect(fs, key)) /\ Collect(gs, key) = Collect(fs, key) \o f[key]
    BY <2>2, CollectFacts
  <2>10. \A key \in Appended : data'[key] = Collect(gs, key)
    BY <2>6, <2>8, <2>9 DEF Listed
  <2>11. \A i \in 1 .. at + 1 : i = at + 1 \/ i \in 1 .. at
    BY <1>1
  <2>12. at + 1 \in 1 .. at + 1 /\ \A i \in 1 .. at : i \in 1 .. at + 1
    BY <1>1
  <2>13. DOMAIN data'.option = UNION {DOMAIN gs[i].option : i \in 1 .. at + 1}
    <3>1. \A i \in 1 .. at + 1 : DOMAIN gs[i].option \subseteq DOMAIN data'.option
      BY <2>4, <2>7, <2>8, <2>11
    <3>2. ASSUME NEW o \in DOMAIN data'.option PROVE \E i \in 1 .. at + 1 : o \in DOMAIN gs[i].option
      <4>1. CASE o \in DOMAIN f.option
        BY <2>4, <2>12, <4>1
      <4>2. CASE o \notin DOMAIN f.option
        <5>1. PICK i \in 1 .. at : o \in DOMAIN fs[i].option
          BY <2>7, <2>8, <4>2
        <5> QED
          BY <2>4, <2>12, <5>1
      <4> QED
        BY <4>1, <4>2
    <3> QED
      BY <3>1, <3>2
  <2>14. ASSUME NEW o \in DOMAIN data'.option
         PROVE  \E i \in 1 .. at + 1 : Defines(gs, i, o) /\ data'.option[o] = gs[i].option[o]
    <3>1. CASE o \in DOMAIN f.option
      <4>1. (at + 1) + 1 .. at + 1 = {}
        BY <1>1
      <4>2. Defines(gs, at + 1, o)
        BY <2>4, <3>1, <4>1 DEF Defines
      <4> QED
        BY <2>4, <2>7, <2>12, <3>1, <4>2
    <3>2. CASE o \notin DOMAIN f.option
      <4>1. PICK i \in 1 .. at : Defines(fs, i, o) /\ data.option[o] = fs[i].option[o]
        BY <2>7, <2>8, <3>2
      <4>2. \A j \in i + 1 .. at + 1 : j = at + 1 \/ (j \in i + 1 .. at /\ j \in 1 .. at)
        BY <1>1
      <4>3. o \in DOMAIN fs[i].option /\ \A j \in i + 1 .. at : o \notin DOMAIN fs[j].option
        BY <2>2, <4>1 DEF Defines
      <4>4. Defines(gs, i, o)
        BY <2>4, <3>2, <4>2, <4>3 DEF Defines
      <4> QED
        BY <2>4, <2>7, <2>12, <3>2, <4>1, <4>4
    <3> QED
      BY <3>1, <3>2
  <2>15. ASSUME NEW key \in {"global", "group"}
         PROVE  Alike(data'[key], Collect(gs, key)) /\ (IsInjective(main[key]) => IsInjective(data'[key]))
    <3>1. key \in Listed
      BY DEF Listed
    <3>2. IsList(data[key]) /\ IsList(f[key]) /\ IsList(Collect(fs, key))
      BY <1>1, <2>2, <2>9, <3>1 DEF IsFile
    <3>3. /\ Alike(WithNew(data[key], f[key]), Collect(fs, key) \o f[key])
          /\ IsInjective(data[key]) => IsInjective(WithNew(data[key], f[key]))
      BY <2>8, <3>2, WithNewFacts
    <3> QED
      BY <2>6, <2>8, <2>9, <3>1, <3>3
  <2> QED
    BY <2>1, <2>3, <2>5, <2>10, <2>13, <2>14, <2>15 DEF MergeInv
<1> QED
  BY <1>2, <1>3

\* The files are merged in the order in which they are read.
LEMMA MergesFiles == ParseSpec => []MergeInv
<1>1. ParseInit => MergeInv
  BY FirstFile
<1>2. IInv /\ MergeInv /\ [Parse]_parseVars => MergeInv'
  <2> SUFFICES ASSUME IInv, MergeInv, [Parse]_parseVars PROVE MergeInv'
    OBVIOUS
  <2>1. CASE ReadImport
    BY <2>1, ImportMerges
  <2>2. CASE main' = main /\ data' = data /\ at' = at
    BY <2>2 DEF MergeInv
  <2>3. ASSUME BeginValidation \/ SearchFrom \/ NextChild \/ Return \/ EndSearch \/ UNCHANGED parseVars
        PROVE  main' = main /\ data' = data /\ at' = at
    BY <2>3 DEF BeginValidation, SearchFrom, NextChild, Return, EndSearch, Enter, Reject, parseVars
  <2> QED
    BY <2>1, <2>2, <2>3 DEF Parse
<1> QED
  BY <1>1, <1>2, Invariance, PTL DEF ParseSpec

\* Lists grow main first, the last file that defines an option wins, global options and groups
\* keep their first occurrence, for any number of imports of any length (Parser.cpp:434-478).
THEOREM ImportsMergeInOrder == ParseSpec => []MergesInOrder
<1>1. IInv /\ MergeInv => MergesInOrder
  <2> SUFFICES ASSUME IInv, MergeInv PROVE MergesInOrder
    OBVIOUS
  <2> DEFINE fs == Files(main, at)
  <2>1. FilesRead = fs
    BY DEF FilesRead, Files
  <2>2. \A key : Collected(key) = Collect(fs, key)
    BY <2>1 DEF Collected, Collect
  <2>3. main \in Mains /\ at \in Nat \ {0} /\ Imports(main, at)
    BY DEF IInv, StageInv, MergeInv
  <2>4. AreFiles(fs) /\ Len(fs) = at
    BY <2>3, FilesFacts
  <2>5. DOMAIN fs = 1 .. at
    BY <2>4, ListFacts DEF AreFiles
  <2>6. /\ \A key \in Appended : data[key] = Collect(fs, key)
        /\ DOMAIN data.option = UNION {DOMAIN fs[i].option : i \in 1 .. at}
        /\ \A o \in DOMAIN data.option : \E i \in 1 .. at : Defines(fs, i, o) /\ data.option[o] = fs[i].option[o]
        /\ \A key \in {"global", "group"} :
               /\ Alike(data[key], Collect(fs, key))
               /\ IsInjective(main[key]) => IsInjective(data[key])
    BY DEF MergeInv
  <2> HIDE DEF fs
  <2>7. ASSUME NEW o \in DOMAIN data.option PROVE data.option[o] = FilesRead[Definer(o)].option[o]
    <3>1. PICK i \in 1 .. at : Defines(fs, i, o) /\ data.option[o] = fs[i].option[o]
      BY <2>6
    <3>2. Definer(o) = CHOOSE j \in 1 .. at : Defines(fs, j, o)
      BY <2>1, <2>5 DEF Definer, Defines
    <3>3. ASSUME NEW j \in 1 .. at, Defines(fs, j, o) PROVE j = i
      <4>1. o \in DOMAIN fs[i].option /\ \A k \in i + 1 .. at : o \notin DOMAIN fs[k].option
        BY <2>4, <3>1 DEF Defines
      <4>2. o \in DOMAIN fs[j].option /\ \A k \in j + 1 .. at : o \notin DOMAIN fs[k].option
        BY <2>4, <3>3 DEF Defines
      <4>3. i = j \/ i \in j + 1 .. at \/ j \in i + 1 .. at
        BY <2>3
      <4> QED
        BY <4>1, <4>2, <4>3
    <3>4. Definer(o) = i
      BY <3>1, <3>2, <3>3
    <3> QED
      BY <2>1, <3>1, <3>4
  <2>8. ASSUME NEW key \in {"global", "group"}
        PROVE  /\ ToSet(data[key]) = ToSet(Collected(key))
               /\ \A m, n \in ToSet(data[key]) : Before(data[key], m, n) = Before(Collected(key), m, n)
               /\ IsInjective(main[key]) => IsInjective(data[key])
    BY <2>2, <2>6 DEF Alike
  <2>9. \A key \in Appended : data[key] = Collected(key)
    BY <2>2, <2>6
  <2>10. DOMAIN data.option = UNION {DOMAIN FilesRead[i].option : i \in DOMAIN FilesRead}
    BY <2>1, <2>5, <2>6
  <2> QED
    BY <2>7, <2>8, <2>9, <2>10 DEF MergesInOrder
<1> QED
  BY <1>1, Invariance, MergesFiles, PTL
=============================================================================
