---------------------------- MODULE SessionProofs ----------------------------
(***************************************************************************)
(* What holds of the sessions with any interface.json files, with any      *)
(* number of tasks and options.                                            *)
(***************************************************************************)
EXTENDS Session, OptionTreeProofs

-----------------------------------------------------------------------------
(* Lists of tasks.                                                          *)

IsTask(t) == t = ConfigTask(t.name, t.option)

AreTasks(s) == IsList(s) /\ \A i \in 1 .. Len(s) : IsTask(s[i])

\* A function on the first numbers is a list.
LEMMA FunctionIsList ==
    \A n \in Nat : \A f : f = [i \in 1 .. n |-> f[i]] => IsList(f) /\ Len(f) = n /\ DOMAIN f = 1 .. n
<1> SUFFICES ASSUME NEW n \in Nat, NEW f, f = [i \in 1 .. n |-> f[i]]
    PROVE  IsList(f) /\ Len(f) = n /\ DOMAIN f = 1 .. n
  OBVIOUS
<1> DEFINE S == {f[i] : i \in 1 .. n}
<1>1. \A i \in 1 .. n : f[i] \in S
  OBVIOUS
<1> HIDE DEF S
<1>2. DOMAIN f = 1 .. n /\ f \in [1 .. n -> S]
  BY <1>1
<1>3. f \in Seq(S) /\ Len(f) = n
  BY <1>2
<1> QED
  BY <1>2, <1>3, SeqIsList

\* What a list of tasks is a sequence of.
LEMMA TasksAre == \A s : AreTasks(s) <=> IsList(s) /\ \A t \in ToSet(s) : IsTask(t)
<1> SUFFICES ASSUME NEW s, IsList(s)
    PROVE  (\A i \in 1 .. Len(s) : IsTask(s[i])) <=> (\A t \in ToSet(s) : IsTask(t))
  BY DEF AreTasks
<1>1. Len(s) \in Nat /\ DOMAIN s = 1 .. Len(s)
  BY ListFacts
<1>2. ToSet(s) = {s[i] : i \in 1 .. Len(s)}
  BY <1>1 DEF ToSet
<1> HIDE DEF IsTask
<1> QED
  BY <1>2

\* A part of a list of tasks, and two of them one behind the other.
LEMMA TasksOnly == \A s, V : AreTasks(s) => AreTasks(Only(s, V))
<1> SUFFICES ASSUME NEW s, NEW V, AreTasks(s) PROVE AreTasks(Only(s, V))
  OBVIOUS
<1>1. IsList(s) /\ \A t \in ToSet(s) : IsTask(t)
  BY TasksAre
<1>2. s \in Seq(ToSet(s))
  BY <1>1 DEF IsList
<1>3. Only(s, V) \in Seq(ToSet(s)) /\ ToSet(Only(s, V)) \subseteq ToSet(s)
  BY <1>2, OnlyRange
<1>4. IsList(Only(s, V))
  BY <1>3, SeqIsList
<1> HIDE DEF IsTask
<1> QED
  BY <1>1, <1>3, <1>4, TasksAre

LEMMA TasksConcat == \A s, t : AreTasks(s) /\ AreTasks(t) => AreTasks(s \o t)
<1> SUFFICES ASSUME NEW s, NEW t, AreTasks(s), AreTasks(t) PROVE AreTasks(s \o t)
  OBVIOUS
<1> HIDE DEF IsTask
<1>1. IsList(s) /\ (\A x \in ToSet(s) : IsTask(x)) /\ IsList(t) /\ (\A x \in ToSet(t) : IsTask(x))
  BY TasksAre
<1>2. IsList(s \o t) /\ ToSet(s \o t) = ToSet(s) \cup ToSet(t)
  BY <1>1, ConcatLists
<1>3. \A x \in ToSet(s \o t) : IsTask(x)
  BY <1>1, <1>2
<1> QED
  BY <1>2, <1>3, TasksAre

LEMMA TasksChange ==
    \A s : AreTasks(s) => \A i \in DOMAIN s : \A list :
        LET r == [s EXCEPT ![i].option = list] IN
        /\ AreTasks(r) /\ DOMAIN r = DOMAIN s
        /\ r[i] = ConfigTask(s[i].name, list)
        /\ \A j \in DOMAIN s : j # i => r[j] = s[j]
<1> SUFFICES ASSUME NEW s, AreTasks(s), NEW i \in DOMAIN s, NEW list
    PROVE  LET r == [s EXCEPT ![i].option = list] IN
           /\ AreTasks(r) /\ DOMAIN r = DOMAIN s
           /\ r[i] = ConfigTask(s[i].name, list)
           /\ \A j \in DOMAIN s : j # i => r[j] = s[j]
  OBVIOUS
<1> DEFINE r == [s EXCEPT ![i].option = list]
<1>1. /\ IsList(s) /\ Len(s) \in Nat /\ DOMAIN s = 1 .. Len(s)
      /\ \A j \in 1 .. Len(s) : IsTask(s[j])
  BY ListFacts DEF AreTasks
<1>2. s = [j \in 1 .. Len(s) |-> s[j]]
  BY <1>1, LenProperties DEF IsList
<1>3. r[i] = [s[i] EXCEPT !.option = list] /\ \A j \in 1 .. Len(s) : j # i => r[j] = s[j]
  BY <1>1
<1>4. r = [j \in 1 .. Len(s) |-> r[j]]
  BY <1>1, <1>2
<1> HIDE DEF r
<1>5. IsTask(s[i])
  BY <1>1
<1>6. r[i] = ConfigTask(s[i].name, list)
  BY <1>3, <1>5 DEF IsTask, ConfigTask
<1>7. IsTask(r[i])
  BY <1>6 DEF IsTask, ConfigTask
<1>8. IsList(r) /\ Len(r) = Len(s) /\ DOMAIN r = 1 .. Len(s)
  BY <1>1, <1>4, FunctionIsList
<1>9. \A j \in 1 .. Len(r) : IsTask(r[j])
  BY <1>1, <1>3, <1>7, <1>8
<1> QED
  BY <1>1, <1>3, <1>6, <1>8, <1>9 DEF r, AreTasks

-----------------------------------------------------------------------------
(* Configurations.                                                          *)

IsRecord(c) == c = [ctx |-> c.ctx, task |-> c.task, level |-> c.level, pretask |-> c.pretask]

\* What changes with a field of a configuration.
LEMMA Fields ==
    \A c, d, x : IsRecord(c) =>
        /\ d = [c EXCEPT !.ctx = x] =>
               IsRecord(d) /\ d.ctx = x /\ d.task = c.task /\ d.level = c.level /\ d.pretask = c.pretask
        /\ d = [c EXCEPT !.task = x] =>
               IsRecord(d) /\ d.ctx = c.ctx /\ d.task = x /\ d.level = c.level /\ d.pretask = c.pretask
        /\ d = [c EXCEPT !.level = x] =>
               IsRecord(d) /\ d.ctx = c.ctx /\ d.task = c.task /\ d.level = x /\ d.pretask = c.pretask
        /\ d = [c EXCEPT !.pretask = x] =>
               IsRecord(d) /\ d.ctx = c.ctx /\ d.task = c.task /\ d.level = c.level /\ d.pretask = x
  BY DEF IsRecord

HasTasks(c) == IsRecord(c) /\ AreTasks(c.task)

-----------------------------------------------------------------------------
(* The check at a start.                                                    *)

\* check_task changes the options of a task and neither its name nor its place,
\* and leaves a task alone that does not apply.
LEMMA CheckKeepsInactive ==
    \A J, c : HasTasks(c) =>
        /\ AreTasks(CheckTasks(J, c))
        /\ InactiveTasks(J, c.ctx, CheckTasks(J, c)) = InactiveTasks(J, c.ctx, c.task)
<1> SUFFICES ASSUME NEW J, NEW c, HasTasks(c)
    PROVE  /\ AreTasks(CheckTasks(J, c))
           /\ InactiveTasks(J, c.ctx, CheckTasks(J, c)) = InactiveTasks(J, c.ctx, c.task)
  OBVIOUS
<1> DEFINE K == {t \in ToSet(c.task) : KnownTask(J, t)}
           known == Only(c.task, K)
           checked == [i \in DOMAIN known |-> [known[i] EXCEPT !.option = CheckTask(J, c.ctx, known[i].name, @)]]
           Inactive(t) == KnownTask(J, t) /\ ~ActiveTask(J, c.ctx, t)
           Old == {t \in ToSet(c.task) : Inactive(t)}
           New == {t \in ToSet(checked) : Inactive(t)}
<1>1. CheckTasks(J, c) = checked
  BY DEF CheckTasks
<1>2. AreTasks(known)
  BY TasksOnly DEF HasTasks
<1>3. Only(known, Old) = Only(c.task, Old)
  <2>1. K \cap Old = Old
    OBVIOUS
  <2>2. c.task \in Seq(ToSet(c.task))
    BY DEF HasTasks, AreTasks, IsList
  <2> HIDE DEF K, Old
  <2> QED
    BY <2>1, <2>2, OnlyOnly
<1>4. ToSet(known) \subseteq ToSet(c.task)
  <2>1. c.task \in Seq(ToSet(c.task))
    BY DEF HasTasks, AreTasks, IsList
  <2> HIDE DEF K
  <2> QED
    BY <2>1, OnlyRange
<1> HIDE DEF K, known
<1>5. Len(known) \in Nat /\ DOMAIN known = 1 .. Len(known) /\ \A i \in 1 .. Len(known) : IsTask(known[i])
  BY <1>2, ListFacts DEF AreTasks
<1>6. DOMAIN checked = 1 .. Len(known) /\ checked = [i \in 1 .. Len(known) |-> checked[i]]
  BY <1>5
<1>7. ASSUME NEW i \in 1 .. Len(known)
      PROVE  /\ checked[i] = ConfigTask(known[i].name, CheckTask(J, c.ctx, known[i].name, known[i].option))
             /\ IsTask(checked[i])
             /\ known[i] \in Old <=> checked[i] \in New
             /\ known[i] \in Old => checked[i] = known[i]
  <2> DEFINE list == CheckTask(J, c.ctx, known[i].name, known[i].option)
  <2>1. checked[i] = [known[i] EXCEPT !.option = list]
    BY <1>5
  <2>2. checked[i] \in ToSet(checked)
    BY <1>6 DEF ToSet
  <2>3. known[i] \in ToSet(c.task)
    BY <1>4, <1>5 DEF ToSet
  <2> HIDE DEF list, checked
  <2>4. IsTask(known[i])
    BY <1>5
  <2>5. checked[i] = ConfigTask(known[i].name, list)
    BY <2>1, <2>4 DEF IsTask, ConfigTask
  <2>6. IsTask(checked[i]) /\ checked[i].name = known[i].name
    BY <2>5 DEF IsTask, ConfigTask
  <2>7. Inactive(known[i]) <=> Inactive(checked[i])
    BY <2>6 DEF KnownTask, ActiveTask
  <2>8. Inactive(known[i]) => list = known[i].option
    BY DEF KnownTask, ActiveTask, CheckTask, list
  <2>9. Inactive(known[i]) => checked[i] = known[i]
    BY <2>4, <2>5, <2>8 DEF IsTask
  <2> QED
    BY <2>2, <2>3, <2>5, <2>6, <2>7, <2>9 DEF list
<1> HIDE DEF checked, Old, New
<1>8. IsList(checked) /\ Len(checked) = Len(known)
  BY <1>5, <1>6, FunctionIsList
<1>9. AreTasks(checked)
  BY <1>7, <1>8 DEF AreTasks
<1>10. Only(known, Old) = Only(checked, New)
  BY <1>5, <1>6, <1>7, OnlyAlike
<1> QED
  BY <1>1, <1>3, <1>9, <1>10 DEF Old, New, InactiveTasks

-----------------------------------------------------------------------------
(* The completion before a run.                                             *)

\* The places of one kind.
PlacesOf(kind, s) == [i \in DOMAIN s |-> [kind |-> kind, at |-> s[i]]]

LEMMA PlacesOfAre ==
    \A kind, s : IsList(s) =>
        /\ IsList(PlacesOf(kind, s))
        /\ \A place \in ToSet(PlacesOf(kind, s)) : place.kind = kind /\ place.at \in ToSet(s)
        /\ \A x \in ToSet(s) : \E place \in ToSet(PlacesOf(kind, s)) : place.kind = kind /\ place.at = x
<1> SUFFICES ASSUME NEW kind, NEW s, IsList(s)
    PROVE  /\ IsList(PlacesOf(kind, s))
           /\ \A place \in ToSet(PlacesOf(kind, s)) : place.kind = kind /\ place.at \in ToSet(s)
           /\ \A x \in ToSet(s) : \E place \in ToSet(PlacesOf(kind, s)) : place.kind = kind /\ place.at = x
  OBVIOUS
<1> DEFINE ps == PlacesOf(kind, s)
<1>1. Len(s) \in Nat /\ DOMAIN s = 1 .. Len(s) /\ \A i \in 1 .. Len(s) : s[i] \in ToSet(s)
  BY ListFacts
<1>2. ps = [i \in 1 .. Len(s) |-> ps[i]] /\ \A i \in 1 .. Len(s) : ps[i] = [kind |-> kind, at |-> s[i]]
  BY <1>1 DEF PlacesOf
<1> HIDE DEF ps
<1>3. IsList(ps) /\ DOMAIN ps = 1 .. Len(s)
  BY <1>1, <1>2, FunctionIsList
<1>4. ASSUME NEW place \in ToSet(ps) PROVE place.kind = kind /\ place.at \in ToSet(s)
  <2>1. PICK i \in 1 .. Len(s) : place = ps[i]
    BY <1>3 DEF ToSet
  <2> QED
    BY <1>1, <1>2, <2>1
<1>5. ASSUME NEW x \in ToSet(s) PROVE \E place \in ToSet(ps) : place.kind = kind /\ place.at = x
  <2>1. PICK i \in 1 .. Len(s) : x = s[i]
    BY <1>1 DEF ToSet
  <2>2. ps[i] \in ToSet(ps)
    BY <1>3 DEF ToSet
  <2> DEFINE place == ps[i]
  <2>3. place = [kind |-> kind, at |-> x] /\ place \in ToSet(ps)
    BY <1>2, <2>1, <2>2
  <2> HIDE DEF place
  <2> QED
    BY <2>3
<1> QED
  BY <1>3, <1>4, <1>5 DEF ps

KnownLevels(J, ctx) ==
    {l \in Levels : /\ l = "resource" => KnownResource(J, ctx)
                    /\ l = "controller" => KnownController(J, ctx)}

\* The completion goes through the levels that are known, the tasks and the
\* pretasks that apply, and no others.
GoesThrough(J, c, places) ==
    /\ IsList(places)
    /\ \A place \in ToSet(places) :
           /\ place.kind \in {"level", "task", "pretask"}
           /\ place.kind = "level" => place.at \in KnownLevels(J, c.ctx)
           /\ place.kind = "task" => place.at \in DOMAIN c.task /\ ActiveTask(J, c.ctx, c.task[place.at])
           /\ place.kind = "pretask" => place.at \in ToSet(J.pretask)
    /\ \A p \in ToSet(J.pretask) : Fits(p, c.ctx) /\ p.roots # <<>> =>
           \E place \in ToSet(places) : place.kind = "pretask" /\ place.at = p
    /\ \A l \in KnownLevels(J, c.ctx) : \E place \in ToSet(places) : place.kind = "level" /\ place.at = l
    /\ \A i \in DOMAIN c.task : ActiveTask(J, c.ctx, c.task[i]) =>
           \E place \in ToSet(places) : place.kind = "task" /\ place.at = i

LEMMA PlacesGo == \A J, c : IsList(J.pretask) /\ IsList(c.task) => GoesThrough(J, c, Places(J, c))
<1> SUFFICES ASSUME NEW J, NEW c, IsList(J.pretask), IsList(c.task) PROVE GoesThrough(J, c, Places(J, c))
  OBVIOUS
<1> DEFINE each == [i \in DOMAIN c.task |-> i]
           active == {i \in DOMAIN c.task : ActiveTask(J, c.ctx, c.task[i])}
           named == <<"global", "resource", "controller">>
           known == KnownLevels(J, c.ctx)
           given == {p \in ToSet(J.pretask) : p.roots # <<>>}
           applies == {p \in ToSet(J.pretask) : Fits(p, c.ctx)}
           levels == Only(named, known)
           tasks == Only(each, active)
           pretasks == Only(Only(J.pretask, applies), given)
<1>1. Places(J, c) = PlacesOf("level", levels) \o PlacesOf("task", tasks) \o PlacesOf("pretask", pretasks)
  BY DEF Places, PlacesOf, ActivePretasks, KnownLevels
<1>2. IsList(levels) /\ ToSet(levels) = known
  <2>1. named \in Seq(Levels) /\ ToSet(named) = Levels
    <3>1. DOMAIN named = 1 .. 3 /\ named[1] = "global" /\ named[2] = "resource" /\ named[3] = "controller"
      OBVIOUS
    <3>2. named \in Seq(Levels)
      BY DEF Levels
    <3> HIDE DEF named
    <3> QED
      BY <3>1, <3>2 DEF Levels, ToSet
  <2>2. known \subseteq Levels
    BY DEF KnownLevels
  <2> HIDE DEF named, known
  <2>3. levels \in Seq(Levels) /\ ToSet(levels) = ToSet(named) \cap known
    BY ONLY <2>1, OnlyRange
  <2> HIDE DEF levels
  <2> QED
    BY <2>1, <2>2, <2>3, SeqIsList
<1>3. IsList(tasks) /\ ToSet(tasks) = active
  <2>1. Len(c.task) \in Nat /\ DOMAIN c.task = 1 .. Len(c.task)
    BY ListFacts
  <2>2. each \in Seq(1 .. Len(c.task))
    BY <2>1
  <2>3. ToSet(each) = DOMAIN c.task
    BY DEF ToSet
  <2>4. active \subseteq DOMAIN c.task
    OBVIOUS
  <2> HIDE DEF each, active
  <2>5. tasks \in Seq(1 .. Len(c.task)) /\ ToSet(tasks) = ToSet(each) \cap active
    BY ONLY <2>2, OnlyRange
  <2> HIDE DEF tasks
  <2> QED
    BY <2>3, <2>4, <2>5, SeqIsList
<1>4. IsList(pretasks) /\ ToSet(pretasks) = (ToSet(J.pretask) \cap applies) \cap given
  <2>1. J.pretask \in Seq(ToSet(J.pretask))
    BY DEF IsList
  <2> HIDE DEF applies, given
  <2>2. /\ Only(J.pretask, applies) \in Seq(ToSet(J.pretask))
        /\ ToSet(Only(J.pretask, applies)) = ToSet(J.pretask) \cap applies
    BY <2>1, OnlyRange
  <2> QED
    BY <2>2, OnlyRange, SeqIsList
<1> DEFINE a == PlacesOf("level", levels)
           b == PlacesOf("task", tasks)
           d == PlacesOf("pretask", pretasks)
<1> HIDE DEF levels, tasks, pretasks
<1>5. /\ IsList(a)
      /\ \A place \in ToSet(a) : place.kind = "level" /\ place.at \in known
      /\ \A l \in known : \E place \in ToSet(a) : place.kind = "level" /\ place.at = l
  BY <1>2, PlacesOfAre
<1>6. /\ IsList(b)
      /\ \A place \in ToSet(b) : place.kind = "task" /\ place.at \in active
      /\ \A i \in active : \E place \in ToSet(b) : place.kind = "task" /\ place.at = i
  BY <1>3, PlacesOfAre
<1>7. /\ IsList(d)
      /\ \A place \in ToSet(d) : place.kind = "pretask" /\ place.at \in ToSet(pretasks)
      /\ \A p \in ToSet(pretasks) : \E place \in ToSet(d) : place.kind = "pretask" /\ place.at = p
  BY <1>4, PlacesOfAre
<1> HIDE DEF a, b, d
<1>8. IsList(a \o b) /\ ToSet(a \o b) = ToSet(a) \cup ToSet(b)
  BY <1>5, <1>6, ConcatLists
<1>9. IsList((a \o b) \o d) /\ ToSet((a \o b) \o d) = ToSet(a) \cup ToSet(b) \cup ToSet(d)
  BY <1>7, <1>8, ConcatLists
<1>10. Places(J, c) = (a \o b) \o d
  BY <1>1 DEF a, b, d
<1>11. \A p \in ToSet(pretasks) : p \in ToSet(J.pretask)
  BY <1>4
<1>12. \A p \in ToSet(J.pretask) : Fits(p, c.ctx) /\ p.roots # <<>> => p \in ToSet(pretasks)
  BY <1>4
<1>13. \A i : i \in active <=> i \in DOMAIN c.task /\ ActiveTask(J, c.ctx, c.task[i])
  OBVIOUS
<1> HIDE DEF active, applies, given, known, named, each
<1>14. \A place : place \in ToSet(Places(J, c)) <=> place \in ToSet(a) \/ place \in ToSet(b) \/ place \in ToSet(d)
  BY <1>9, <1>10
<1>15. ASSUME NEW p \in ToSet(J.pretask), Fits(p, c.ctx), p.roots # <<>>
       PROVE  \E place \in ToSet(Places(J, c)) : place.kind = "pretask" /\ place.at = p
  BY <1>7, <1>12, <1>14, <1>15
<1>16. ASSUME NEW place \in ToSet(Places(J, c))
       PROVE  /\ place.kind \in {"level", "task", "pretask"}
              /\ place.kind = "level" => place.at \in KnownLevels(J, c.ctx)
              /\ place.kind = "task" => place.at \in DOMAIN c.task /\ ActiveTask(J, c.ctx, c.task[place.at])
              /\ place.kind = "pretask" => place.at \in ToSet(J.pretask)
  BY <1>5, <1>6, <1>7, <1>11, <1>13, <1>14 DEF known
<1>17. ASSUME NEW l \in KnownLevels(J, c.ctx)
       PROVE  \E place \in ToSet(Places(J, c)) : place.kind = "level" /\ place.at = l
  BY <1>5, <1>14 DEF known
<1>18. ASSUME NEW i \in DOMAIN c.task, ActiveTask(J, c.ctx, c.task[i])
       PROVE  \E place \in ToSet(Places(J, c)) : place.kind = "task" /\ place.at = i
  BY <1>6, <1>13, <1>14, <1>18
<1> QED
  BY <1>9, <1>10, <1>15, <1>16, <1>17, <1>18 DEF GoesThrough

LEMMA PlacesAreActive ==
    \A J, c : IsList(J.pretask) /\ IsList(c.task) =>
        /\ IsList(Places(J, c))
        /\ \A place \in ToSet(Places(J, c)) :
               /\ place.kind \in {"level", "task", "pretask"}
               /\ place.kind = "level" => place.at \in KnownLevels(J, c.ctx)
               /\ place.kind = "task" => place.at \in DOMAIN c.task /\ ActiveTask(J, c.ctx, c.task[place.at])
               /\ place.kind = "pretask" => place.at \in ToSet(J.pretask)
        /\ \A p \in ToSet(J.pretask) : Fits(p, c.ctx) /\ p.roots # <<>> =>
               \E place \in ToSet(Places(J, c)) : place.kind = "pretask" /\ place.at = p
  BY PlacesGo DEF GoesThrough

\* What the completion of one more place makes of each outcome so far.
More(J, place, sofar) == UNION {IF p.ok THEN EnsurePlace(J, p.cfg, place) ELSE {p} : p \in sofar}

\* EnsureEach goes from place to place.
LEMMA EnsureEachGoes ==
    \A J, c, places : Len(places) \in Nat =>
        \E f : /\ EnsureEach(J, c, places) = f[Len(places)]
              /\ f[0] = {[cfg |-> c, ok |-> TRUE]}
              /\ \A n \in 1 .. Len(places) : f[n] = More(J, places[n], f[n - 1])
<1> SUFFICES ASSUME NEW J, NEW c, NEW places, Len(places) \in Nat
    PROVE  \E f : /\ EnsureEach(J, c, places) = f[Len(places)]
                 /\ f[0] = {[cfg |-> c, ok |-> TRUE]}
                 /\ \A n \in 1 .. Len(places) : f[n] = More(J, places[n], f[n - 1])
  OBVIOUS
<1> DEFINE M == Len(places)
           start == {[cfg |-> c, ok |-> TRUE]}
           sofar == CHOOSE h : h = [n \in 0 .. Len(places) |->
                        IF n = 0 THEN {[cfg |-> c, ok |-> TRUE]}
                        ELSE UNION {IF p.ok THEN EnsurePlace(J, p.cfg, places[n]) ELSE {p} : p \in h[n - 1]}]
<1>1. EnsureEach(J, c, places) = sofar[M]
  BY DEF EnsureEach
<1>2. ASSUME NEW f, f = [n \in 0 .. M |-> IF n = 0 THEN start ELSE More(J, places[n], f[n - 1])]
      PROVE  sofar = [n \in 0 .. M |-> IF n = 0 THEN start ELSE More(J, places[n], sofar[n - 1])]
  BY <1>2 DEF More
<1> HIDE DEF sofar, start, M
<1> DEFINE S == {N \in Nat : \E f : f = [n \in 0 .. N |-> IF n = 0 THEN start ELSE More(J, places[n], f[n - 1])]}
<1>3. 0 \in S
  <2> DEFINE f == [n \in 0 .. 0 |-> start]
  <2>1. f = [n \in 0 .. 0 |-> IF n = 0 THEN start ELSE More(J, places[n], f[n - 1])]
    OBVIOUS
  <2> QED
    BY <2>1
<1>4. ASSUME NEW N \in Nat, N \in S PROVE N + 1 \in S
  <2>1. PICK f : f = [n \in 0 .. N |-> IF n = 0 THEN start ELSE More(J, places[n], f[n - 1])]
    BY <1>4
  <2> DEFINE g == [n \in 0 .. N + 1 |-> IF n = N + 1 THEN More(J, places[N + 1], f[N]) ELSE f[n]]
  <2>2. ASSUME NEW n \in 0 .. N + 1
        PROVE  g[n] = IF n = 0 THEN start ELSE More(J, places[n], g[n - 1])
    <3>1. CASE n = N + 1
      <4>1. n # 0 /\ n - 1 = N /\ N \in 0 .. N + 1 /\ N # N + 1
        BY <3>1
      <4>2. g[n] = More(J, places[N + 1], f[N]) /\ g[N] = f[N]
        BY <3>1, <4>1
      <4> HIDE DEF g
      <4> QED
        BY <3>1, <4>1, <4>2
    <3>2. CASE n # N + 1
      <4>1. n \in 0 .. N /\ g[n] = f[n]
        BY <3>2
      <4>2. n # 0 => n - 1 \in 0 .. N + 1 /\ n - 1 # N + 1
        BY <4>1
      <4>3. n # 0 => g[n - 1] = f[n - 1]
        BY <4>2
      <4>4. f[n] = IF n = 0 THEN start ELSE More(J, places[n], f[n - 1])
        BY <2>1, <4>1
      <4> HIDE DEF g
      <4> QED
        BY <4>1, <4>3, <4>4
    <3> QED
      BY <3>1, <3>2
  <2>3. g = [n \in 0 .. N + 1 |-> g[n]]
    OBVIOUS
  <2> HIDE DEF g
  <2>4. g = [n \in 0 .. N + 1 |-> IF n = 0 THEN start ELSE More(J, places[n], g[n - 1])]
    BY <2>2, <2>3
  <2> QED
    BY <2>4
<1>5. Nat \subseteq S
  <2> HIDE DEF S
  <2> QED
    BY <1>3, <1>4, SetInduction
<1>6. M \in Nat
  BY DEF M
<1>7. sofar = [n \in 0 .. M |-> IF n = 0 THEN start ELSE More(J, places[n], sofar[n - 1])]
  BY <1>2, <1>5, <1>6
<1>8. sofar[0] = start /\ \A n \in 1 .. M : sofar[n] = More(J, places[n], sofar[n - 1])
  <2>1. 0 \in 0 .. M /\ \A n \in 1 .. M : n \in 0 .. M /\ n # 0
    BY <1>6
  <2> QED
    BY <1>7, <2>1
<1> QED
  BY <1>1, <1>8 DEF M, start

\* d is c with other options in the tasks that apply, and maybe other lists elsewhere.
Completes(J, c, d) ==
    /\ HasTasks(d) /\ d.ctx = c.ctx /\ DOMAIN d.task = DOMAIN c.task
    /\ \A i \in DOMAIN c.task :
           /\ d.task[i].name = c.task[i].name
           /\ ~ActiveTask(J, c.ctx, c.task[i]) => d.task[i] = c.task[i]

\* The completion of a place keeps the tasks that do not apply.
LEMMA PlaceCompletes ==
    \A J, c, d, place :
        /\ Completes(J, c, d)
        /\ place.kind \in {"level", "task", "pretask"}
        /\ place.kind = "task" => place.at \in DOMAIN c.task /\ ActiveTask(J, c.ctx, c.task[place.at])
        => \A p \in EnsurePlace(J, d, place) : Completes(J, c, p.cfg)
<1> SUFFICES ASSUME NEW J, NEW c, NEW d, NEW place,
                    Completes(J, c, d),
                    place.kind \in {"level", "task", "pretask"},
                    place.kind = "task" => place.at \in DOMAIN c.task /\ ActiveTask(J, c.ctx, c.task[place.at]),
                    NEW p \in EnsurePlace(J, d, place)
    PROVE  Completes(J, c, p.cfg)
  OBVIOUS
<1>1. IsRecord(d) /\ AreTasks(d.task)
  BY DEF Completes, HasTasks
<1>2. CASE place.kind = "level"
  <2>1. EnsurePlace(J, d, place) =
            {[cfg |-> [d EXCEPT !.level[place.at] = q.out], ok |-> q.ok] :
             q \in Ensured(J, d.ctx, LevelRoots(J, d.ctx, place.at),
                          Cleanup(J, d.ctx, LevelRoots(J, d.ctx, place.at), d.level[place.at]), "auto")}
    BY <1>2 DEF EnsurePlace
  <2> DEFINE out(q) == [d.level EXCEPT ![place.at] = q.out]
  <2>3. PICK q : p = [cfg |-> [d EXCEPT !.level = out(q)], ok |-> q.ok]
    BY <2>1
  <2> HIDE DEF out
  <2>2. IsRecord(p.cfg) /\ p.cfg.ctx = d.ctx /\ p.cfg.task = d.task
    BY <1>1, <2>3, Fields
  <2> QED
    BY <2>2 DEF Completes, HasTasks
<1>3. CASE place.kind = "task"
  <2> DEFINE i == place.at
  <2>7. EnsurePlace(J, d, place) =
            {[cfg |-> [d EXCEPT !.task[i].option = q.out], ok |-> q.ok] :
             q \in Ensured(J, d.ctx, J.task[d.task[i].name].roots, d.task[i].option, "auto")}
    BY <1>3 DEF EnsurePlace
  <2>1. PICK q : p = [cfg |-> [d EXCEPT !.task[i].option = q.out], ok |-> q.ok]
    BY <2>7
  <2>2. i \in DOMAIN d.task /\ ActiveTask(J, c.ctx, c.task[i])
    BY <1>3 DEF Completes
  <2> DEFINE tasks == [d.task EXCEPT ![i].option = q.out]
  <2>3. p.cfg = [d EXCEPT !.task = tasks]
    BY <2>1
  <2>4. /\ AreTasks(tasks) /\ DOMAIN tasks = DOMAIN d.task
        /\ tasks[i] = ConfigTask(d.task[i].name, q.out)
        /\ \A j \in DOMAIN d.task : j # i => tasks[j] = d.task[j]
    BY <1>1, <2>2, TasksChange
  <2> HIDE DEF tasks, i
  <2>5. IsRecord(p.cfg) /\ p.cfg.ctx = d.ctx /\ p.cfg.task = tasks
    BY <1>1, <2>3, Fields
  <2>6. tasks[i].name = d.task[i].name
    BY <2>4 DEF ConfigTask
  <2> QED
    BY <2>2, <2>4, <2>5, <2>6 DEF Completes, HasTasks
<1>4. CASE place.kind = "pretask"
  <2> DEFINE id == place.at.id
             stored == id \in DOMAIN d.pretask
             list == IF stored THEN d.pretask[id] ELSE <<>>
             out(q) == [r \in DOMAIN d.pretask \cup {id} |-> IF r = id THEN q.out ELSE d.pretask[r]]
             put(q) == IF stored \/ q.ok THEN [d EXCEPT !.pretask = out(q)] ELSE d
  <2>1. EnsurePlace(J, d, place) =
            {[cfg |-> put(q), ok |-> q.ok] : q \in Ensured(J, d.ctx, place.at.roots, list, "auto")}
    BY <1>4 DEF EnsurePlace
  <2> HIDE DEF list, out, stored
  <2>3. PICK q : p = [cfg |-> put(q), ok |-> q.ok]
    BY <2>1
  <2>4. p.cfg = d \/ p.cfg = [d EXCEPT !.pretask = out(q)]
    BY <2>3
  <2> HIDE DEF put
  <2>2. IsRecord(p.cfg) /\ p.cfg.ctx = d.ctx /\ p.cfg.task = d.task
    BY <1>1, <2>4, Fields
  <2> QED
    BY <2>2 DEF Completes, HasTasks
<1> QED
  BY <1>2, <1>3, <1>4

\* ... and so does the completion of all of them.
LEMMA EnsureCompletes ==
    \A J, c : IsList(J.pretask) /\ HasTasks(c) => \A p \in EnsureAll(J, c) : Completes(J, c, p.cfg)
<1> SUFFICES ASSUME NEW J, NEW c, IsList(J.pretask), HasTasks(c)
    PROVE  \A p \in EnsureAll(J, c) : Completes(J, c, p.cfg)
  OBVIOUS
<1> DEFINE places == Places(J, c)
           M == Len(places)
<1>1. /\ IsList(places)
      /\ \A place \in ToSet(places) :
             /\ place.kind \in {"level", "task", "pretask"}
             /\ place.kind = "task" => place.at \in DOMAIN c.task /\ ActiveTask(J, c.ctx, c.task[place.at])
  BY PlacesAreActive DEF HasTasks, AreTasks
<1> HIDE DEF places
<1>2. M \in Nat /\ \A n \in 1 .. M : places[n] \in ToSet(places)
  BY <1>1, ListFacts
<1>3. PICK f : /\ EnsureEach(J, c, places) = f[M]
               /\ f[0] = {[cfg |-> c, ok |-> TRUE]}
               /\ \A n \in 1 .. M : f[n] = More(J, places[n], f[n - 1])
  BY <1>2, EnsureEachGoes
<1> HIDE DEF M
<1> DEFINE S == {n \in 0 .. M : \A p \in f[n] : Completes(J, c, p.cfg)}
<1>4. 0 \in S
  <2>1. Completes(J, c, c)
    BY DEF Completes
  <2> QED
    BY <1>2, <1>3, <2>1
<1>5. ASSUME NEW n \in Nat, n < M, n \in S PROVE n + 1 \in S
  <2>1. n + 1 \in 1 .. M /\ n + 1 \in 0 .. M /\ (n + 1) - 1 = n
    BY <1>2, <1>5
  <2>2. f[n + 1] = More(J, places[n + 1], f[n])
    BY <1>3, <2>1
  <2>3. ASSUME NEW p \in f[n + 1] PROVE Completes(J, c, p.cfg)
    <3>1. PICK q \in f[n] : p \in (IF q.ok THEN EnsurePlace(J, q.cfg, places[n + 1]) ELSE {q})
      BY <2>2 DEF More
    <3>2. Completes(J, c, q.cfg)
      BY <1>5
    <3>3. CASE q.ok
      <4>1. p \in EnsurePlace(J, q.cfg, places[n + 1]) /\ places[n + 1] \in ToSet(places)
        BY <1>2, <2>1, <3>1, <3>3
      <4> QED
        BY <1>1, <3>2, <4>1, PlaceCompletes
    <3>4. CASE ~q.ok
      BY <3>1, <3>2, <3>4
    <3> QED
      BY <3>3, <3>4
  <2> QED
    BY <2>1, <2>3
<1> HIDE DEF S
<1>6. 0 .. M \subseteq S
  BY <1>2, <1>4, <1>5, UpTo
<1>7. \A p \in f[M] : Completes(J, c, p.cfg)
  BY <1>2, <1>6 DEF S
<1> QED
  BY <1>3, <1>7 DEF EnsureAll, places

\* Tasks that do not apply are the same in both.
LEMMA CompletionKeepsInactive ==
    \A J, c, d : HasTasks(c) /\ Completes(J, c, d) =>
        InactiveTasks(J, c.ctx, d.task) = InactiveTasks(J, c.ctx, c.task)
<1> SUFFICES ASSUME NEW J, NEW c, NEW d, HasTasks(c), Completes(J, c, d)
    PROVE  InactiveTasks(J, c.ctx, d.task) = InactiveTasks(J, c.ctx, c.task)
  OBVIOUS
<1> DEFINE Inactive(t) == KnownTask(J, t) /\ ~ActiveTask(J, c.ctx, t)
           V == {t \in ToSet(c.task) : Inactive(t)}
           W == {t \in ToSet(d.task) : Inactive(t)}
<1>1. DOMAIN d.task = DOMAIN c.task
  BY DEF Completes
<1>2. ASSUME NEW i \in DOMAIN c.task
      PROVE  (c.task[i] \in V <=> d.task[i] \in W) /\ (c.task[i] \in V => d.task[i] = c.task[i])
  <2>1. c.task[i] \in ToSet(c.task) /\ d.task[i] \in ToSet(d.task)
    BY <1>1 DEF ToSet
  <2>2. d.task[i].name = c.task[i].name
    BY DEF Completes
  <2>3. Inactive(c.task[i]) <=> Inactive(d.task[i])
    BY <2>2 DEF KnownTask, ActiveTask
  <2>4. Inactive(c.task[i]) => d.task[i] = c.task[i]
    BY DEF Completes
  <2> QED
    BY <2>1, <2>3, <2>4
<1> HIDE DEF V, W
<1>3. Only(c.task, V) = Only(d.task, W)
  BY <1>1, <1>2, OnlyAlike
<1> QED
  BY <1>3 DEF InactiveTasks, V, W

-----------------------------------------------------------------------------
(* Where tasks come from.                                                   *)

LEMMA BlankHasTasks == HasTasks(Blank)
<1>1. IsList(<<>>) /\ Len(<<>>) = 0
  BY SeqIsList, EmptySeq
<1> QED
  BY <1>1 DEF HasTasks, IsRecord, AreTasks, Blank

LEMMA ConfiguredAreTasks ==
    \A names, options : IsList(names) => \A tasks \in Configured(names, options) : AreTasks(tasks)
<1> SUFFICES ASSUME NEW names, NEW options, IsList(names), NEW tasks \in Configured(names, options)
    PROVE  AreTasks(tasks)
  OBVIOUS
<1>1. Len(names) \in Nat /\ DOMAIN names = 1 .. Len(names)
  BY ListFacts
<1>2. PICK list : tasks = [i \in DOMAIN names |-> ConfigTask(names[i], list[i])]
  BY DEF Configured
<1>3. /\ tasks = [i \in 1 .. Len(names) |-> tasks[i]]
      /\ \A i \in 1 .. Len(names) : tasks[i] = ConfigTask(names[i], list[i])
  BY <1>1, <1>2
<1>4. IsList(tasks) /\ Len(tasks) = Len(names)
  BY <1>1, <1>3, FunctionIsList
<1>5. \A i \in 1 .. Len(tasks) : IsTask(tasks[i])
  BY <1>3, <1>4 DEF IsTask, ConfigTask
<1> QED
  BY <1>4, <1>5 DEF AreTasks

LEMMA ChosenAreLists == \A x : \A names \in ChosenTasks(x) : IsList(names)
<1> SUFFICES ASSUME NEW x, NEW names \in ChosenTasks(x) PROVE IsList(names)
  OBVIOUS
<1> DEFINE A == {n \in DOMAIN iface.task : Fits(iface.task[n], x)}
<1>1. names = <<>> \/ names \in BoundedSeq(A, TaskLimit)
  BY DEF ChosenTasks
<1> HIDE DEF A
<1>2. CASE names = <<>>
  BY <1>2, SeqIsList, EmptySeq
<1>3. CASE names \in BoundedSeq(A, TaskLimit)
  <2>1. PICK m \in 0 .. TaskLimit : names \in [1 .. m -> A]
    BY <1>3 DEF BoundedSeq, SeqOf
  <2>2. m \in Nat
    BY SessionAssumption
  <2>3. names \in Seq(A)
    BY <2>1, <2>2
  <2> QED
    BY <2>3, SeqIsList
<1> QED
  BY <1>1, <1>2, <1>3

LEMMA DefaultsAreLists == \A x : IsList(iface.checked) => IsList(DefaultTasks(x))
<1> SUFFICES ASSUME NEW x, IsList(iface.checked) PROVE IsList(DefaultTasks(x))
  OBVIOUS
<1> DEFINE V == {n \in ToSet(iface.checked) : Fits(iface.task[n], x)}
<1>1. iface.checked \in Seq(ToSet(iface.checked)) /\ DefaultTasks(x) = Only(iface.checked, V)
  BY DEF IsList, DefaultTasks
<1> HIDE DEF V
<1> QED
  BY <1>1, OnlyRange, SeqIsList

\* check_configuration changes the tasks as check_task does.
LEMMA CheckedHasTasks ==
    \A J, c : HasTasks(c) =>
        HasTasks(CheckConfiguration(J, c)) /\ CheckConfiguration(J, c).task = CheckTasks(J, c)
<1> SUFFICES ASSUME NEW J, NEW c, HasTasks(c)
    PROVE  HasTasks(CheckConfiguration(J, c)) /\ CheckConfiguration(J, c).task = CheckTasks(J, c)
  OBVIOUS
<1> DEFINE d == [c EXCEPT !.task = CheckTasks(J, c)]
           ctx1 == [d.ctx EXCEPT !.resource = ""]
           ctx2 == [d.ctx EXCEPT !.controller = ""]
           e1 == [d EXCEPT !.ctx = ctx1]
           e2 == [d EXCEPT !.ctx = ctx2]
           level == [l \in Levels |-> CheckLevel(J, d.level[l])]
           d3 == [d EXCEPT !.level = level]
           e3 == [d3 EXCEPT !.pretask = CheckPretasks(J, c)]
<1>1. CheckConfiguration(J, c) \in {e1, e2, e3}
  <2> USE DEF CheckConfiguration
  <2>1. CASE ~KnownResource(J, c.ctx)
    BY <2>1
  <2>2. CASE KnownResource(J, c.ctx) /\ ~KnownController(J, c.ctx)
    BY <2>2
  <2>3. CASE KnownResource(J, c.ctx) /\ KnownController(J, c.ctx)
    BY <2>3
  <2> QED
    BY <2>1, <2>2, <2>3
<1> HIDE DEF ctx1, ctx2, level
<1>2. IsRecord(d) /\ d.task = CheckTasks(J, c)
  BY Fields DEF HasTasks
<1> HIDE DEF d
<1>3. IsRecord(e1) /\ e1.task = d.task /\ IsRecord(e2) /\ e2.task = d.task /\ IsRecord(d3) /\ d3.task = d.task
  BY <1>2, Fields
<1> HIDE DEF e1, e2, d3
<1>4. IsRecord(e3) /\ e3.task = d3.task
  BY <1>3, Fields
<1> HIDE DEF e3
<1>5. AreTasks(CheckTasks(J, c))
  BY CheckKeepsInactive
<1> QED
  BY <1>1, <1>2, <1>3, <1>4, <1>5 DEF HasTasks

-----------------------------------------------------------------------------
(* The configurations in memory and in the file have lists of tasks.        *)

HoldsTasks ==
    /\ iface \in Interfaces
    /\ HasTasks(cfg)
    /\ file = NoFile \/ HasTasks(file)

LEMMA LoadedHasTasks == \A J : HoldsTasks => HasTasks(Loaded(J))
  BY BlankHasTasks, CheckedHasTasks DEF HoldsTasks, Loaded

LEMMA PrepareHoldsTasks ==
    \A J \in Interfaces : \A c, run, done :
        HoldsTasks /\ HasTasks(c) /\ Prepare(J, c, run, done) =>
            HasTasks(cfg') /\ (file' = NoFile \/ HasTasks(file'))
<1> SUFFICES ASSUME NEW J \in Interfaces, NEW c, NEW run, NEW done,
                    HoldsTasks, HasTasks(c), Prepare(J, c, run, done)
    PROVE  HasTasks(cfg') /\ (file' = NoFile \/ HasTasks(file'))
  OBVIOUS
<1>1. PICK p \in EnsureAll(J, c) : (cfg' = Blank \/ cfg' = p.cfg) /\ (file' = p.cfg \/ file' = file)
  BY DEF Prepare
<1>2. IsList(J.pretask)
  BY SessionAssumption DEF IsInterface
<1>3. Completes(J, c, p.cfg)
  BY <1>2, EnsureCompletes
<1> QED
  BY <1>1, <1>3, BlankHasTasks DEF Completes, HoldsTasks

\* One task's options change.
LEMMA SetOptionsHasTasks ==
    \A list : HasTasks(cfg) => \A i \in DOMAIN cfg.task : SetOptions(i, list) => HasTasks(cfg')
<1> SUFFICES ASSUME NEW list, HasTasks(cfg), NEW i \in DOMAIN cfg.task, SetOptions(i, list) PROVE HasTasks(cfg')
  OBVIOUS
<1> DEFINE tasks == [cfg.task EXCEPT ![i].option = list]
<1>1. cfg' = [cfg EXCEPT !.task = tasks]
  BY DEF SetOptions
<1>2. AreTasks(tasks)
  BY TasksChange DEF HasTasks
<1> HIDE DEF tasks
<1>3. IsRecord(cfg') /\ cfg'.task = tasks
  BY <1>1, Fields DEF HasTasks
<1> QED
  BY <1>2, <1>3 DEF HasTasks

LEMMA SubIn == \A S : \A s \in Seq(S) : \A m \in 1 .. Len(s) + 1, n \in 0 .. Len(s) : SubSeq(s, m, n) \in Seq(S)
<1> SUFFICES ASSUME NEW S, NEW s \in Seq(S), NEW m \in 1 .. Len(s) + 1, NEW n \in 0 .. Len(s)
    PROVE  SubSeq(s, m, n) \in Seq(S)
  OBVIOUS
<1>1. Len(s) \in Nat
  OBVIOUS
<1>2. CASE m > n
  BY <1>1, <1>2, SubSeqEmpty
<1>3. CASE m <= n
  <2>1. m \in 1 .. Len(s) /\ n \in m - 1 .. Len(s)
    BY <1>1, <1>3
  <2> QED
    BY <2>1, SubSeqProperties
<1> QED
  BY <1>1, <1>2, <1>3

\* A task that is moved stays in the list, and so do the others.
LEMMA MovedIn ==
    \A S : \A s \in Seq(S) : \A from, to \in DOMAIN s : InsertAt(RemoveAt(s, from), to, s[from]) \in Seq(S)
<1> SUFFICES ASSUME NEW S, NEW s \in Seq(S), NEW from \in DOMAIN s, NEW to \in DOMAIN s
    PROVE  InsertAt(RemoveAt(s, from), to, s[from]) \in Seq(S)
  OBVIOUS
<1> DEFINE n == Len(s)
           before == SubSeq(s, 1, from - 1)
           after == SubSeq(s, from + 1, n)
           r == before \o after
<1>1. n \in Nat /\ DOMAIN s = 1 .. n /\ s[from] \in S /\ \A i \in 1 .. n : s[i] \in S
  OBVIOUS
<1>2. RemoveAt(s, from) = r
  BY DEF RemoveAt
<1>3. before \in Seq(S) /\ after \in Seq(S)
  <2>1. 1 \in 1 .. n + 1 /\ from - 1 \in 0 .. n /\ from + 1 \in 1 .. n + 1 /\ n \in 0 .. n
    BY <1>1
  <2> QED
    BY <2>1, SubIn
<1>4. Len(before) = from - 1 /\ Len(after) = n - from
  <2>1. \A i \in 1 .. from - 1 : s[i] \in S
    BY <1>1
  <2>2. Len(before) = IF 1 <= from - 1 THEN (from - 1) - 1 + 1 ELSE 0
    BY <1>1, <2>1, SubSeqProperties
  <2>3. \A i \in from + 1 .. n : s[i] \in S
    BY <1>1
  <2>4. Len(after) = IF from + 1 <= n THEN n - (from + 1) + 1 ELSE 0
    BY <1>1, <2>3, SubSeqProperties
  <2> QED
    BY <1>1, <2>2, <2>4
<1> HIDE DEF before, after
<1>5. r \in Seq(S) /\ Len(r) = n - 1
  <2>1. Len(before \o after) = Len(before) + Len(after)
    BY <1>3, ConcatProperties
  <2> QED
    BY <1>1, <1>3, <1>4, <2>1
<1> HIDE DEF r
<1> DEFINE front == SubSeq(r, 1, to - 1)
           back == SubSeq(r, to, Len(r))
           alone == <<s[from]>>
<1>6. InsertAt(r, to, s[from]) = front \o alone \o back
  BY DEF InsertAt
<1>7. front \in Seq(S) /\ back \in Seq(S)
  <2>1. 1 \in 1 .. Len(r) + 1 /\ to - 1 \in 0 .. Len(r) /\ to \in 1 .. Len(r) + 1 /\ Len(r) \in 0 .. Len(r)
    BY <1>1, <1>5
  <2> QED
    BY <1>5, <2>1, SubIn
<1>8. alone \in Seq(S)
  BY <1>1
<1> HIDE DEF front, back, alone
<1>9. front \o alone \o back \in Seq(S)
  BY <1>7, <1>8
<1> QED
  BY <1>2, <1>6, <1>9

\* The tasks that are not deleted were in the list.
LEMMA LeftIn ==
    \A S : \A s \in Seq(S) : \A V :
        LET stay == Only([i \in DOMAIN s |-> i], V) IN [i \in DOMAIN stay |-> s[stay[i]]] \in Seq(S)
<1> SUFFICES ASSUME NEW S, NEW s \in Seq(S), NEW V
    PROVE  LET stay == Only([i \in DOMAIN s |-> i], V) IN [i \in DOMAIN stay |-> s[stay[i]]] \in Seq(S)
  OBVIOUS
<1> DEFINE each == [i \in DOMAIN s |-> i]
           stay == Only(each, V)
<1>1. each \in Seq(1 .. Len(s)) /\ \A i \in 1 .. Len(s) : s[i] \in S
  OBVIOUS
<1> HIDE DEF each
<1>2. stay \in Seq(1 .. Len(s))
  BY <1>1, OnlyRange
<1> HIDE DEF stay
<1>3. Len(stay) \in Nat /\ DOMAIN stay = 1 .. Len(stay) /\ \A i \in 1 .. Len(stay) : stay[i] \in 1 .. Len(s)
  BY <1>2, LenProperties
<1>4. [i \in DOMAIN stay |-> s[stay[i]]] \in [1 .. Len(stay) -> S]
  BY <1>1, <1>3
<1>5. [i \in DOMAIN stay |-> s[stay[i]]] \in Seq(S)
  BY <1>3, <1>4
<1> QED
  BY <1>5 DEF stay, each

LEMMA MoveIn ==
    IsList(cfg.task) /\ MoveTask => \E x \in Seq(ToSet(cfg.task)) : cfg' = [cfg EXCEPT !.task = x]
<1> SUFFICES ASSUME IsList(cfg.task), MoveTask PROVE \E x \in Seq(ToSet(cfg.task)) : cfg' = [cfg EXCEPT !.task = x]
  OBVIOUS
<1> DEFINE s == cfg.task
<1>1. PICK from \in DOMAIN s, to \in DOMAIN s : cfg' = [cfg EXCEPT !.task = InsertAt(RemoveAt(s, from), to, s[from])]
  BY DEF MoveTask
<1>2. s \in Seq(ToSet(s))
  BY DEF IsList
<1> HIDE DEF s
<1>3. InsertAt(RemoveAt(s, from), to, s[from]) \in Seq(ToSet(s))
  BY <1>2, MovedIn
<1> QED
  BY <1>1, <1>3 DEF s

LEMMA DeleteIn ==
    IsList(cfg.task) /\ DeleteTask => \E x \in Seq(ToSet(cfg.task)) : cfg' = [cfg EXCEPT !.task = x]
<1> SUFFICES ASSUME IsList(cfg.task), DeleteTask PROVE \E x \in Seq(ToSet(cfg.task)) : cfg' = [cfg EXCEPT !.task = x]
  OBVIOUS
<1> DEFINE s == cfg.task
           stay(V) == Only([i \in DOMAIN s |-> i], V)
           left(V) == [i \in DOMAIN stay(V) |-> s[stay(V)[i]]]
<1>1. PICK gone \in (SUBSET DOMAIN s) \ {{}} : cfg' = [cfg EXCEPT !.task = left(DOMAIN s \ gone)]
  BY DEF DeleteTask
<1>2. s \in Seq(ToSet(s))
  BY DEF IsList
<1> HIDE DEF s
<1>3. \A V : left(V) \in Seq(ToSet(s))
  BY <1>2, LeftIn
<1> HIDE DEF left
<1> QED
  BY <1>1, <1>3 DEF s
LEMMA WithinHasTasks ==
    \A c, d : HasTasks(c) => \A x \in Seq(ToSet(c.task)) : d = [c EXCEPT !.task = x] => HasTasks(d)
<1> SUFFICES ASSUME NEW c, NEW d, HasTasks(c), NEW x \in Seq(ToSet(c.task)), d = [c EXCEPT !.task = x]
    PROVE  HasTasks(d)
  OBVIOUS
<1>1. \A t \in ToSet(c.task) : IsTask(t)
  BY TasksAre DEF HasTasks
<1>2. IsList(x) /\ ToSet(x) \subseteq ToSet(c.task)
  BY SeqIsList
<1> HIDE DEF IsTask
<1>3. AreTasks(x)
  BY <1>1, <1>2, TasksAre
<1> QED
  BY <1>3, Fields DEF HasTasks

LEMMA MoveHasTasks == HasTasks(cfg) /\ MoveTask => HasTasks(cfg')
  BY MoveIn, WithinHasTasks DEF HasTasks, AreTasks

LEMMA DeleteHasTasks == HasTasks(cfg) /\ DeleteTask => HasTasks(cfg')
  BY DeleteIn, WithinHasTasks DEF HasTasks, AreTasks

\* A preset brings tasks, which are then checked.
LEMMA PresetTasks ==
    IsInterface(iface) /\ ApplyPreset =>
        \E tasks : AreTasks(tasks) /\ cfg' = [cfg EXCEPT !.task = CheckTasks(iface, [cfg EXCEPT !.task = tasks])]
<1> SUFFICES ASSUME IsInterface(iface), ApplyPreset
    PROVE  \E tasks : AreTasks(tasks) /\ cfg' = [cfg EXCEPT !.task = CheckTasks(iface, [cfg EXCEPT !.task = tasks])]
  OBVIOUS
<1> DEFINE known(p) == {t \in ToSet(iface.preset[p]) : KnownTask(iface, t)}
           enabled(p) == Only(iface.preset[p], known(p))
           names(p) == [i \in DOMAIN enabled(p) |-> enabled(p)[i].name]
<1>1. PICK p \in DOMAIN iface.preset :
          \E options : \E tasks \in Configured(names(p), options) :
              cfg' = [cfg EXCEPT !.task = CheckTasks(iface, [cfg EXCEPT !.task = tasks])]
  BY DEF ApplyPreset
<1>2. IsList(enabled(p))
  <2>1. iface.preset[p] \in Seq(ToSet(iface.preset[p]))
    BY DEF IsInterface, IsList
  <2> HIDE DEF known
  <2> QED
    BY <2>1, OnlyRange, SeqIsList
<1> HIDE DEF enabled
<1>3. IsList(names(p))
  <2>1. Len(enabled(p)) \in Nat /\ DOMAIN enabled(p) = 1 .. Len(enabled(p))
    BY <1>2, ListFacts
  <2> DEFINE n == names(p)
  <2>2. n = [i \in 1 .. Len(enabled(p)) |-> n[i]]
    BY <2>1
  <2> HIDE DEF n
  <2> QED
    BY <2>1, <2>2, FunctionIsList DEF n
<1> HIDE DEF names
<1>4. PICK options : \E tasks \in Configured(names(p), options) :
          cfg' = [cfg EXCEPT !.task = CheckTasks(iface, [cfg EXCEPT !.task = tasks])]
  BY <1>1
<1>5. PICK tasks \in Configured(names(p), options) :
          cfg' = [cfg EXCEPT !.task = CheckTasks(iface, [cfg EXCEPT !.task = tasks])]
  BY <1>4
<1>6. AreTasks(tasks)
  BY <1>3, ConfiguredAreTasks
<1> QED
  BY <1>5, <1>6

LEMMA PresetHasTasks == HasTasks(cfg) /\ IsInterface(iface) /\ ApplyPreset => HasTasks(cfg')
<1> SUFFICES ASSUME HasTasks(cfg), IsInterface(iface), ApplyPreset PROVE HasTasks(cfg')
  OBVIOUS
<1>1. PICK tasks : AreTasks(tasks) /\ cfg' = [cfg EXCEPT !.task = CheckTasks(iface, [cfg EXCEPT !.task = tasks])]
  BY PresetTasks
<1> DEFINE c == [cfg EXCEPT !.task = tasks]
<1>2. IsRecord(c) /\ c.task = tasks
  BY Fields DEF HasTasks
<1>3. cfg' = [cfg EXCEPT !.task = CheckTasks(iface, c)]
  BY <1>1
<1> HIDE DEF c
<1>4. AreTasks(CheckTasks(iface, c))
  BY <1>1, <1>2, CheckKeepsInactive DEF HasTasks
<1>5. IsRecord(cfg') /\ cfg'.task = CheckTasks(iface, c)
  BY <1>3, Fields DEF HasTasks
<1> QED
  BY <1>4, <1>5 DEF HasTasks

LEMMA HoldsTasksInit == Init => HoldsTasks
  BY BlankHasTasks DEF Init, HoldsTasks

LEMMA HoldsTasksStep == HoldsTasks /\ [Next]_vars => HoldsTasks'
<1> SUFFICES ASSUME HoldsTasks, [Next]_vars PROVE HoldsTasks'
  OBVIOUS
<1>1. iface \in Interfaces /\ HasTasks(cfg) /\ (file = NoFile \/ HasTasks(file)) /\ IsInterface(iface)
  BY SessionAssumption DEF HoldsTasks
<1>2. IsRecord(cfg) /\ AreTasks(cfg.task)
  BY <1>1 DEF HasTasks
<1>3. CASE Start
  BY <1>1, <1>3, LoadedHasTasks DEF Start, HoldsTasks
<1>4. CASE Leave
  BY <1>1, <1>4, BlankHasTasks DEF Leave, HoldsTasks
<1>5. CASE Setup
  <2>1. PICK x, names, tasks, levels :
            /\ IsList(names) /\ tasks \in NewTasks(x, names)
            /\ cfg' = [Blank EXCEPT !.ctx = x, !.task = tasks, !.level = levels]
    <3>1. PICK c \in DOMAIN iface.controller, r \in DOMAIN iface.resource :
              LET x == [controller |-> c, resource |-> r]
                  defaults == DefaultTasks(x)
              IN \E names \in IF defaults # <<>> THEN {defaults} ELSE ChosenTasks(x) :
                 \E tasks \in NewTasks(x, names) : \E levels :
                     cfg' = [Blank EXCEPT !.ctx = x, !.task = tasks, !.level = levels]
      BY <1>5 DEF Setup
    <3> DEFINE x == [controller |-> c, resource |-> r]
    <3>2. PICK names \in IF DefaultTasks(x) # <<>> THEN {DefaultTasks(x)} ELSE ChosenTasks(x) :
                 \E tasks \in NewTasks(x, names) : \E levels :
                     cfg' = [Blank EXCEPT !.ctx = x, !.task = tasks, !.level = levels]
      BY <3>1
    <3>3. IsList(DefaultTasks(x))
      BY <1>1, DefaultsAreLists DEF IsInterface
    <3> HIDE DEF x
    <3>4. IsList(names)
      BY <3>2, <3>3, ChosenAreLists
    <3> QED
      BY <3>2, <3>4
  <2>2. AreTasks(tasks)
    BY <2>1, ConfiguredAreTasks DEF NewTasks
  <2>3. HasTasks(cfg')
    BY <2>1, <2>2 DEF Blank, HasTasks, IsRecord
  <2> QED
    BY <1>1, <1>5, <2>3 DEF Setup, Complete, Back, Save, HoldsTasks
<1>6. CASE SelectController
  <2>1. PICK x : cfg' = [cfg EXCEPT !.ctx = x]
    BY <1>6 DEF SelectController
  <2>2. HasTasks(cfg')
    BY <1>2, <2>1, Fields DEF HasTasks
  <2> QED
    BY <1>1, <1>6, <2>2 DEF SelectController, Complete, Incomplete, Back, Save, HoldsTasks
<1>7. CASE SelectResource
  <2>1. PICK x : cfg' = [cfg EXCEPT !.ctx = x]
    BY <1>7 DEF SelectResource
  <2>2. HasTasks(cfg')
    BY <1>2, <2>1, Fields DEF HasTasks
  <2> QED
    BY <1>1, <1>7, <2>2 DEF SelectResource, Complete, Back, Save, HoldsTasks
<1>8. CASE AddTask
  <2>0. PICK names \in ChosenTasks(cfg.ctx) : \E tasks \in NewTasks(cfg.ctx, names) :
            cfg' = [cfg EXCEPT !.task = cfg.task \o tasks]
    BY <1>8 DEF AddTask
  <2>1. PICK tasks \in NewTasks(cfg.ctx, names) : cfg' = [cfg EXCEPT !.task = cfg.task \o tasks]
    BY <2>0
  <2>2. AreTasks(tasks)
    BY ChosenAreLists, ConfiguredAreTasks DEF NewTasks
  <2>3. AreTasks(cfg.task \o tasks)
    BY <1>2, <2>2, TasksConcat
  <2>4. HasTasks(cfg')
    BY <1>2, <2>1, <2>3, Fields DEF HasTasks
  <2> QED
    BY <1>1, <1>8, <2>4 DEF AddTask, Complete, Back, Save, HoldsTasks
<1>9. CASE MoveTask
  BY <1>1, <1>9, MoveHasTasks DEF MoveTask, Complete, Back, Save, HoldsTasks
<1>10. CASE DeleteTask
  BY <1>1, <1>10, DeleteHasTasks DEF DeleteTask, Complete, Back, Save, HoldsTasks
<1>11. CASE ApplyPreset
  BY <1>1, <1>11, PresetHasTasks DEF ApplyPreset, Complete, Back, Save, HoldsTasks
<1>12. CASE OpenEdit
  BY <1>1, <1>12 DEF OpenEdit, Complete, Back, Save, HoldsTasks
<1>13. CASE ConfigureTask
  <2>0. PICK i \in DOMAIN cfg.task : \E list : SetOptions(i, list)
    BY <1>13 DEF ConfigureTask
  <2>1. PICK list : SetOptions(i, list)
    BY <2>0
  <2> QED
    BY <1>1, <2>1, SetOptionsHasTasks DEF SetOptions, HoldsTasks
<1>14. CASE EditOption
  <2>0. PICK i \in DOMAIN cfg.task : \E list : SetOptions(i, list)
    BY <1>14 DEF EditOption
  <2>1. PICK list : SetOptions(i, list)
    BY <2>0
  <2> QED
    BY <1>1, <2>1, SetOptionsHasTasks DEF SetOptions, HoldsTasks
<1>15. CASE CloseEdit
  BY <1>1, <1>15 DEF CloseEdit, Complete, Back, Save, HoldsTasks
<1>16. CASE Run
  BY <1>1, <1>16, PrepareHoldsTasks DEF Run, HoldsTasks
<1>17. CASE RunElevated
  BY <1>1, <1>17 DEF RunElevated, HoldsTasks
<1>18. CASE RunEnds
  BY <1>1, <1>18 DEF RunEnds, Complete, Incomplete, Back, Save, HoldsTasks
<1>19. CASE RunDirectly
  <2>1. iface' \in Interfaces /\ HasTasks(Loaded(iface'))
    BY <1>19, LoadedHasTasks DEF RunDirectly
  <2>2. CASE Prepare(iface', Loaded(iface'), "once", "off")
    BY <2>1, <2>2, PrepareHoldsTasks DEF HoldsTasks
  <2>3. CASE file' \in {Loaded(iface'), file} /\ UNCHANGED <<mode, cfg>>
    BY <1>1, <2>1, <2>3 DEF HoldsTasks
  <2> QED
    BY <1>19, <2>2, <2>3 DEF RunDirectly
<1>20. CASE UNCHANGED vars
  BY <1>20 DEF vars, HoldsTasks
<1> QED
  BY <1>3, <1>4, <1>5, <1>6, <1>7, <1>8, <1>9, <1>10, <1>11, <1>12, <1>13, <1>14, <1>15, <1>16, <1>17,
     <1>18, <1>19, <1>20 DEF Next, Menu

THEOREM TasksAreHeld == Spec => []HoldsTasks
  BY HoldsTasksInit, HoldsTasksStep, PTL DEF Spec

\* A start and a run leave the tasks of other controllers and resources as they
\* are, with any interface.json and any configuration (Parser.cpp:701-703,
\* interactor.cpp:2736-2743).
THEOREM InactiveTasksStay == Spec => KeepsInactive
<1>1. HoldsTasks /\ [Next]_vars =>
          [/\ Start /\ file # NoFile =>
                 InactiveTasks(iface', file.ctx, cfg'.task) = InactiveTasks(iface', file.ctx, file.task)
           /\ Run => InactiveTasks(iface, cfg.ctx, cfg'.task) = InactiveTasks(iface, cfg.ctx, cfg.task)]_vars
  <2> SUFFICES ASSUME HoldsTasks
               PROVE  /\ Start /\ file # NoFile =>
                             InactiveTasks(iface', file.ctx, cfg'.task) = InactiveTasks(iface', file.ctx, file.task)
                      /\ Run => InactiveTasks(iface, cfg.ctx, cfg'.task) = InactiveTasks(iface, cfg.ctx, cfg.task)
    OBVIOUS
  <2>1. ASSUME Start, file # NoFile
        PROVE  InactiveTasks(iface', file.ctx, cfg'.task) = InactiveTasks(iface', file.ctx, file.task)
    <3>1. cfg' = CheckConfiguration(iface', file) /\ HasTasks(file)
      BY <2>1 DEF Start, Loaded, HoldsTasks
    <3>2. cfg'.task = CheckTasks(iface', file)
      BY <3>1, CheckedHasTasks
    <3> QED
      BY <3>1, <3>2, CheckKeepsInactive
  <2>2. ASSUME Run
        PROVE  InactiveTasks(iface, cfg.ctx, cfg'.task) = InactiveTasks(iface, cfg.ctx, cfg.task)
    <3>1. HasTasks(cfg) /\ IsList(iface.pretask)
      BY SessionAssumption DEF HoldsTasks, IsInterface
    <3>2. PICK p \in EnsureAll(iface, cfg) : cfg' = p.cfg
      BY <2>2 DEF Run, Prepare
    <3>3. Completes(iface, cfg, p.cfg)
      BY <3>1, EnsureCompletes
    <3> QED
      BY <3>1, <3>2, <3>3, CompletionKeepsInactive
  <2> QED
    BY <2>1, <2>2
<1> QED
  BY <1>1, TasksAreHeld, PTL DEF Spec, KeepsInactive

-----------------------------------------------------------------------------
(* The lists of the pretasks.                                               *)

HasPretasks(c) == IsRecord(c) /\ \A id \in DOMAIN c.pretask : StoredList(c.pretask[id])

LEMMA NothingIsStored == StoredList(<<>>)
<1>1. ToSet(<<>>) = {}
  BY DEF ToSet
<1> QED
  BY <1>1, NothingIsList DEF StoredList

\* Every value the pretask needs is in its list.
IsGiven(J, ctx, p, pretask) ==
    /\ p.id \in DOMAIN pretask
    /\ IsComplete(J, ctx, pretask[p.id])
    /\ Meets(J, ctx, ToSet(p.roots), pretask[p.id])

\* What ensure_pretask_options makes of a list of a pretask.
PretaskOutcomes(J, d, p) ==
    Ensured(J, d.ctx, p.roots, IF p.id \in DOMAIN d.pretask THEN d.pretask[p.id] ELSE <<>>, "auto")

WithPretask(d, id, out) ==
    [d EXCEPT !.pretask = [r \in DOMAIN d.pretask \cup {id} |-> IF r = id THEN out ELSE d.pretask[r]]]

LEMMA PretaskPlace ==
    \A J, d, place : place.kind = "pretask" =>
        \A p \in EnsurePlace(J, d, place) : \E q \in PretaskOutcomes(J, d, place.at) :
            /\ p.ok = q.ok
            /\ p.cfg = d \/ p.cfg = WithPretask(d, place.at.id, q.out)
            /\ q.ok => p.cfg = WithPretask(d, place.at.id, q.out)
<1> SUFFICES ASSUME NEW J, NEW d, NEW place, place.kind = "pretask", NEW p \in EnsurePlace(J, d, place)
    PROVE  \E q \in PretaskOutcomes(J, d, place.at) :
               /\ p.ok = q.ok
               /\ p.cfg = d \/ p.cfg = WithPretask(d, place.at.id, q.out)
               /\ q.ok => p.cfg = WithPretask(d, place.at.id, q.out)
  OBVIOUS
<1> DEFINE id == place.at.id
           stored == id \in DOMAIN d.pretask
           list == IF stored THEN d.pretask[id] ELSE <<>>
           out(q) == [r \in DOMAIN d.pretask \cup {id} |-> IF r = id THEN q.out ELSE d.pretask[r]]
           put(q) == IF stored \/ q.ok THEN [d EXCEPT !.pretask = out(q)] ELSE d
<1>1. EnsurePlace(J, d, place) =
          {[cfg |-> put(q), ok |-> q.ok] : q \in Ensured(J, d.ctx, place.at.roots, list, "auto")}
  BY DEF EnsurePlace
<1>2. PretaskOutcomes(J, d, place.at) = Ensured(J, d.ctx, place.at.roots, list, "auto")
  BY DEF PretaskOutcomes
<1>3. \A q : [d EXCEPT !.pretask = out(q)] = WithPretask(d, id, q.out)
  BY DEF WithPretask
<1> HIDE DEF list, out, stored
<1>4. PICK q \in PretaskOutcomes(J, d, place.at) : p = [cfg |-> put(q), ok |-> q.ok]
  <2> HIDE DEF put
  <2> QED
    BY <1>1, <1>2
<1>5. put(q) = d \/ put(q) = WithPretask(d, id, q.out)
  BY <1>3
<1>6. q.ok => put(q) = WithPretask(d, id, q.out)
  BY <1>3
<1> HIDE DEF put
<1> QED
  BY <1>4, <1>5, <1>6

LEMMA WithPretaskIs ==
    \A d, id, out : IsRecord(d) =>
        /\ IsRecord(WithPretask(d, id, out)) /\ WithPretask(d, id, out).ctx = d.ctx
        /\ DOMAIN WithPretask(d, id, out).pretask = DOMAIN d.pretask \cup {id}
        /\ WithPretask(d, id, out).pretask[id] = out
        /\ \A r \in DOMAIN d.pretask : r # id => WithPretask(d, id, out).pretask[r] = d.pretask[r]
<1> SUFFICES ASSUME NEW d, NEW id, NEW out, IsRecord(d)
    PROVE  /\ IsRecord(WithPretask(d, id, out)) /\ WithPretask(d, id, out).ctx = d.ctx
           /\ DOMAIN WithPretask(d, id, out).pretask = DOMAIN d.pretask \cup {id}
           /\ WithPretask(d, id, out).pretask[id] = out
           /\ \A r \in DOMAIN d.pretask : r # id => WithPretask(d, id, out).pretask[r] = d.pretask[r]
  OBVIOUS
<1> DEFINE lists == [r \in DOMAIN d.pretask \cup {id} |-> IF r = id THEN out ELSE d.pretask[r]]
           e == WithPretask(d, id, out)
<1>1. e = [d EXCEPT !.pretask = lists]
  BY DEF WithPretask
<1>2. /\ DOMAIN lists = DOMAIN d.pretask \cup {id} /\ lists[id] = out
      /\ \A r \in DOMAIN d.pretask : r # id => lists[r] = d.pretask[r]
  OBVIOUS
<1> HIDE DEF lists, e
<1>3. IsRecord(e) /\ e.ctx = d.ctx /\ e.pretask = lists
  BY <1>1, Fields
<1> QED
  BY <1>2, <1>3 DEF e

\* The other places leave these lists alone.
LEMMA OtherPlaces ==
    \A J, d, place : IsRecord(d) /\ place.kind \in {"level", "task"} =>
        \A p \in EnsurePlace(J, d, place) : IsRecord(p.cfg) /\ p.cfg.ctx = d.ctx /\ p.cfg.pretask = d.pretask
<1> SUFFICES ASSUME NEW J, NEW d, NEW place, IsRecord(d), place.kind \in {"level", "task"},
                    NEW p \in EnsurePlace(J, d, place)
    PROVE  IsRecord(p.cfg) /\ p.cfg.ctx = d.ctx /\ p.cfg.pretask = d.pretask
  OBVIOUS
<1>1. CASE place.kind = "level"
  <2>1. EnsurePlace(J, d, place) =
            {[cfg |-> [d EXCEPT !.level[place.at] = q.out], ok |-> q.ok] :
             q \in Ensured(J, d.ctx, LevelRoots(J, d.ctx, place.at),
                          Cleanup(J, d.ctx, LevelRoots(J, d.ctx, place.at), d.level[place.at]), "auto")}
    BY <1>1 DEF EnsurePlace
  <2> DEFINE out(q) == [d.level EXCEPT ![place.at] = q.out]
  <2>2. PICK q : p = [cfg |-> [d EXCEPT !.level = out(q)], ok |-> q.ok]
    BY <2>1
  <2> HIDE DEF out
  <2> QED
    BY <2>2, Fields
<1>2. CASE place.kind = "task"
  <2> DEFINE i == place.at
             out(q) == [d.task EXCEPT ![i].option = q.out]
  <2>1. EnsurePlace(J, d, place) =
            {[cfg |-> [d EXCEPT !.task[i].option = q.out], ok |-> q.ok] :
             q \in Ensured(J, d.ctx, J.task[d.task[i].name].roots, d.task[i].option, "auto")}
    BY <1>2 DEF EnsurePlace
  <2>2. PICK q : p = [cfg |-> [d EXCEPT !.task = out(q)], ok |-> q.ok]
    BY <2>1
  <2> HIDE DEF out
  <2> QED
    BY <2>2, Fields
<1> QED
  BY <1>1, <1>2

\* The completion of a place: its own list is complete, unless it fails, and the
\* ones completed before it stay so.
LEMMA PlaceGives ==
    \A J, d, place :
        /\ IsInterface(J) /\ ValidInterface(J) /\ HasPretasks(d)
        /\ place.kind \in {"level", "task", "pretask"}
        /\ place.kind = "pretask" => place.at \in ToSet(J.pretask)
        => \A p \in EnsurePlace(J, d, place) :
               /\ HasPretasks(p.cfg) /\ p.cfg.ctx = d.ctx
               /\ p.ok => /\ place.kind = "pretask" => IsGiven(J, d.ctx, place.at, p.cfg.pretask)
                          /\ Apart(J) => \A x \in ToSet(J.pretask) :
                                 IsGiven(J, d.ctx, x, d.pretask) => IsGiven(J, d.ctx, x, p.cfg.pretask)
<1> SUFFICES ASSUME NEW J, NEW d, NEW place,
                    IsInterface(J), ValidInterface(J), HasPretasks(d),
                    place.kind \in {"level", "task", "pretask"},
                    place.kind = "pretask" => place.at \in ToSet(J.pretask),
                    NEW p \in EnsurePlace(J, d, place)
    PROVE  /\ HasPretasks(p.cfg) /\ p.cfg.ctx = d.ctx
           /\ p.ok => /\ place.kind = "pretask" => IsGiven(J, d.ctx, place.at, p.cfg.pretask)
                      /\ Apart(J) => \A x \in ToSet(J.pretask) :
                             IsGiven(J, d.ctx, x, d.pretask) => IsGiven(J, d.ctx, x, p.cfg.pretask)
  OBVIOUS
<1>1. CASE place.kind \in {"level", "task"}
  <2>1. IsRecord(p.cfg) /\ p.cfg.ctx = d.ctx /\ p.cfg.pretask = d.pretask
    BY <1>1, OtherPlaces DEF HasPretasks
  <2> QED
    BY <1>1, <2>1 DEF HasPretasks
<1>2. CASE place.kind = "pretask"
  <2> DEFINE t == place.at
             id == t.id
             old == IF id \in DOMAIN d.pretask THEN d.pretask[id] ELSE <<>>
  <2>1. t \in ToSet(J.pretask)
    BY <1>2
  <2>2. PICK q \in PretaskOutcomes(J, d, t) :
            /\ p.ok = q.ok
            /\ p.cfg = d \/ p.cfg = WithPretask(d, id, q.out)
            /\ q.ok => p.cfg = WithPretask(d, id, q.out)
    BY <1>2, PretaskPlace
  <2>3. IsOptions(J.option) /\ EndsEverywhere(J) /\ IsList(t.roots) /\ ToSet(t.roots) \subseteq STRING
    <3>1. IsOptions(J.option) /\ EndsEverywhere(J) /\ IsList(t.roots) /\ IsList(J.pretask)
      BY <2>1 DEF IsInterface, IsNames, ValidInterface
    <3>2. \A i \in DOMAIN J.pretask : ToSet(J.pretask[i].roots) \subseteq DOMAIN J.option
      BY DEF ValidInterface
    <3>3. PICK i \in DOMAIN J.pretask : t = J.pretask[i]
      BY <2>1 DEF ToSet
    <3>4. DOMAIN J.option \subseteq STRING
      BY <3>1 DEF IsOptions
    <3> QED
      BY <3>1, <3>2, <3>3, <3>4
  <2>4. StoredList(old)
    BY NothingIsStored DEF HasPretasks
  <2> HIDE DEF t, id, old
  <2>5. q \in Ensured(J, d.ctx, t.roots, old, "auto")
    BY DEF PretaskOutcomes, old, id
  <2>6. /\ StoredList(q.out)
        /\ q.ok => IsComplete(J, d.ctx, q.out) /\ Meets(J, d.ctx, ToSet(t.roots), q.out)
    BY <2>3, <2>4, <2>5, EnsuredCompletes
  <2> DEFINE e == WithPretask(d, id, q.out)
  <2>7. /\ IsRecord(e) /\ e.ctx = d.ctx
        /\ DOMAIN e.pretask = DOMAIN d.pretask \cup {id}
        /\ e.pretask[id] = q.out
        /\ \A r \in DOMAIN d.pretask : r # id => e.pretask[r] = d.pretask[r]
    BY WithPretaskIs DEF HasPretasks
  <2> HIDE DEF e
  <2>8. HasPretasks(e)
    BY <2>6, <2>7 DEF HasPretasks
  <2>9. HasPretasks(p.cfg) /\ p.cfg.ctx = d.ctx
    BY <2>2, <2>7, <2>8 DEF e
  <2>10. ASSUME p.ok
         PROVE  /\ IsGiven(J, d.ctx, t, p.cfg.pretask)
                /\ Apart(J) => \A x \in ToSet(J.pretask) :
                       IsGiven(J, d.ctx, x, d.pretask) => IsGiven(J, d.ctx, x, p.cfg.pretask)
    <3>1. q.ok /\ p.cfg = e
      BY <2>2, <2>10 DEF e
    <3>2. IsGiven(J, d.ctx, t, e.pretask)
      BY <2>6, <2>7, <3>1 DEF IsGiven, id
    <3>3. ASSUME Apart(J), NEW x \in ToSet(J.pretask), IsGiven(J, d.ctx, x, d.pretask)
          PROVE  IsGiven(J, d.ctx, x, e.pretask)
      <4>1. CASE x.id = id
        <5>1. x.roots = t.roots /\ x.id = t.id
          BY <2>1, <3>3, <4>1 DEF Apart, id
        <5> QED
          BY <3>2, <5>1 DEF IsGiven
      <4>2. CASE x.id # id
        BY <2>7, <3>3, <4>2 DEF IsGiven
      <4> QED
        BY <4>1, <4>2
    <3> QED
      BY <3>1, <3>2, <3>3
  <2> QED
    BY <1>2, <2>9, <2>10 DEF t
<1> QED
  BY <1>1, <1>2

\* The completion of all of them: where it succeeds every pretask that applies
\* is given its values.
LEMMA EnsureGives ==
    \A J, c : IsInterface(J) /\ ValidInterface(J) /\ HasPretasks(c) /\ IsList(c.task) =>
        \A p \in EnsureAll(J, c) :
            /\ HasPretasks(p.cfg)
            /\ Apart(J) /\ p.ok => PretasksReady(J, p.cfg)
<1> SUFFICES ASSUME NEW J, NEW c, IsInterface(J), ValidInterface(J), HasPretasks(c), IsList(c.task)
    PROVE  \A p \in EnsureAll(J, c) : HasPretasks(p.cfg) /\ (Apart(J) /\ p.ok => PretasksReady(J, p.cfg))
  OBVIOUS
<1> DEFINE places == Places(J, c)
           M == Len(places)
<1>1. IsOptions(J.option) /\ EndsEverywhere(J) /\ IsList(J.pretask)
  BY DEF IsInterface, IsNames, ValidInterface
<1>2. /\ IsList(places)
      /\ \A place \in ToSet(places) :
             /\ place.kind \in {"level", "task", "pretask"}
             /\ place.kind = "pretask" => place.at \in ToSet(J.pretask)
      /\ \A p \in ToSet(J.pretask) : Fits(p, c.ctx) /\ p.roots # <<>> =>
             \E place \in ToSet(places) : place.kind = "pretask" /\ place.at = p
  BY <1>1, PlacesAreActive
<1> HIDE DEF places
<1>3. M \in Nat /\ DOMAIN places = 1 .. M /\ \A n \in 1 .. M : places[n] \in ToSet(places)
  BY <1>2, ListFacts
<1>4. PICK f : /\ EnsureEach(J, c, places) = f[M]
               /\ f[0] = {[cfg |-> c, ok |-> TRUE]}
               /\ \A n \in 1 .. M : f[n] = More(J, places[n], f[n - 1])
  BY <1>3, EnsureEachGoes
<1> HIDE DEF M
<1> DEFINE GivenTo(p, n) ==
               \A k \in 1 .. n : places[k].kind = "pretask" => IsGiven(J, c.ctx, places[k].at, p.cfg.pretask)
           Good(p, n) == HasPretasks(p.cfg) /\ p.cfg.ctx = c.ctx /\ (Apart(J) /\ p.ok => GivenTo(p, n))
           S == {n \in 0 .. M : \A p \in f[n] : Good(p, n)}
<1>5. 0 \in S
  <2> DEFINE start == [cfg |-> c, ok |-> TRUE]
  <2>1. start.cfg = c
    OBVIOUS
  <2>2. f[0] = {start}
    BY <1>4
  <2> HIDE DEF start
  <2>3. Good(start, 0)
    BY <2>1
  <2> HIDE DEF Good
  <2> QED
    BY <1>3, <2>2, <2>3
<1>6. ASSUME NEW n \in Nat, n < M, n \in S PROVE n + 1 \in S
  <2>1. n + 1 \in 1 .. M /\ n + 1 \in 0 .. M /\ (n + 1) - 1 = n /\ \A k \in 1 .. n + 1 : k \in 1 .. n \/ k = n + 1
    BY <1>3, <1>6
  <2>2. f[n + 1] = More(J, places[n + 1], f[n])
    BY <1>4, <2>1
  <2> DEFINE place == places[n + 1]
  <2>3. /\ place.kind \in {"level", "task", "pretask"}
        /\ place.kind = "pretask" => place.at \in ToSet(J.pretask)
    BY <1>2, <1>3, <2>1
  <2>4. ASSUME NEW p \in f[n + 1] PROVE Good(p, n + 1)
    <3>1. PICK q \in f[n] : p \in (IF q.ok THEN EnsurePlace(J, q.cfg, place) ELSE {q})
      BY <2>2 DEF More
    <3>2. Good(q, n)
      BY <1>6
    <3>3. CASE q.ok
      <4>1. p \in EnsurePlace(J, q.cfg, place)
        BY <3>1, <3>3
      <4> HIDE DEF place
      <4>2. /\ HasPretasks(p.cfg) /\ p.cfg.ctx = c.ctx
            /\ p.ok => /\ place.kind = "pretask" => IsGiven(J, c.ctx, place.at, p.cfg.pretask)
                       /\ Apart(J) => \A x \in ToSet(J.pretask) :
                              IsGiven(J, c.ctx, x, q.cfg.pretask) => IsGiven(J, c.ctx, x, p.cfg.pretask)
        BY <2>3, <3>2, <4>1, PlaceGives
      <4>3. ASSUME Apart(J), p.ok PROVE GivenTo(p, n + 1)
        <5>1. ASSUME NEW k \in 1 .. n + 1, places[k].kind = "pretask"
              PROVE  IsGiven(J, c.ctx, places[k].at, p.cfg.pretask)
          <6>1. CASE k = n + 1
            BY <4>2, <4>3, <5>1, <6>1 DEF place
          <6>2. CASE k \in 1 .. n
            <7>1. k \in 1 .. M
              BY <1>3, <1>6, <6>2
            <7>2. places[k].at \in ToSet(J.pretask)
              BY <1>2, <1>3, <5>1, <7>1
            <7>3. IsGiven(J, c.ctx, places[k].at, q.cfg.pretask)
              BY <3>2, <3>3, <4>3, <5>1, <6>2
            <7> QED
              BY <4>2, <4>3, <7>2, <7>3
          <6> QED
            BY <2>1, <6>1, <6>2
        <5> QED
          BY <5>1
      <4> QED
        BY <4>2, <4>3
    <3>4. CASE ~q.ok
      BY <3>1, <3>2, <3>4
    <3> QED
      BY <3>3, <3>4
  <2> HIDE DEF Good
  <2> QED
    BY <2>1, <2>4
<1> HIDE DEF S
<1>7. 0 .. M \subseteq S
  BY <1>3, <1>5, <1>6, UpTo
<1>8. \A p \in f[M] : Good(p, M)
  BY <1>3, <1>7 DEF S
<1>9. ASSUME NEW p \in EnsureAll(J, c)
      PROVE  HasPretasks(p.cfg) /\ (Apart(J) /\ p.ok => PretasksReady(J, p.cfg))
  <2>1. Good(p, M)
    BY <1>4, <1>8 DEF EnsureAll, places
  <2>2. ASSUME Apart(J), p.ok PROVE PretasksReady(J, p.cfg)
    <3> DEFINE ctx == p.cfg.ctx
               active == ActivePretasks(J, ctx)
               lists == p.cfg.pretask
               V == {x \in ToSet(J.pretask) : Fits(x, ctx)}
    <3>1. ctx = c.ctx
      BY <2>1
    <3>2. active = Only(J.pretask, V)
      BY DEF ActivePretasks
    <3>3. active \in Seq(ToSet(J.pretask)) /\ ToSet(active) = ToSet(J.pretask) \cap V
      <4> HIDE DEF V, active
      <4> QED
        BY <1>1, <3>2, OnlyRange DEF IsList
    <3>4. \A x \in V : Fits(x, ctx)
      OBVIOUS
    <3> HIDE DEF ctx, active, V
    <3>5. ASSUME NEW i \in DOMAIN active, active[i].roots # <<>>
          PROVE  active[i].id \in DOMAIN lists /\ Serializable(J, ctx, active[i].roots, lists[active[i].id])
      <4> DEFINE x == active[i]
      <4>1. x \in ToSet(active)
        BY DEF ToSet
      <4>2. x \in ToSet(J.pretask) /\ Fits(x, ctx)
        BY <3>3, <3>4, <4>1
      <4>3. PICK place \in ToSet(places) : place.kind = "pretask" /\ place.at = x
        BY <1>2, <3>1, <3>5, <4>2
      <4>4. PICK k \in 1 .. M : place = places[k]
        BY <1>3 DEF ToSet
      <4> HIDE DEF x
      <4>5. IsGiven(J, ctx, x, lists)
        BY <2>1, <2>2, <3>1, <4>3, <4>4
      <4>6. StoredList(lists[x.id])
        BY <2>1, <4>5 DEF IsGiven, HasPretasks
      <4>7. Serializable(J, ctx, x.roots, lists[x.id])
        BY <1>1, <4>5, <4>6, CompleteSerializes DEF IsGiven, StoredList
      <4> QED
        BY <4>5, <4>7 DEF IsGiven, x
    <3> QED
      BY <3>5 DEF PretasksReady, ctx, active
  <2> QED
    BY <2>1, <2>2
<1> QED
  BY <1>9

-----------------------------------------------------------------------------
(* The lists of the pretasks are lists of entries at every moment.          *)

HoldsPretasks == HasPretasks(cfg) /\ (file = NoFile \/ HasPretasks(file))

LEMMA BlankHasPretasks == HasPretasks(Blank)
<1>1. Blank.pretask = [p \in {} |-> <<>>] /\ IsRecord(Blank)
  BY DEF Blank, IsRecord
<1>2. DOMAIN Blank.pretask = {}
  BY <1>1
<1> QED
  BY <1>1, <1>2 DEF HasPretasks

\* What leaves these lists alone.
Leaves(c, d) == IsRecord(d) /\ d.pretask = c.pretask

LEMMA LeavesPretasks == \A c, d : HasPretasks(c) /\ Leaves(c, d) => HasPretasks(d)
  BY DEF HasPretasks, Leaves

\* check_configuration checks all of them or, where it ends early, none.
LEMMA CheckedPretasks ==
    \A J, c : IsRecord(c) =>
        /\ IsRecord(CheckConfiguration(J, c))
        /\ CheckConfiguration(J, c).pretask \in {c.pretask, CheckPretasks(J, c)}
<1> SUFFICES ASSUME NEW J, NEW c, IsRecord(c)
    PROVE  /\ IsRecord(CheckConfiguration(J, c))
           /\ CheckConfiguration(J, c).pretask \in {c.pretask, CheckPretasks(J, c)}
  OBVIOUS
<1> DEFINE d == [c EXCEPT !.task = CheckTasks(J, c)]
           ctx1 == [d.ctx EXCEPT !.resource = ""]
           ctx2 == [d.ctx EXCEPT !.controller = ""]
           e1 == [d EXCEPT !.ctx = ctx1]
           e2 == [d EXCEPT !.ctx = ctx2]
           level == [l \in Levels |-> CheckLevel(J, d.level[l])]
           d3 == [d EXCEPT !.level = level]
           lists == CheckPretasks(J, c)
           e3 == [d3 EXCEPT !.pretask = lists]
<1>1. CheckConfiguration(J, c) \in {e1, e2, e3}
  <2> USE DEF CheckConfiguration
  <2>1. CASE ~KnownResource(J, c.ctx)
    BY <2>1
  <2>2. CASE KnownResource(J, c.ctx) /\ ~KnownController(J, c.ctx)
    BY <2>2
  <2>3. CASE KnownResource(J, c.ctx) /\ KnownController(J, c.ctx)
    BY <2>3
  <2> QED
    BY <2>1, <2>2, <2>3
<1> HIDE DEF ctx1, ctx2, level
<1>2. IsRecord(d) /\ d.pretask = c.pretask
  BY Fields
<1> HIDE DEF d
<1>3. /\ IsRecord(e1) /\ e1.pretask = d.pretask
      /\ IsRecord(e2) /\ e2.pretask = d.pretask
      /\ IsRecord(d3)
  BY <1>2, Fields
<1> HIDE DEF e1, e2, d3
<1>4. IsRecord(e3) /\ e3.pretask = lists
  BY <1>3, Fields
<1> HIDE DEF e3
<1> QED
  BY <1>1, <1>2, <1>3, <1>4

LEMMA CheckedListsAre ==
    \A J, c : \A id \in DOMAIN CheckPretasks(J, c) :
        id \in DOMAIN c.pretask /\ CheckPretasks(J, c)[id] = CheckLevel(J, c.pretask[id])
<1> SUFFICES ASSUME NEW J, NEW c, NEW id \in DOMAIN CheckPretasks(J, c)
    PROVE  id \in DOMAIN c.pretask /\ CheckPretasks(J, c)[id] = CheckLevel(J, c.pretask[id])
  OBVIOUS
<1> DEFINE known == {p \in DOMAIN c.pretask : \E i \in DOMAIN J.pretask : J.pretask[i].id = p}
<1>1. CheckPretasks(J, c) = [p \in known |-> CheckLevel(J, c.pretask[p])] /\ \A p \in known : p \in DOMAIN c.pretask
  BY DEF CheckPretasks
<1> HIDE DEF known
<1> QED
  BY <1>1

LEMMA CheckedHasPretasks == \A J, c : HasPretasks(c) => HasPretasks(CheckConfiguration(J, c))
<1> SUFFICES ASSUME NEW J, NEW c, HasPretasks(c) PROVE HasPretasks(CheckConfiguration(J, c))
  OBVIOUS
<1>1. \A id \in DOMAIN CheckPretasks(J, c) : StoredList(CheckPretasks(J, c)[id])
  BY CheckedListsAre, CheckLevelStored DEF HasPretasks
<1> QED
  BY <1>1, CheckedPretasks DEF HasPretasks

LEMMA LoadedHasPretasks == \A J : HoldsPretasks => HasPretasks(Loaded(J))
  BY BlankHasPretasks, CheckedHasPretasks DEF HoldsPretasks, Loaded

LEMMA PrepareHoldsPretasks ==
    \A J \in Interfaces : \A c, run, done :
        HoldsPretasks /\ HasPretasks(c) /\ HasTasks(c) /\ Prepare(J, c, run, done) => HoldsPretasks'
<1> SUFFICES ASSUME NEW J \in Interfaces, NEW c, NEW run, NEW done,
                    HoldsPretasks, HasPretasks(c), HasTasks(c), Prepare(J, c, run, done)
    PROVE  HoldsPretasks'
  OBVIOUS
<1>1. PICK p \in EnsureAll(J, c) : (cfg' = Blank \/ cfg' = p.cfg) /\ (file' = p.cfg \/ file' = file)
  BY DEF Prepare
<1>2. IsInterface(J) /\ ValidInterface(J) /\ IsList(c.task)
  BY SessionAssumption DEF HasTasks, AreTasks
<1>3. HasPretasks(p.cfg)
  BY <1>2, EnsureGives
<1> QED
  BY <1>1, <1>3, BlankHasPretasks DEF HoldsPretasks

\* No action of the menu changes them.
LEMMA MenuLeaves == IsRecord(cfg) /\ Menu => Leaves(cfg, cfg')
<1> SUFFICES ASSUME IsRecord(cfg), Menu PROVE Leaves(cfg, cfg')
  OBVIOUS
<1>1. ASSUME NEW x, cfg' = [cfg EXCEPT !.ctx = x] \/ cfg' = [cfg EXCEPT !.task = x] PROVE Leaves(cfg, cfg')
  <2>1. CASE cfg' = [cfg EXCEPT !.ctx = x]
    BY <2>1, Fields DEF Leaves
  <2>2. CASE cfg' = [cfg EXCEPT !.task = x]
    BY <2>2, Fields DEF Leaves
  <2> QED
    BY <1>1, <2>1, <2>2
<1>2. CASE SelectController \/ SelectResource
  <2>1. \E x : cfg' = [cfg EXCEPT !.ctx = x]
    BY <1>2 DEF SelectController, SelectResource
  <2> QED
    BY <1>1, <2>1
<1>3. CASE AddTask
  <2>1. PICK names \in ChosenTasks(cfg.ctx) : \E tasks \in NewTasks(cfg.ctx, names) :
            cfg' = [cfg EXCEPT !.task = cfg.task \o tasks]
    BY <1>3 DEF AddTask
  <2>2. \E x : cfg' = [cfg EXCEPT !.task = x]
    BY <2>1
  <2> QED
    BY <1>1, <2>2
<1>4. CASE MoveTask
  <2>1. \E x : cfg' = [cfg EXCEPT !.task = x]
    BY <1>4 DEF MoveTask
  <2> QED
    BY <1>1, <2>1
<1>5. CASE DeleteTask
  <2>1. \E x : cfg' = [cfg EXCEPT !.task = x]
    BY <1>5 DEF DeleteTask
  <2> QED
    BY <1>1, <2>1
<1>6. CASE ApplyPreset
  <2>1. \E names, options : \E tasks \in Configured(names, options) :
            cfg' = [cfg EXCEPT !.task = CheckTasks(iface, [cfg EXCEPT !.task = tasks])]
    BY <1>6 DEF ApplyPreset
  <2>2. \E x : cfg' = [cfg EXCEPT !.task = x]
    BY <2>1
  <2> QED
    BY <1>1, <2>2
<1>7. CASE OpenEdit \/ CloseEdit
  BY <1>7 DEF OpenEdit, CloseEdit, Leaves
<1>8. CASE ConfigureTask \/ EditOption
  <2>1. \E i, list : SetOptions(i, list)
    BY <1>8 DEF ConfigureTask, EditOption
  <2>2. PICK i, list : cfg' = [cfg EXCEPT !.task[i].option = list]
    BY <2>1 DEF SetOptions
  <2> DEFINE tasks == [cfg.task EXCEPT ![i].option = list]
  <2>3. cfg' = [cfg EXCEPT !.task = tasks]
    BY <2>2
  <2> HIDE DEF tasks
  <2> QED
    BY <1>1, <2>3
<1> QED
  BY <1>2, <1>3, <1>4, <1>5, <1>6, <1>7, <1>8 DEF Menu

\* A menu action saves what it made of the configuration or nothing.
LEMMA MenuSaves == Menu => file' = cfg' \/ file' = file
  BY DEF Menu, SelectController, SelectResource, AddTask, MoveTask, DeleteTask, ApplyPreset, OpenEdit, ConfigureTask,
         EditOption, CloseEdit, SetOptions, Complete, Incomplete, Back, Save

LEMMA HoldsPretasksInit == Init => HoldsPretasks
  BY BlankHasPretasks DEF Init, HoldsPretasks

LEMMA HoldsPretasksStep == HoldsTasks /\ HoldsPretasks /\ [Next]_vars => HoldsPretasks'
<1> SUFFICES ASSUME HoldsTasks, HoldsPretasks, [Next]_vars PROVE HoldsPretasks'
  OBVIOUS
<1>1. /\ iface \in Interfaces /\ HasTasks(cfg)
      /\ HasPretasks(cfg) /\ IsRecord(cfg) /\ (file = NoFile \/ HasPretasks(file))
  BY DEF HoldsTasks, HoldsPretasks, HasPretasks
<1>2. CASE Start
  BY <1>1, <1>2, LoadedHasPretasks DEF Start, HoldsPretasks
<1>3. CASE Leave
  BY <1>1, <1>3, BlankHasPretasks DEF Leave, HoldsPretasks
<1>4. CASE Setup
  <2>1. \E x, tasks, levels : cfg' = [Blank EXCEPT !.ctx = x, !.task = tasks, !.level = levels]
    BY <1>4 DEF Setup
  <2>2. IsRecord(cfg') /\ cfg'.pretask = Blank.pretask
    BY <2>1 DEF Blank, IsRecord
  <2>3. HasPretasks(cfg')
    BY <2>2, BlankHasPretasks, LeavesPretasks DEF Leaves
  <2> QED
    BY <1>4, <2>3 DEF Setup, Complete, Back, Save, HoldsPretasks
<1>5. CASE Menu
  BY <1>1, <1>5, MenuLeaves, MenuSaves, LeavesPretasks DEF HoldsPretasks
<1>6. CASE Run
  BY <1>1, <1>6, PrepareHoldsPretasks DEF Run
<1>7. CASE RunElevated
  BY <1>1, <1>7 DEF RunElevated, HoldsPretasks
<1>8. CASE RunEnds
  BY <1>1, <1>8 DEF RunEnds, Complete, Incomplete, Back, Save, HoldsPretasks
<1>9. CASE RunDirectly
  <2>1. iface' \in Interfaces /\ HasTasks(Loaded(iface')) /\ HasPretasks(Loaded(iface'))
    BY <1>9, LoadedHasTasks, LoadedHasPretasks DEF RunDirectly
  <2>2. CASE Prepare(iface', Loaded(iface'), "once", "off")
    BY <2>1, <2>2, PrepareHoldsPretasks
  <2>3. CASE file' \in {Loaded(iface'), file} /\ UNCHANGED <<mode, cfg>>
    BY <1>1, <2>1, <2>3 DEF HoldsPretasks
  <2> QED
    BY <1>9, <2>2, <2>3 DEF RunDirectly
<1>10. CASE UNCHANGED vars
  BY <1>1, <1>10 DEF vars, HoldsPretasks
<1> QED
  BY <1>2, <1>3, <1>4, <1>5, <1>6, <1>7, <1>8, <1>9, <1>10 DEF Next

THEOREM PretasksAreHeld == Spec => []HoldsPretasks
  BY HoldsPretasksInit, HoldsPretasksStep, TasksAreHeld, PTL DEF Spec

\* Once all lists are completed the pretasks find every value they need, with any
\* interface.json in which pretasks that share an identifier have the same
\* options, and with any configuration (Configurator.cpp:443-475).  Two of one
\* identifier complete one list for the options of each (interactor.cpp:2775).
THEOREM RunnableAlways == (\A J \in Interfaces : Apart(J)) => (Spec => []Runnable)
<1> SUFFICES ASSUME \A J \in Interfaces : Apart(J) PROVE Spec => []Runnable
  OBVIOUS
<1>1. HoldsTasks /\ HoldsPretasks => Runnable
  <2> SUFFICES ASSUME HoldsTasks, HoldsPretasks PROVE Runnable
    OBVIOUS
  <2>1. IsInterface(iface) /\ ValidInterface(iface) /\ Apart(iface)
    BY SessionAssumption DEF HoldsTasks
  <2>2. HasPretasks(cfg) /\ IsList(cfg.task)
    BY DEF HoldsTasks, HoldsPretasks, HasTasks, AreTasks
  <2>3. \A p \in EnsureAll(iface, cfg) : p.ok => PretasksReady(iface, p.cfg)
    BY <2>1, <2>2, EnsureGives
  <2> QED
    BY <2>3 DEF Runnable
<1> QED
  BY <1>1, TasksAreHeld, PretasksAreHeld, PTL

-----------------------------------------------------------------------------
(* Sound tasks.                                                             *)

IsSoundTask(t) == IsTask(t) /\ SoundList(t.option)

SoundTasks(s) == IsList(s) /\ \A t \in ToSet(s) : IsSoundTask(t)

LEMMA SoundTasksEach == \A s : SoundTasks(s) <=> IsList(s) /\ \A i \in 1 .. Len(s) : IsSoundTask(s[i])
<1> SUFFICES ASSUME NEW s, IsList(s)
    PROVE  (\A i \in 1 .. Len(s) : IsSoundTask(s[i])) <=> (\A t \in ToSet(s) : IsSoundTask(t))
  BY DEF SoundTasks
<1>1. Len(s) \in Nat /\ DOMAIN s = 1 .. Len(s)
  BY ListFacts
<1>2. ToSet(s) = {s[i] : i \in 1 .. Len(s)}
  BY <1>1 DEF ToSet
<1> HIDE DEF IsSoundTask
<1> QED
  BY <1>2

LEMMA SoundTasksAreTasks == \A s : SoundTasks(s) => AreTasks(s)
<1> SUFFICES ASSUME NEW s, SoundTasks(s) PROVE AreTasks(s)
  OBVIOUS
<1>1. IsList(s) /\ \A t \in ToSet(s) : IsTask(t)
  BY DEF SoundTasks, IsSoundTask
<1> HIDE DEF IsTask
<1> QED
  BY <1>1, TasksAre

LEMMA SoundTasksIn == \A S : (\A t \in S : IsSoundTask(t)) => \A s \in Seq(S) : SoundTasks(s)
<1> SUFFICES ASSUME NEW S, \A t \in S : IsSoundTask(t), NEW s \in Seq(S) PROVE SoundTasks(s)
  OBVIOUS
<1>1. IsList(s) /\ ToSet(s) \subseteq S
  BY SeqIsList
<1> HIDE DEF IsSoundTask
<1> QED
  BY <1>1 DEF SoundTasks

LEMMA SoundTasksConcat == \A s, t : SoundTasks(s) /\ SoundTasks(t) => SoundTasks(s \o t)
<1> SUFFICES ASSUME NEW s, NEW t, SoundTasks(s), SoundTasks(t) PROVE SoundTasks(s \o t)
  OBVIOUS
<1> HIDE DEF IsSoundTask
<1>1. IsList(s) /\ (\A x \in ToSet(s) : IsSoundTask(x)) /\ IsList(t) /\ (\A x \in ToSet(t) : IsSoundTask(x))
  BY DEF SoundTasks
<1>2. IsList(s \o t) /\ ToSet(s \o t) = ToSet(s) \cup ToSet(t)
  BY <1>1, ConcatLists
<1> QED
  BY <1>1, <1>2 DEF SoundTasks

\* One task's options change.
LEMMA SoundTasksChange ==
    \A s, list : SoundTasks(s) /\ SoundList(list) => \A i \in DOMAIN s : SoundTasks([s EXCEPT ![i].option = list])
<1> SUFFICES ASSUME NEW s, NEW list, SoundTasks(s), SoundList(list), NEW i \in DOMAIN s
    PROVE  SoundTasks([s EXCEPT ![i].option = list])
  OBVIOUS
<1> DEFINE r == [s EXCEPT ![i].option = list]
<1>1. /\ AreTasks(r) /\ DOMAIN r = DOMAIN s
      /\ r[i] = ConfigTask(s[i].name, list)
      /\ \A j \in DOMAIN s : j # i => r[j] = s[j]
  BY SoundTasksAreTasks, TasksChange
<1> HIDE DEF r
<1>2. IsList(r) /\ DOMAIN r = 1 .. Len(r) /\ DOMAIN s = 1 .. Len(s) /\ IsList(s)
  BY <1>1, ListFacts DEF AreTasks, SoundTasks
<1>3. \A j \in 1 .. Len(s) : IsSoundTask(s[j])
  BY SoundTasksEach
<1>4. r[i].option = list /\ IsTask(r[i])
  BY <1>1 DEF ConfigTask, IsTask
<1>5. IsSoundTask(r[i])
  BY <1>4 DEF IsSoundTask
<1> HIDE DEF IsSoundTask
<1>6. \A j \in 1 .. Len(r) : IsSoundTask(r[j])
  BY <1>1, <1>2, <1>3, <1>5
<1> QED
  BY <1>2, <1>6, SoundTasksEach DEF r

\* Tasks put together from sound lists.
LEMMA ConfiguredSound ==
    \A names, options :
        IsList(names) /\ (\A i \in DOMAIN names : \A list \in options[i] : SoundList(list)) =>
            \A tasks \in Configured(names, options) : SoundTasks(tasks)
<1> SUFFICES ASSUME NEW names, NEW options, IsList(names),
                    \A i \in DOMAIN names : \A list \in options[i] : SoundList(list),
                    NEW tasks \in Configured(names, options)
    PROVE  SoundTasks(tasks)
  OBVIOUS
<1>1. Len(names) \in Nat /\ DOMAIN names = 1 .. Len(names)
  BY ListFacts
<1>2. PICK lists : /\ tasks = [i \in DOMAIN names |-> ConfigTask(names[i], lists[i])]
                   /\ \A i \in DOMAIN names : lists[i] \in options[i]
  BY DEF Configured
<1>3. /\ tasks = [i \in 1 .. Len(names) |-> tasks[i]]
      /\ \A i \in 1 .. Len(names) : tasks[i] = ConfigTask(names[i], lists[i])
  BY <1>1, <1>2
<1>4. IsList(tasks) /\ Len(tasks) = Len(names)
  BY <1>1, <1>3, FunctionIsList
<1>5. ASSUME NEW i \in 1 .. Len(tasks) PROVE IsSoundTask(tasks[i])
  <2>1. tasks[i] = ConfigTask(names[i], lists[i]) /\ SoundList(lists[i])
    BY <1>1, <1>2, <1>3, <1>4
  <2> QED
    BY <2>1 DEF IsSoundTask, IsTask, ConfigTask
<1> HIDE DEF IsSoundTask
<1> QED
  BY <1>4, <1>5, SoundTasksEach

\* check_task leaves sound tasks.
LEMMA CheckTasksSound ==
    \A J, c : IsOptions(J.option) /\ SoundTasks(c.task) => SoundTasks(CheckTasks(J, c))
<1> SUFFICES ASSUME NEW J, NEW c, IsOptions(J.option), SoundTasks(c.task) PROVE SoundTasks(CheckTasks(J, c))
  OBVIOUS
<1> DEFINE K == {t \in ToSet(c.task) : KnownTask(J, t)}
           known == Only(c.task, K)
           checked == [i \in DOMAIN known |-> [known[i] EXCEPT !.option = CheckTask(J, c.ctx, known[i].name, @)]]
<1>1. CheckTasks(J, c) = checked
  BY DEF CheckTasks
<1>2. known \in Seq(ToSet(c.task))
  <2>1. c.task \in Seq(ToSet(c.task))
    BY DEF SoundTasks, IsList
  <2> HIDE DEF K
  <2> QED
    BY <2>1, OnlyRange
<1>3. SoundTasks(known)
  <2> HIDE DEF known, IsSoundTask
  <2> QED
    BY <1>2, SoundTasksIn DEF SoundTasks
<1> HIDE DEF K, known
<1>4. Len(known) \in Nat /\ DOMAIN known = 1 .. Len(known)
  BY <1>3, ListFacts DEF SoundTasks
<1>5. DOMAIN checked = 1 .. Len(known) /\ checked = [i \in 1 .. Len(known) |-> checked[i]]
  BY <1>4
<1>6. ASSUME NEW i \in 1 .. Len(known) PROVE IsSoundTask(checked[i])
  <2> DEFINE list == CheckTask(J, c.ctx, known[i].name, known[i].option)
  <2>1. checked[i] = [known[i] EXCEPT !.option = list]
    BY <1>4
  <2>2. IsSoundTask(known[i])
    BY <1>3, SoundTasksEach
  <2>3. SoundList(list)
    BY <2>2, CheckTaskSound DEF IsSoundTask
  <2> HIDE DEF list, checked
  <2>4. checked[i] = ConfigTask(known[i].name, list)
    BY <2>1, <2>2 DEF IsSoundTask, IsTask, ConfigTask
  <2>5. checked[i].option = list /\ IsTask(checked[i])
    BY <2>4 DEF IsTask, ConfigTask
  <2> QED
    BY <2>3, <2>5 DEF IsSoundTask
<1> HIDE DEF checked
<1>7. IsList(checked) /\ Len(checked) = Len(known)
  BY <1>4, <1>5, FunctionIsList
<1> HIDE DEF IsSoundTask
<1> QED
  BY <1>1, <1>6, <1>7, SoundTasksEach

-----------------------------------------------------------------------------
(* Sound configurations.                                                    *)

SoundLevels(level) == level = [l \in Levels |-> level[l]] /\ \A l \in Levels : SoundList(level[l])

SoundPretasks(pretask) == \A id \in DOMAIN pretask : SoundList(pretask[id])

HasSound(c) == IsRecord(c) /\ SoundTasks(c.task) /\ SoundLevels(c.level) /\ SoundPretasks(c.pretask)

LEMMA BlankHasSound == HasSound(Blank)
<1>1. SoundTasks(<<>>)
  <2>1. <<>> \in Seq({})
    OBVIOUS
  <2> QED
    BY <2>1, SoundTasksIn
<1>2. IsRecord(Blank) /\ Blank.task = <<>> /\ Blank.level = [l \in Levels |-> <<>>]
      /\ Blank.pretask = [p \in {} |-> <<>>]
  BY DEF Blank, IsRecord
<1>3. SoundLevels(Blank.level)
  BY <1>2, NothingIsSound DEF SoundLevels
<1>4. SoundPretasks(Blank.pretask)
  <2>1. DOMAIN Blank.pretask = {}
    BY <1>2
  <2> QED
    BY <2>1 DEF SoundPretasks
<1> QED
  BY <1>1, <1>2, <1>3, <1>4 DEF HasSound

LEMMA SoundHasTasks == \A c : HasSound(c) => HasTasks(c)
  BY SoundTasksAreTasks DEF HasSound, HasTasks

LEMMA CheckedHasSound ==
    \A J, c : IsOptions(J.option) /\ HasSound(c) => HasSound(CheckConfiguration(J, c))
<1> SUFFICES ASSUME NEW J, NEW c, IsOptions(J.option), HasSound(c) PROVE HasSound(CheckConfiguration(J, c))
  OBVIOUS
<1> DEFINE d == [c EXCEPT !.task = CheckTasks(J, c)]
           ctx1 == [d.ctx EXCEPT !.resource = ""]
           ctx2 == [d.ctx EXCEPT !.controller = ""]
           e1 == [d EXCEPT !.ctx = ctx1]
           e2 == [d EXCEPT !.ctx = ctx2]
           level == [l \in Levels |-> CheckLevel(J, d.level[l])]
           d3 == [d EXCEPT !.level = level]
           lists == CheckPretasks(J, c)
           e3 == [d3 EXCEPT !.pretask = lists]
<1>1. CheckConfiguration(J, c) \in {e1, e2, e3}
  <2> USE DEF CheckConfiguration
  <2>1. CASE ~KnownResource(J, c.ctx)
    BY <2>1
  <2>2. CASE KnownResource(J, c.ctx) /\ ~KnownController(J, c.ctx)
    BY <2>2
  <2>3. CASE KnownResource(J, c.ctx) /\ KnownController(J, c.ctx)
    BY <2>3
  <2> QED
    BY <2>1, <2>2, <2>3
<1>2. SoundTasks(CheckTasks(J, c))
  BY CheckTasksSound DEF HasSound
<1> HIDE DEF ctx1, ctx2
<1>3. IsRecord(d) /\ d.task = CheckTasks(J, c) /\ d.level = c.level /\ d.pretask = c.pretask
  BY Fields DEF HasSound
<1> HIDE DEF d
<1>4. SoundLevels(level)
  <2>1. \A l \in Levels : SoundList(CheckLevel(J, d.level[l]))
    BY <1>3, CheckLevelSound DEF HasSound, SoundLevels
  <2> QED
    BY <2>1 DEF SoundLevels
<1>5. SoundPretasks(lists)
  <2> DEFINE known == {p \in DOMAIN c.pretask : \E i \in DOMAIN J.pretask : J.pretask[i].id = p}
  <2>1. lists = [p \in known |-> CheckLevel(J, c.pretask[p])] /\ \A p \in known : p \in DOMAIN c.pretask
    BY DEF CheckPretasks
  <2> HIDE DEF known, lists
  <2>2. \A p \in known : SoundList(CheckLevel(J, c.pretask[p]))
    BY <2>1, CheckLevelSound DEF HasSound, SoundPretasks
  <2> QED
    BY <2>1, <2>2 DEF SoundPretasks
<1> HIDE DEF level, lists
<1>6. /\ IsRecord(e1) /\ e1.task = d.task /\ e1.level = d.level /\ e1.pretask = d.pretask
      /\ IsRecord(e2) /\ e2.task = d.task /\ e2.level = d.level /\ e2.pretask = d.pretask
      /\ IsRecord(d3) /\ d3.task = d.task /\ d3.level = level
  BY <1>3, Fields
<1> HIDE DEF e1, e2, d3
<1>7. IsRecord(e3) /\ e3.task = d3.task /\ e3.level = d3.level /\ e3.pretask = lists
  BY <1>6, Fields
<1> HIDE DEF e3
<1>8. HasSound(e1) /\ HasSound(e2) /\ HasSound(e3)
  BY <1>2, <1>3, <1>4, <1>5, <1>6, <1>7 DEF HasSound
<1> QED
  BY <1>1, <1>8

-----------------------------------------------------------------------------
(* The actions of the menu.                                                 *)

LEMMA RootsAreNames ==
    \A J, ctx : IsInterface(J) => \A l \in KnownLevels(J, ctx) : IsNames(LevelRoots(J, ctx, l))
<1> SUFFICES ASSUME NEW J, NEW ctx, IsInterface(J), NEW l \in KnownLevels(J, ctx)
    PROVE  IsNames(LevelRoots(J, ctx, l))
  OBVIOUS
<1>1. l \in {"global", "resource", "controller"}
  BY DEF KnownLevels, Levels
<1>2. CASE l = "global"
  BY <1>2 DEF LevelRoots, IsInterface
<1>3. CASE l = "resource"
  BY <1>3 DEF LevelRoots, IsInterface, KnownLevels, KnownResource
<1>4. CASE l = "controller"
  BY <1>4 DEF LevelRoots, IsInterface, KnownLevels, KnownController
<1> QED
  BY <1>1, <1>2, <1>3, <1>4

\* What process_option makes of names.
LEMMA FilledNames ==
    \A J, ctx, how, roots : IsInterface(J) /\ ValidInterface(J) /\ AsksAll(J) /\ IsNames(roots) =>
        \A list \in Filled(J, ctx, roots, how) : SoundList(list)
<1> SUFFICES ASSUME NEW J, NEW ctx, NEW how, NEW roots,
                    IsInterface(J), ValidInterface(J), AsksAll(J), IsNames(roots)
    PROVE  \A list \in Filled(J, ctx, roots, how) : SoundList(list)
  OBVIOUS
<1>1. IsOptions(J.option) /\ EndsEverywhere(J)
  BY DEF IsInterface, ValidInterface
<1> QED
  BY <1>1, FilledSound DEF IsNames

\* The tasks add_task makes.
LEMMA NewTasksSound ==
    \A ctx, names :
        /\ IsInterface(iface) /\ ValidInterface(iface) /\ AsksAll(iface)
        /\ IsList(names) /\ ToSet(names) \subseteq DOMAIN iface.task
        => \A tasks \in NewTasks(ctx, names) : SoundTasks(tasks)
<1> SUFFICES ASSUME NEW ctx, NEW names,
                    IsInterface(iface), ValidInterface(iface), AsksAll(iface),
                    IsList(names), ToSet(names) \subseteq DOMAIN iface.task
    PROVE  \A tasks \in NewTasks(ctx, names) : SoundTasks(tasks)
  OBVIOUS
<1> DEFINE filled(how) == [i \in DOMAIN names |-> Filled(iface, ctx, iface.task[names[i]].roots, how)]
           options == filled("auto")
<1>1. \A i \in DOMAIN names : IsNames(iface.task[names[i]].roots)
  BY DEF IsInterface, ToSet
<1>2. \A how : \A i \in DOMAIN names : \A list \in filled(how)[i] : SoundList(list)
  BY <1>1, FilledNames
<1>3. \A i \in DOMAIN names : \A list \in options[i] : SoundList(list)
  BY ONLY <1>2
<1>4. NewTasks(ctx, names) = Configured(names, options)
  BY DEF NewTasks
<1> HIDE DEF options
<1> QED
  BY <1>3, <1>4, ConfiguredSound

LEMMA ChosenAreTasks == \A ctx : \A names \in ChosenTasks(ctx) : ToSet(names) \subseteq DOMAIN iface.task
<1> SUFFICES ASSUME NEW ctx, NEW names \in ChosenTasks(ctx) PROVE ToSet(names) \subseteq DOMAIN iface.task
  OBVIOUS
<1> DEFINE A == {n \in DOMAIN iface.task : Fits(iface.task[n], ctx)}
<1>1. names = <<>> \/ names \in BoundedSeq(A, TaskLimit)
  BY DEF ChosenTasks
<1>2. A \subseteq DOMAIN iface.task
  OBVIOUS
<1> HIDE DEF A
<1>3. CASE names = <<>>
  BY <1>3 DEF ToSet
<1>4. CASE names \in BoundedSeq(A, TaskLimit)
  <2>1. PICK m \in 0 .. TaskLimit : names \in [1 .. m -> A]
    BY <1>4 DEF BoundedSeq, SeqOf
  <2> QED
    BY <1>2, <2>1 DEF ToSet
<1> QED
  BY <1>1, <1>3, <1>4

LEMMA DefaultsAreTasks == \A ctx : IsInterface(iface) => ToSet(DefaultTasks(ctx)) \subseteq DOMAIN iface.task
<1> SUFFICES ASSUME NEW ctx, IsInterface(iface) PROVE ToSet(DefaultTasks(ctx)) \subseteq DOMAIN iface.task
  OBVIOUS
<1> DEFINE V == {n \in ToSet(iface.checked) : Fits(iface.task[n], ctx)}
<1>1. iface.checked \in Seq(ToSet(iface.checked)) /\ DefaultTasks(ctx) = Only(iface.checked, V)
      /\ ToSet(iface.checked) \subseteq DOMAIN iface.task
  BY DEF IsInterface, IsList, DefaultTasks
<1> HIDE DEF V
<1>2. ToSet(DefaultTasks(ctx)) \subseteq ToSet(iface.checked)
  BY <1>1, OnlyRange
<1> QED
  BY <1>1, <1>2

LEMMA SetupHasSound == IsInterface(iface) /\ ValidInterface(iface) /\ AsksAll(iface) /\ Setup => HasSound(cfg')
<1> SUFFICES ASSUME IsInterface(iface), ValidInterface(iface), AsksAll(iface), Setup PROVE HasSound(cfg')
  OBVIOUS
<1>1. PICK c \in DOMAIN iface.controller, r \in DOMAIN iface.resource :
          LET x == [controller |-> c, resource |-> r]
              defaults == DefaultTasks(x)
              Lists(l) == Filled(iface, x, LevelRoots(iface, x, l), "ask")
          IN \E names \in IF defaults # <<>> THEN {defaults} ELSE ChosenTasks(x) :
             \E tasks \in NewTasks(x, names), g \in Lists("global"), rl \in Lists("resource"), cl \in Lists("controller") :
                 cfg' = [Blank EXCEPT !.ctx = x, !.task = tasks,
                                      !.level = [global |-> g, resource |-> rl, controller |-> cl]]
  BY DEF Setup
<1> DEFINE x == [controller |-> c, resource |-> r]
           Filling(l, how) == Filled(iface, x, LevelRoots(iface, x, l), how)
<1>2. PICK names \in IF DefaultTasks(x) # <<>> THEN {DefaultTasks(x)} ELSE ChosenTasks(x) :
         \E tasks \in NewTasks(x, names) :
         \E g \in Filling("global", "ask"), rl \in Filling("resource", "ask"), cl \in Filling("controller", "ask") :
             cfg' = [Blank EXCEPT !.ctx = x, !.task = tasks,
                                  !.level = [global |-> g, resource |-> rl, controller |-> cl]]
  BY <1>1
<1>3. KnownLevels(iface, x) = Levels
  BY DEF KnownLevels, KnownResource, KnownController
<1> HIDE DEF x
<1>4. IsList(names) /\ ToSet(names) \subseteq DOMAIN iface.task
  BY <1>2, DefaultsAreLists, ChosenAreLists, DefaultsAreTasks, ChosenAreTasks DEF IsInterface
<1>5. \A how : \A l \in Levels : \A list \in Filling(l, how) : SoundList(list)
  BY <1>3, RootsAreNames, FilledNames
<1>6. \A l \in Levels : \A list \in Filling(l, "ask") : SoundList(list)
  BY ONLY <1>5
<1> HIDE DEF Filling
<1>7. PICK tasks \in NewTasks(x, names),
           g \in Filling("global", "ask"), rl \in Filling("resource", "ask"), cl \in Filling("controller", "ask") :
             cfg' = [Blank EXCEPT !.ctx = x, !.task = tasks,
                                  !.level = [global |-> g, resource |-> rl, controller |-> cl]]
  BY <1>2
<1>8. SoundTasks(tasks)
  BY <1>4, NewTasksSound
<1> DEFINE level == [global |-> g, resource |-> rl, controller |-> cl]
<1>9. SoundLevels(level)
  <2>1. SoundList(g) /\ SoundList(rl) /\ SoundList(cl)
    BY <1>6 DEF Levels
  <2>2. level = [l \in Levels |-> level[l]]
    BY DEF Levels
  <2>3. level["global"] = g /\ level["resource"] = rl /\ level["controller"] = cl
    OBVIOUS
  <2> HIDE DEF level
  <2>4. \A l \in Levels : SoundList(level[l])
    BY <2>1, <2>3 DEF Levels
  <2> QED
    BY <2>2, <2>4 DEF SoundLevels
<1>10. IsRecord(cfg') /\ cfg'.task = tasks /\ cfg'.level = level /\ cfg'.pretask = Blank.pretask
  BY <1>7 DEF IsRecord, Blank
<1>11. SoundPretasks(Blank.pretask)
  BY BlankHasSound DEF HasSound
<1> QED
  BY <1>8, <1>9, <1>10, <1>11 DEF HasSound

LEMMA WithTasksHasSound ==
    \A c, d, x : HasSound(c) /\ SoundTasks(x) /\ d = [c EXCEPT !.task = x] => HasSound(d)
  BY Fields DEF HasSound

LEMMA WithContextHasSound == \A c, d, x : HasSound(c) /\ d = [c EXCEPT !.ctx = x] => HasSound(d)
  BY Fields DEF HasSound

LEMMA PresetHasSound ==
    HasSound(cfg) /\ IsInterface(iface) /\ ValidInterface(iface) /\ Prompts(iface) /\ ApplyPreset => HasSound(cfg')
<1> SUFFICES ASSUME HasSound(cfg), IsInterface(iface), ValidInterface(iface), Prompts(iface), ApplyPreset
    PROVE  HasSound(cfg')
  OBVIOUS
<1> DEFINE known(p) == {t \in ToSet(iface.preset[p]) : KnownTask(iface, t)}
           enabled(p) == Only(iface.preset[p], known(p))
           filled(t, how) == Filled(iface, cfg.ctx, iface.task[t.name].roots, how)
           lists(t) == IF t.option = <<>> THEN filled(t, "auto")
                       ELSE {Only(t.option, {e \in ToSet(t.option) : e.name \in DOMAIN iface.option})}
           names(p) == [i \in DOMAIN enabled(p) |-> enabled(p)[i].name]
           options(p) == [i \in DOMAIN enabled(p) |-> lists(enabled(p)[i])]
<1>1. PICK p \in DOMAIN iface.preset :
          \E tasks \in Configured(names(p), options(p)) :
              cfg' = [cfg EXCEPT !.task = CheckTasks(iface, [cfg EXCEPT !.task = tasks])]
  BY DEF ApplyPreset
<1>2. enabled(p) \in Seq(ToSet(iface.preset[p])) /\ ToSet(enabled(p)) \subseteq known(p) \cap ToSet(iface.preset[p])
  <2>1. iface.preset[p] \in Seq(ToSet(iface.preset[p]))
    BY DEF IsInterface, IsList
  <2> HIDE DEF known
  <2> QED
    BY <2>1, OnlyRange
<1>3. IsList(enabled(p))
  BY <1>2, SeqIsList
<1>4. ASSUME NEW t \in known(p), NEW list \in lists(t) PROVE SoundList(list)
  <2>1. IsNames(iface.task[t.name].roots)
    BY DEF KnownTask, IsInterface
  <2>2. \A how : \A l \in filled(t, how) : SoundList(l)
    BY <2>1, FilledNames DEF Prompts
  <2>3. \A l \in filled(t, "auto") : SoundList(l)
    BY ONLY <2>2
  <2>4. SoundList(t.option)
    BY DEF Prompts
  <2>5. \A V : SoundList(Only(t.option, V))
    BY <2>4, SoundOnly
  <2> HIDE DEF filled
  <2> QED
    BY <2>3, <2>5
<1> HIDE DEF enabled, known, lists
<1>5. Len(enabled(p)) \in Nat /\ DOMAIN enabled(p) = 1 .. Len(enabled(p))
  BY <1>3, ListFacts
<1>6. IsList(names(p)) /\ DOMAIN names(p) = DOMAIN enabled(p)
  <2> DEFINE n == names(p)
  <2>1. n = [i \in 1 .. Len(enabled(p)) |-> n[i]]
    BY <1>5
  <2> HIDE DEF n
  <2> QED
    BY <1>5, <2>1, FunctionIsList DEF n
<1>7. \A i \in DOMAIN names(p) : \A list \in options(p)[i] : SoundList(list)
  <2>1. \A i \in DOMAIN enabled(p) : enabled(p)[i] \in known(p)
    BY <1>2 DEF ToSet
  <2> QED
    BY <1>4, <1>6, <2>1
<1> HIDE DEF names, options
<1>8. PICK tasks \in Configured(names(p), options(p)) :
          cfg' = [cfg EXCEPT !.task = CheckTasks(iface, [cfg EXCEPT !.task = tasks])]
  BY <1>1
<1>9. SoundTasks(tasks)
  BY <1>6, <1>7, ConfiguredSound
<1> DEFINE c == [cfg EXCEPT !.task = tasks]
<1>10. c.task = tasks
  BY Fields DEF HasSound
<1> HIDE DEF c
<1>11. SoundTasks(CheckTasks(iface, c))
  BY <1>9, <1>10, CheckTasksSound DEF IsInterface
<1> QED
  BY <1>8, <1>11, WithTasksHasSound DEF c

LEMMA SetOptionsHasSound ==
    \A list : HasSound(cfg) /\ SoundList(list) => \A i \in DOMAIN cfg.task : SetOptions(i, list) => HasSound(cfg')
<1> SUFFICES ASSUME NEW list, HasSound(cfg), SoundList(list), NEW i \in DOMAIN cfg.task, SetOptions(i, list)
    PROVE  HasSound(cfg')
  OBVIOUS
<1> DEFINE tasks == [cfg.task EXCEPT ![i].option = list]
<1>1. cfg' = [cfg EXCEPT !.task = tasks]
  BY DEF SetOptions
<1>2. SoundTasks(tasks)
  BY SoundTasksChange DEF HasSound
<1> HIDE DEF tasks
<1> QED
  BY <1>1, <1>2, WithTasksHasSound

LEMMA ConfigureHasSound ==
    HasSound(cfg) /\ IsInterface(iface) /\ ValidInterface(iface) /\ AsksAll(iface) /\ ConfigureTask => HasSound(cfg')
<1> SUFFICES ASSUME HasSound(cfg), IsInterface(iface), ValidInterface(iface), AsksAll(iface), ConfigureTask
    PROVE  HasSound(cfg')
  OBVIOUS
<1> DEFINE filled(i, how) == Filled(iface, cfg.ctx, iface.task[cfg.task[i].name].roots, how)
<1>1. PICK i \in DOMAIN cfg.task :
          KnownTask(iface, cfg.task[i]) /\ \E list \in filled(i, "ask") : SetOptions(i, list)
  BY DEF ConfigureTask
<1>2. IsNames(iface.task[cfg.task[i].name].roots)
  BY <1>1 DEF KnownTask, IsInterface
<1>3. \A how : \A list \in filled(i, how) : SoundList(list)
  BY <1>2, FilledNames
<1>4. \A list \in filled(i, "ask") : SoundList(list)
  BY ONLY <1>3
<1> HIDE DEF filled
<1> QED
  BY <1>1, <1>4, SetOptionsHasSound

LEMMA EditHasSound ==
    HasSound(cfg) /\ IsInterface(iface) /\ ValidInterface(iface) /\ AsksAll(iface) /\ EditOption => HasSound(cfg')
<1> SUFFICES ASSUME HasSound(cfg), IsInterface(iface), ValidInterface(iface), AsksAll(iface), EditOption
    PROVE  HasSound(cfg')
  OBVIOUS
<1> DEFINE tree(how) == Trees(iface, cfg.ctx, how)
<1>1. PICK i \in DOMAIN cfg.task : \E j \in DOMAIN cfg.task[i].option :
          LET list == cfg.task[i].option IN
          \E new \in tree("ask")[list[j].name] : SetOptions(i, Edited(iface, cfg.ctx, list, j, new))
  BY DEF EditOption
<1> DEFINE list == cfg.task[i].option
<1>2. PICK j \in DOMAIN list : \E new \in tree("ask")[list[j].name] : SetOptions(i, Edited(iface, cfg.ctx, list, j, new))
  BY <1>1
<1>3. PICK new \in tree("ask")[list[j].name] : SetOptions(i, Edited(iface, cfg.ctx, list, j, new))
  BY <1>2
<1>4. SoundList(list)
  <2>1. cfg.task[i] \in ToSet(cfg.task)
    BY DEF ToSet
  <2> QED
    BY <2>1 DEF HasSound, SoundTasks, IsSoundTask
<1> HIDE DEF list
<1>5. list[j].name \in STRING
  <2>1. list[j] \in ToSet(list)
    BY DEF ToSet
  <2> QED
    BY <1>4, <2>1 DEF SoundList, Sound
<1>6. IsOptions(iface.option) /\ EndsEverywhere(iface)
  BY DEF IsInterface, ValidInterface
<1>7. \A how : \A o \in STRING : \A l \in tree(how)[o] : SoundList(l)
  BY <1>6, FilledSound
<1>8. \A o \in STRING : \A l \in tree("ask")[o] : SoundList(l)
  BY ONLY <1>7
<1> HIDE DEF tree
<1>9. SoundList(Edited(iface, cfg.ctx, list, j, new))
  BY <1>3, <1>4, <1>5, <1>8, EditedSound
<1> QED
  BY <1>3, <1>9, SetOptionsHasSound

\* Every action of the menu leaves sound lists.
LEMMA MenuHasSound ==
    HasSound(cfg) /\ IsInterface(iface) /\ ValidInterface(iface) /\ Prompts(iface) /\ Menu => HasSound(cfg')
<1> SUFFICES ASSUME HasSound(cfg), IsInterface(iface), ValidInterface(iface), Prompts(iface), Menu
    PROVE  HasSound(cfg')
  OBVIOUS
<1>1. AsksAll(iface) /\ SoundTasks(cfg.task) /\ IsList(cfg.task)
  BY DEF Prompts, HasSound, SoundTasks
<1>2. CASE SelectController \/ SelectResource
  <2>1. \E x : cfg' = [cfg EXCEPT !.ctx = x]
    BY <1>2 DEF SelectController, SelectResource
  <2> QED
    BY <2>1, WithContextHasSound
<1>3. CASE AddTask
  <2>1. PICK names \in ChosenTasks(cfg.ctx) : \E tasks \in NewTasks(cfg.ctx, names) :
            cfg' = [cfg EXCEPT !.task = cfg.task \o tasks]
    BY <1>3 DEF AddTask
  <2>2. PICK tasks \in NewTasks(cfg.ctx, names) : cfg' = [cfg EXCEPT !.task = cfg.task \o tasks]
    BY <2>1
  <2>3. SoundTasks(tasks)
    BY <1>1, ChosenAreLists, ChosenAreTasks, NewTasksSound
  <2>4. SoundTasks(cfg.task \o tasks)
    BY <1>1, <2>3, SoundTasksConcat
  <2> QED
    BY <2>2, <2>4, WithTasksHasSound
<1>4. CASE MoveTask \/ DeleteTask
  <2>1. PICK x \in Seq(ToSet(cfg.task)) : cfg' = [cfg EXCEPT !.task = x]
    BY <1>1, <1>4, MoveIn, DeleteIn
  <2>2. \A t \in ToSet(cfg.task) : IsSoundTask(t)
    BY <1>1 DEF SoundTasks
  <2>3. SoundTasks(x)
    BY <2>2, SoundTasksIn
  <2> QED
    BY <2>1, <2>3, WithTasksHasSound
<1>5. CASE ApplyPreset
  BY <1>5, PresetHasSound
<1>6. CASE OpenEdit \/ CloseEdit
  BY <1>6 DEF OpenEdit, CloseEdit
<1>7. CASE ConfigureTask
  BY <1>1, <1>7, ConfigureHasSound
<1>8. CASE EditOption
  BY <1>1, <1>8, EditHasSound
<1> QED
  BY <1>2, <1>3, <1>4, <1>5, <1>6, <1>7, <1>8 DEF Menu

-----------------------------------------------------------------------------
(* What a run reads at each place.                                          *)

IsPlace(J, c, place) ==
    /\ place.kind \in {"level", "task", "pretask"}
    /\ place.kind = "level" => place.at \in KnownLevels(J, c.ctx)
    /\ place.kind = "task" => place.at \in DOMAIN c.task /\ ActiveTask(J, c.ctx, c.task[place.at])
    /\ place.kind = "pretask" => place.at \in ToSet(J.pretask)

ListAt(c, place) ==
    CASE place.kind = "level"   -> c.level[place.at]
      [] place.kind = "task"    -> c.task[place.at].option
      [] place.kind = "pretask" -> c.pretask[place.at.id]

RootsAt(J, c, place) ==
    CASE place.kind = "level"   -> LevelRoots(J, c.ctx, place.at)
      [] place.kind = "task"    -> J.task[c.task[place.at].name].roots
      [] place.kind = "pretask" -> place.at.roots

\* A run, and the next start, take the list there as one that the prompts make.
ReadAt(J, c, place) ==
    /\ place.kind = "pretask" => place.at.id \in DOMAIN c.pretask
    /\ AsFilled(J, c.ctx, ListAt(c, place), RootsAt(J, c, place))

\* A place is one of all configurations with the same tasks and choices.
LEMMA SamePlaces ==
    \A J, c, d : Completes(J, c, d) =>
        /\ Places(J, d) = Places(J, c)
        /\ \A x : IsPlace(J, d, x) <=> IsPlace(J, c, x)
<1> SUFFICES ASSUME NEW J, NEW c, NEW d, Completes(J, c, d)
    PROVE  /\ Places(J, d) = Places(J, c)
           /\ \A x : IsPlace(J, d, x) <=> IsPlace(J, c, x)
  OBVIOUS
<1>1. /\ d.ctx = c.ctx /\ DOMAIN d.task = DOMAIN c.task
      /\ \A i \in DOMAIN c.task : d.task[i].name = c.task[i].name
  BY DEF Completes
<1>2. \A i \in DOMAIN c.task : ActiveTask(J, d.ctx, d.task[i]) <=> ActiveTask(J, c.ctx, c.task[i])
  BY <1>1 DEF ActiveTask, KnownTask
<1> DEFINE active(e) == {i \in DOMAIN e.task : ActiveTask(J, e.ctx, e.task[i])}
           each(e) == [i \in DOMAIN e.task |-> i]
           levels == Only(<<"global", "resource", "controller">>, KnownLevels(J, c.ctx))
           pretasks == Only(ActivePretasks(J, c.ctx), {p \in ToSet(J.pretask) : p.roots # <<>>})
           all(e) == PlacesOf("level", levels) \o PlacesOf("task", Only(each(e), active(e)))
                         \o PlacesOf("pretask", pretasks)
<1>3. active(d) = active(c) /\ each(d) = each(c)
  BY <1>1, <1>2
<1>4. Places(J, c) = all(c)
  BY DEF Places, PlacesOf, KnownLevels
<1>5. Places(J, d) = all(d)
  BY <1>1 DEF Places, PlacesOf, KnownLevels
<1> HIDE DEF active, each, levels, pretasks
<1>6. all(d) = all(c)
  BY <1>3
<1>7. ASSUME NEW x PROVE IsPlace(J, d, x) <=> IsPlace(J, c, x)
  BY <1>1, <1>2 DEF IsPlace
<1> QED
  BY <1>4, <1>5, <1>6, <1>7

\* e is d with another list at the place.
Replaces(J, d, e, place, list) ==
    /\ Completes(J, d, e) /\ HasSound(e)
    /\ ListAt(e, place) = list
    /\ place.kind = "pretask" => place.at.id \in DOMAIN e.pretask
    /\ \A x : IsPlace(J, d, x) =>
           /\ RootsAt(J, e, x) = RootsAt(J, d, x)
           /\ x.kind = "pretask" /\ x.at.id \in DOMAIN d.pretask => x.at.id \in DOMAIN e.pretask
           /\ \/ x.kind # "pretask" \/ x.at.id \in DOMAIN d.pretask => ListAt(e, x) = ListAt(d, x)
              \/ x.kind = place.kind /\ RootsAt(J, d, x) = RootsAt(J, d, place) /\ ListAt(e, x) = list
                 /\ (x.kind = "pretask" => x.at.id \in DOMAIN e.pretask)

LEMMA ReplacedLevel ==
    \A J, d, list : HasSound(d) /\ SoundList(list) => \A l \in KnownLevels(J, d.ctx) : \A place, e :
        place.kind = "level" /\ place.at = l /\ e = [d EXCEPT !.level[l] = list] =>
            Replaces(J, d, e, place, list)
<1> SUFFICES ASSUME NEW J, NEW d, NEW list, HasSound(d), SoundList(list), NEW l \in KnownLevels(J, d.ctx),
                    NEW place, NEW e, place.kind = "level", place.at = l, e = [d EXCEPT !.level[l] = list]
    PROVE  Replaces(J, d, e, place, list)
  OBVIOUS
<1> DEFINE levels == [d.level EXCEPT ![l] = list]
<1>1. l \in Levels
  BY DEF KnownLevels
<1>2. d.level = [m \in Levels |-> d.level[m]] /\ \A m \in Levels : SoundList(d.level[m])
  BY DEF HasSound, SoundLevels
<1>3. levels = [m \in Levels |-> IF m = l THEN list ELSE d.level[m]]
  BY <1>1, <1>2
<1>4. e = [d EXCEPT !.level = levels]
  OBVIOUS
<1> HIDE DEF levels
<1>5. IsRecord(e) /\ e.ctx = d.ctx /\ e.task = d.task /\ e.level = levels /\ e.pretask = d.pretask
  <2>1. IsRecord(d)
    BY DEF HasSound
  <2>2. \A x : e = [d EXCEPT !.level = x] =>
            IsRecord(e) /\ e.ctx = d.ctx /\ e.task = d.task /\ e.level = x /\ e.pretask = d.pretask
    BY ONLY <2>1 DEF IsRecord
  <2> QED
    BY ONLY <1>4, <2>2
<1>6. levels[l] = list /\ \A m \in Levels : m # l => levels[m] = d.level[m]
  BY <1>1, <1>3
<1>7. SoundLevels(levels)
  <2>1. levels = [m \in Levels |-> levels[m]] /\ \A m \in Levels : SoundList(levels[m])
    BY <1>2, <1>3, <1>6
  <2> QED
    BY <2>1 DEF SoundLevels
<1>8. HasSound(e)
  BY <1>5, <1>7 DEF HasSound
<1>9. Completes(J, d, e)
  BY <1>5, <1>8, SoundHasTasks DEF Completes
<1>10. ListAt(e, place) = list
  BY <1>5, <1>6 DEF ListAt
<1>11. ASSUME NEW x, IsPlace(J, d, x)
       PROVE  /\ RootsAt(J, e, x) = RootsAt(J, d, x)
              /\ x.kind = "pretask" /\ x.at.id \in DOMAIN d.pretask => x.at.id \in DOMAIN e.pretask
              /\ \/ ListAt(e, x) = ListAt(d, x)
                 \/ x.kind = place.kind /\ RootsAt(J, d, x) = RootsAt(J, d, place) /\ ListAt(e, x) = list
                    /\ (x.kind = "pretask" => x.at.id \in DOMAIN e.pretask)
  <2>1. CASE x.kind = "level"
    <3>1. x.at \in Levels
      BY <1>11, <2>1 DEF IsPlace, KnownLevels
    <3> QED
      BY <1>5, <1>6, <2>1, <3>1 DEF ListAt, RootsAt
  <2>2. CASE x.kind \in {"task", "pretask"}
    BY <1>5, <2>2 DEF ListAt, RootsAt
  <2> QED
    BY <1>11, <2>1, <2>2 DEF IsPlace
<1> QED
  BY <1>8, <1>9, <1>10, <1>11 DEF Replaces

LEMMA ReplacedTask ==
    \A J, d, list : HasSound(d) /\ SoundList(list) => \A i \in DOMAIN d.task : \A place, e :
        /\ ActiveTask(J, d.ctx, d.task[i])
        /\ place.kind = "task" /\ place.at = i /\ e = [d EXCEPT !.task[i].option = list]
        => Replaces(J, d, e, place, list)
<1> SUFFICES ASSUME NEW J, NEW d, NEW list, HasSound(d), SoundList(list), NEW i \in DOMAIN d.task,
                    NEW place, NEW e, ActiveTask(J, d.ctx, d.task[i]),
                    place.kind = "task", place.at = i, e = [d EXCEPT !.task[i].option = list]
    PROVE  Replaces(J, d, e, place, list)
  OBVIOUS
<1> DEFINE tasks == [d.task EXCEPT ![i].option = list]
<1>1. SoundTasks(tasks) /\ SoundTasks(d.task)
  BY SoundTasksChange DEF HasSound
<1>2. /\ DOMAIN tasks = DOMAIN d.task
      /\ tasks[i] = ConfigTask(d.task[i].name, list)
      /\ \A j \in DOMAIN d.task : j # i => tasks[j] = d.task[j]
  BY <1>1, SoundTasksAreTasks, TasksChange
<1>3. e = [d EXCEPT !.task = tasks]
  OBVIOUS
<1> HIDE DEF tasks
<1>4. IsRecord(e) /\ e.ctx = d.ctx /\ e.task = tasks /\ e.level = d.level /\ e.pretask = d.pretask
  <2>1. IsRecord(d)
    BY DEF HasSound
  <2> QED
    BY ONLY <1>3, <2>1, Fields
<1>5. HasSound(e)
  BY <1>1, <1>3, WithTasksHasSound
<1>6. tasks[i].option = list /\ tasks[i].name = d.task[i].name
  BY <1>2 DEF ConfigTask
<1>7. Completes(J, d, e)
  BY <1>2, <1>4, <1>5, <1>6, SoundHasTasks DEF Completes
<1>8. ListAt(e, place) = list
  BY <1>4, <1>6 DEF ListAt
<1>9. ASSUME NEW x, IsPlace(J, d, x)
       PROVE  /\ RootsAt(J, e, x) = RootsAt(J, d, x)
              /\ x.kind = "pretask" /\ x.at.id \in DOMAIN d.pretask => x.at.id \in DOMAIN e.pretask
              /\ \/ ListAt(e, x) = ListAt(d, x)
                 \/ x.kind = place.kind /\ RootsAt(J, d, x) = RootsAt(J, d, place) /\ ListAt(e, x) = list
                    /\ (x.kind = "pretask" => x.at.id \in DOMAIN e.pretask)
  <2>1. CASE x.kind = "task"
    <3>1. x.at \in DOMAIN d.task
      BY <1>9, <2>1 DEF IsPlace
    <3> QED
      BY <1>2, <1>4, <1>6, <2>1, <3>1 DEF ListAt, RootsAt
  <2>2. CASE x.kind \in {"level", "pretask"}
    BY <1>4, <2>2 DEF ListAt, RootsAt
  <2> QED
    BY <1>9, <2>1, <2>2 DEF IsPlace
<1> QED
  BY <1>5, <1>7, <1>8, <1>9 DEF Replaces

LEMMA ReplacedPretask ==
    \A J, d, list : HasSound(d) /\ SoundList(list) /\ Apart(J) => \A t \in ToSet(J.pretask) : \A place, e :
        place.kind = "pretask" /\ place.at = t /\ e = WithPretask(d, t.id, list) =>
            Replaces(J, d, e, place, list)
<1> SUFFICES ASSUME NEW J, NEW d, NEW list, HasSound(d), SoundList(list), Apart(J), NEW t \in ToSet(J.pretask),
                    NEW place, NEW e, place.kind = "pretask", place.at = t, e = WithPretask(d, t.id, list)
    PROVE  Replaces(J, d, e, place, list)
  OBVIOUS
<1>1. /\ IsRecord(e) /\ e.ctx = d.ctx
      /\ DOMAIN e.pretask = DOMAIN d.pretask \cup {t.id}
      /\ e.pretask[t.id] = list
      /\ \A r \in DOMAIN d.pretask : r # t.id => e.pretask[r] = d.pretask[r]
  BY WithPretaskIs DEF HasSound
<1>2. e.task = d.task /\ e.level = d.level
  <2> DEFINE lists == [r \in DOMAIN d.pretask \cup {t.id} |-> IF r = t.id THEN list ELSE d.pretask[r]]
  <2>1. e = [d EXCEPT !.pretask = lists]
    BY DEF WithPretask
  <2> HIDE DEF lists
  <2> QED
    BY <2>1, Fields DEF HasSound
<1>3. HasSound(e)
  <2>1. SoundPretasks(e.pretask)
    BY <1>1 DEF HasSound, SoundPretasks
  <2> QED
    BY <1>1, <1>2, <2>1 DEF HasSound
<1>4. Completes(J, d, e)
  BY <1>1, <1>2, <1>3, SoundHasTasks DEF Completes
<1>5. ListAt(e, place) = list /\ place.at.id \in DOMAIN e.pretask
  BY <1>1 DEF ListAt
<1>6. ASSUME NEW x, IsPlace(J, d, x)
      PROVE  /\ RootsAt(J, e, x) = RootsAt(J, d, x)
             /\ x.kind = "pretask" /\ x.at.id \in DOMAIN d.pretask => x.at.id \in DOMAIN e.pretask
             /\ \/ x.kind # "pretask" \/ x.at.id \in DOMAIN d.pretask => ListAt(e, x) = ListAt(d, x)
                \/ x.kind = place.kind /\ RootsAt(J, d, x) = RootsAt(J, d, place) /\ ListAt(e, x) = list
                   /\ (x.kind = "pretask" => x.at.id \in DOMAIN e.pretask)
  <2>1. CASE x.kind = "pretask"
    <3>1. x.at \in ToSet(J.pretask) /\ (x.at.id = t.id => x.at.roots = t.roots)
      BY <1>6, <2>1 DEF IsPlace, Apart
    <3>2. RootsAt(J, e, x) = x.at.roots /\ RootsAt(J, d, x) = x.at.roots /\ RootsAt(J, d, place) = t.roots
      BY <2>1 DEF RootsAt
    <3>3. ListAt(e, x) = e.pretask[x.at.id] /\ ListAt(d, x) = d.pretask[x.at.id]
      BY <2>1 DEF ListAt
    <3>4. CASE x.at.id = t.id
      BY <1>1, <2>1, <3>1, <3>2, <3>3, <3>4
    <3>5. CASE x.at.id # t.id
      BY <1>1, <2>1, <3>2, <3>3, <3>5
    <3> QED
      BY <3>4, <3>5
  <2>2. CASE x.kind \in {"level", "task"}
    BY <1>1, <1>2, <2>2 DEF ListAt, RootsAt
  <2> QED
    BY <1>6, <2>1, <2>2 DEF IsPlace
<1> QED
  BY <1>3, <1>4, <1>5, <1>6 DEF Replaces

LEMMA EnsuredAsFilled ==
    \A J, ctx, roots, list, how :
        IsInterface(J) /\ ValidInterface(J) /\ AsksAll(J) /\ IsNames(roots) /\ SoundList(list) =>
            \A q \in Ensured(J, ctx, roots, list, how) :
                /\ SoundList(q.out)
                /\ q.ok => AsFilled(J, ctx, q.out, roots)
                /\ (\A e \in ToSet(list) : Lasts(J, e)) => \A e \in ToSet(q.out) : Lasts(J, e)
<1> SUFFICES ASSUME NEW J, NEW ctx, NEW roots, NEW list, NEW how,
                    IsInterface(J), ValidInterface(J), AsksAll(J), IsNames(roots), SoundList(list)
    PROVE  \A q \in Ensured(J, ctx, roots, list, how) :
               /\ SoundList(q.out)
               /\ q.ok => AsFilled(J, ctx, q.out, roots)
               /\ (\A e \in ToSet(list) : Lasts(J, e)) => \A e \in ToSet(q.out) : Lasts(J, e)
  OBVIOUS
<1>1. /\ IsOptions(J.option) /\ EndsEverywhere(J) /\ AsksAll(J) /\ SoundList(list)
      /\ IsList(roots) /\ ToSet(roots) \subseteq STRING
  BY DEF IsInterface, ValidInterface, IsNames
<1>2. \A q \in Ensured(J, ctx, roots, list, how) :
          /\ SoundList(q.out)
          /\ q.ok => AsFilled(J, ctx, q.out, roots)
          /\ (\A e \in ToSet(list) : Lasts(J, e)) => \A e \in ToSet(q.out) : Lasts(J, e)
  BY ONLY <1>1, EnsuredIsAsFilled
<1> QED
  BY <1>2

\* What completes the list at a place and spares the others.
Serves(J, d, place, p) ==
    /\ HasSound(p.cfg) /\ Completes(J, d, p.cfg)
    /\ p.ok => /\ ReadAt(J, p.cfg, place)
               /\ \A x : IsPlace(J, d, x) /\ ReadAt(J, d, x) => ReadAt(J, p.cfg, x)

LEMMA ReplacedServes ==
    \A J, d, e, place, list, p :
        /\ Replaces(J, d, e, place, list) /\ IsPlace(J, d, place)
        /\ p.cfg = e
        /\ p.ok => AsFilled(J, d.ctx, list, RootsAt(J, d, place))
        => Serves(J, d, place, p)
<1> SUFFICES ASSUME NEW J, NEW d, NEW e, NEW place, NEW list, NEW p,
                    Replaces(J, d, e, place, list), IsPlace(J, d, place),
                    p.cfg = e,
                    p.ok => AsFilled(J, d.ctx, list, RootsAt(J, d, place))
    PROVE  Serves(J, d, place, p)
  OBVIOUS
<1>1. HasSound(e) /\ Completes(J, d, e) /\ e.ctx = d.ctx
  BY DEF Replaces, Completes
<1>2. ASSUME p.ok PROVE ReadAt(J, e, place)
  <2>1. ListAt(e, place) = list /\ RootsAt(J, e, place) = RootsAt(J, d, place)
        /\ (place.kind = "pretask" => place.at.id \in DOMAIN e.pretask)
    BY DEF Replaces
  <2> QED
    BY <1>1, <1>2, <2>1 DEF ReadAt
<1>3. ASSUME p.ok, NEW x, IsPlace(J, d, x), ReadAt(J, d, x) PROVE ReadAt(J, e, x)
  <2>1. /\ RootsAt(J, e, x) = RootsAt(J, d, x)
        /\ x.kind = "pretask" /\ x.at.id \in DOMAIN d.pretask => x.at.id \in DOMAIN e.pretask
        /\ \/ x.kind # "pretask" \/ x.at.id \in DOMAIN d.pretask => ListAt(e, x) = ListAt(d, x)
           \/ RootsAt(J, d, x) = RootsAt(J, d, place) /\ ListAt(e, x) = list
    BY <1>3 DEF Replaces
  <2>2. AsFilled(J, d.ctx, ListAt(d, x), RootsAt(J, d, x)) /\ (x.kind = "pretask" => x.at.id \in DOMAIN d.pretask)
    BY <1>3 DEF ReadAt
  <2>3. AsFilled(J, d.ctx, ListAt(e, x), RootsAt(J, d, x))
    BY <1>3, <2>1, <2>2
  <2> QED
    BY <1>1, <2>1, <2>2, <2>3 DEF ReadAt
<1> QED
  BY <1>1, <1>2, <1>3 DEF Serves

LEMMA LevelServes ==
    \A J, d, place :
        /\ IsInterface(J) /\ ValidInterface(J) /\ AsksAll(J) /\ HasSound(d)
        /\ IsPlace(J, d, place) /\ place.kind = "level"
        => \A p \in EnsurePlace(J, d, place) : Serves(J, d, place, p)
<1> SUFFICES ASSUME NEW J, NEW d, NEW place,
                    IsInterface(J), ValidInterface(J), AsksAll(J), HasSound(d),
                    IsPlace(J, d, place), place.kind = "level",
                    NEW p \in EnsurePlace(J, d, place)
    PROVE  Serves(J, d, place, p)
  OBVIOUS
<1> DEFINE l == place.at
           roots == LevelRoots(J, d.ctx, l)
           cleaned == Cleanup(J, d.ctx, roots, d.level[l])
           ways(how) == Ensured(J, d.ctx, roots, cleaned, how)
           out(q) == [d EXCEPT !.level[l] = q.out]
<1>1. PICK q \in ways("auto") : p = [cfg |-> out(q), ok |-> q.ok]
  BY DEF EnsurePlace
<1>2. l \in KnownLevels(J, d.ctx) /\ l \in Levels
  BY DEF IsPlace, KnownLevels
<1>3. IsNames(roots)
  BY <1>2, RootsAreNames
<1>4. RootsAt(J, d, place) = roots
  BY DEF RootsAt
<1> HIDE DEF l, roots
<1>5. SoundList(cleaned)
  <2>1. SoundList(d.level[l])
    BY <1>2 DEF HasSound, SoundLevels
  <2>2. \E V : cleaned = Only(d.level[l], V)
    BY DEF Cleanup
  <2> QED
    BY <2>1, <2>2, SoundOnly
<1> HIDE DEF cleaned
<1>6. \A how : \A r \in ways(how) : SoundList(r.out) /\ (r.ok => AsFilled(J, d.ctx, r.out, roots))
  BY <1>3, <1>5, EnsuredAsFilled
<1>7. \A r \in ways("auto") : SoundList(r.out) /\ (r.ok => AsFilled(J, d.ctx, r.out, roots))
  BY ONLY <1>6
<1> HIDE DEF ways
<1> DEFINE e == out(q)
           list == q.out
<1>8. p.cfg = e /\ p.ok = q.ok
  BY <1>1
<1>9. SoundList(list) /\ (p.ok => AsFilled(J, d.ctx, list, RootsAt(J, d, place)))
  BY <1>1, <1>4, <1>7, <1>8
<1>10. e = [d EXCEPT !.level[l] = list] /\ place.at = l
  BY DEF l
<1> HIDE DEF e, list, out
<1>11. Replaces(J, d, e, place, list)
  BY <1>2, <1>9, <1>10, ReplacedLevel
<1> QED
  BY <1>8, <1>9, <1>11, ReplacedServes

LEMMA TaskServes ==
    \A J, d, place :
        /\ IsInterface(J) /\ ValidInterface(J) /\ AsksAll(J) /\ HasSound(d)
        /\ IsPlace(J, d, place) /\ place.kind = "task"
        => \A p \in EnsurePlace(J, d, place) : Serves(J, d, place, p)
<1> SUFFICES ASSUME NEW J, NEW d, NEW place,
                    IsInterface(J), ValidInterface(J), AsksAll(J), HasSound(d),
                    IsPlace(J, d, place), place.kind = "task",
                    NEW p \in EnsurePlace(J, d, place)
    PROVE  Serves(J, d, place, p)
  OBVIOUS
<1> DEFINE i == place.at
           roots == J.task[d.task[i].name].roots
           stored == d.task[i].option
           ways(how) == Ensured(J, d.ctx, roots, stored, how)
           out(q) == [d EXCEPT !.task[i].option = q.out]
<1>1. PICK q \in ways("auto") : p = [cfg |-> out(q), ok |-> q.ok]
  BY DEF EnsurePlace
<1>2. i \in DOMAIN d.task /\ ActiveTask(J, d.ctx, d.task[i])
  BY DEF IsPlace
<1>3. IsNames(roots)
  BY <1>2 DEF ActiveTask, KnownTask, IsInterface
<1>4. RootsAt(J, d, place) = roots
  BY DEF RootsAt
<1> HIDE DEF i, roots
<1>5. SoundList(stored)
  <2>1. d.task[i] \in ToSet(d.task)
    BY <1>2 DEF ToSet
  <2> QED
    BY <2>1 DEF HasSound, SoundTasks, IsSoundTask
<1> HIDE DEF stored
<1>6. \A how : \A r \in ways(how) : SoundList(r.out) /\ (r.ok => AsFilled(J, d.ctx, r.out, roots))
  BY <1>3, <1>5, EnsuredAsFilled
<1>7. \A r \in ways("auto") : SoundList(r.out) /\ (r.ok => AsFilled(J, d.ctx, r.out, roots))
  BY ONLY <1>6
<1> HIDE DEF ways
<1> DEFINE e == out(q)
           list == q.out
<1>8. p.cfg = e /\ p.ok = q.ok
  BY <1>1
<1>9. SoundList(list) /\ (p.ok => AsFilled(J, d.ctx, list, RootsAt(J, d, place)))
  BY <1>1, <1>4, <1>7, <1>8
<1>10. e = [d EXCEPT !.task[i].option = list] /\ place.at = i
  BY DEF i
<1> HIDE DEF e, list, out
<1>11. Replaces(J, d, e, place, list)
  BY <1>2, <1>9, <1>10, ReplacedTask
<1> QED
  BY <1>8, <1>9, <1>11, ReplacedServes

LEMMA PretaskServes ==
    \A J, d, place :
        /\ IsInterface(J) /\ ValidInterface(J) /\ AsksAll(J) /\ Apart(J) /\ HasSound(d)
        /\ IsPlace(J, d, place) /\ place.kind = "pretask"
        => \A p \in EnsurePlace(J, d, place) : Serves(J, d, place, p)
<1> SUFFICES ASSUME NEW J, NEW d, NEW place,
                    IsInterface(J), ValidInterface(J), AsksAll(J), Apart(J), HasSound(d),
                    IsPlace(J, d, place), place.kind = "pretask",
                    NEW p \in EnsurePlace(J, d, place)
    PROVE  Serves(J, d, place, p)
  OBVIOUS
<1> DEFINE t == place.at
           stored == IF t.id \in DOMAIN d.pretask THEN d.pretask[t.id] ELSE <<>>
           ways(how) == Ensured(J, d.ctx, t.roots, stored, how)
<1>1. PICK q \in PretaskOutcomes(J, d, t) :
          /\ p.ok = q.ok
          /\ p.cfg = d \/ p.cfg = WithPretask(d, t.id, q.out)
          /\ q.ok => p.cfg = WithPretask(d, t.id, q.out)
  BY PretaskPlace
<1>2. PretaskOutcomes(J, d, t) = ways("auto")
  BY DEF PretaskOutcomes
<1>3. t \in ToSet(J.pretask) /\ RootsAt(J, d, place) = t.roots /\ place.at = t
  BY DEF IsPlace, RootsAt
<1> HIDE DEF t
<1>4. IsNames(t.roots)
  BY <1>3 DEF IsInterface
<1>5. SoundList(stored)
  BY NothingIsSound DEF HasSound, SoundPretasks
<1> HIDE DEF stored
<1>6. \A how : \A r \in ways(how) : SoundList(r.out) /\ (r.ok => AsFilled(J, d.ctx, r.out, t.roots))
  BY <1>4, <1>5, EnsuredAsFilled
<1>7. \A r \in ways("auto") : SoundList(r.out) /\ (r.ok => AsFilled(J, d.ctx, r.out, t.roots))
  BY ONLY <1>6
<1> HIDE DEF ways
<1> DEFINE e == WithPretask(d, t.id, q.out)
           list == q.out
<1>8. SoundList(list) /\ (p.ok => AsFilled(J, d.ctx, list, RootsAt(J, d, place)))
  BY <1>1, <1>2, <1>3, <1>7
<1>9. e = WithPretask(d, t.id, list) /\ (p.cfg = d \/ p.cfg = e) /\ (p.ok => p.cfg = e)
  BY <1>1
<1> HIDE DEF e, list
<1>10. Replaces(J, d, e, place, list)
  BY <1>3, <1>8, <1>9, ReplacedPretask
<1>11. CASE p.cfg = e
  BY <1>8, <1>10, <1>11, ReplacedServes
<1>12. CASE p.cfg = d /\ ~p.ok
  <2>1. Completes(J, d, d)
    BY SoundHasTasks DEF Completes
  <2> QED
    BY <1>12, <2>1 DEF Serves
<1> QED
  BY <1>9, <1>11, <1>12

LEMMA CompletesFurther == \A J, c, d, e : Completes(J, c, d) /\ Completes(J, d, e) => Completes(J, c, e)
<1> SUFFICES ASSUME NEW J, NEW c, NEW d, NEW e, Completes(J, c, d), Completes(J, d, e)
    PROVE  Completes(J, c, e)
  OBVIOUS
<1>1. HasTasks(e) /\ e.ctx = c.ctx /\ DOMAIN e.task = DOMAIN c.task
  BY DEF Completes
<1>2. ASSUME NEW i \in DOMAIN c.task
      PROVE  /\ e.task[i].name = c.task[i].name
             /\ ~ActiveTask(J, c.ctx, c.task[i]) => e.task[i] = c.task[i]
  <2>1. /\ d.task[i].name = c.task[i].name /\ e.task[i].name = d.task[i].name /\ d.ctx = c.ctx
        /\ ~ActiveTask(J, c.ctx, c.task[i]) => d.task[i] = c.task[i]
        /\ ~ActiveTask(J, d.ctx, d.task[i]) => e.task[i] = d.task[i]
    BY DEF Completes
  <2> QED
    BY <2>1
<1> QED
  BY <1>1, <1>2 DEF Completes

\* The completion of all lists: sound ones, and where it succeeds a run reads
\* each of them as one that the prompts make.
AllRead(J, c) == \A place \in ToSet(Places(J, c)) : ReadAt(J, c, place)

LEMMA EnsureServes ==
    \A J, c : IsInterface(J) /\ ValidInterface(J) /\ AsksAll(J) /\ Apart(J) /\ HasSound(c) =>
        \A p \in EnsureAll(J, c) : HasSound(p.cfg) /\ (p.ok => AllRead(J, p.cfg))
<1> SUFFICES ASSUME NEW J, NEW c, IsInterface(J), ValidInterface(J), AsksAll(J), Apart(J), HasSound(c)
    PROVE  \A p \in EnsureAll(J, c) : HasSound(p.cfg) /\ (p.ok => AllRead(J, p.cfg))
  OBVIOUS
<1> DEFINE places == Places(J, c)
           M == Len(places)
<1>1. IsList(places) /\ \A place \in ToSet(places) : IsPlace(J, c, place)
  <2>1. IsList(J.pretask) /\ IsList(c.task)
    BY DEF IsInterface, HasSound, SoundTasks
  <2> QED
    BY <2>1, PlacesAreActive DEF IsPlace
<1>2. Places(J, c) = places
  OBVIOUS
<1> HIDE DEF places
<1>3. M \in Nat /\ DOMAIN places = 1 .. M /\ \A n \in 1 .. M : places[n] \in ToSet(places)
  BY <1>1, ListFacts
<1>4. PICK f : /\ EnsureEach(J, c, places) = f[M]
               /\ f[0] = {[cfg |-> c, ok |-> TRUE]}
               /\ \A n \in 1 .. M : f[n] = More(J, places[n], f[n - 1])
  BY <1>3, EnsureEachGoes
<1> HIDE DEF M
<1> DEFINE Good(p, n) ==
               /\ HasSound(p.cfg) /\ Completes(J, c, p.cfg)
               /\ p.ok => \A k \in 1 .. n : ReadAt(J, p.cfg, places[k])
           S == {n \in 0 .. M : \A p \in f[n] : Good(p, n)}
<1>5. 0 \in S
  <2> DEFINE start == [cfg |-> c, ok |-> TRUE]
  <2>1. start.cfg = c
    OBVIOUS
  <2>2. f[0] = {start}
    BY <1>4
  <2> HIDE DEF start
  <2>3. Completes(J, c, c)
    BY SoundHasTasks DEF Completes
  <2>4. Good(start, 0)
    BY <2>1, <2>3
  <2> HIDE DEF Good
  <2> QED
    BY <1>3, <2>2, <2>4
<1>6. ASSUME NEW n \in Nat, n < M, n \in S PROVE n + 1 \in S
  <2>1. n + 1 \in 1 .. M /\ n + 1 \in 0 .. M /\ (n + 1) - 1 = n /\ \A k \in 1 .. n + 1 : k \in 1 .. n \/ k = n + 1
    BY <1>3, <1>6
  <2>2. f[n + 1] = More(J, places[n + 1], f[n])
    BY <1>4, <2>1
  <2> DEFINE place == places[n + 1]
  <2>3. IsPlace(J, c, place)
    BY <1>1, <1>3, <2>1
  <2>4. ASSUME NEW p \in f[n + 1] PROVE Good(p, n + 1)
    <3>1. PICK q \in f[n] : p \in (IF q.ok THEN EnsurePlace(J, q.cfg, place) ELSE {q})
      BY <2>2 DEF More
    <3>2. Good(q, n)
      BY <1>6
    <3>3. CASE q.ok
      <4>1. p \in EnsurePlace(J, q.cfg, place)
        BY <3>1, <3>3
      <4>2. \A x : IsPlace(J, q.cfg, x) <=> IsPlace(J, c, x)
        BY <3>2, SamePlaces
      <4> HIDE DEF place
      <4>3. Serves(J, q.cfg, place, p)
        <5>1. place.kind \in {"level", "task", "pretask"} /\ IsPlace(J, q.cfg, place) /\ HasSound(q.cfg)
          BY <2>3, <3>2, <4>2 DEF IsPlace
        <5> QED
          BY <4>1, <5>1, LevelServes, TaskServes, PretaskServes
      <4>4. HasSound(p.cfg) /\ Completes(J, c, p.cfg)
        BY <3>2, <4>3, CompletesFurther DEF Serves
      <4>5. ASSUME p.ok, NEW k \in 1 .. n + 1 PROVE ReadAt(J, p.cfg, places[k])
        <5>1. CASE k = n + 1
          BY <4>3, <4>5, <5>1 DEF Serves, place
        <5>2. CASE k \in 1 .. n
          <6>1. k \in 1 .. M
            BY <1>3, <1>6, <5>2
          <6>2. IsPlace(J, q.cfg, places[k])
            BY <1>1, <1>3, <4>2, <6>1
          <6>3. ReadAt(J, q.cfg, places[k])
            BY <3>2, <3>3, <5>2
          <6> QED
            BY <4>3, <4>5, <6>2, <6>3 DEF Serves
        <5> QED
          BY <2>1, <5>1, <5>2
      <4> QED
        BY <4>4, <4>5
    <3>4. CASE ~q.ok
      BY <3>1, <3>2, <3>4
    <3> QED
      BY <3>3, <3>4
  <2> HIDE DEF Good
  <2> QED
    BY <2>1, <2>4
<1> HIDE DEF S
<1>7. 0 .. M \subseteq S
  BY <1>3, <1>5, <1>6, UpTo
<1>8. \A p \in f[M] : Good(p, M)
  BY <1>3, <1>7 DEF S
<1>9. ASSUME NEW p \in EnsureAll(J, c) PROVE HasSound(p.cfg) /\ (p.ok => AllRead(J, p.cfg))
  <2>1. Good(p, M)
    BY <1>2, <1>4, <1>8 DEF EnsureAll
  <2>2. Places(J, p.cfg) = places
    BY <1>2, <2>1, SamePlaces
  <2>3. ASSUME p.ok, NEW place \in ToSet(places) PROVE ReadAt(J, p.cfg, place)
    <3>1. PICK k \in 1 .. M : place = places[k]
      BY <1>3 DEF ToSet
    <3> QED
      BY <2>1, <2>3, <3>1
  <2> QED
    BY <2>1, <2>2, <2>3 DEF AllRead
<1> QED
  BY <1>9

-----------------------------------------------------------------------------
(* The configurations in memory and in the file are sound at every moment,  *)
(* and what runs is what could have been chosen.                            *)

HoldsSound == HasSound(cfg) /\ (file = NoFile \/ HasSound(file))

RunsRead == Running => AllRead(iface, cfg)

LEMMA LoadedHasSound == \A J : IsInterface(J) /\ HoldsSound => HasSound(Loaded(J))
  BY BlankHasSound, CheckedHasSound DEF HoldsSound, Loaded, IsInterface

LEMMA PrepareHoldsSound ==
    \A J \in Interfaces : \A c, run, done :
        /\ Prompts(J) /\ HoldsSound /\ HasSound(c) /\ Prepare(J, c, run, done)
        => HoldsSound' /\ (mode' = done \/ (mode' = run /\ AllRead(J, cfg')))
<1> SUFFICES ASSUME NEW J \in Interfaces, NEW c, NEW run, NEW done,
                    Prompts(J), HoldsSound, HasSound(c), Prepare(J, c, run, done)
    PROVE  HoldsSound' /\ (mode' = done \/ (mode' = run /\ AllRead(J, cfg')))
  OBVIOUS
<1>1. PICK p \in EnsureAll(J, c), written \in BOOLEAN :
          /\ mode' = IF p.ok /\ written /\ Generates(J, p.cfg) THEN run ELSE done
          /\ cfg' = IF ~(p.ok /\ written /\ Generates(J, p.cfg)) /\ done = "off" THEN Blank ELSE p.cfg
          /\ file' = IF p.ok /\ written THEN p.cfg ELSE file
  BY DEF Prepare
<1>2. IsInterface(J) /\ ValidInterface(J) /\ AsksAll(J) /\ Apart(J)
  BY SessionAssumption DEF Prompts
<1>3. HasSound(p.cfg) /\ (p.ok => AllRead(J, p.cfg))
  BY <1>2, EnsureServes
<1>4. HoldsSound'
  BY <1>1, <1>3, BlankHasSound DEF HoldsSound
<1>5. mode' = done \/ (mode' = run /\ AllRead(J, cfg'))
  BY <1>1, <1>3
<1> QED
  BY <1>4, <1>5

LEMMA SoundStep ==
    /\ \A J \in Interfaces : Prompts(J)
    /\ iface \in Interfaces /\ HoldsSound /\ RunsRead /\ [Next]_vars
    => HoldsSound' /\ RunsRead'
<1> SUFFICES ASSUME \A J \in Interfaces : Prompts(J),
                    iface \in Interfaces, HoldsSound, RunsRead, [Next]_vars
    PROVE  HoldsSound' /\ RunsRead'
  OBVIOUS
<1>1. /\ HasSound(cfg) /\ (file = NoFile \/ HasSound(file))
      /\ IsInterface(iface) /\ ValidInterface(iface) /\ Prompts(iface) /\ AsksAll(iface)
  BY SessionAssumption DEF HoldsSound, Prompts
<1>2. CASE Start
  <2>1. iface' \in Interfaces
    BY <1>2 DEF Start
  <2>2. HasSound(cfg')
    BY <1>2, <2>1, LoadedHasSound, SessionAssumption DEF Start
  <2> QED
    BY <1>1, <1>2, <2>2 DEF Start, HoldsSound, RunsRead, Running
<1>3. CASE Leave
  BY <1>1, <1>3, BlankHasSound DEF Leave, HoldsSound, RunsRead, Running
<1>4. CASE Setup
  <2>1. HasSound(cfg')
    BY <1>1, <1>4, SetupHasSound
  <2> QED
    BY <1>4, <2>1 DEF Setup, Complete, Back, Save, HoldsSound, RunsRead, Running
<1>5. CASE Menu
  <2>1. HasSound(cfg')
    BY <1>1, <1>5, MenuHasSound
  <2>2. mode' \in {"menu", "edit"}
    BY <1>5 DEF Menu, SelectController, SelectResource, AddTask, MoveTask, DeleteTask, ApplyPreset, OpenEdit,
                ConfigureTask, EditOption, CloseEdit, SetOptions, Complete, Incomplete, Back
  <2> QED
    BY <1>1, <1>5, <2>1, <2>2, MenuSaves DEF HoldsSound, RunsRead, Running
<1>6. CASE Run
  <2>1. HoldsSound' /\ (mode' = "menu" \/ (mode' = "running" /\ AllRead(iface, cfg')))
    BY <1>1, <1>6, PrepareHoldsSound DEF Run
  <2> QED
    BY <1>6, <2>1 DEF Run, RunsRead, Running
<1>7. CASE RunElevated
  BY <1>1, <1>7 DEF RunElevated, HoldsSound, RunsRead, Running
<1>8. CASE RunEnds
  BY <1>1, <1>8 DEF RunEnds, Complete, Incomplete, Back, Save, HoldsSound, RunsRead, Running
<1>9. CASE RunDirectly
  <2>1. iface' \in Interfaces /\ HasSound(Loaded(iface')) /\ mode = "off"
    BY <1>9, LoadedHasSound, SessionAssumption DEF RunDirectly
  <2>2. CASE Prepare(iface', Loaded(iface'), "once", "off")
    <3>1. HoldsSound' /\ (mode' = "off" \/ (mode' = "once" /\ AllRead(iface', cfg')))
      BY <2>1, <2>2, PrepareHoldsSound
    <3> QED
      BY <3>1 DEF RunsRead, Running
  <2>3. CASE file' \in {Loaded(iface'), file} /\ UNCHANGED <<mode, cfg>>
    BY <1>1, <2>1, <2>3 DEF HoldsSound, RunsRead, Running
  <2> QED
    BY <1>9, <2>2, <2>3 DEF RunDirectly
<1>10. CASE UNCHANGED vars
  BY <1>1, <1>10 DEF vars, HoldsSound, RunsRead, Running
<1> QED
  BY <1>2, <1>3, <1>4, <1>5, <1>6, <1>7, <1>8, <1>9, <1>10 DEF Next

LEMMA ReadRuns == HoldsTasks /\ RunsRead => RunsForests
<1> SUFFICES ASSUME HoldsTasks, RunsRead, Running, NEW n \in DOMAIN Places(iface, cfg)
    PROVE  LET place == Places(iface, cfg)[n]
               Choice(list, roots) == Effects(iface, cfg.ctx, list) \in Filled(iface, cfg.ctx, roots, "unverified")
           IN CASE place.kind = "level"   -> Choice(cfg.level[place.at], LevelRoots(iface, cfg.ctx, place.at))
                [] place.kind = "task"    -> LET t == cfg.task[place.at]
                                             IN Choice(t.option, iface.task[t.name].roots)
                [] place.kind = "pretask" -> Choice(cfg.pretask[place.at.id], place.at.roots)
  BY DEF RunsForests
<1> DEFINE place == Places(iface, cfg)[n]
<1>0. place \in ToSet(Places(iface, cfg))
  BY DEF ToSet
<1>1. ReadAt(iface, cfg, place)
  BY <1>0 DEF RunsRead, AllRead
<1>6. place.kind \in {"level", "task", "pretask"}
  <2>1. IsList(iface.pretask) /\ IsList(cfg.task)
    BY SessionAssumption DEF HoldsTasks, HasTasks, AreTasks, IsInterface
  <2> QED
    BY <1>0, <2>1, PlacesAreActive
<1> HIDE DEF place
<1>2. Effects(iface, cfg.ctx, ListAt(cfg, place)) \in Filled(iface, cfg.ctx, RootsAt(iface, cfg, place), "unverified")
  BY <1>1 DEF ReadAt, AsFilled
<1>3. CASE place.kind = "level"
  BY <1>2, <1>3 DEF ListAt, RootsAt, place
<1>4. CASE place.kind = "task"
  BY <1>2, <1>4 DEF ListAt, RootsAt, place
<1>5. CASE place.kind = "pretask"
  BY <1>2, <1>5 DEF ListAt, RootsAt, place
<1> QED
  BY <1>3, <1>4, <1>5, <1>6 DEF place

\* Whatever was chosen, edited, switched, updated or aborted before, each active
\* list a run's parameters are made of has the effects of one that the prompts
\* of the installed interface.json produce, with any interface.json files that
\* can be prompted for and any number of tasks and options
\* (interactor.cpp:289-336, Configurator.cpp:572-665).
THEOREM WhatRunsCanBeChosen == (\A J \in Interfaces : Prompts(J)) => (Spec => []RunsForests)
<1> SUFFICES ASSUME \A J \in Interfaces : Prompts(J) PROVE Spec => []RunsForests
  OBVIOUS
<1>1. Init => HoldsSound /\ RunsRead
  BY BlankHasSound DEF Init, HoldsSound, RunsRead, Running
<1>2. HoldsTasks /\ HoldsSound /\ RunsRead /\ [Next]_vars => HoldsSound' /\ RunsRead'
  BY SoundStep DEF HoldsTasks
<1>3. HoldsTasks /\ RunsRead => RunsForests
  BY ReadRuns
<1> QED
  BY <1>1, <1>2, <1>3, TasksAreHeld, PTL DEF Spec

-----------------------------------------------------------------------------
(* The lengths of lists of tasks.                                           *)

\* A part of a list is no longer than the list.
LEMMA OnlyIsShorter == \A S, V : \A s \in Seq(S) : Len(Only(s, V)) \in 0 .. Len(s)
<1> SUFFICES ASSUME NEW S, NEW V PROVE \A s \in Seq(S) : Len(Only(s, V)) \in 0 .. Len(s)
  OBVIOUS
<1> DEFINE T == {s \in Seq(S) : Len(Only(s, V)) \in 0 .. Len(s)}
<1>1. <<>> \in T
  BY EmptySeq, OnlyEmpty
<1>2. ASSUME NEW s \in Seq(S), s \in T, NEW e \in S PROVE Append(s, e) \in T
  <2>1. Only(Append(s, e), V) = IF e \in V THEN Append(Only(s, V), e) ELSE Only(s, V)
    BY OnlyAppend
  <2>2. Only(s, V) \in Seq(S) /\ Append(s, e) \in Seq(S) /\ Len(s) \in Nat
    BY OnlyRange
  <2>3. Len(Append(s, e)) = Len(s) + 1
    OBVIOUS
  <2>4. CASE e \in V
    <3>1. Len(Only(Append(s, e), V)) = Len(Only(s, V)) + 1
      BY <2>1, <2>2, <2>4
    <3> QED
      BY <1>2, <2>2, <2>3, <3>1
  <2>5. CASE e \notin V
    BY <1>2, <2>1, <2>2, <2>3, <2>5
  <2> QED
    BY <2>4, <2>5
<1> HIDE DEF T
<1>3. Seq(S) \subseteq T
  BY <1>1, <1>2, ListInduction
<1> QED
  BY <1>3 DEF T

\* check_task takes no task in.
LEMMA CheckTasksShorter == \A J, c : AreTasks(c.task) => Len(CheckTasks(J, c)) \in 0 .. Len(c.task)
<1> SUFFICES ASSUME NEW J, NEW c, AreTasks(c.task) PROVE Len(CheckTasks(J, c)) \in 0 .. Len(c.task)
  OBVIOUS
<1> DEFINE K == {t \in ToSet(c.task) : KnownTask(J, t)}
           known == Only(c.task, K)
           checked == [i \in DOMAIN known |-> [known[i] EXCEPT !.option = CheckTask(J, c.ctx, known[i].name, @)]]
<1>1. CheckTasks(J, c) = checked
  BY DEF CheckTasks
<1>2. Len(known) \in 0 .. Len(c.task) /\ known \in Seq(ToSet(c.task))
  <2>1. c.task \in Seq(ToSet(c.task))
    BY DEF AreTasks, IsList
  <2> HIDE DEF K
  <2> QED
    BY <2>1, OnlyIsShorter, OnlyRange
<1> HIDE DEF K, known
<1>3. Len(known) \in Nat /\ DOMAIN known = 1 .. Len(known)
  BY <1>2
<1>4. checked = [i \in 1 .. Len(known) |-> checked[i]]
  BY <1>3
<1> HIDE DEF checked
<1> QED
  BY <1>1, <1>2, <1>3, <1>4, FunctionIsList

LEMMA ConfiguredLength ==
    \A names, options : IsList(names) => \A tasks \in Configured(names, options) : Len(tasks) = Len(names)
<1> SUFFICES ASSUME NEW names, NEW options, IsList(names), NEW tasks \in Configured(names, options)
    PROVE  Len(tasks) = Len(names)
  OBVIOUS
<1>1. Len(names) \in Nat /\ DOMAIN names = 1 .. Len(names)
  BY ListFacts
<1>2. PICK list : tasks = [i \in DOMAIN names |-> ConfigTask(names[i], list[i])]
  BY DEF Configured
<1>3. tasks = [i \in 1 .. Len(names) |-> tasks[i]]
  BY <1>1, <1>2
<1> QED
  BY <1>1, <1>3, FunctionIsList

LEMMA ChosenWithin == \A x : \A names \in ChosenTasks(x) : Len(names) \in 0 .. TaskLimit
<1> SUFFICES ASSUME NEW x, NEW names \in ChosenTasks(x) PROVE Len(names) \in 0 .. TaskLimit
  OBVIOUS
<1> DEFINE A == {n \in DOMAIN iface.task : Fits(iface.task[n], x)}
<1>1. names = <<>> \/ names \in BoundedSeq(A, TaskLimit)
  BY DEF ChosenTasks
<1>0. TaskLimit \in Nat
  BY SessionAssumption
<1> HIDE DEF A
<1>2. CASE names = <<>>
  BY <1>0, <1>2, EmptySeq
<1>3. CASE names \in BoundedSeq(A, TaskLimit)
  <2>1. PICK m \in 0 .. TaskLimit : names \in [1 .. m -> A]
    BY <1>3 DEF BoundedSeq, SeqOf
  <2>2. m \in Nat
    BY <1>0
  <2>3. Len(names) = m
    BY <2>1, <2>2
  <2> QED
    BY <2>1, <2>3
<1> QED
  BY <1>1, <1>2, <1>3

LEMMA DefaultsWithin ==
    \A x : IsInterface(iface) /\ Limited(iface) => Len(DefaultTasks(x)) \in 0 .. TaskLimit
<1> SUFFICES ASSUME NEW x, IsInterface(iface), Limited(iface) PROVE Len(DefaultTasks(x)) \in 0 .. TaskLimit
  OBVIOUS
<1> DEFINE V == {n \in ToSet(iface.checked) : Fits(iface.task[n], x)}
<1>1. iface.checked \in Seq(ToSet(iface.checked)) /\ DefaultTasks(x) = Only(iface.checked, V)
  BY DEF IsInterface, IsList, DefaultTasks
<1> HIDE DEF V
<1>2. Len(DefaultTasks(x)) \in 0 .. Len(iface.checked) /\ Len(iface.checked) \in Nat
  BY <1>1, OnlyIsShorter
<1> QED
  BY <1>2, SessionAssumption DEF Limited

LEMMA SubLength ==
    \A S : \A s \in Seq(S) : \A m \in 1 .. Len(s) + 1, n \in 0 .. Len(s) :
        Len(SubSeq(s, m, n)) = IF m <= n THEN n - m + 1 ELSE 0
<1> SUFFICES ASSUME NEW S, NEW s \in Seq(S), NEW m \in 1 .. Len(s) + 1, NEW n \in 0 .. Len(s)
    PROVE  Len(SubSeq(s, m, n)) = IF m <= n THEN n - m + 1 ELSE 0
  OBVIOUS
<1>1. \A i \in m .. n : s[i] \in S
  OBVIOUS
<1> QED
  BY <1>1, SubSeqProperties

LEMMA MovedLength ==
    \A S : \A s \in Seq(S) : \A from, to \in DOMAIN s : Len(InsertAt(RemoveAt(s, from), to, s[from])) = Len(s)
<1> SUFFICES ASSUME NEW S, NEW s \in Seq(S), NEW from \in DOMAIN s, NEW to \in DOMAIN s
    PROVE  Len(InsertAt(RemoveAt(s, from), to, s[from])) = Len(s)
  OBVIOUS
<1> DEFINE n == Len(s)
           before == SubSeq(s, 1, from - 1)
           after == SubSeq(s, from + 1, n)
           r == before \o after
<1>1. n \in Nat /\ DOMAIN s = 1 .. n /\ s[from] \in S /\ \A i \in 1 .. n : s[i] \in S
  OBVIOUS
<1>2. RemoveAt(s, from) = r
  BY DEF RemoveAt
<1>3. before \in Seq(S) /\ after \in Seq(S)
  <2>1. 1 \in 1 .. n + 1 /\ from - 1 \in 0 .. n /\ from + 1 \in 1 .. n + 1 /\ n \in 0 .. n
    BY <1>1
  <2> QED
    BY <2>1, SubIn
<1>4. Len(before) = from - 1 /\ Len(after) = n - from
  <2>1. 1 \in 1 .. n + 1 /\ from - 1 \in 0 .. n /\ from + 1 \in 1 .. n + 1 /\ n \in 0 .. n
    BY <1>1
  <2> QED
    BY <1>1, <2>1, SubLength
<1> HIDE DEF before, after
<1>5. r \in Seq(S) /\ Len(r) = n - 1
  <2>1. before \o after \in Seq(S) /\ Len(before \o after) = Len(before) + Len(after)
    BY <1>3, ConcatProperties
  <2> QED
    BY <1>1, <1>4, <2>1
<1> HIDE DEF r
<1> DEFINE front == SubSeq(r, 1, to - 1)
           back == SubSeq(r, to, Len(r))
           alone == <<s[from]>>
<1>6. InsertAt(r, to, s[from]) = front \o alone \o back
  BY DEF InsertAt
<1>7. front \in Seq(S) /\ back \in Seq(S) /\ Len(front) = to - 1 /\ Len(back) = n - to
  <2>1. 1 \in 1 .. Len(r) + 1 /\ to - 1 \in 0 .. Len(r) /\ to \in 1 .. Len(r) + 1 /\ Len(r) \in 0 .. Len(r)
    BY <1>1, <1>5
  <2> QED
    BY <1>1, <1>5, <2>1, SubIn, SubLength
<1>8. alone \in Seq(S) /\ Len(alone) = 1
  BY <1>1
<1> HIDE DEF front, back, alone
<1>9. front \o alone \in Seq(S) /\ Len(front \o alone) = to
  <2>1. front \o alone \in Seq(S) /\ Len(front \o alone) = Len(front) + Len(alone)
    BY <1>7, <1>8, ConcatProperties
  <2> QED
    BY <1>1, <1>7, <1>8, <2>1
<1> DEFINE fa == front \o alone
<1>91. fa \in Seq(S) /\ Len(fa) = to
  BY <1>9
<1> HIDE DEF fa
<1>10. Len(fa \o back) = n
  <2>1. Len(fa \o back) = Len(fa) + Len(back)
    BY <1>7, <1>91, ConcatProperties
  <2> QED
    BY <1>1, <1>7, <1>91, <2>1
<1>11. front \o alone \o back = fa \o back
  BY DEF fa
<1> QED
  BY <1>2, <1>6, <1>10, <1>11

-----------------------------------------------------------------------------
(* Task lists within the bound.                                             *)

Within(c) == Len(c.task) \in 0 .. TaskLimit

HoldsWithin == Within(cfg) /\ (file = NoFile \/ Within(file))

LEMMA BlankWithin == Within(Blank)
<1>1. Blank.task = <<>> /\ TaskLimit \in Nat
  BY SessionAssumption DEF Blank
<1> QED
  BY <1>1, EmptySeq DEF Within

LEMMA LoadedWithin == \A J : HoldsTasks /\ HoldsWithin => Within(Loaded(J))
<1> SUFFICES ASSUME NEW J, HoldsTasks, HoldsWithin PROVE Within(Loaded(J))
  OBVIOUS
<1>1. CASE file = NoFile
  BY <1>1, BlankWithin DEF Loaded
<1>2. CASE file # NoFile
  <2>1. Loaded(J).task = CheckTasks(J, file) /\ AreTasks(file.task) /\ Len(file.task) \in 0 .. TaskLimit
    BY <1>2, CheckedHasTasks DEF Loaded, HoldsTasks, HasTasks, HoldsWithin, Within
  <2>2. Len(CheckTasks(J, file)) \in 0 .. Len(file.task)
    BY <2>1, CheckTasksShorter
  <2> QED
    BY <2>1, <2>2, SessionAssumption DEF Within
<1> QED
  BY <1>1, <1>2

LEMMA PrepareHoldsWithin ==
    \A J \in Interfaces : \A c, run, done :
        HoldsWithin /\ HasTasks(c) /\ Within(c) /\ Prepare(J, c, run, done) => HoldsWithin'
<1> SUFFICES ASSUME NEW J \in Interfaces, NEW c, NEW run, NEW done,
                    HoldsWithin, HasTasks(c), Within(c), Prepare(J, c, run, done)
    PROVE  HoldsWithin'
  OBVIOUS
<1>1. PICK p \in EnsureAll(J, c) : (cfg' = Blank \/ cfg' = p.cfg) /\ (file' = p.cfg \/ file' = file)
  BY DEF Prepare
<1>2. IsList(J.pretask)
  BY SessionAssumption DEF IsInterface
<1>3. HasTasks(p.cfg) /\ DOMAIN p.cfg.task = DOMAIN c.task
  BY <1>2, EnsureCompletes DEF Completes
<1>4. Len(p.cfg.task) = Len(c.task)
  <2>1. /\ Len(c.task) \in Nat /\ DOMAIN c.task = 1 .. Len(c.task)
        /\ Len(p.cfg.task) \in Nat /\ DOMAIN p.cfg.task = 1 .. Len(p.cfg.task)
    BY <1>3, ListFacts DEF HasTasks, AreTasks
  <2> QED
    BY <1>3, <2>1
<1>5. Within(p.cfg)
  BY <1>4 DEF Within
<1> QED
  BY <1>1, <1>5, BlankWithin DEF HoldsWithin

LEMMA SetupWithin == IsInterface(iface) /\ Limited(iface) /\ Setup => Within(cfg')
<1> SUFFICES ASSUME IsInterface(iface), Limited(iface), Setup PROVE Within(cfg')
  OBVIOUS
<1>1. PICK x, names, tasks, levels :
          /\ IsList(names) /\ Len(names) \in 0 .. TaskLimit /\ tasks \in NewTasks(x, names)
          /\ cfg' = [Blank EXCEPT !.ctx = x, !.task = tasks, !.level = levels]
  <2>1. PICK c \in DOMAIN iface.controller, r \in DOMAIN iface.resource :
            LET x == [controller |-> c, resource |-> r]
                defaults == DefaultTasks(x)
            IN \E names \in IF defaults # <<>> THEN {defaults} ELSE ChosenTasks(x) :
               \E tasks \in NewTasks(x, names) : \E levels :
                   cfg' = [Blank EXCEPT !.ctx = x, !.task = tasks, !.level = levels]
    BY DEF Setup
  <2> DEFINE x == [controller |-> c, resource |-> r]
  <2>2. PICK names \in IF DefaultTasks(x) # <<>> THEN {DefaultTasks(x)} ELSE ChosenTasks(x) :
               \E tasks \in NewTasks(x, names) : \E levels :
                   cfg' = [Blank EXCEPT !.ctx = x, !.task = tasks, !.level = levels]
    BY <2>1
  <2> HIDE DEF x
  <2>3. IsList(DefaultTasks(x)) /\ Len(DefaultTasks(x)) \in 0 .. TaskLimit
    BY DefaultsAreLists, DefaultsWithin DEF IsInterface
  <2>4. IsList(names) /\ Len(names) \in 0 .. TaskLimit
    BY <2>2, <2>3, ChosenAreLists, ChosenWithin
  <2> QED
    BY <2>2, <2>4
<1>2. Len(tasks) = Len(names)
  BY <1>1, ConfiguredLength DEF NewTasks
<1>3. cfg'.task = tasks
  BY <1>1 DEF Blank
<1> QED
  BY <1>1, <1>2, <1>3 DEF Within

LEMMA AddWithin == HasTasks(cfg) /\ Within(cfg) /\ AddTask => Within(cfg')
<1> SUFFICES ASSUME HasTasks(cfg), Within(cfg), AddTask PROVE Within(cfg')
  OBVIOUS
<1>1. PICK names \in ChosenTasks(cfg.ctx) :
          /\ Len(cfg.task) + Len(names) <= TaskLimit
          /\ \E tasks \in NewTasks(cfg.ctx, names) : cfg' = [cfg EXCEPT !.task = cfg.task \o tasks]
  BY DEF AddTask
<1>2. PICK tasks \in NewTasks(cfg.ctx, names) : cfg' = [cfg EXCEPT !.task = cfg.task \o tasks]
  BY <1>1
<1>3. AreTasks(tasks) /\ Len(tasks) = Len(names) /\ AreTasks(cfg.task)
  BY ChosenAreLists, ConfiguredAreTasks, ConfiguredLength DEF NewTasks, HasTasks
<1>4. cfg'.task = cfg.task \o tasks
  BY <1>2, Fields DEF HasTasks
<1>5. Len(cfg.task \o tasks) = Len(cfg.task) + Len(tasks)
  <2> DEFINE S == ToSet(cfg.task) \cup ToSet(tasks)
             s == cfg.task
  <2>1. s \in Seq(S) /\ tasks \in Seq(S)
    <3>1. IsList(s) /\ IsList(tasks) /\ ToSet(s) \subseteq S /\ ToSet(tasks) \subseteq S
      BY <1>3 DEF AreTasks
    <3> HIDE DEF S, s
    <3> QED
      BY <3>1, ListFacts
  <2> HIDE DEF S, s
  <2>2. Len(s \o tasks) = Len(s) + Len(tasks)
    BY <2>1, ConcatProperties
  <2> QED
    BY <2>2 DEF s
<1>6. Len(cfg.task) \in Nat /\ Len(names) \in Nat
  BY ChosenWithin, SessionAssumption DEF Within
<1> QED
  BY <1>1, <1>3, <1>4, <1>5, <1>6, SessionAssumption DEF Within

LEMMA MoveWithin == HasTasks(cfg) /\ Within(cfg) /\ MoveTask => Within(cfg')
<1> SUFFICES ASSUME HasTasks(cfg), Within(cfg), MoveTask PROVE Within(cfg')
  OBVIOUS
<1> DEFINE s == cfg.task
<1>1. PICK from \in DOMAIN s, to \in DOMAIN s : cfg' = [cfg EXCEPT !.task = InsertAt(RemoveAt(s, from), to, s[from])]
  BY DEF MoveTask
<1>2. s \in Seq(ToSet(s))
  BY DEF IsList, HasTasks, AreTasks
<1>3. cfg'.task = InsertAt(RemoveAt(s, from), to, s[from])
  BY <1>1, Fields DEF HasTasks
<1> HIDE DEF s
<1>4. Len(cfg'.task) = Len(s)
  BY <1>2, <1>3, MovedLength
<1> QED
  BY <1>4 DEF Within, s

LEMMA DeleteWithin == HasTasks(cfg) /\ Within(cfg) /\ DeleteTask => Within(cfg')
<1> SUFFICES ASSUME HasTasks(cfg), Within(cfg), DeleteTask PROVE Within(cfg')
  OBVIOUS
<1> DEFINE s == cfg.task
           each == [i \in DOMAIN s |-> i]
           stay(V) == Only(each, V)
           left(V) == [i \in DOMAIN stay(V) |-> s[stay(V)[i]]]
<1>1. PICK gone \in (SUBSET DOMAIN s) \ {{}} : cfg' = [cfg EXCEPT !.task = left(DOMAIN s \ gone)]
  BY DEF DeleteTask
<1>2. IsList(s) /\ Len(s) \in Nat /\ DOMAIN s = 1 .. Len(s)
  BY ListFacts DEF HasTasks, AreTasks
<1>3. each \in Seq(1 .. Len(s)) /\ Len(each) = Len(s)
  BY <1>2
<1>4. cfg'.task = left(DOMAIN s \ gone)
  BY <1>1, Fields DEF HasTasks
<1> HIDE DEF each
<1>5. ASSUME NEW V PROVE Len(left(V)) \in 0 .. Len(s)
  <2> DEFINE t == stay(V)
             l == left(V)
  <2>1. t \in Seq(1 .. Len(s)) /\ Len(t) \in 0 .. Len(s)
    BY <1>3, OnlyIsShorter, OnlyRange
  <2> HIDE DEF stay
  <2>2. DOMAIN t = 1 .. Len(t) /\ Len(t) \in Nat
    BY <2>1
  <2>3. l = [i \in 1 .. Len(t) |-> l[i]]
    BY <2>2
  <2> HIDE DEF l
  <2>4. Len(l) = Len(t)
    BY <2>2, <2>3, FunctionIsList
  <2> QED
    BY <2>1, <2>4 DEF l
<1> HIDE DEF left
<1>6. Len(cfg'.task) \in 0 .. Len(s)
  BY <1>4, <1>5
<1> QED
  BY <1>2, <1>6, SessionAssumption DEF Within, s

LEMMA PresetWithin == HasTasks(cfg) /\ IsInterface(iface) /\ Limited(iface) /\ ApplyPreset => Within(cfg')
<1> SUFFICES ASSUME HasTasks(cfg), IsInterface(iface), Limited(iface), ApplyPreset PROVE Within(cfg')
  OBVIOUS
<1> DEFINE known(p) == {t \in ToSet(iface.preset[p]) : KnownTask(iface, t)}
           enabled(p) == Only(iface.preset[p], known(p))
           names(p) == [i \in DOMAIN enabled(p) |-> enabled(p)[i].name]
<1>1. PICK p \in DOMAIN iface.preset :
          \E options : \E tasks \in Configured(names(p), options) :
              cfg' = [cfg EXCEPT !.task = CheckTasks(iface, [cfg EXCEPT !.task = tasks])]
  BY DEF ApplyPreset
<1>2. IsList(enabled(p)) /\ Len(enabled(p)) \in 0 .. TaskLimit
  <2>1. iface.preset[p] \in Seq(ToSet(iface.preset[p])) /\ Len(iface.preset[p]) <= TaskLimit
    BY DEF IsInterface, IsList, Limited
  <2> HIDE DEF known
  <2>2. Len(enabled(p)) \in 0 .. Len(iface.preset[p]) /\ Len(iface.preset[p]) \in Nat
    BY <2>1, OnlyIsShorter
  <2>3. IsList(enabled(p))
    BY <2>1, OnlyRange, SeqIsList
  <2> QED
    BY <2>1, <2>2, <2>3, SessionAssumption
<1> HIDE DEF enabled
<1>3. IsList(names(p)) /\ Len(names(p)) = Len(enabled(p))
  <2>1. Len(enabled(p)) \in Nat /\ DOMAIN enabled(p) = 1 .. Len(enabled(p))
    BY <1>2, ListFacts
  <2> DEFINE n == names(p)
  <2>2. n = [i \in 1 .. Len(enabled(p)) |-> n[i]]
    BY <2>1
  <2> HIDE DEF n
  <2> QED
    BY <2>1, <2>2, FunctionIsList DEF n
<1> HIDE DEF names
<1>4. PICK options : \E tasks \in Configured(names(p), options) :
          cfg' = [cfg EXCEPT !.task = CheckTasks(iface, [cfg EXCEPT !.task = tasks])]
  BY <1>1
<1>5. PICK tasks \in Configured(names(p), options) :
          cfg' = [cfg EXCEPT !.task = CheckTasks(iface, [cfg EXCEPT !.task = tasks])]
  BY <1>4
<1>6. AreTasks(tasks) /\ Len(tasks) = Len(names(p))
  BY <1>3, ConfiguredAreTasks, ConfiguredLength
<1> DEFINE c == [cfg EXCEPT !.task = tasks]
<1>7. IsRecord(c) /\ c.task = tasks
  BY Fields DEF HasTasks
<1>9. cfg' = [cfg EXCEPT !.task = CheckTasks(iface, c)]
  BY <1>5
<1> HIDE DEF c
<1>8. Len(CheckTasks(iface, c)) \in 0 .. Len(tasks)
  BY <1>6, <1>7, CheckTasksShorter
<1>10. cfg'.task = CheckTasks(iface, c)
  BY <1>9, Fields DEF HasTasks
<1> QED
  BY <1>2, <1>3, <1>6, <1>8, <1>10, SessionAssumption DEF Within

LEMMA SetWithin ==
    \A list : HasTasks(cfg) /\ Within(cfg) => \A i \in DOMAIN cfg.task : SetOptions(i, list) => Within(cfg')
<1> SUFFICES ASSUME NEW list, HasTasks(cfg), Within(cfg), NEW i \in DOMAIN cfg.task, SetOptions(i, list) PROVE Within(cfg')
  OBVIOUS
<1> DEFINE tasks == [cfg.task EXCEPT ![i].option = list]
<1>1. cfg' = [cfg EXCEPT !.task = tasks]
  BY DEF SetOptions
<1>2. AreTasks(tasks) /\ DOMAIN tasks = DOMAIN cfg.task
  BY TasksChange DEF HasTasks
<1> HIDE DEF tasks
<1>3. cfg'.task = tasks
  BY <1>1, Fields DEF HasTasks
<1>4. /\ Len(cfg.task) \in Nat /\ DOMAIN cfg.task = 1 .. Len(cfg.task)
      /\ Len(tasks) \in Nat /\ DOMAIN tasks = 1 .. Len(tasks)
  BY <1>2, ListFacts DEF HasTasks, AreTasks
<1>5. Len(tasks) = Len(cfg.task)
  BY <1>2, <1>4
<1> QED
  BY <1>3, <1>5 DEF Within

LEMMA MenuWithin ==
    HasTasks(cfg) /\ IsInterface(iface) /\ Limited(iface) /\ Within(cfg) /\ Menu => Within(cfg')
<1> SUFFICES ASSUME HasTasks(cfg), IsInterface(iface), Limited(iface), Within(cfg), Menu PROVE Within(cfg')
  OBVIOUS
<1>1. CASE SelectController \/ SelectResource
  <2>1. \E x : cfg' = [cfg EXCEPT !.ctx = x]
    BY <1>1 DEF SelectController, SelectResource
  <2>2. cfg'.task = cfg.task
    BY <2>1, Fields DEF HasTasks
  <2> QED
    BY <2>2 DEF Within
<1>2. CASE OpenEdit \/ CloseEdit
  BY <1>2 DEF OpenEdit, CloseEdit, Within
<1>3. CASE ConfigureTask \/ EditOption
  <2>1. \E i \in DOMAIN cfg.task : \E list : SetOptions(i, list)
    BY <1>3 DEF ConfigureTask, EditOption
  <2> QED
    BY <2>1, SetWithin
<1> QED
  BY <1>1, <1>2, <1>3, AddWithin, MoveWithin, DeleteWithin, PresetWithin DEF Menu

-----------------------------------------------------------------------------
(* Types.                                                                   *)

Modes == {"off", "setup", "menu", "edit", "running", "once"}

HoldsMode ==
    /\ mode \in Modes /\ elevated \in BOOLEAN
    /\ mode \in {"off", "setup"} => cfg = Blank

LEMMA PrepareHoldsMode ==
    \A J, c : /\ Prepare(J, c, "running", "menu") => mode' \in {"running", "menu"}
              /\ Prepare(J, c, "once", "off") => mode' = "once" \/ (mode' = "off" /\ cfg' = Blank)
  BY DEF Prepare

LEMMA MenuMode == Menu => mode' \in {"menu", "edit"} /\ elevated' = elevated
<1> USE DEF SelectController, SelectResource, AddTask, MoveTask, DeleteTask, ApplyPreset, OpenEdit,
            ConfigureTask, EditOption, CloseEdit, SetOptions, Complete, Incomplete, Back
<1> QED
  BY DEF Menu

LEMMA ModeStep == HoldsMode /\ [Next]_vars => HoldsMode'
<1> SUFFICES ASSUME HoldsMode, [Next]_vars PROVE HoldsMode'
  OBVIOUS
<1> USE DEF HoldsMode, Modes
<1>1. CASE Start
  BY <1>1 DEF Start, Loaded
<1>2. CASE Leave
  BY <1>2 DEF Leave
<1>3. CASE Setup
  BY <1>3 DEF Setup, Complete, Back
<1>4. CASE Menu
  BY <1>4, MenuMode
<1>5. CASE Run
  BY <1>5, PrepareHoldsMode DEF Run
<1>6. CASE RunElevated
  BY <1>6 DEF RunElevated
<1>7. CASE RunEnds
  BY <1>7 DEF RunEnds, Complete, Incomplete, Back
<1>8. CASE RunDirectly
  <2>1. UNCHANGED elevated
    BY <1>8 DEF RunDirectly
  <2>2. CASE Prepare(iface', Loaded(iface'), "once", "off")
    BY <2>1, <2>2, PrepareHoldsMode
  <2>3. CASE UNCHANGED <<mode, cfg>>
    BY <2>1, <2>3
  <2> QED
    BY <1>8, <2>2, <2>3 DEF RunDirectly
<1>9. CASE UNCHANGED vars
  BY <1>9 DEF vars
<1> QED
  BY <1>1, <1>2, <1>3, <1>4, <1>5, <1>6, <1>7, <1>8, <1>9 DEF Next

LEMMA WithinStep ==
    /\ \A J \in Interfaces : Limited(J)
    /\ HoldsTasks /\ HoldsWithin /\ [Next]_vars
    => HoldsWithin'
<1> SUFFICES ASSUME \A J \in Interfaces : Limited(J), HoldsTasks, HoldsWithin, [Next]_vars PROVE HoldsWithin'
  OBVIOUS
<1>1. /\ iface \in Interfaces /\ HasTasks(cfg) /\ IsInterface(iface) /\ Limited(iface)
      /\ Within(cfg) /\ (file = NoFile \/ Within(file))
  BY SessionAssumption DEF HoldsTasks, HoldsWithin
<1>2. CASE Start
  BY <1>1, <1>2, LoadedWithin DEF Start, HoldsWithin
<1>3. CASE Leave
  BY <1>1, <1>3, BlankWithin DEF Leave, HoldsWithin
<1>4. CASE Setup
  BY <1>1, <1>4, SetupWithin DEF Setup, Complete, Back, Save, HoldsWithin
<1>5. CASE Menu
  BY <1>1, <1>5, MenuWithin, MenuSaves DEF HoldsWithin
<1>6. CASE Run
  BY <1>1, <1>6, PrepareHoldsWithin DEF Run
<1>7. CASE RunElevated
  BY <1>1, <1>7 DEF RunElevated, HoldsWithin
<1>8. CASE RunEnds
  BY <1>1, <1>8 DEF RunEnds, Complete, Incomplete, Back, Save, HoldsWithin
<1>9. CASE RunDirectly
  <2>1. iface' \in Interfaces /\ HasTasks(Loaded(iface')) /\ Within(Loaded(iface'))
    BY <1>9, LoadedHasTasks, LoadedWithin DEF RunDirectly
  <2>2. CASE Prepare(iface', Loaded(iface'), "once", "off")
    BY <2>1, <2>2, PrepareHoldsWithin
  <2>3. CASE file' \in {Loaded(iface'), file} /\ UNCHANGED <<mode, cfg>>
    BY <1>1, <2>1, <2>3 DEF HoldsWithin
  <2> QED
    BY <1>9, <2>2, <2>3 DEF RunDirectly
<1>10. CASE UNCHANGED vars
  BY <1>1, <1>10 DEF vars, HoldsWithin
<1> QED
  BY <1>2, <1>3, <1>4, <1>5, <1>6, <1>7, <1>8, <1>9, <1>10 DEF Next

LEMMA SoundIsTyped == \A list : SoundList(list) => \A i \in DOMAIN list : IsEntry(list[i])
<1> SUFFICES ASSUME NEW list, SoundList(list), NEW i \in DOMAIN list PROVE IsEntry(list[i])
  OBVIOUS
<1> DEFINE e == list[i]
<1>1. e \in ToSet(list)
  BY DEF ToSet
<1>2. Sound(e)
  BY <1>1 DEF SoundList
<1> HIDE DEF e
<1>3. IsEntry(e)
  BY <1>2 DEF Sound, IsEntry, TextsInUse
<1> QED
  BY <1>3 DEF e

LEMMA SoundIsConfiguration == \A c : HasSound(c) /\ Within(c) => IsConfiguration(c)
<1> SUFFICES ASSUME NEW c, HasSound(c), Within(c) PROVE IsConfiguration(c)
  OBVIOUS
<1>1. /\ DOMAIN c.level = Levels
      /\ \A l \in Levels : SoundList(c.level[l])
      /\ \A p \in DOMAIN c.pretask : SoundList(c.pretask[p])
  BY DEF HasSound, SoundLevels, SoundPretasks
<1>2. \A t \in DOMAIN c.task : SoundList(c.task[t].option)
  <2>1. \A t \in DOMAIN c.task : c.task[t] \in ToSet(c.task)
    BY DEF ToSet
  <2> QED
    BY <2>1 DEF HasSound, SoundTasks, IsSoundTask
<1>3. Len(c.task) <= TaskLimit
  BY DEF Within
<1> HIDE DEF IsEntry
<1> QED
  BY <1>1, <1>2, <1>3, SoundIsTyped DEF IsConfiguration

\* Every configuration in memory and in the file is one in every state, with
\* any interface.json files that can be prompted for and that bring no longer
\* lists of tasks than the bound; and before a start there is none in memory.
THEOREM TypeCorrect ==
    (\A J \in Interfaces : Prompts(J) /\ Limited(J)) => (Spec => []TypeOK)
<1> SUFFICES ASSUME \A J \in Interfaces : Prompts(J) /\ Limited(J) PROVE Spec => []TypeOK
  OBVIOUS
<1>1. Init => HoldsSound /\ RunsRead /\ HoldsWithin /\ HoldsMode
  BY BlankHasSound, BlankWithin DEF Init, HoldsSound, RunsRead, Running, HoldsWithin, HoldsMode, Modes
<1>2. HoldsTasks /\ HoldsSound /\ RunsRead /\ [Next]_vars => HoldsSound' /\ RunsRead'
  BY SoundStep DEF HoldsTasks
<1>3. HoldsTasks /\ HoldsWithin /\ HoldsMode /\ [Next]_vars => HoldsWithin' /\ HoldsMode'
  BY WithinStep, ModeStep
<1>4. HoldsTasks /\ HoldsSound /\ HoldsWithin /\ HoldsMode => TypeOK
  BY SoundIsConfiguration DEF HoldsTasks, HoldsSound, HoldsWithin, HoldsMode, Modes, TypeOK
<1> QED
  BY <1>1, <1>2, <1>3, <1>4, TasksAreHeld, PTL DEF Spec

-----------------------------------------------------------------------------
(* What the next start makes of what a run has saved.                       *)

TasksKnown(J, c) == \A t \in ToSet(c.task) : KnownTask(J, t)

\* The lists of pretasks are those of known ones, with nothing wrong in them.
PretasksKnown(J, c) == \A id \in DOMAIN c.pretask : \E p \in ToSet(J.pretask) : p.id = id

PretasksLast(J, c) == \A id \in DOMAIN c.pretask : \A e \in ToSet(c.pretask[id]) : Lasts(J, e)

ListMeaning(J, list) ==
    [i \in DOMAIN list |-> IF list[i].name \in DOMAIN J.option THEN Read(J.option[list[i].name], list[i]) ELSE list[i]]

LEMMA MeaningIs ==
    \A J, c : Meaning(J, c) =
        [task    |-> [i \in DOMAIN c.task |-> ConfigTask(c.task[i].name, ListMeaning(J, c.task[i].option))],
         level   |-> [l \in Levels |-> ListMeaning(J, c.level[l])],
         pretask |-> [p \in DOMAIN c.pretask |-> ListMeaning(J, c.pretask[p])]]
  BY DEF Meaning, ListMeaning

\* The check of a level keeps what such lists mean.
LEMMA LevelMeans ==
    \A J, list : IsOptions(J.option) /\ SoundList(list) /\ (\A e \in ToSet(list) : Lasts(J, e)) =>
        ListMeaning(J, CheckLevel(J, list)) = ListMeaning(J, list)
<1> SUFFICES ASSUME NEW J, NEW list, IsOptions(J.option), SoundList(list), \A e \in ToSet(list) : Lasts(J, e)
    PROVE  ListMeaning(J, CheckLevel(J, list)) = ListMeaning(J, list)
  OBVIOUS
<1> DEFINE tidied == [i \in DOMAIN list |-> Tidied(J, list[i])]
<1>1. CheckLevel(J, list) = tidied
  BY LevelLasts
<1>2. \A i \in DOMAIN list : list[i] \in ToSet(list)
  BY DEF ToSet
<1>3. DOMAIN tidied = DOMAIN list /\ \A i \in DOMAIN list : tidied[i] = Tidied(J, list[i])
  OBVIOUS
<1> HIDE DEF tidied
<1>4. ASSUME NEW i \in DOMAIN list
      PROVE  /\ tidied[i].name = list[i].name /\ list[i].name \in DOMAIN J.option
             /\ Read(J.option[tidied[i].name], tidied[i]) = Read(J.option[list[i].name], list[i])
  <2>1. Lasts(J, list[i])
    BY <1>2
  <2>2. Tidied(J, list[i]).name = list[i].name /\ Reading(J, Tidied(J, list[i])) = Reading(J, list[i])
    BY <2>1, TidiedIs
  <2> QED
    BY <1>3, <2>1, <2>2 DEF Reading, Lasts
<1>5. ListMeaning(J, tidied) = ListMeaning(J, list)
  BY <1>3, <1>4 DEF ListMeaning
<1> QED
  BY <1>1, <1>5

\* check_task keeps the tasks that apply as a run has completed them, and the
\* others as they are.
LEMMA TasksKept ==
    \A J, c :
        /\ IsInterface(J) /\ ValidInterface(J) /\ AreTasks(c.task) /\ TasksKnown(J, c) /\ AllRead(J, c)
        => CheckTasks(J, c) = c.task
<1> SUFFICES ASSUME NEW J, NEW c,
                    IsInterface(J), ValidInterface(J), AreTasks(c.task), TasksKnown(J, c), AllRead(J, c)
    PROVE  CheckTasks(J, c) = c.task
  OBVIOUS
<1> DEFINE tasks == c.task
           V == {t \in ToSet(tasks) : KnownTask(J, t)}
           known == Only(tasks, V)
           checked == [i \in DOMAIN known |-> [known[i] EXCEPT !.option = CheckTask(J, c.ctx, known[i].name, @)]]
<1>1. CheckTasks(J, c) = checked
  BY DEF CheckTasks
<1>2. IsList(tasks) /\ Len(tasks) \in Nat /\ DOMAIN tasks = 1 .. Len(tasks)
      /\ \A i \in 1 .. Len(tasks) : tasks[i] \in ToSet(tasks) /\ IsTask(tasks[i])
  BY ListFacts DEF AreTasks
<1>3. V = ToSet(tasks)
  BY DEF TasksKnown
<1>4. known = tasks
  <2>1. tasks \in Seq(V)
    BY <1>2, <1>3 DEF IsList
  <2> HIDE DEF V, tasks
  <2> QED
    BY <2>1, OnlyAll
<1> HIDE DEF known, V
<1>5. GoesThrough(J, c, Places(J, c))
  BY <1>2, PlacesGo DEF IsInterface
<1>6. ASSUME NEW i \in DOMAIN tasks
      PROVE  [tasks[i] EXCEPT !.option = CheckTask(J, c.ctx, tasks[i].name, @)] = tasks[i]
  <2> DEFINE t == tasks[i]
  <2>1. KnownTask(J, t) /\ t = ConfigTask(t.name, t.option)
    BY <1>2 DEF TasksKnown, IsTask
  <2>2. CheckTask(J, c.ctx, t.name, t.option) = t.option
    <3>1. CASE Fits(J.task[t.name], c.ctx)
      <4>1. PICK place \in ToSet(Places(J, c)) : place.kind = "task" /\ place.at = i
        BY <1>5, <2>1, <3>1 DEF GoesThrough, ActiveTask
      <4>2. ReadAt(J, c, place)
        BY DEF AllRead
      <4>3. ListAt(c, place) = t.option /\ RootsAt(J, c, place) = J.task[t.name].roots
        BY <4>1 DEF ListAt, RootsAt
      <4>4. AsFilled(J, c.ctx, t.option, J.task[t.name].roots)
        BY <4>2, <4>3 DEF ReadAt
      <4>5. IsOptions(J.option) /\ ToSet(J.task[t.name].roots) \subseteq DOMAIN J.option
        BY <2>1 DEF KnownTask, IsInterface, ValidInterface
      <4> QED
        BY <4>4, <4>5, AsFilledIsKept
    <3>2. CASE ~Fits(J.task[t.name], c.ctx)
      BY <3>2 DEF CheckTask
    <3> QED
      BY <3>1, <3>2
  <2> HIDE DEF t
  <2>3. [t EXCEPT !.option = CheckTask(J, c.ctx, t.name, @)] = t
    BY <2>1, <2>2 DEF ConfigTask
  <2> QED
    BY <2>3 DEF t
<1>7. checked = [i \in DOMAIN tasks |-> tasks[i]]
  BY <1>4, <1>6
<1>8. tasks = [i \in DOMAIN tasks |-> tasks[i]]
  BY <1>2 DEF IsList
<1> QED
  BY <1>1, <1>7, <1>8

\* The lists of the levels mean what they meant.
LEMMA LevelsKept ==
    \A J, c :
        /\ IsInterface(J) /\ HasSound(c) /\ AllRead(J, c)
        /\ KnownResource(J, c.ctx) /\ KnownController(J, c.ctx)
        => \A l \in Levels : ListMeaning(J, CheckLevel(J, c.level[l])) = ListMeaning(J, c.level[l])
<1> SUFFICES ASSUME NEW J, NEW c, IsInterface(J), HasSound(c), AllRead(J, c),
                    KnownResource(J, c.ctx), KnownController(J, c.ctx), NEW l \in Levels
    PROVE  ListMeaning(J, CheckLevel(J, c.level[l])) = ListMeaning(J, c.level[l])
  OBVIOUS
<1>1. GoesThrough(J, c, Places(J, c))
  BY PlacesGo DEF IsInterface, HasSound, SoundTasks
<1>2. l \in KnownLevels(J, c.ctx)
  BY DEF KnownLevels
<1>3. PICK place \in ToSet(Places(J, c)) : place.kind = "level" /\ place.at = l
  BY <1>1, <1>2 DEF GoesThrough
<1>4. ListAt(c, place) = c.level[l]
  BY <1>3 DEF ListAt
<1>5. \A e \in ToSet(c.level[l]) : Lasts(J, e)
  BY <1>4 DEF AllRead, ReadAt, AsFilled
<1>6. SoundList(c.level[l]) /\ IsOptions(J.option)
  BY DEF HasSound, SoundLevels, IsInterface
<1> QED
  BY <1>5, <1>6, LevelMeans

\* So a start takes all of such a configuration.
LEMMA StartKeeps ==
    \A J, c :
        /\ IsInterface(J) /\ ValidInterface(J) /\ HasSound(c) /\ AllRead(J, c)
        /\ KnownResource(J, c.ctx) /\ KnownController(J, c.ctx)
        /\ TasksKnown(J, c) /\ PretasksKnown(J, c) /\ PretasksLast(J, c)
        => Meaning(J, CheckConfiguration(J, c)) = Meaning(J, c)
<1> SUFFICES ASSUME NEW J, NEW c, IsInterface(J), ValidInterface(J), HasSound(c), AllRead(J, c),
                    KnownResource(J, c.ctx), KnownController(J, c.ctx),
                    TasksKnown(J, c), PretasksKnown(J, c), PretasksLast(J, c)
    PROVE  Meaning(J, CheckConfiguration(J, c)) = Meaning(J, c)
  OBVIOUS
<1> DEFINE d1 == [c EXCEPT !.task = CheckTasks(J, c)]
           level == [l \in Levels |-> CheckLevel(J, d1.level[l])]
           d2 == [d1 EXCEPT !.level = level]
           lists == CheckPretasks(J, c)
           e == [d2 EXCEPT !.pretask = lists]
<1>1. CheckConfiguration(J, c) = e
  BY DEF CheckConfiguration
<1>2. CheckTasks(J, c) = c.task
  BY SoundHasTasks, TasksKept DEF HasTasks
<1>3. IsRecord(d1) /\ d1.task = c.task /\ d1.level = c.level /\ d1.pretask = c.pretask
  BY <1>2, Fields DEF HasSound
<1> HIDE DEF d1
<1>4. \A l \in Levels : level[l] = CheckLevel(J, c.level[l])
  BY <1>3
<1> HIDE DEF level
<1>5. IsRecord(d2) /\ d2.task = c.task /\ d2.level = level
  BY <1>3, Fields
<1> HIDE DEF d2
<1>6. IsRecord(e) /\ e.task = c.task /\ e.level = level /\ e.pretask = lists
  BY <1>5, Fields
<1> HIDE DEF e
<1>7. \A l \in Levels : ListMeaning(J, level[l]) = ListMeaning(J, c.level[l])
  BY <1>4, LevelsKept
<1>8. DOMAIN lists = DOMAIN c.pretask /\ \A p \in DOMAIN c.pretask : lists[p] = CheckLevel(J, c.pretask[p])
  <2> DEFINE known == {p \in DOMAIN c.pretask : \E i \in DOMAIN J.pretask : J.pretask[i].id = p}
  <2>1. lists = [p \in known |-> CheckLevel(J, c.pretask[p])]
    BY DEF CheckPretasks
  <2>2. known = DOMAIN c.pretask
    BY DEF PretasksKnown, ToSet
  <2> HIDE DEF known, lists
  <2> QED
    BY <2>1, <2>2
<1> HIDE DEF lists
<1>9. ASSUME NEW p \in DOMAIN c.pretask PROVE ListMeaning(J, lists[p]) = ListMeaning(J, c.pretask[p])
  <2>1. SoundList(c.pretask[p]) /\ (\A x \in ToSet(c.pretask[p]) : Lasts(J, x)) /\ IsOptions(J.option)
    BY DEF HasSound, SoundPretasks, PretasksLast, IsInterface
  <2>2. ListMeaning(J, CheckLevel(J, c.pretask[p])) = ListMeaning(J, c.pretask[p])
    BY <2>1, LevelMeans
  <2> QED
    BY <1>8, <2>2
<1> DEFINE tasks(x) == [i \in DOMAIN x.task |-> ConfigTask(x.task[i].name, ListMeaning(J, x.task[i].option))]
           levels(x) == [l \in Levels |-> ListMeaning(J, x.level[l])]
           pretasks(x) == [p \in DOMAIN x.pretask |-> ListMeaning(J, x.pretask[p])]
<1>10. tasks(e) = tasks(c)
  BY <1>6
<1>11. levels(e) = levels(c)
  BY <1>6, <1>7
<1>12. pretasks(e) = pretasks(c)
  BY <1>6, <1>8, <1>9
<1>13. \A x : Meaning(J, x) = [task |-> tasks(x), level |-> levels(x), pretask |-> pretasks(x)]
  BY MeaningIs
<1> HIDE DEF tasks, levels, pretasks
<1> QED
  BY <1>1, <1>10, <1>11, <1>12, <1>13

-----------------------------------------------------------------------------
(* The saved lists of the pretasks, through updates.                        *)

SameOptions == \A J, K \in Interfaces : J.option = K.option

\* Every interface.json knows the pretasks, and if all have the same options,
\* nothing is wrong with the lists by any of them.
Stays(c) == \A J \in Interfaces : PretasksKnown(J, c) /\ (SameOptions => PretasksLast(J, c))

LEMMA StaysAlike == \A c, d : Stays(c) /\ d.pretask = c.pretask => Stays(d)
  BY DEF Stays, PretasksKnown, PretasksLast

LEMMA BlankStays == Stays(Blank)
<1>1. Blank.pretask = [p \in {} |-> <<>>]
  BY DEF Blank
<1>2. DOMAIN Blank.pretask = {}
  BY <1>1
<1> QED
  BY <1>2 DEF Stays, PretasksKnown, PretasksLast

LEMMA CheckedStays ==
    \A J \in Interfaces : \A c : HasSound(c) /\ Stays(c) => Stays(CheckConfiguration(J, c))
<1> SUFFICES ASSUME NEW J \in Interfaces, NEW c, HasSound(c), Stays(c) PROVE Stays(CheckConfiguration(J, c))
  OBVIOUS
<1> DEFINE d == CheckConfiguration(J, c)
           lists == CheckPretasks(J, c)
<1>1. d.pretask = c.pretask \/ d.pretask = lists
  BY CheckedPretasks DEF HasSound
<1>2. \A id \in DOMAIN lists : id \in DOMAIN c.pretask /\ lists[id] = CheckLevel(J, c.pretask[id])
  BY CheckedListsAre
<1> HIDE DEF d, lists
<1>3. ASSUME d.pretask = lists PROVE Stays(d)
  <2>1. ASSUME NEW K \in Interfaces PROVE PretasksKnown(K, d)
    BY <1>2, <1>3 DEF Stays, PretasksKnown
  <2>2. ASSUME NEW K \in Interfaces, SameOptions, NEW id \in DOMAIN lists, NEW e \in ToSet(lists[id])
        PROVE  Lasts(K, e)
    <3> DEFINE list == c.pretask[id]
               tidied == [i \in DOMAIN list |-> Tidied(J, list[i])]
    <3>1. SoundList(list) /\ (\A x \in ToSet(list) : Lasts(J, x)) /\ IsOptions(J.option)
      BY <1>2, <2>2, SessionAssumption DEF HasSound, SoundPretasks, Stays, PretasksLast, IsInterface
    <3>2. lists[id] = tidied
      BY <1>2, <3>1, LevelLasts
    <3>3. PICK i \in DOMAIN list : e = Tidied(J, list[i])
      BY <2>2, <3>2 DEF ToSet
    <3>4. list[i] \in ToSet(list)
      BY DEF ToSet
    <3>5. Lasts(J, e)
      BY <3>1, <3>3, <3>4, TidiedIs
    <3>6. K.option = J.option
      BY <2>2 DEF SameOptions
    <3> QED
      BY <3>5, <3>6 DEF Lasts
  <2> QED
    BY <1>3, <2>1, <2>2 DEF Stays, PretasksLast
<1>4. ASSUME d.pretask = c.pretask PROVE Stays(d)
  BY <1>4, StaysAlike
<1>5. Stays(d)
  BY <1>1, <1>3, <1>4
<1> QED
  BY <1>5 DEF d

\* The completion of a place.
SoundLists(c) == IsRecord(c) /\ SoundPretasks(c.pretask)

LEMMA PlaceStays ==
    \A J \in Interfaces : \A d, place :
        /\ PretasksStay /\ AsksAll(J) /\ SoundLists(d) /\ Stays(d)
        /\ place.kind \in {"level", "task", "pretask"}
        /\ place.kind = "pretask" => place.at \in ToSet(J.pretask)
        => \A p \in EnsurePlace(J, d, place) : SoundLists(p.cfg) /\ Stays(p.cfg)
<1> SUFFICES ASSUME NEW J \in Interfaces, NEW d, NEW place,
                    PretasksStay, AsksAll(J), SoundLists(d), Stays(d),
                    place.kind \in {"level", "task", "pretask"},
                    place.kind = "pretask" => place.at \in ToSet(J.pretask),
                    NEW p \in EnsurePlace(J, d, place)
    PROVE  SoundLists(p.cfg) /\ Stays(p.cfg)
  OBVIOUS
<1>1. CASE place.kind \in {"level", "task"}
  <2>1. IsRecord(p.cfg) /\ p.cfg.pretask = d.pretask
    BY <1>1, OtherPlaces DEF SoundLists
  <2> QED
    BY <2>1, StaysAlike DEF SoundLists
<1>2. CASE place.kind = "pretask"
  <2> DEFINE t == place.at
             stored == IF t.id \in DOMAIN d.pretask THEN d.pretask[t.id] ELSE <<>>
             ways(how) == Ensured(J, d.ctx, t.roots, stored, how)
  <2>1. PICK q \in PretaskOutcomes(J, d, t) : p.cfg = d \/ p.cfg = WithPretask(d, t.id, q.out)
    BY <1>2, PretaskPlace
  <2>2. PretaskOutcomes(J, d, t) = ways("auto")
    BY DEF PretaskOutcomes
  <2>3. t \in ToSet(J.pretask)
    BY <1>2
  <2> HIDE DEF t
  <2>4. IsInterface(J) /\ ValidInterface(J) /\ IsNames(t.roots)
    BY <2>3, SessionAssumption DEF IsInterface
  <2>5. SoundList(stored) /\ (SameOptions => \A e \in ToSet(stored) : Lasts(J, e))
    <3>1. CASE t.id \in DOMAIN d.pretask
      BY <3>1 DEF SoundLists, SoundPretasks, Stays, PretasksLast
    <3>2. CASE t.id \notin DOMAIN d.pretask
      BY <3>2, NothingIsSound DEF ToSet
    <3> QED
      BY <3>1, <3>2
  <2> HIDE DEF stored
  <2>6. \A how : \A r \in ways(how) :
            SoundList(r.out) /\ ((\A e \in ToSet(stored) : Lasts(J, e)) => \A e \in ToSet(r.out) : Lasts(J, e))
    BY <2>4, <2>5, EnsuredAsFilled
  <2>7. \A r \in ways("auto") :
            SoundList(r.out) /\ ((\A e \in ToSet(stored) : Lasts(J, e)) => \A e \in ToSet(r.out) : Lasts(J, e))
    BY ONLY <2>6
  <2> HIDE DEF ways
  <2>8. SoundList(q.out) /\ (SameOptions => \A e \in ToSet(q.out) : Lasts(J, e))
    BY <2>1, <2>2, <2>5, <2>7
  <2> DEFINE e == WithPretask(d, t.id, q.out)
  <2>9. /\ IsRecord(e) /\ DOMAIN e.pretask = DOMAIN d.pretask \cup {t.id} /\ e.pretask[t.id] = q.out
        /\ \A r \in DOMAIN d.pretask : r # t.id => e.pretask[r] = d.pretask[r]
    BY WithPretaskIs DEF SoundLists
  <2>10. p.cfg = d \/ p.cfg = e
    BY <2>1
  <2> HIDE DEF e
  <2>11. SoundLists(e)
    BY <2>8, <2>9 DEF SoundLists, SoundPretasks
  <2>12. ASSUME NEW K \in Interfaces PROVE PretasksKnown(K, e)
    <3>1. \E x \in ToSet(K.pretask) : x.id = t.id
      BY <2>3 DEF PretasksStay
    <3> QED
      BY <2>9, <3>1 DEF Stays, PretasksKnown
  <2>13. ASSUME NEW K \in Interfaces, SameOptions PROVE PretasksLast(K, e)
    <3>1. \A x : Lasts(J, x) <=> Lasts(K, x)
      BY <2>13 DEF SameOptions, Lasts
    <3>2. \A x \in ToSet(q.out) : Lasts(K, x)
      BY <2>8, <2>13, <3>1
    <3> QED
      BY <2>9, <2>13, <3>2 DEF Stays, PretasksLast
  <2> QED
    BY <2>10, <2>11, <2>12, <2>13 DEF Stays
<1> QED
  BY <1>1, <1>2

LEMMA EnsureStays ==
    \A J \in Interfaces : \A c : PretasksStay /\ AsksAll(J) /\ HasSound(c) /\ Stays(c) =>
        \A p \in EnsureAll(J, c) : Stays(p.cfg)
<1> SUFFICES ASSUME NEW J \in Interfaces, NEW c, PretasksStay, AsksAll(J), HasSound(c), Stays(c)
    PROVE  \A p \in EnsureAll(J, c) : Stays(p.cfg)
  OBVIOUS
<1> DEFINE places == Places(J, c)
           M == Len(places)
<1>1. /\ IsList(places)
      /\ \A place \in ToSet(places) :
             /\ place.kind \in {"level", "task", "pretask"}
             /\ place.kind = "pretask" => place.at \in ToSet(J.pretask)
  BY PlacesAreActive, SessionAssumption DEF IsInterface, HasSound, SoundTasks
<1> HIDE DEF places
<1>2. M \in Nat /\ \A n \in 1 .. M : places[n] \in ToSet(places)
  BY <1>1, ListFacts
<1>3. PICK f : /\ EnsureEach(J, c, places) = f[M]
               /\ f[0] = {[cfg |-> c, ok |-> TRUE]}
               /\ \A n \in 1 .. M : f[n] = More(J, places[n], f[n - 1])
  BY ONLY <1>2, EnsureEachGoes
<1> HIDE DEF M
<1> DEFINE Good(x) == SoundLists(x) /\ Stays(x)
           S == {n \in 0 .. M : \A p \in f[n] : Good(p.cfg)}
<1>4. 0 \in S
  <2>1. Good(c)
    BY DEF HasSound, SoundLists
  <2> HIDE DEF Good
  <2> QED
    BY <1>2, <1>3, <2>1
<1>5. ASSUME NEW n \in Nat, n < M, n \in S PROVE n + 1 \in S
  <2>1. n + 1 \in 1 .. M /\ n + 1 \in 0 .. M /\ (n + 1) - 1 = n
    BY <1>2, <1>5
  <2>2. f[n + 1] = More(J, places[n + 1], f[n])
    BY <1>3, <2>1
  <2>3. ASSUME NEW p \in f[n + 1] PROVE Good(p.cfg)
    <3>1. PICK q \in f[n] : p \in (IF q.ok THEN EnsurePlace(J, q.cfg, places[n + 1]) ELSE {q})
      BY <2>2 DEF More
    <3>2. Good(q.cfg)
      BY <1>5
    <3>3. CASE q.ok
      <4>1. p \in EnsurePlace(J, q.cfg, places[n + 1]) /\ places[n + 1] \in ToSet(places)
        BY <1>2, <2>1, <3>1, <3>3
      <4> QED
        BY <1>1, <3>2, <4>1, PlaceStays
    <3>4. CASE ~q.ok
      BY <3>1, <3>2, <3>4
    <3> QED
      BY <3>3, <3>4
  <2> HIDE DEF Good
  <2> QED
    BY <2>1, <2>3
<1> HIDE DEF S
<1>6. 0 .. M \subseteq S
  BY <1>2, <1>4, <1>5, UpTo
<1>7. \A p \in f[M] : Good(p.cfg)
  BY <1>2, <1>6 DEF S
<1> QED
  BY <1>3, <1>7 DEF EnsureAll, places

LEMMA LoadedStays ==
    \A J \in Interfaces : HoldsSound /\ (file = NoFile \/ Stays(file)) => Stays(Loaded(J))
  BY BlankStays, CheckedStays DEF HoldsSound, Loaded

HoldsStays == Stays(cfg) /\ (file = NoFile \/ Stays(file))

LEMMA PrepareHoldsStays ==
    \A J \in Interfaces : \A c, run, done :
        PretasksStay /\ AsksAll(J) /\ HoldsStays /\ HasSound(c) /\ Stays(c) /\ Prepare(J, c, run, done) =>
            HoldsStays'
<1> SUFFICES ASSUME NEW J \in Interfaces, NEW c, NEW run, NEW done,
                    PretasksStay, AsksAll(J), HoldsStays, HasSound(c), Stays(c), Prepare(J, c, run, done)
    PROVE  HoldsStays'
  OBVIOUS
<1>1. PICK p \in EnsureAll(J, c) : (cfg' = Blank \/ cfg' = p.cfg) /\ (file' = p.cfg \/ file' = file)
  BY DEF Prepare
<1>2. Stays(p.cfg)
  BY EnsureStays
<1> QED
  BY <1>1, <1>2, BlankStays DEF HoldsStays

LEMMA StaysStep ==
    /\ PretasksStay /\ \A J \in Interfaces : Prompts(J)
    /\ iface \in Interfaces /\ HoldsSound /\ HoldsStays /\ [Next]_vars
    => HoldsStays'
<1> SUFFICES ASSUME PretasksStay, \A J \in Interfaces : Prompts(J),
                    iface \in Interfaces, HoldsSound, HoldsStays, [Next]_vars
    PROVE  HoldsStays'
  OBVIOUS
<1>1. /\ HasSound(cfg) /\ IsRecord(cfg) /\ Stays(cfg) /\ (file = NoFile \/ Stays(file))
      /\ \A J \in Interfaces : AsksAll(J) /\ IsInterface(J)
  BY SessionAssumption DEF HoldsSound, HasSound, HoldsStays, Prompts
<1>2. CASE Start
  BY <1>1, <1>2, LoadedStays DEF Start, HoldsStays
<1>3. CASE Leave
  BY <1>1, <1>3, BlankStays DEF Leave, HoldsStays
<1>4. CASE Setup
  <2>1. \E x, tasks, levels : cfg' = [Blank EXCEPT !.ctx = x, !.task = tasks, !.level = levels]
    BY <1>4 DEF Setup
  <2>2. cfg'.pretask = Blank.pretask
    BY <2>1 DEF Blank
  <2>3. Stays(cfg')
    BY <2>2, BlankStays, StaysAlike
  <2> QED
    BY <1>4, <2>3 DEF Setup, Complete, Back, Save, HoldsStays
<1>5. CASE Menu
  <2>1. cfg'.pretask = cfg.pretask
    BY <1>1, <1>5, MenuLeaves DEF Leaves
  <2>2. Stays(cfg')
    BY <1>1, <2>1, StaysAlike
  <2> QED
    BY <1>1, <1>5, <2>2, MenuSaves DEF HoldsStays
<1>6. CASE Run
  BY <1>1, <1>6, PrepareHoldsStays DEF Run
<1>7. CASE RunElevated
  BY <1>1, <1>7 DEF RunElevated, HoldsStays
<1>8. CASE RunEnds
  BY <1>1, <1>8 DEF RunEnds, Complete, Incomplete, Back, Save, HoldsStays
<1>9. CASE RunDirectly
  <2>1. iface' \in Interfaces /\ HasSound(Loaded(iface')) /\ Stays(Loaded(iface')) /\ AsksAll(iface')
    BY <1>1, <1>9, LoadedHasSound, LoadedStays DEF RunDirectly
  <2>2. CASE Prepare(iface', Loaded(iface'), "once", "off")
    BY <2>1, <2>2, PrepareHoldsStays
  <2>3. CASE file' \in {Loaded(iface'), file} /\ UNCHANGED <<mode, cfg>>
    BY <1>1, <2>1, <2>3 DEF HoldsStays
  <2> QED
    BY <1>9, <2>2, <2>3 DEF RunDirectly
<1>10. CASE UNCHANGED vars
  BY <1>1, <1>10 DEF vars, HoldsStays
<1> QED
  BY <1>2, <1>3, <1>4, <1>5, <1>6, <1>7, <1>8, <1>9, <1>10 DEF Next

-----------------------------------------------------------------------------
(* The tasks in memory are tasks of the interface.json that was read.       *)

LEMMA BlankKnown == \A J : TasksKnown(J, Blank)
<1>1. Blank.task = <<>> /\ ToSet(<<>>) = {}
  BY DEF Blank, ToSet
<1> QED
  BY <1>1 DEF TasksKnown

LEMMA CheckTasksKnown == \A J, c : AreTasks(c.task) => \A t \in ToSet(CheckTasks(J, c)) : KnownTask(J, t)
<1> SUFFICES ASSUME NEW J, NEW c, AreTasks(c.task), NEW t \in ToSet(CheckTasks(J, c)) PROVE KnownTask(J, t)
  OBVIOUS
<1> DEFINE K == {x \in ToSet(c.task) : KnownTask(J, x)}
           known == Only(c.task, K)
           checked == [i \in DOMAIN known |-> [known[i] EXCEPT !.option = CheckTask(J, c.ctx, known[i].name, @)]]
<1>1. CheckTasks(J, c) = checked
  BY DEF CheckTasks
<1>2. \A x \in ToSet(known) : KnownTask(J, x) /\ IsTask(x)
  <2>1. c.task \in Seq(ToSet(c.task)) /\ \A x \in ToSet(c.task) : IsTask(x)
    BY TasksAre DEF AreTasks, IsList
  <2>2. \A x \in K : KnownTask(J, x) /\ IsTask(x)
    BY <2>1
  <2> HIDE DEF K
  <2>3. ToSet(known) \subseteq K
    BY <2>1, OnlyRange
  <2> QED
    BY <2>2, <2>3
<1> HIDE DEF K, known
<1>3. PICK i \in DOMAIN known : t = checked[i]
  BY <1>1 DEF ToSet
<1> DEFINE list == CheckTask(J, c.ctx, known[i].name, known[i].option)
<1>4. t = [known[i] EXCEPT !.option = list]
  BY <1>3
<1>5. known[i] \in ToSet(known)
  BY DEF ToSet
<1> HIDE DEF list
<1>6. t.name = known[i].name
  BY <1>2, <1>4, <1>5 DEF IsTask, ConfigTask
<1> QED
  BY <1>2, <1>5, <1>6 DEF KnownTask

LEMMA LoadedKnown == \A J : HoldsTasks => TasksKnown(J, Loaded(J))
<1> SUFFICES ASSUME NEW J, HoldsTasks PROVE TasksKnown(J, Loaded(J))
  OBVIOUS
<1>1. CASE file = NoFile
  BY <1>1, BlankKnown DEF Loaded
<1>2. CASE file # NoFile
  <2>1. Loaded(J).task = CheckTasks(J, file) /\ AreTasks(file.task)
    BY <1>2, CheckedHasTasks DEF Loaded, HoldsTasks, HasTasks
  <2> QED
    BY <2>1, CheckTasksKnown DEF TasksKnown
<1> QED
  BY <1>1, <1>2

LEMMA CompletesKnown == \A J, c, d : TasksKnown(J, c) /\ Completes(J, c, d) => TasksKnown(J, d)
<1> SUFFICES ASSUME NEW J, NEW c, NEW d, TasksKnown(J, c), Completes(J, c, d), NEW t \in ToSet(d.task)
    PROVE  KnownTask(J, t)
  BY DEF TasksKnown
<1>1. PICK i \in DOMAIN d.task : t = d.task[i]
  BY DEF ToSet
<1>2. i \in DOMAIN c.task /\ d.task[i].name = c.task[i].name
  BY DEF Completes
<1>3. KnownTask(J, c.task[i])
  BY <1>2 DEF TasksKnown, ToSet
<1> QED
  BY <1>1, <1>2, <1>3 DEF KnownTask

LEMMA NewTasksKnown ==
    \A ctx, names : ToSet(names) \subseteq DOMAIN iface.task =>
        \A tasks \in NewTasks(ctx, names) : \A t \in ToSet(tasks) : KnownTask(iface, t)
<1> SUFFICES ASSUME NEW ctx, NEW names, ToSet(names) \subseteq DOMAIN iface.task,
                    NEW tasks \in NewTasks(ctx, names), NEW t \in ToSet(tasks)
    PROVE  KnownTask(iface, t)
  OBVIOUS
<1>1. PICK list : tasks = [i \in DOMAIN names |-> ConfigTask(names[i], list[i])]
  BY DEF NewTasks, Configured
<1>2. PICK i \in DOMAIN names : t = ConfigTask(names[i], list[i])
  BY <1>1 DEF ToSet
<1>3. names[i] \in DOMAIN iface.task
  BY DEF ToSet
<1> QED
  BY <1>2, <1>3 DEF KnownTask, ConfigTask

LEMMA SetupKnown == IsInterface(iface) /\ Setup => TasksKnown(iface, cfg')
<1> SUFFICES ASSUME IsInterface(iface), Setup PROVE TasksKnown(iface, cfg')
  OBVIOUS
<1>1. PICK x, names, tasks, levels :
          /\ ToSet(names) \subseteq DOMAIN iface.task /\ tasks \in NewTasks(x, names)
          /\ cfg' = [Blank EXCEPT !.ctx = x, !.task = tasks, !.level = levels]
  <2>1. PICK c \in DOMAIN iface.controller, r \in DOMAIN iface.resource :
            LET x == [controller |-> c, resource |-> r]
                defaults == DefaultTasks(x)
            IN \E names \in IF defaults # <<>> THEN {defaults} ELSE ChosenTasks(x) :
               \E tasks \in NewTasks(x, names) : \E levels :
                   cfg' = [Blank EXCEPT !.ctx = x, !.task = tasks, !.level = levels]
    BY DEF Setup
  <2> DEFINE x == [controller |-> c, resource |-> r]
  <2>2. PICK names \in IF DefaultTasks(x) # <<>> THEN {DefaultTasks(x)} ELSE ChosenTasks(x) :
               \E tasks \in NewTasks(x, names) : \E levels :
                   cfg' = [Blank EXCEPT !.ctx = x, !.task = tasks, !.level = levels]
    BY <2>1
  <2> HIDE DEF x
  <2>3. ToSet(names) \subseteq DOMAIN iface.task
    BY <2>2, DefaultsAreTasks, ChosenAreTasks
  <2> QED
    BY <2>2, <2>3
<1>2. cfg'.task = tasks
  BY <1>1 DEF Blank
<1> QED
  BY <1>1, <1>2, NewTasksKnown DEF TasksKnown

LEMMA MenuKnown ==
    IsInterface(iface) /\ HasTasks(cfg) /\ TasksKnown(iface, cfg) /\ Menu => TasksKnown(iface, cfg')
<1> SUFFICES ASSUME IsInterface(iface), HasTasks(cfg), TasksKnown(iface, cfg), Menu PROVE TasksKnown(iface, cfg')
  OBVIOUS
<1>1. AreTasks(cfg.task) /\ IsList(cfg.task)
  BY DEF HasTasks, AreTasks
<1>2. ASSUME NEW x, cfg' = [cfg EXCEPT !.task = x], \A t \in ToSet(x) : KnownTask(iface, t)
      PROVE  TasksKnown(iface, cfg')
  BY <1>2, Fields DEF HasTasks, TasksKnown
<1>3. CASE SelectController \/ SelectResource
  <2>1. \E x : cfg' = [cfg EXCEPT !.ctx = x]
    BY <1>3 DEF SelectController, SelectResource
  <2> QED
    BY <2>1, Fields DEF HasTasks, TasksKnown
<1>4. CASE AddTask
  <2>1. PICK names \in ChosenTasks(cfg.ctx) : \E tasks \in NewTasks(cfg.ctx, names) :
            cfg' = [cfg EXCEPT !.task = cfg.task \o tasks]
    BY <1>4 DEF AddTask
  <2>2. PICK tasks \in NewTasks(cfg.ctx, names) : cfg' = [cfg EXCEPT !.task = cfg.task \o tasks]
    BY <2>1
  <2>3. IsList(tasks) /\ \A t \in ToSet(tasks) : KnownTask(iface, t)
    BY <2>1, ChosenAreLists, ChosenAreTasks, NewTasksKnown, ConfiguredAreTasks DEF NewTasks, AreTasks
  <2>4. ToSet(cfg.task \o tasks) = ToSet(cfg.task) \cup ToSet(tasks)
    BY <1>1, <2>3, ConcatLists
  <2>5. \A t \in ToSet(cfg.task \o tasks) : KnownTask(iface, t)
    BY <2>3, <2>4 DEF TasksKnown
  <2> QED
    BY <1>2, <2>2, <2>5
<1>5. CASE MoveTask \/ DeleteTask
  <2>1. PICK x \in Seq(ToSet(cfg.task)) : cfg' = [cfg EXCEPT !.task = x]
    BY <1>1, <1>5, MoveIn, DeleteIn
  <2>2. ToSet(x) \subseteq ToSet(cfg.task)
    BY SeqIsList
  <2> QED
    BY <1>2, <2>1, <2>2 DEF TasksKnown
<1>6. CASE ApplyPreset
  <2>1. PICK tasks : AreTasks(tasks) /\ cfg' = [cfg EXCEPT !.task = CheckTasks(iface, [cfg EXCEPT !.task = tasks])]
    BY <1>6, PresetTasks
  <2> DEFINE c == [cfg EXCEPT !.task = tasks]
  <2>2. c.task = tasks
    BY Fields DEF HasTasks
  <2> HIDE DEF c
  <2>3. \A t \in ToSet(CheckTasks(iface, c)) : KnownTask(iface, t)
    BY <2>1, <2>2, CheckTasksKnown
  <2> QED
    BY <1>2, <2>1, <2>3 DEF c
<1>7. CASE OpenEdit \/ CloseEdit
  BY <1>7 DEF OpenEdit, CloseEdit
<1>8. CASE ConfigureTask \/ EditOption
  <2>1. PICK i \in DOMAIN cfg.task : \E list : SetOptions(i, list)
    BY <1>8 DEF ConfigureTask, EditOption
  <2>2. PICK list : cfg' = [cfg EXCEPT !.task[i].option = list]
    BY <2>1 DEF SetOptions
  <2> DEFINE tasks == [cfg.task EXCEPT ![i].option = list]
  <2>3. cfg' = [cfg EXCEPT !.task = tasks]
    BY <2>2
  <2>4. /\ DOMAIN tasks = DOMAIN cfg.task
        /\ tasks[i] = ConfigTask(cfg.task[i].name, list)
        /\ \A j \in DOMAIN cfg.task : j # i => tasks[j] = cfg.task[j]
    BY <1>1, TasksChange
  <2> HIDE DEF tasks
  <2>5. \A j \in DOMAIN cfg.task : KnownTask(iface, cfg.task[j])
    BY DEF TasksKnown, ToSet
  <2>6. \A j \in DOMAIN tasks : KnownTask(iface, tasks[j])
    BY <2>4, <2>5 DEF KnownTask, ConfigTask
  <2>7. \A t \in ToSet(tasks) : KnownTask(iface, t)
    BY <2>6 DEF ToSet
  <2> QED
    BY <1>2, <2>3, <2>7
<1> QED
  BY <1>3, <1>4, <1>5, <1>6, <1>7, <1>8 DEF Menu

LEMMA PrepareHoldsKnown ==
    \A J \in Interfaces : \A c, run, done :
        HasTasks(c) /\ TasksKnown(J, c) /\ Prepare(J, c, run, done) => TasksKnown(J, cfg')
<1> SUFFICES ASSUME NEW J \in Interfaces, NEW c, NEW run, NEW done,
                    HasTasks(c), TasksKnown(J, c), Prepare(J, c, run, done)
    PROVE  TasksKnown(J, cfg')
  OBVIOUS
<1>1. PICK p \in EnsureAll(J, c) : cfg' = Blank \/ cfg' = p.cfg
  BY DEF Prepare
<1>2. Completes(J, c, p.cfg)
  BY EnsureCompletes, SessionAssumption DEF IsInterface
<1> QED
  BY <1>1, <1>2, BlankKnown, CompletesKnown

LEMMA KnownStep ==
    HoldsTasks /\ HoldsMode /\ TasksKnown(iface, cfg) /\ [Next]_vars => TasksKnown(iface, cfg)'
<1> SUFFICES ASSUME HoldsTasks, HoldsMode, TasksKnown(iface, cfg), [Next]_vars PROVE TasksKnown(iface', cfg')
  BY DEF TasksKnown, KnownTask
<1>1. iface \in Interfaces /\ HasTasks(cfg) /\ IsInterface(iface) /\ (mode = "off" => cfg = Blank)
  BY SessionAssumption DEF HoldsTasks, HoldsMode
<1>2. CASE Start
  BY <1>2, LoadedKnown DEF Start
<1>3. CASE Leave
  BY <1>3, BlankKnown DEF Leave
<1>4. CASE Setup
  BY <1>1, <1>4, SetupKnown DEF Setup, Complete, Back
<1>5. CASE Menu
  <2>1. iface' = iface
    BY <1>5 DEF Menu, SelectController, SelectResource, AddTask, MoveTask, DeleteTask, ApplyPreset, OpenEdit,
                ConfigureTask, EditOption, CloseEdit, SetOptions, Complete, Incomplete, Back
  <2> QED
    BY <1>1, <1>5, <2>1, MenuKnown
<1>6. CASE Run
  BY <1>1, <1>6, PrepareHoldsKnown DEF Run
<1>7. CASE RunElevated
  BY <1>7 DEF RunElevated
<1>8. CASE RunEnds
  BY <1>8 DEF RunEnds, Complete, Incomplete, Back
<1>9. CASE RunDirectly
  <2>1. iface' \in Interfaces /\ HasTasks(Loaded(iface')) /\ TasksKnown(iface', Loaded(iface')) /\ cfg = Blank
    BY <1>1, <1>9, LoadedHasTasks, LoadedKnown DEF RunDirectly
  <2>2. CASE Prepare(iface', Loaded(iface'), "once", "off")
    BY <2>1, <2>2, PrepareHoldsKnown
  <2>3. CASE UNCHANGED <<mode, cfg>>
    BY <2>1, <2>3, BlankKnown
  <2> QED
    BY <1>9, <2>2, <2>3 DEF RunDirectly
<1>10. CASE UNCHANGED vars
  BY <1>10 DEF vars
<1> QED
  BY <1>2, <1>3, <1>4, <1>5, <1>6, <1>7, <1>8, <1>9, <1>10 DEF Next

-----------------------------------------------------------------------------
(* What runs is saved, and the next start keeps it.                         *)

RunsSaved == Running => file = cfg /\ HasWork(iface, cfg)

LEMMA SavedStep == RunsSaved /\ [Next]_vars => RunsSaved'
<1> SUFFICES ASSUME RunsSaved, [Next]_vars PROVE RunsSaved'
  OBVIOUS
<1> USE DEF RunsSaved, Running
<1>1. ASSUME NEW J, NEW c, NEW run, NEW done, Prepare(J, c, run, done)
      PROVE  mode' = done \/ (mode' = run /\ file' = cfg' /\ HasWork(J, cfg'))
  BY <1>1 DEF Prepare, Generates
<1>2. CASE Start
  BY <1>2 DEF Start
<1>3. CASE Leave
  BY <1>3 DEF Leave
<1>4. CASE Setup
  BY <1>4 DEF Setup, Complete, Back
<1>5. CASE Menu
  BY <1>5, MenuMode
<1>6. CASE Run
  BY <1>1, <1>6 DEF Run
<1>7. CASE RunElevated
  BY <1>7 DEF RunElevated
<1>8. CASE RunEnds
  BY <1>8 DEF RunEnds, Complete, Incomplete, Back
<1>9. CASE RunDirectly
  <2>1. mode = "off"
    BY <1>9 DEF RunDirectly
  <2>2. CASE Prepare(iface', Loaded(iface'), "once", "off")
    BY <1>1, <2>2
  <2>3. CASE UNCHANGED <<mode, cfg>>
    BY <2>1, <2>3
  <2> QED
    BY <1>9, <2>2, <2>3 DEF RunDirectly
<1>10. CASE UNCHANGED vars
  BY <1>10 DEF vars
<1> QED
  BY <1>2, <1>3, <1>4, <1>5, <1>6, <1>7, <1>8, <1>9, <1>10 DEF Next

\* Nothing is wrong with the pretasks' lists either, as a run leaves them.
LEMMA PretasksRun ==
    \A J \in Interfaces : \A c : PretasksStay /\ HasSound(c) /\ AllRead(J, c) /\ Stays(c) => PretasksLast(J, c)
<1> SUFFICES ASSUME NEW J \in Interfaces, NEW c, PretasksStay, HasSound(c), AllRead(J, c), Stays(c)
    PROVE  PretasksLast(J, c)
  OBVIOUS
<1>1. CASE SameOptions
  BY <1>1 DEF Stays
<1>2. CASE \A K \in Interfaces : \A p \in ToSet(K.pretask) : AlwaysRuns(p)
  <2> SUFFICES ASSUME NEW id \in DOMAIN c.pretask PROVE \A e \in ToSet(c.pretask[id]) : Lasts(J, e)
    BY DEF PretasksLast
  <2>1. PICK p \in ToSet(J.pretask) : p.id = id
    BY DEF Stays, PretasksKnown
  <2>2. Fits(p, c.ctx) /\ p.roots # <<>>
    BY <1>2 DEF AlwaysRuns, Fits
  <2>3. GoesThrough(J, c, Places(J, c))
    BY PlacesGo, SessionAssumption DEF IsInterface, HasSound, SoundTasks
  <2>4. PICK place \in ToSet(Places(J, c)) : place.kind = "pretask" /\ place.at = p
    BY <2>2, <2>3 DEF GoesThrough
  <2>5. ListAt(c, place) = c.pretask[id]
    BY <2>1, <2>4 DEF ListAt
  <2> QED
    BY <2>5 DEF AllRead, ReadAt, AsFilled
<1> QED
  BY <1>1, <1>2 DEF PretasksStay, SameOptions

LEMMA SavedIsKept ==
    /\ PretasksStay
    /\ iface \in Interfaces /\ HoldsSound /\ RunsRead /\ HoldsStays /\ TasksKnown(iface, cfg) /\ RunsSaved
    => RunIsKept
<1> SUFFICES ASSUME PretasksStay, iface \in Interfaces, HoldsSound, RunsRead, HoldsStays,
                    TasksKnown(iface, cfg), RunsSaved, Running
    PROVE  file = cfg /\ Meaning(iface, CheckConfiguration(iface, file)) = Meaning(iface, file)
  BY DEF RunIsKept
<1>1. file = cfg /\ HasSound(cfg) /\ AllRead(iface, cfg)
  BY DEF RunsSaved, HoldsSound, RunsRead
<1>2. KnownResource(iface, cfg.ctx) /\ KnownController(iface, cfg.ctx)
  BY DEF RunsSaved, HasWork
<1>3. PretasksKnown(iface, cfg) /\ PretasksLast(iface, cfg)
  BY <1>1, PretasksRun DEF HoldsStays, Stays
<1>4. IsInterface(iface) /\ ValidInterface(iface)
  BY SessionAssumption
<1>5. Meaning(iface, CheckConfiguration(iface, cfg)) = Meaning(iface, cfg)
  BY <1>1, <1>2, <1>3, <1>4, StartKeeps
<1> QED
  BY <1>1, <1>5

\* Whatever runs has been saved, and the next start keeps all of it to the last
\* choice as long as interface.json stays (interactor.cpp:316-318,
\* Parser.cpp:561-692), with any interface.json files that can be prompted for
\* and that leave the saved lists of pretasks what they were made for.
THEOREM RunsAreKept == (\A J \in Interfaces : Prompts(J)) /\ PretasksStay => (Spec => []RunIsKept)
<1> SUFFICES ASSUME \A J \in Interfaces : Prompts(J), PretasksStay PROVE Spec => []RunIsKept
  OBVIOUS
<1> DEFINE Inv == HoldsSound /\ RunsRead /\ HoldsMode /\ HoldsStays /\ TasksKnown(iface, cfg) /\ RunsSaved
<1>1. Init => Inv
  BY BlankHasSound, BlankStays, BlankKnown
  DEF Init, HoldsSound, RunsRead, Running, HoldsMode, Modes, HoldsStays, RunsSaved
<1>2. HoldsTasks /\ Inv /\ [Next]_vars => Inv'
  BY SoundStep, ModeStep, StaysStep, KnownStep, SavedStep DEF HoldsTasks
<1>3. HoldsTasks /\ Inv => RunIsKept
  BY SavedIsKept DEF HoldsTasks
<1> HIDE DEF Inv
<1> QED
  BY <1>1, <1>2, <1>3, TasksAreHeld, PTL DEF Spec
=============================================================================
